---------------------------- MODULE MCRootGraph ----------------------------
(***************************************************************************)
(* RootGraph for TLC: a customer's first request, the one that follows it, *)
(* and a request of another customer given the same thread; one order,     *)
(* which only the second request's context names; one status a tool may    *)
(* report, and the order's number, which a text may give for a status; one *)
(* tool call per branch, retried after at most one tick.                   *)
(***************************************************************************)
EXTENDS RootGraph, TLC

CONSTANTS r1, r2, r3, o1, c1, c2

MCSequence == r1 :> 1 @@ r2 :> 2 @@ r3 :> 3
MCCustomer == r1 :> c1 @@ r2 :> c1 @@ r3 :> c2
MCKnown == r1 :> {} @@ r2 :> {o1} @@ r3 :> {}

=============================================================================
