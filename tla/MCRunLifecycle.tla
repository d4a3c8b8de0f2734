--------------------------- MODULE MCRunLifecycle ---------------------------
(* Runs of one conversation for messages q0, q1, q2 in that order; where q0  *)
(* is past, its answer may be what the thread still holds.                  *)
EXTENDS RunLifecycle, FiniteSets, TLC

CONSTANTS q0, q1, q2, r0, r1, r2, c1

MCRunOf == [q \in Requests |-> CASE q = q0 -> r0 [] q = q1 -> r1 [] OTHER -> r2]
MCConvOf == [q \in Requests |-> c1]
MCSequence == [q \in Requests |-> CASE q = q0 -> 0 [] q = q1 -> 1 [] OTHER -> 2]

Symmetry == Permutations(Tokens)

\* Bound: of three calls two work at a time, beside the graphs of ended ones.
TwoAtOnce == Cardinality({t \in Tokens : Live(t)}) <= 2
=============================================================================
