--------------------------- MODULE MCRunStoreLive ---------------------------
(* The instance for liveness: one conversation, two runs, and a second      *)
(* request with the id of the first run.  A run id stays in one             *)
(* conversation, as Java allocates them.                                    *)
EXTENDS RunStore

CONSTANTS q1, q2, q3, r1, r2, c1

MCRunOf == [q \in Requests |-> IF q = q2 THEN r2 ELSE r1]
MCConvOf == [q \in Requests |-> c1]
=============================================================================
