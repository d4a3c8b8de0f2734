----------------------------- MODULE MCRunStore -----------------------------
(* A small instance of RunStore: two conversations; two runs compete for    *)
(* c1, and the id of the first is also used by a request of c2.             *)
EXTENDS RunStore, TLC

CONSTANTS q1, q2, q3, r1, r2, c1, c2

MCRunOf == [q \in Requests |-> IF q = q2 THEN r2 ELSE r1]
MCConvOf == [q \in Requests |-> IF q = q3 THEN c2 ELSE c1]

\* No property names a token: executors and cleaners are interchangeable.
Symmetry == Permutations(Tokens) \cup Permutations(GuardTokens)
=============================================================================
