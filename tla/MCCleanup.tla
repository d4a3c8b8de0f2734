----------------------------- MODULE MCCleanup -----------------------------
(* Two cleaners and two executors at the run of one conversation, and a     *)
(* conversation without runs whose thread competes for the batch.           *)
EXTENDS CheckpointCleanup

CONSTANTS q1, q2, r1, r2, c1

MCRunOf == [q \in Requests |-> IF q = q1 THEN r1 ELSE r2]
MCConvOf == [q \in Requests |-> c1]
=============================================================================
