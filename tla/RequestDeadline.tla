-------------------------- MODULE RequestDeadline --------------------------
(***************************************************************************)
(* The absolute deadline Java gives a request, and the clock every part of *)
(* the graph compares it with.  The clock stops at the deadline: nothing   *)
(* the code does tells later times apart.                                  *)
(***************************************************************************)
EXTENDS Integers

CONSTANTS
  Deadline,     \* request_deadline, in ticks after the call began
  None

ASSUME DeadlineAssumption == Deadline \in Nat

VARIABLE now

Late == now >= Deadline

Tick == now < Deadline /\ now' = now + 1

=============================================================================
