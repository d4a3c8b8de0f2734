---------------------------- MODULE ModelRuntime ----------------------------
(***************************************************************************)
(* BgeModelRuntime: the synchronous BGE models behind a semaphore and a    *)
(* thread pool of the same size.  A caller that gives up frees its slot at *)
(* once, but a thread that has begun cannot be stopped: it works on for    *)
(* nobody, and the caller admitted in its place waits for a thread.        *)
(***************************************************************************)
EXTENDS Integers, FiniteSets

CONSTANTS
  Callers,          \* coroutines that call run, one call at a time each
  MaxConcurrency    \* rag_model_max_concurrency

ASSUME RuntimeAssumption ==
  IsFiniteSet(Callers) /\ MaxConcurrency \in Nat \ {0}

VARIABLES
  closed,     \* _closed
  job,        \* what became of a caller's call of run
  orphans     \* threads whose caller has given up

runtime == <<closed, job, orphans>>

-----------------------------------------------------------------------------
Pending == {"waiting", "queued", "running"}
Outcomes == {"ok", "failed", "late", "refused", "cancelled"}
Jobs == Pending \cup Outcomes \cup {"none"}

Holders == {c \in Callers : job[c] \in {"queued", "running"}}
Working == Cardinality({c \in Callers : job[c] = "running"}) + orphans

RuntimeInit ==
  /\ closed = FALSE
  /\ job = [c \in Callers |-> "none"]
  /\ orphans = 0

Becomes(c, j) == job' = [job EXCEPT ![c] = j]

SlotFree == Cardinality(Holders) < MaxConcurrency

\* run is called.  The semaphore is fair: who comes late waits behind.
Run(c) ==
  /\ job[c] = "none"
  /\ Becomes(c, IF closed THEN "refused"
                ELSE IF SlotFree /\ \A d \in Callers : job[d] # "waiting"
                THEN "queued" ELSE "waiting")
  /\ UNCHANGED <<closed, orphans>>

\* The semaphore is acquired, and the work submitted; an executor that was
\* shut down in the meantime takes none.
Admit(c) ==
  /\ job[c] = "waiting"
  /\ SlotFree
  /\ Becomes(c, IF closed THEN "refused" ELSE "queued")
  /\ UNCHANGED <<closed, orphans>>

\* Mutant: the executor has as many threads as it pleases.
BeginUnbounded(c) ==
  /\ job[c] = "queued"
  /\ Becomes(c, "running")
  /\ UNCHANGED <<closed, orphans>>

\* A thread of the pool takes the work.
Begin(c) ==
  /\ job[c] = "queued"
  /\ Working < MaxConcurrency
  /\ Becomes(c, "running")
  /\ UNCHANGED <<closed, orphans>>

\* The models answer or raise; close has taken them away from a thread that
\* had not looked at them yet.
Complete(c) ==
  /\ job[c] = "running"
  /\ Becomes(c, "ok") \/ Becomes(c, "failed")
  /\ UNCHANGED <<closed, orphans>>

\* The caller no longer waits: its future is cancelled, which takes it out
\* of the queue but not off a thread.
GiveUp(c, j) ==
  /\ Becomes(c, j)
  /\ orphans' = IF job[c] = "running" THEN orphans + 1 ELSE orphans
  /\ UNCHANGED closed

OrphanEnds ==
  /\ orphans > 0
  /\ orphans' = orphans - 1
  /\ UNCHANGED <<closed, job>>

\* Mutant: the executor is shut down without cancelling its queue.
CloseKeepsQueue == closed' = TRUE /\ UNCHANGED <<job, orphans>>

\* Mutant: shutdown waits for the threads.
CloseWaits ==
  /\ Working = 0
  /\ closed' = TRUE
  /\ job' = [c \in Callers |-> IF job[c] = "queued" THEN "cancelled" ELSE job[c]]
  /\ UNCHANGED orphans

\* close: nothing queued begins any more, threads are not waited for.
Close ==
  /\ closed' = TRUE
  /\ job' = [c \in Callers |-> IF job[c] = "queued" THEN "cancelled" ELSE job[c]]
  /\ UNCHANGED orphans

=============================================================================
