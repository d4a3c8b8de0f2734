-------------------------- MODULE CheckpointCleanup --------------------------
(***************************************************************************)
(* CheckpointCleanupService.run beside the executors it must not disturb.  *)
(* Cleaners (guard tokens name them) list the threads whose latest         *)
(* checkpoint is past the cutoff, oldest first and not more than a limit,  *)
(* then go through the list one by one: look whether the conversation is   *)
(* active, take its guard, delete the thread, release the guard.           *)
(* Executors begin, renew and end runs of the same conversations and write *)
(* checkpoints all the while.                                              *)
(* The store is RunStore, keys, TTLs and clock included.                   *)
(***************************************************************************)
EXTENDS RunStore, SequencesExt

CONSTANTS
  Limit,         \* threads a cleanup looks at: its batch, or the scan limit
  Slack,         \* ticks a cleaner may lose between taking the guard and the
                 \* delete, and the delete between its time limit and its end
  CleanFaults    \* "redis": calls of the store fail;  "die": cleaners die

VARIABLES
  thread,    \* latest checkpoint of a conversation's thread: "none", "fresh"
             \* or "old", as compared with the cutoff
  aged,      \* the conversations whose thread is old, oldest first
  batch,     \* the candidates a cleaner still has to look at
  stage,     \* what the cleaner does
  at,        \* the candidate it does it to
  waited     \* ticks since it got the guard it deletes under

cleanerVars == <<batch, stage, at, waited>>
cleanupVars == <<vars, thread, aged, batch, stage, at, waited>>

DeleteTicks == GuardTicks \div 2    \* delete_timeout_seconds, from run_cleanup

\* What the half that run_cleanup leaves is for.  Nothing in the code measures
\* or enforces it: the guard is set by Redis, the time limit starts when the
\* cleaner's process gets to it, and wait_for waits for the cancelled delete.
ASSUME CleanupAssumption ==
  /\ Limit \in Nat \ {0}
  /\ Slack \in Nat
  /\ DeleteTicks + Slack < GuardTicks

CleanupInit ==
  /\ Init
  /\ thread \in [Convs -> {"none", "fresh"}]
  /\ aged = <<>>
  /\ batch = [g \in GuardTokens |-> <<>>]
  /\ stage = [g \in GuardTokens |-> "idle"]
  /\ at = [g \in GuardTokens |-> None]
  /\ waited = [g \in GuardTokens |-> 0]

-----------------------------------------------------------------------------
(* Executors.                                                              *)

\* The thread is not one of the old ones any more.
Renewed(c) ==
  IF thread[c] = "old"
    THEN \E i \in 1..Len(aged) : aged[i] = c /\ aged' = RemoveAt(aged, i)
    ELSE UNCHANGED aged

\* The graph of a call writes a checkpoint, whether or not the call still has
\* the lease.
WriteCheckpoint(t) ==
  /\ held[t] # None
  /\ IsRunning(RunOf[held[t]])
  /\ thread' = [thread EXCEPT ![ConvOf[held[t]]] = "fresh"]
  /\ Renewed(ConvOf[held[t]])
  /\ UNCHANGED <<vars, cleanerVars>>

\* A thread nobody writes for the retention time.  No call lives that long.
\* Its latest checkpoint is younger than those that aged before.
Age(c) ==
  /\ thread[c] = "fresh"
  /\ \A t \in Tokens : held[t] # None => ConvOf[held[t]] # c
  /\ thread' = [thread EXCEPT ![c] = "old"]
  /\ aged' = Append(aged, c)
  /\ UNCHANGED <<vars, cleanerVars>>

ExecutorStep(t) ==
  \/ Executor(t) /\ UNCHANGED <<thread, aged, cleanerVars>>
  \/ WriteCheckpoint(t)

-----------------------------------------------------------------------------
(* A cleaner.                                                              *)

Goto(g, s) == stage' = [stage EXCEPT ![g] = s]

\* list_candidates: the threads past the cutoff, oldest first, up to a limit.
\* Without --apply the cleaner only counts them ("dry").
List(g, mode) ==
  /\ stage[g] = "idle"
  /\ aged # <<>>
  /\ batch' = [batch EXCEPT ![g] =
                  SubSeq(aged, 1, IF Limit < Len(aged) THEN Limit ELSE Len(aged))]
  /\ Goto(g, mode)
  /\ UNCHANGED <<vars, thread, aged, at, waited>>

\* The candidate is counted; mode is how the cleaner goes on to the next.
Skip(g, mode) ==
  /\ batch' = [batch EXCEPT ![g] = Tail(@)]
  /\ Goto(g, IF Len(batch[g]) = 1 THEN "idle" ELSE mode)
  /\ at' = [at EXCEPT ![g] = None]

\* is_conversation_active.
CheckBusy(g) ==
  /\ batch[g] # <<>>
  /\ \/ stage[g] = "next" /\ ConversationActive(Head(batch[g]))
     \/ stage[g] = "dry"
  /\ Skip(g, stage[g])
  /\ CheckActive(Head(batch[g]))
  /\ UNCHANGED <<thread, aged, waited>>

CheckIdle(g) ==
  /\ stage[g] = "next" /\ batch[g] # <<>>
  /\ ~ConversationActive(Head(batch[g]))
  /\ at' = [at EXCEPT ![g] = Head(batch[g])]
  /\ Goto(g, "acquire")
  /\ CheckActive(Head(batch[g]))
  /\ UNCHANGED <<thread, aged, batch, waited>>

Acquire(g) ==
  /\ stage[g] = "acquire"
  /\ AcquireGuard(at[g], g)
  /\ Goto(g, "delete")
  /\ waited' = [waited EXCEPT ![g] = 0]
  /\ UNCHANGED <<thread, aged, batch, at>>

\* Someone began a run, or another cleaner was faster.
AcquireRefused(g) ==
  /\ stage[g] = "acquire"
  /\ Skip(g, "next")
  /\ \/ guard[at[g]] # None /\ UNCHANGED vars
     \/ ConversationActive(at[g]) /\ CheckActive(at[g])
  /\ UNCHANGED <<thread, aged, waited>>

DeleteDone(g) ==
  /\ stage[g] = "delete"
  /\ thread' = [thread EXCEPT ![at[g]] = "none"]
  /\ Renewed(at[g])
  /\ Goto(g, "release")
  /\ waited' = [waited EXCEPT ![g] = 0]
  /\ UNCHANGED <<vars, batch, at>>

\* An error or, when the time is up, wait_for's timeout: counted as failed,
\* the rows are gone or they are not.
DeleteFails(g) ==
  /\ stage[g] = "delete"
  /\ \/ thread' = [thread EXCEPT ![at[g]] = "none"] /\ Renewed(at[g])
     \/ UNCHANGED <<thread, aged>>
  /\ Goto(g, "release")
  /\ waited' = [waited EXCEPT ![g] = 0]
  /\ UNCHANGED <<vars, batch, at>>

\* Mutant: no finally, the guard is left to expire.
LeaveGuard(g) ==
  /\ stage[g] = "release"
  /\ Skip(g, "next")
  /\ UNCHANGED <<vars, thread, aged, waited>>

\* The finally of the loop's body.
Release(g) ==
  /\ stage[g] = "release"
  /\ ReleaseGuard(g)
  /\ Skip(g, "next")
  /\ UNCHANGED <<thread, aged, waited>>

\* A store error leaves run() at once: the rest of the batch is not looked
\* at, and a guard that was taken stays until it expires.
StoreError(g) ==
  /\ "redis" \in CleanFaults
  /\ stage[g] \in {"next", "dry", "acquire", "release"}
  /\ batch' = [batch EXCEPT ![g] = <<>>]
  /\ at' = [at EXCEPT ![g] = None]
  /\ Goto(g, "idle")
  /\ \/ cleaning[g] # None /\ ForgetGuardToken(g)
     \/ cleaning[g] = None /\ UNCHANGED vars
  /\ UNCHANGED <<thread, aged, waited>>

Die(g) ==
  /\ "die" \in CleanFaults
  /\ stage[g] = "delete"
  /\ ForgetGuardToken(g)
  /\ batch' = [batch EXCEPT ![g] = <<>>]
  /\ at' = [at EXCEPT ![g] = None]
  /\ Goto(g, "idle")
  /\ waited' = [waited EXCEPT ![g] = 0]
  /\ UNCHANGED <<thread, aged>>

CleanerStep(g) ==
  \/ CheckBusy(g) \/ CheckIdle(g)
  \/ Acquire(g) \/ AcquireRefused(g)
  \/ DeleteDone(g) \/ DeleteFails(g)
  \/ Release(g)

-----------------------------------------------------------------------------
\* A delete is over when its time limit and the slack are.
CleanupTick ==
  /\ \A g \in GuardTokens : stage[g] = "delete" => waited[g] < DeleteTicks + Slack
  /\ waited' = [g \in GuardTokens |->
                  IF stage[g] = "delete" THEN waited[g] + 1 ELSE 0]
  /\ Tick
  /\ UNCHANGED <<thread, aged, batch, stage, at>>

CleanupNext ==
  \/ \E t \in Tokens : ExecutorStep(t)
  \/ \E c \in Convs : Age(c)
  \/ \E g \in GuardTokens :
       \/ \E mode \in {"next", "dry"} : List(g, mode)
       \/ CleanerStep(g) \/ StoreError(g) \/ Die(g)
  \/ CleanupTick

CleanupSpec == CleanupInit /\ [][CleanupNext]_cleanupVars

(* The store answers cleaners that keep trying, deletes do not fail for     *)
(* ever, and cleanups are run again and again.  As in RunStore time passes  *)
(* and executors do not live for ever.  A delete that always fails would    *)
(* keep its thread at the head of the list and, with a batch of one, all    *)
(* others out of it.  For larger batches the fairness of the cleaners'      *)
(* steps has to be stated for each conversation.                            *)
CleanupFairness ==
  /\ WF_cleanupVars(CleanupTick)
  /\ \A t \in Tokens :
       WF_cleanupVars(ForgetToken(t) /\ UNCHANGED <<thread, aged, cleanerVars>>)
  /\ \A g \in GuardTokens : WF_cleanupVars(CleanerStep(g))
  /\ SF_cleanupVars(\E g \in GuardTokens : List(g, "next"))
  /\ SF_cleanupVars(\E g \in GuardTokens : CheckIdle(g))
  /\ SF_cleanupVars(\E g \in GuardTokens : Acquire(g))
  /\ SF_cleanupVars(\E g \in GuardTokens : DeleteDone(g))

FairCleanupSpec == CleanupSpec /\ CleanupFairness

-----------------------------------------------------------------------------
(* A cleaner that deletes has taken the guard of the one conversation it is *)
(* at, the next of its batch, and has waited no longer than it may.         *)
CleanupTypeOK ==
  /\ TypeOK
  /\ thread \in [Convs -> {"none", "fresh", "old"}]
  /\ aged \in Seq(Convs)
  /\ batch \in [GuardTokens -> Seq(Convs)]
  /\ stage \in [GuardTokens -> {"idle", "next", "dry", "acquire", "delete", "release"}]
  /\ at \in [GuardTokens -> Convs \cup {None}]
  /\ waited \in [GuardTokens -> 0..(DeleteTicks + Slack)]
  /\ \A g \in GuardTokens :
       /\ cleaning[g] = IF stage[g] \in {"delete", "release"} THEN at[g] ELSE None
       /\ at[g] # None <=> stage[g] \in {"acquire", "delete", "release"}
       /\ at[g] # None => batch[g] # <<>> /\ at[g] = Head(batch[g])

(* The guard outlives the delete it protects, and nobody else's late release *)
(* takes it away: begin is refused until the delete is over.                *)
GuardHeldWhileDeleting ==
  \A g \in GuardTokens : stage[g] = "delete" => guard[at[g]] = g

(* "Checkpoints of unfinished runs must not be deleted": a thread disappears *)
(* only while its conversation has neither a lease nor a RUNNING run, though *)
(* the run was begun after the cleaner looked.                              *)
DeletesOnlyIdle ==
  [][\A c \in Convs : (thread[c] # "none" /\ thread'[c] = "none") =>
       /\ lease[c] = None
       /\ \A r \in Runs : IsRunning(r) => RunConv(r) # c]_cleanupVars

(* No thread is kept for ever: an old thread is deleted or written anew, or *)
(* again and again a conversation with an old thread is leased, its own or  *)
(* one that stands before it in the list.  This is so also when a run died  *)
(* on the thread and left a RUNNING hash and its active-run reference.      *)
StrandedThreadsGo ==
  \A c \in Convs :
    \/ []<>(thread[c] # "old")
    \/ []<>(\E d \in Convs : thread[d] = "old" /\ lease[d] # None)

(* "Removes checkpoints past the retention time": what is deleted is old.   *)
FreshThreadsKept ==
  [][\A c \in Convs : thread[c] = "fresh" => thread'[c] # "none"]_cleanupVars
=============================================================================
