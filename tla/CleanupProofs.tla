---------------------------- MODULE CleanupProofs ----------------------------
(***************************************************************************)
(* Cleaners keep off running conversations, for any number of cleaners,    *)
(* executors and conversations and all TTLs: the proofs about              *)
(* CheckpointCleanup.  They rest on the invariants of the store it extends. *)
(***************************************************************************)
EXTENDS CheckpointCleanup, RunStoreProofs, SequenceTheorems

Stages == {"idle", "next", "dry", "acquire", "delete", "release"}

\* What a cleaner is at, and the guard it took for it.
CleanerOK(g) ==
  /\ cleaning[g] = IF stage[g] \in {"delete", "release"} THEN at[g] ELSE None
  /\ at[g] # None <=> stage[g] \in {"acquire", "delete", "release"}
  /\ at[g] # None => batch[g] # <<>> /\ at[g] = Head(batch[g])

CleanersTyped ==
  /\ thread \in [Convs -> {"none", "fresh", "old"}]
  /\ aged \in Seq(Convs)
  /\ batch \in [GuardTokens -> Seq(Convs)]
  /\ stage \in [GuardTokens -> Stages]
  /\ at \in [GuardTokens -> Convs \cup {None}]
  /\ waited \in [GuardTokens -> 0 .. (DeleteTicks + Slack)]
  /\ \A g \in GuardTokens : CleanerOK(g)

\* A guard loses a tick when its cleaner has waited one.
GuardLasts(g) ==
  stage[g] = "delete" =>
    /\ guard[at[g]] = g
    /\ guardTTL[at[g]] + waited[g] >= GuardTicks

CleanupOK ==
  /\ TypeOK
  /\ Consistent
  /\ CleanersTyped
  /\ \A g \in GuardTokens : GuardLasts(g)

LEMMA Limits ==
  /\ DeleteTicks \in Nat /\ Slack \in Nat /\ DeleteTicks + Slack \in Nat
  /\ DeleteTicks + Slack < GuardTicks
  /\ GuardTicks \in Nat \ {0}
<1>1. DeleteTicks \in Nat
  BY TTLAssumption DEF DeleteTicks
<1> QED
  BY <1>1, TTLAssumption, CleanupAssumption

-----------------------------------------------------------------------------
(* What the steps do to the store.                                         *)

\* The guards of everyone, as far as cleaners depend on them.
GuardsKept == UNCHANGED <<guard, guardTTL, cleaning>>

LEMMA ExecutorsLeaveGuards ==
  ASSUME NEW t \in Tokens, Executor(t)
  PROVE  GuardsKept
  BY DEF Executor, BeginStarted, BeginResumed, Renew, Terminate, ForgetToken,
         storeVars, GuardsKept

\* A step of a cleaner is a call of the store or leaves it alone.
LEMMA CleanerStoreSteps ==
  ASSUME CleanersTyped, NEW g \in GuardTokens,
         CleanerStep(g) \/ StoreError(g) \/ Die(g)
  PROVE  [Next]_vars
<1>0. batch[g] # <<>> => Head(batch[g]) \in Convs
  BY HeadTailProperties DEF CleanersTyped
<1>1. stage[g] \in {"acquire", "delete", "release"} => at[g] \in Convs
  BY DEF CleanersTyped, CleanerOK
<1>2. CASE CheckBusy(g) \/ CheckIdle(g)
  BY <1>0, <1>2 DEF CheckBusy, CheckIdle, Next
<1>3. CASE Acquire(g)
  BY <1>1, <1>3 DEF Acquire, Next, Cleaner
<1>4. CASE AcquireRefused(g)
  BY <1>1, <1>4 DEF AcquireRefused, Next
<1>5. CASE DeleteDone(g) \/ DeleteFails(g)
  BY <1>5 DEF DeleteDone, DeleteFails
<1>6. CASE Release(g)
  BY <1>6 DEF Release, Next, Cleaner
<1>7. CASE StoreError(g)
  BY <1>7 DEF StoreError, Next, Cleaner
<1>8. CASE Die(g)
  BY <1>8 DEF Die, Next, Cleaner
<1> QED
  BY <1>2, <1>3, <1>4, <1>5, <1>6, <1>7, <1>8 DEF CleanerStep

\* Every step of the cleanup is one of the store's, or leaves the store alone.
LEMMA StoreSteps ==
  ASSUME CleanersTyped, [CleanupNext]_cleanupVars
  PROVE  [Next]_vars
<1>1. CASE UNCHANGED cleanupVars
  BY <1>1 DEF cleanupVars
<1>2. ASSUME NEW t \in Tokens, ExecutorStep(t) PROVE [Next]_vars
  BY <1>2 DEF ExecutorStep, WriteCheckpoint, Next
<1>3. ASSUME NEW c \in Convs, Age(c) PROVE [Next]_vars
  BY <1>3 DEF Age
<1>4. ASSUME NEW g \in GuardTokens, NEW mode \in {"next", "dry"},
             List(g, mode)
      PROVE  [Next]_vars
  BY <1>4 DEF List
<1>5. CASE CleanupTick
  BY <1>5 DEF CleanupTick, Next
<1> QED
  BY <1>1, <1>2, <1>3, <1>4, <1>5, CleanerStoreSteps DEF CleanupNext

-----------------------------------------------------------------------------
(* Cleaners.                                                               *)

\* Nothing of another cleaner changes.
SameCleaner(h) ==
  /\ stage'[h] = stage[h] /\ at'[h] = at[h] /\ batch'[h] = batch[h]
  /\ waited'[h] = waited[h]
  /\ cleaning'[h] = cleaning[h]

CleanerTypes ==
  /\ aged \in Seq(Convs)
  /\ batch \in [GuardTokens -> Seq(Convs)]
  /\ stage \in [GuardTokens -> Stages]
  /\ at \in [GuardTokens -> Convs \cup {None}]
  /\ waited \in [GuardTokens -> 0 .. (DeleteTicks + Slack)]

\* Guards of cleaners that delete are not touched.
GuardsLast ==
  \A h \in GuardTokens :
    stage[h] = "delete" =>
      guard'[at[h]] = guard[at[h]] /\ guardTTL'[at[h]] = guardTTL[at[h]]

LEMMA OneCleaner ==
  ASSUME CleanersTyped, NEW g \in GuardTokens, CleanerTypes',
         thread' \in [Convs -> {"none", "fresh", "old"}],
         \A h \in GuardTokens \ {g} : SameCleaner(h), CleanerOK(g)'
  PROVE  CleanersTyped'
<1>1. \A h \in GuardTokens \ {g} : CleanerOK(h)'
  BY DEF CleanersTyped, CleanerOK, SameCleaner
<1> QED
  BY <1>1 DEF CleanersTyped, CleanerTypes

LEMMA OtherGuards ==
  ASSUME CleanersTyped, \A h \in GuardTokens : GuardLasts(h), GuardsLast,
         NEW g \in GuardTokens, \A h \in GuardTokens \ {g} : SameCleaner(h),
         GuardLasts(g)'
  PROVE  \A h \in GuardTokens : GuardLasts(h)'
  BY DEF GuardLasts, GuardsLast, SameCleaner

\* A thread that is not old any more is taken out of the list of old ones.
LEMMA RenewedKeeps ==
  ASSUME aged \in Seq(Convs), NEW c \in Convs, Renewed(c)
  PROVE  aged' \in Seq(Convs)
<1>1. CASE thread[c] = "old"
  <2>1. PICK i \in 1..Len(aged) : aged' = RemoveAt(aged, i)
    BY <1>1 DEF Renewed
  <2>2. /\ SubSeq(aged, 1, i - 1) \in Seq(Convs)
        /\ SubSeq(aged, i + 1, Len(aged)) \in Seq(Convs)
    BY LenProperties, SubSeqProperties
  <2> QED
    BY <2>1, <2>2, ConcatProperties DEF RemoveAt
<1>2. CASE thread[c] # "old"
  BY <1>2 DEF Renewed
<1> QED
  BY <1>1, <1>2

\* What the cleaners have to keep.
Kept == CleanersTyped /\ \A h \in GuardTokens : GuardLasts(h)

LEMMA TypesNow ==
  ASSUME CleanersTyped
  PROVE  CleanerTypes
  BY DEF CleanersTyped, CleanerTypes

LEMMA ListKeeps ==
  ASSUME TypeOK, Kept, NEW g \in GuardTokens, NEW mode \in {"next", "dry"},
         List(g, mode)
  PROVE  Kept'
<1> USE DEF List, Goto
<1>1. \A h \in GuardTokens \ {g} : SameCleaner(h)
  BY DEF Kept, CleanersTyped, SameCleaner, vars
<1>2. CleanerTypes' /\ thread' \in [Convs -> {"none", "fresh", "old"}]
  <2>1. aged \in Seq(Convs)
    BY DEF Kept, CleanersTyped
  <2>2. SubSeq(aged, 1, IF Limit < Len(aged) THEN Limit ELSE Len(aged))
          \in Seq(Convs)
    BY <2>1, LenProperties, SubSeqProperties, CleanupAssumption
  <2> QED
    BY <2>2 DEF Kept, CleanersTyped, CleanerTypes, Stages
<1>3. CleanerOK(g)' /\ GuardLasts(g)'
  BY DEF Kept, CleanersTyped, CleanerOK, GuardLasts, vars
<1>4. GuardsLast
  BY DEF GuardsLast, vars
<1> QED
  BY <1>1, <1>2, <1>3, <1>4, OneCleaner, OtherGuards DEF Kept

LEMMA SkipMoves ==
  ASSUME CleanersTyped, NEW g \in GuardTokens, NEW mode \in {"next", "dry"},
         batch[g] # <<>>, Skip(g, mode), UNCHANGED <<aged, waited>>
  PROVE  /\ CleanerTypes'
         /\ stage'[g] \in {"idle", "next", "dry"} /\ at'[g] = None
         /\ \A h \in GuardTokens \ {g} :
              /\ stage'[h] = stage[h] /\ at'[h] = at[h] /\ batch'[h] = batch[h]
              /\ waited'[h] = waited[h]
<1>1. Tail(batch[g]) \in Seq(Convs)
  BY HeadTailProperties DEF CleanersTyped
<1> QED
  BY <1>1 DEF CleanersTyped, CleanerTypes, Skip, Goto, Stages

LEMMA CheckKeeps ==
  ASSUME TypeOK, Kept, NEW g \in GuardTokens,
         CheckBusy(g) \/ CheckIdle(g)
  PROVE  Kept'
<1>1. CleanersTyped /\ UNCHANGED <<guard, guardTTL, cleaning, thread, aged>>
  BY DEF Kept, CheckBusy, CheckIdle, CheckActive
<1>2. GuardsLast
  BY <1>1 DEF GuardsLast
<1>3. CASE CheckBusy(g)
  <2>1. /\ CleanerTypes' /\ \A h \in GuardTokens \ {g} : SameCleaner(h)
        /\ stage'[g] \in {"idle", "next", "dry"} /\ at'[g] = None
    BY <1>1, <1>3, SkipMoves DEF CheckBusy, SameCleaner
  <2>2. CleanerOK(g)' /\ GuardLasts(g)'
    BY <1>1, <1>3, <2>1 DEF CheckBusy, CleanersTyped, CleanerOK, GuardLasts
  <2>3. thread' \in [Convs -> {"none", "fresh", "old"}]
    BY <1>1 DEF CleanersTyped
  <2> QED
    BY <1>1, <1>2, <2>1, <2>2, <2>3, OneCleaner, OtherGuards DEF Kept
<1>4. CASE CheckIdle(g)
  <2>1. CleanerTypes' /\ \A h \in GuardTokens \ {g} : SameCleaner(h)
    BY <1>1, <1>4
       DEF CheckIdle, Goto, CleanersTyped, CleanerTypes, SameCleaner, Stages
  <2>2. batch[g] # <<>> /\ Head(batch[g]) # None
    BY <1>1, <1>4, HeadTailProperties, NoneAssumption DEF CheckIdle, CleanersTyped
  <2>3. CleanerOK(g)' /\ GuardLasts(g)'
    BY <1>1, <1>4, <2>2
       DEF CheckIdle, Goto, CleanersTyped, CleanerOK, GuardLasts
  <2>4. thread' \in [Convs -> {"none", "fresh", "old"}]
    BY <1>1 DEF CleanersTyped
  <2> QED
    BY <1>1, <1>2, <2>1, <2>3, <2>4, OneCleaner, OtherGuards DEF Kept
<1> QED
  BY <1>3, <1>4

\* The conversation of a cleaner that has one.
LEMMA AtConv ==
  ASSUME CleanersTyped, NEW g \in GuardTokens,
         stage[g] \in {"acquire", "delete", "release"}
  PROVE  at[g] \in Convs /\ at[g] # None /\ batch[g] # <<>>
  BY DEF CleanersTyped, CleanerOK

\* The guard is taken for the time a delete may need and longer.
LEMMA AcquireKeeps ==
  ASSUME TypeOK, Kept, NEW g \in GuardTokens, Acquire(g)
  PROVE  Kept'
<1>1. CleanersTyped /\ at[g] \in Convs /\ at[g] # None
  BY AtConv DEF Kept, Acquire
<1>2. guard[at[g]] = None
  BY DEF Acquire, AcquireGuard
<1>3. GuardsLast
  <2> SUFFICES ASSUME NEW h \in GuardTokens, stage[h] = "delete"
               PROVE  /\ guard'[at[h]] = guard[at[h]]
                      /\ guardTTL'[at[h]] = guardTTL[at[h]]
    BY DEF GuardsLast
  <2>1. guard[at[h]] = h /\ h # None
    BY NoneAssumption DEF Kept, GuardLasts
  <2> QED
    BY <1>2, <2>1 DEF Acquire, AcquireGuard, TypeOK
<1>4. /\ CleanerTypes' /\ thread' \in [Convs -> {"none", "fresh", "old"}]
      /\ \A h \in GuardTokens \ {g} : SameCleaner(h)
  <2>1. 0 \in 0 .. (DeleteTicks + Slack)
    BY Limits
  <2>2. /\ stage' = [stage EXCEPT ![g] = "delete"]
        /\ waited' = [waited EXCEPT ![g] = 0]
        /\ cleaning' = [cleaning EXCEPT ![g] = at[g]]
        /\ UNCHANGED <<thread, aged, batch, at>>
    BY DEF Acquire, AcquireGuard, Goto
  <2>3. CleanerTypes' /\ thread' \in [Convs -> {"none", "fresh", "old"}]
    BY <1>1, <2>1, <2>2 DEF CleanersTyped, CleanerTypes, Stages
  <2>4. \A h \in GuardTokens \ {g} : SameCleaner(h)
    BY <1>1, <2>2 DEF CleanersTyped, SameCleaner, TypeOK
  <2> QED
    BY <2>3, <2>4
<1>5. CleanerOK(g)'
  BY <1>1 DEF Acquire, AcquireGuard, Goto, CleanersTyped, CleanerOK, TypeOK
<1>6. GuardLasts(g)'
  BY <1>1, Limits
     DEF Acquire, AcquireGuard, Goto, CleanersTyped, GuardLasts, TypeOK
<1> QED
  BY <1>1, <1>3, <1>4, <1>5, <1>6, OneCleaner, OtherGuards DEF Kept

LEMMA RefusedKeeps ==
  ASSUME TypeOK, Kept, NEW g \in GuardTokens, AcquireRefused(g)
  PROVE  Kept'
<1>1. /\ CleanersTyped /\ at[g] \in Convs /\ batch[g] # <<>>
      /\ UNCHANGED <<guard, guardTTL, cleaning, thread, aged>>
  BY AtConv DEF Kept, AcquireRefused, CheckActive, vars
<1>2. GuardsLast
  BY <1>1 DEF GuardsLast
<1>3. /\ CleanerTypes' /\ \A h \in GuardTokens \ {g} : SameCleaner(h)
      /\ stage'[g] \in {"idle", "next", "dry"} /\ at'[g] = None
  BY <1>1, SkipMoves DEF AcquireRefused, SameCleaner
<1>4. CleanerOK(g)' /\ GuardLasts(g)'
  BY <1>1, <1>3 DEF AcquireRefused, CleanersTyped, CleanerOK, GuardLasts
<1>5. thread' \in [Convs -> {"none", "fresh", "old"}]
  BY <1>1 DEF CleanersTyped
<1> QED
  BY <1>1, <1>2, <1>3, <1>4, <1>5, OneCleaner, OtherGuards DEF Kept

LEMMA DeleteKeeps ==
  ASSUME TypeOK, Kept, NEW g \in GuardTokens, DeleteDone(g) \/ DeleteFails(g)
  PROVE  Kept'
<1>1. /\ CleanersTyped /\ at[g] \in Convs /\ stage[g] = "delete"
      /\ stage' = [stage EXCEPT ![g] = "release"]
      /\ waited' = [waited EXCEPT ![g] = 0]
      /\ UNCHANGED <<guard, guardTTL, cleaning, batch, at>>
      /\ Renewed(at[g]) \/ UNCHANGED aged
  BY AtConv DEF Kept, DeleteDone, DeleteFails, Goto, vars
<1>2. GuardsLast
  BY <1>1 DEF GuardsLast
<1>3. CleanerTypes' /\ \A h \in GuardTokens \ {g} : SameCleaner(h)
  <2>1. aged' \in Seq(Convs)
    BY <1>1, RenewedKeeps DEF CleanersTyped
  <2>2. 0 \in 0 .. (DeleteTicks + Slack)
    BY Limits
  <2> QED
    BY <1>1, <2>1, <2>2 DEF CleanersTyped, CleanerTypes, SameCleaner, Stages
<1>4. CleanerOK(g)' /\ GuardLasts(g)'
  BY <1>1 DEF CleanersTyped, CleanerOK, GuardLasts
<1>5. thread' \in [Convs -> {"none", "fresh", "old"}]
  BY <1>1 DEF DeleteDone, DeleteFails, CleanersTyped
<1> QED
  BY <1>1, <1>2, <1>3, <1>4, <1>5, OneCleaner, OtherGuards DEF Kept

\* A release deletes the cleaner's own guard, if it is still there.
LEMMA ReleaseKeeps ==
  ASSUME TypeOK, Kept, NEW g \in GuardTokens, Release(g)
  PROVE  Kept'
<1>1. /\ CleanersTyped /\ at[g] \in Convs /\ batch[g] # <<>>
      /\ stage[g] = "release"
  BY AtConv DEF Kept, Release
<1>2. GuardsLast
  <2> SUFFICES ASSUME NEW h \in GuardTokens, stage[h] = "delete"
               PROVE  /\ guard'[at[h]] = guard[at[h]]
                      /\ guardTTL'[at[h]] = guardTTL[at[h]]
    BY DEF GuardsLast
  <2>1. guard[at[h]] = h /\ h # g
    BY <1>1 DEF Kept, GuardLasts
  <2>2. CASE guard[cleaning[g]] = g
    BY <2>1, <2>2 DEF Release, ReleaseGuard, TypeOK
  <2>3. CASE guard[cleaning[g]] # g
    BY <2>3 DEF Release, ReleaseGuard
  <2> QED
    BY <2>2, <2>3
<1>3. /\ CleanerTypes' /\ \A h \in GuardTokens \ {g} : SameCleaner(h)
      /\ stage'[g] \in {"idle", "next", "dry"} /\ at'[g] = None
  BY <1>1, SkipMoves DEF Release, ReleaseGuard, SameCleaner, TypeOK
<1>4. CleanerOK(g)' /\ GuardLasts(g)'
  BY <1>1, <1>3
     DEF Release, ReleaseGuard, CleanersTyped, CleanerOK, GuardLasts, TypeOK
<1>5. thread' \in [Convs -> {"none", "fresh", "old"}]
  BY <1>1 DEF Release, CleanersTyped
<1> QED
  BY <1>1, <1>2, <1>3, <1>4, <1>5, OneCleaner, OtherGuards DEF Kept

\* A cleaner that leaves without a release leaves its guard to expire.
LEMMA GoneKeeps ==
  ASSUME TypeOK, Kept, NEW g \in GuardTokens, StoreError(g) \/ Die(g)
  PROVE  Kept'
<1>1. /\ CleanersTyped /\ UNCHANGED <<guard, guardTTL, thread, aged>>
      /\ waited' \in {waited, [waited EXCEPT ![g] = 0]}
      /\ stage' = [stage EXCEPT ![g] = "idle"]
      /\ at' = [at EXCEPT ![g] = None]
      /\ batch' = [batch EXCEPT ![g] = <<>>]
  BY DEF Kept, StoreError, Die, Goto, ForgetGuardToken, storeVars, vars
<1>2. /\ cleaning'[g] = None
      /\ \A h \in GuardTokens \ {g} : cleaning'[h] = cleaning[h]
  BY DEF StoreError, Die, ForgetGuardToken, TypeOK, vars
<1>3. GuardsLast
  BY <1>1 DEF GuardsLast
<1>4. CleanerTypes' /\ \A h \in GuardTokens \ {g} : SameCleaner(h)
  <2>1. 0 \in 0 .. (DeleteTicks + Slack)
    BY Limits
  <2>2. /\ waited' \in [GuardTokens -> 0 .. (DeleteTicks + Slack)]
        /\ \A h \in GuardTokens \ {g} : waited'[h] = waited[h]
    BY <1>1, <2>1 DEF CleanersTyped
  <2>3. CleanerTypes'
    BY <1>1, <2>2, EmptySeq DEF CleanersTyped, CleanerTypes, Stages
  <2>4. \A h \in GuardTokens \ {g} : SameCleaner(h)
    BY <1>1, <1>2, <2>2 DEF CleanersTyped, SameCleaner
  <2> QED
    BY <2>3, <2>4
<1>5. CleanerOK(g)' /\ GuardLasts(g)'
  BY <1>1, <1>2 DEF CleanersTyped, CleanerOK, GuardLasts
<1>6. thread' \in [Convs -> {"none", "fresh", "old"}]
  BY <1>1 DEF CleanersTyped
<1> QED
  BY <1>1, <1>3, <1>4, <1>5, <1>6, OneCleaner, OtherGuards DEF Kept

-----------------------------------------------------------------------------
(* Executors and time.                                                     *)

LEMMA ExecutorKeeps ==
  ASSUME TypeOK, Kept,
         \/ UNCHANGED cleanupVars
         \/ \E t \in Tokens : ExecutorStep(t)
         \/ \E c \in Convs : Age(c)
  PROVE  Kept'
<1>1. GuardsKept
  BY ExecutorsLeaveGuards
     DEF ExecutorStep, WriteCheckpoint, Age, GuardsKept, cleanupVars, vars
<1>2. UNCHANGED cleanerVars
  BY DEF ExecutorStep, WriteCheckpoint, Age, cleanupVars, cleanerVars
<1>3. thread' \in [Convs -> {"none", "fresh", "old"}]
  BY DEF Kept, CleanersTyped, ExecutorStep, WriteCheckpoint, Age, cleanupVars
<1>4. aged' \in Seq(Convs)
  <2>1. ASSUME NEW t \in Tokens, WriteCheckpoint(t) PROVE aged' \in Seq(Convs)
    <3>1. ConvOf[held[t]] \in Convs
      BY <2>1, RequestAssumption DEF WriteCheckpoint, TypeOK
    <3> QED
      BY <2>1, <3>1, RenewedKeeps DEF WriteCheckpoint, Kept, CleanersTyped
  <2>2. ASSUME NEW c \in Convs, Age(c) PROVE aged' \in Seq(Convs)
    BY <2>2, AppendProperties DEF Age, Kept, CleanersTyped
  <2> QED
    BY <2>1, <2>2 DEF ExecutorStep, Kept, CleanersTyped, cleanupVars
<1> QED
  BY <1>1, <1>2, <1>3, <1>4
     DEF Kept, CleanersTyped, CleanerOK, GuardLasts, GuardsKept, cleanerVars

\* A tick costs a guard and the delete it protects one tick each, and the
\* delete is given up before the guard is gone.
LEMMA TickKeeps ==
  ASSUME TypeOK, Kept, CleanupTick
  PROVE  Kept'
<1>1. /\ CleanersTyped
      /\ UNCHANGED <<thread, aged, batch, stage, at, cleaning>>
  BY DEF Kept, CleanupTick, Tick
<1>2. waited' \in [GuardTokens -> 0 .. (DeleteTicks + Slack)]
  <2> SUFFICES ASSUME NEW g \in GuardTokens
               PROVE  (IF stage[g] = "delete" THEN waited[g] + 1 ELSE 0)
                        \in 0 .. (DeleteTicks + Slack)
    BY DEF CleanupTick
  <2>1. waited[g] \in 0 .. (DeleteTicks + Slack)
    BY <1>1 DEF CleanersTyped
  <2> QED
    BY <2>1, Limits DEF CleanupTick
<1>3. ASSUME NEW g \in GuardTokens, stage[g] = "delete"
      PROVE  guard'[at[g]] = g /\ guardTTL'[at[g]] + waited'[g] >= GuardTicks
  <2>1. /\ at[g] \in Convs /\ guard[at[g]] = g
        /\ guardTTL[at[g]] + waited[g] >= GuardTicks
    BY <1>1, <1>3, AtConv DEF Kept, GuardLasts
  <2>2. /\ waited[g] \in 0 .. (DeleteTicks + Slack) /\ waited[g] < DeleteTicks + Slack
        /\ waited'[g] = waited[g] + 1
    BY <1>1, <1>3 DEF CleanupTick, CleanersTyped
  <2>3. guardTTL[at[g]] \in 0 .. GuardTicks
    BY <2>1 DEF TypeOK
  <2>4. guardTTL[at[g]] > 1
    BY <2>1, <2>2, <2>3, Limits
  <2>5. /\ guardTTL'[at[g]] = guardTTL[at[g]] - 1
        /\ guard'[at[g]] = guard[at[g]]
    BY <2>1, <2>3, <2>4 DEF CleanupTick, Tick, Elapse
  <2> QED
    BY <2>1, <2>2, <2>3, <2>5, Limits
<1> QED
  BY <1>1, <1>2, <1>3 DEF Kept, CleanersTyped, CleanerOK, GuardLasts

LEMMA CleanupStepKeeps ==
  CleanupOK /\ [CleanupNext]_cleanupVars => CleanupOK'
<1> SUFFICES ASSUME CleanupOK, [CleanupNext]_cleanupVars PROVE CleanupOK'
  OBVIOUS
<1>1. TypeOK /\ Consistent /\ Kept
  BY DEF CleanupOK, Kept
<1>2. TypeOK' /\ Consistent'
  BY <1>1, StoreSteps, TypeNext, InvNext DEF Kept
<1>3. ASSUME NEW g \in GuardTokens, CleanerStep(g) \/ StoreError(g) \/ Die(g)
      PROVE  Kept'
  BY <1>1, <1>3, CheckKeeps, AcquireKeeps, RefusedKeeps, DeleteKeeps,
     ReleaseKeeps, GoneKeeps DEF CleanerStep
<1>4. Kept'
  BY <1>1, <1>3, ListKeeps, ExecutorKeeps, TickKeeps DEF CleanupNext
<1> QED
  BY <1>2, <1>4 DEF CleanupOK, Kept

LEMMA CleanupInitOK == CleanupInit => CleanupOK
<1> SUFFICES ASSUME CleanupInit PROVE CleanupOK
  OBVIOUS
<1>1. TypeOK
  BY Ticks, NoneAssumption DEF CleanupInit, Init, TypeOK
<1>2. Consistent
  BY NoneAssumption
     DEF CleanupInit, Init, Consistent, SingleFlight, LeaseBacked,
         GuardExcludesRuns, GrantMatchesRecord, IsRunning, Exists
<1>3. 0 \in 0 .. (DeleteTicks + Slack)
  BY Limits
<1>4. CleanersTyped /\ \A g \in GuardTokens : GuardLasts(g)
  BY <1>3
     DEF CleanupInit, Init, CleanersTyped, CleanerOK, GuardLasts, Stages
<1> QED
  BY <1>1, <1>2, <1>4 DEF CleanupOK

LEMMA CleanupInvariant == CleanupSpec => []CleanupOK
  BY CleanupInitOK, CleanupStepKeeps, PTL DEF CleanupSpec

-----------------------------------------------------------------------------
\* A cleaner holds the guard token of the one conversation it deletes or
\* releases, which it chose from its batch, and no delete waits longer than
\* run_cleanup allows.
THEOREM CleanersAreTyped == CleanupSpec => []CleanupTypeOK
<1>1. CleanupOK => CleanupTypeOK
  BY DEF CleanupOK, CleanersTyped, CleanerOK, CleanupTypeOK, Stages
<1> QED
  BY <1>1, CleanupInvariant, PTL

\* The guard outlives every delete it protects, for every TTL: half of it is
\* for the delete, the other half for the slack around it, and a late release
\* takes nobody else's guard.
THEOREM GuardOutlivesDelete == CleanupSpec => []GuardHeldWhileDeleting
<1>1. CleanupOK => GuardHeldWhileDeleting
  BY DEF CleanupOK, GuardLasts, GuardHeldWhileDeleting
<1> QED
  BY <1>1, CleanupInvariant, PTL

\* A cleaner deletes no thread whose conversation has a lease or a RUNNING
\* run, whenever the run was begun.
THEOREM DeletesNothingActive == CleanupSpec => DeletesOnlyIdle
<1>1. CleanupOK /\ [CleanupNext]_cleanupVars =>
        \A c \in Convs : (thread[c] # "none" /\ thread'[c] = "none") =>
          /\ lease[c] = None
          /\ \A r \in Runs : IsRunning(r) => RunConv(r) # c
  <2> SUFFICES ASSUME CleanupOK, [CleanupNext]_cleanupVars, NEW c \in Convs,
                      thread[c] # "none", thread'[c] = "none"
               PROVE  /\ lease[c] = None
                      /\ \A r \in Runs : IsRunning(r) => RunConv(r) # c
    OBVIOUS
  <2>1. PICK g \in GuardTokens : DeleteDone(g) \/ DeleteFails(g)
    BY DEF CleanupNext, ExecutorStep, WriteCheckpoint, Age, List, CleanerStep,
           CheckBusy, CheckIdle, Acquire, AcquireRefused, Release, StoreError,
           Die, CleanupTick, cleanupVars, CleanupOK, CleanersTyped
  <2>2. stage[g] = "delete" /\ at[g] \in Convs
    BY <2>1, AtConv DEF DeleteDone, DeleteFails, CleanupOK
  <2>3. at[g] = c
    BY <2>1, <2>2 DEF DeleteDone, DeleteFails, CleanupOK, CleanersTyped
  <2>4. guard[c] # None
    BY <2>2, <2>3, NoneAssumption DEF CleanupOK, GuardLasts
  <2> QED
    BY <2>4 DEF CleanupOK, Consistent, GuardExcludesRuns
<1> QED
  BY <1>1, CleanupInvariant, PTL DEF CleanupSpec, DeletesOnlyIdle

(* Cleaners that skip, fail, time out or die use the store as its scripts   *)
(* allow: executors beside them still find a store that keeps the promises  *)
(* of RunLedger, and a conversation is cleaned only as the ledger's Clean.  *)
THEOREM CleanupKeepsLedger == CleanupSpec => Spec /\ ImplementsLedger
<1>1. CleanupInit => Init
  BY DEF CleanupInit
<1>2. CleanupOK /\ [CleanupNext]_cleanupVars => [Next]_vars
  BY StoreSteps DEF CleanupOK
<1>3. CleanupSpec => Spec
  BY <1>1, <1>2, CleanupInvariant, PTL DEF CleanupSpec, Spec
<1>4. QED
  BY <1>3, LedgerImplemented, PTL
=============================================================================
