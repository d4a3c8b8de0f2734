------------------------- MODULE RunLifecycleProofs -------------------------
(***************************************************************************)
(* Machine-checked proofs about RunLifecycle, for any number of calls,     *)
(* runs, conversations and requests, and any set of faults.                *)
(***************************************************************************)
EXTENDS RunLifecycle, DataInduction

Typed ==
  /\ entry \in [Runs -> EntryRecords \cup {None}]
  /\ owner \in [Convs -> Tokens \cup {None}]
  /\ thread \in [Convs -> Checkpoints \cup {None}]
  /\ call \in [Tokens -> Requests \cup {None}]
  /\ pc \in [Tokens -> Awaits]
  /\ intent \in [Tokens -> Finals \cup {None}]
  /\ task \in [Tokens -> TaskRecords]
  /\ stream \in [Tokens -> Seq(Events)]

\* What a call knows at each await: its request, what it wants to commit,
\* which request its graph works for, and how many events it has sent.
Steady(t) ==
  /\ call[t] = None <=> pc[t] = "idle"
  /\ pc[t] = "idle" => task[t] = NoTask
  /\ pc[t] \in {"commit", "tell", "replay", "again"} => intent[t] # None
  /\ task[t].stage \in {"sync", "answer"} => task[t].req \in Requests
  /\ pc[t] \in {"idle", "start", "resume", "replay", "again"}
       => stream[t] = <<>>
  /\ pc[t] \in {"renew", "beat"} => Len(stream[t]) <= MaxBeats
  /\ pc[t] \in {"drive", "recheck", "read"} => Len(stream[t]) <= MaxBeats + 1
  /\ pc[t] \in {"stop", "commit", "tell"} =>
       Len(stream[t]) <= IF intent[t] = TimedOut THEN MaxBeats + 1
                                                 ELSE MaxBeats + 2

CallsSteady == Typed /\ \A t \in Tokens : Steady(t)

\* A step of call t leaves the other calls where they are.
OthersKept(t) ==
  \A u \in Tokens \ {t} :
    /\ call'[u] = call[u] /\ pc'[u] = pc[u] /\ intent'[u] = intent[u]
    /\ task'[u] = task[u] /\ stream'[u] = stream[u]

Moved(t) == Typed' /\ Steady(t)' /\ OthersKept(t)

LEMMA Frame ==
  ASSUME CallsSteady, NEW t \in Tokens, Moved(t)
  PROVE  CallsSteady'
  BY DEF CallsSteady, Moved, OthersKept, Steady

LEMMA FinalsAre ==
  /\ TimedOut \in Finals /\ ExecutionFailed \in Finals
  /\ StateInvalid \in Finals /\ Cancelled \in Finals
  /\ \A ck \in Checkpoints : Completed(ck) \in Finals
  /\ TimedOut # ExecutionFailed
  /\ None \notin Finals
  BY LifeNoneAssumption
     DEF Finals, TimedOut, ExecutionFailed, StateInvalid, Cancelled, Completed,
         Failure

\* Sending one more event where there is room for it.
LEMMA SendFacts ==
  ASSUME Typed, NEW t \in Tokens, call[t] \in Requests,
         NEW type \in {"RUN_ACCEPTED", "RUN_HEARTBEAT"} \cup TerminalTypes,
         NEW final \in Finals \cup {None},
         Len(stream[t]) <= MaxBeats + 2, Send(t, type, final)
  PROVE  /\ stream' \in [Tokens -> Seq(Events)]
         /\ Len(stream'[t]) = Len(stream[t]) + 1
         /\ \A u \in Tokens \ {t} : stream'[u] = stream[u]
<1> DEFINE e == [type |-> type, req |-> call[t], index |-> Len(stream[t]) + 1,
                 final |-> final]
<1>1. stream[t] \in Seq(Events) /\ Len(stream[t]) \in Nat
  BY DEF Typed
<1>2. e \in Events
  BY <1>1, LifeAssumption DEF Events
<1>3. stream' = [stream EXCEPT ![t] = Append(stream[t], e)]
  BY DEF Send
<1> HIDE DEF e
<1>4. Append(stream[t], e) \in Seq(Events)
      /\ Len(Append(stream[t], e)) = Len(stream[t]) + 1
  BY <1>1, <1>2
<1>5. QED
  BY <1>3, <1>4 DEF Typed

LEMMA MoveAccept ==
  ASSUME CallsSteady, NEW t \in Tokens, Accept(t)
  PROVE  Moved(t)
<1>1. /\ call[t] \in Requests /\ stream[t] = <<>> /\ Len(stream[t]) = 0
      /\ pc[t] \in {"start", "resume", "again"}
  BY DEF CallsSteady, Steady, Typed, Accept
<1>2. /\ stream' \in [Tokens -> Seq(Events)] /\ Len(stream'[t]) = 1
      /\ \A u \in Tokens \ {t} : stream'[u] = stream[u]
  <2>1. /\ Typed /\ Send(t, "RUN_ACCEPTED", None)
        /\ Len(stream[t]) <= MaxBeats + 2
    BY <1>1, LifeAssumption DEF Accept, CallsSteady
  <2>2. /\ "RUN_ACCEPTED" \in {"RUN_ACCEPTED", "RUN_HEARTBEAT"}
                               \cup TerminalTypes
        /\ None \in Finals \cup {None}
    OBVIOUS
  <2>3. /\ stream' \in [Tokens -> Seq(Events)]
        /\ Len(stream'[t]) = Len(stream[t]) + 1
        /\ \A u \in Tokens \ {t} : stream'[u] = stream[u]
    BY <1>1, <2>1, <2>2, SendFacts
  <2>4. QED
    BY <1>1, <2>3
<1>3. MaxBeats \in Nat
  BY LifeAssumption
<1>4. CASE Raise(t) /\ UNCHANGED task
  BY <1>1, <1>2, <1>4
     DEF Accept, CallsSteady, Steady, Typed, Moved, OthersKept, Raise, End,
         Goto, Awaits, ledger
<1>5. CASE ~(Raise(t) /\ UNCHANGED task)
  <2>1. /\ pc' = [pc EXCEPT ![t] = IF pc[t] = "again" THEN "tell"
                                                     ELSE "drive"]
        /\ task' = [task EXCEPT ![t].stage =
                      CASE pc[t] = "start" -> "input"
                        [] pc[t] = "resume" -> "load" [] OTHER -> @]
        /\ UNCHANGED <<intent, call, entry, owner, thread>>
    BY <1>5 DEF Accept, Goto, ledger
  <2>2. task' \in [Tokens -> TaskRecords]
    <3> DEFINE stage == CASE pc[t] = "start" -> "input"
                          [] pc[t] = "resume" -> "load"
                          [] OTHER -> task[t].stage
    <3>1. task[t] \in TaskRecords
      BY DEF CallsSteady, Typed
    <3>2. stage \in Working \cup {"none", "done", "error", "cancelled"}
      BY <3>1 DEF TaskRecords, Working
    <3>3. task' = [task EXCEPT ![t].stage = stage]
      BY <2>1
    <3> HIDE DEF stage
    <3>4. QED
      BY <3>2, <3>3 DEF CallsSteady, Typed, TaskRecords
  <2>3. OthersKept(t)
    BY <1>2, <2>1 DEF CallsSteady, Typed, OthersKept
  <2>4. Steady(t)'
    BY <1>1, <1>2, <1>3, <2>1 DEF CallsSteady, Steady, Typed, TaskRecords
  <2>5. pc' \in [Tokens -> Awaits]
    BY <2>1 DEF CallsSteady, Typed, Awaits
  <2>6. Typed'
    BY <1>2, <2>1, <2>2, <2>5 DEF CallsSteady, Typed
  <2>7. QED
    BY <2>3, <2>4, <2>6 DEF Moved
<1>6. QED
  BY <1>4, <1>5

\* The pieces of a step: each keeps the types, and moves only call t.
LEMMA GotoFacts ==
  ASSUME Typed, NEW t \in Tokens, NEW p \in Awaits, Goto(t, p)
  PROVE  /\ pc' \in [Tokens -> Awaits] /\ pc'[t] = p
         /\ \A u \in Tokens \ {t} : pc'[u] = pc[u]
  BY DEF Typed, Goto

LEMMA CommitNextFacts ==
  ASSUME Typed, NEW t \in Tokens, NEW f \in Finals, CommitNext(t, f)
  PROVE  /\ pc' \in [Tokens -> Awaits] /\ pc'[t] = "commit"
         /\ intent' \in [Tokens -> Finals \cup {None}] /\ intent'[t] = f
         /\ f # None
         /\ \A u \in Tokens \ {t} : pc'[u] = pc[u] /\ intent'[u] = intent[u]
  BY FinalsAre DEF Typed, CommitNext, Goto, Awaits

LEMMA RaiseFacts ==
  ASSUME Typed, NEW t \in Tokens, Raise(t)
  PROVE  /\ pc' \in [Tokens -> Awaits] /\ pc'[t] = "raised"
         /\ intent' \in [Tokens -> Finals \cup {None}] /\ intent'[t] = None
         /\ \A u \in Tokens \ {t} : pc'[u] = pc[u] /\ intent'[u] = intent[u]
  BY DEF Typed, Raise, End, Goto, Awaits

LEMMA TaskFacts ==
  ASSUME Typed, NEW t \in Tokens, DropTask(t)
  PROVE  /\ task' \in [Tokens -> TaskRecords] /\ task'[t] = NoTask
         /\ task'[t].stage = "none"
         /\ \A u \in Tokens \ {t} : task'[u] = task[u]
<1>1. NoTask \in TaskRecords /\ NoTask.stage = "none"
  BY DEF NoTask, TaskRecords
<1>2. QED
  BY <1>1 DEF Typed, DropTask

LEMMA FollowFacts ==
  ASSUME Typed, NEW t \in Tokens, NEW f \in Finals \cup {None}, Follow(t, f)
  PROVE  /\ pc' \in [Tokens -> Awaits]
         /\ pc'[t] = IF f = None THEN "raised" ELSE "commit"
         /\ intent' \in [Tokens -> Finals \cup {None}] /\ intent'[t] = f
         /\ \A u \in Tokens \ {t} : pc'[u] = pc[u] /\ intent'[u] = intent[u]
<1>1. CASE f = None
  BY <1>1, RaiseFacts DEF Follow
<1>2. CASE f # None
  BY <1>2, CommitNextFacts DEF Follow
<1>3. QED
  BY <1>1, <1>2

\* A call that cancels its task waits for a working one, and drops any other.
LEMMA CancelFacts ==
  ASSUME Typed, NEW t \in Tokens, NEW f \in Finals \cup {None},
         CancelTask(t, f)
  PROVE  /\ pc' \in [Tokens -> Awaits] /\ task' \in [Tokens -> TaskRecords]
         /\ intent' \in [Tokens -> Finals \cup {None}] /\ intent'[t] = f
         /\ \/ /\ task[t].stage \in Working /\ task'[t] = task[t]
               /\ pc'[t] = "stop"
            \/ /\ task[t].stage \notin Working
               /\ task'[t] = NoTask /\ task'[t].stage = "none"
               /\ pc'[t] = IF f = None THEN "raised" ELSE "commit"
         /\ \A u \in Tokens \ {t} : /\ pc'[u] = pc[u] /\ task'[u] = task[u]
                                     /\ intent'[u] = intent[u]
<1>1. CASE task[t].stage \in Working
  BY <1>1 DEF CancelTask, Typed, Goto, Awaits
<1>2. CASE task[t].stage \notin Working
  BY <1>2, FollowFacts, TaskFacts DEF CancelTask
<1>3. QED
  BY <1>1, <1>2

LEMMA MoveCancel ==
  ASSUME CallsSteady, NEW t \in Tokens, NEW f \in Finals \cup {None},
         CancelTask(t, f),
         call[t] # None, UNCHANGED <<entry, owner, thread, call>>,
         stream' \in [Tokens -> Seq(Events)],
         \A u \in Tokens \ {t} : stream'[u] = stream[u],
         Len(stream'[t]) <= MaxBeats + 2,
         f = TimedOut => Len(stream'[t]) <= MaxBeats + 1
  PROVE  Moved(t)
  BY CancelFacts DEF CallsSteady, Typed, Steady, Moved, OthersKept

LEMMA MoveGraphReturned ==
  ASSUME CallsSteady, NEW t \in Tokens, GraphReturned(t)
  PROVE  Moved(t)
<1>1. /\ pc[t] = "drive" /\ call[t] # None
      /\ Len(stream[t]) <= MaxBeats + 1
      /\ DropTask(t)
      /\ UNCHANGED <<entry, owner, thread, call, stream>>
  BY DEF GraphReturned, CallsSteady, Steady, ledger
<1>2. CASE Goto(t, "recheck") /\ UNCHANGED intent
  <2>1. "recheck" \in Awaits
    BY DEF Awaits
  <2>2. QED
    BY <1>1, <1>2, <2>1, GotoFacts, TaskFacts
       DEF CallsSteady, Typed, Steady, Moved, OthersKept
<1>3. CASE CommitNext(t, ExecutionFailed)
  BY <1>1, <1>3, CommitNextFacts, FinalsAre, TaskFacts, LifeAssumption
     DEF CallsSteady, Typed, Steady, Moved, OthersKept
<1>4. CASE Raise(t)
  BY <1>1, <1>4, RaiseFacts, TaskFacts
     DEF CallsSteady, Typed, Steady, Moved, OthersKept
<1>5. QED
  BY <1>2, <1>3, <1>4 DEF GraphReturned

LEMMA MoveTimeout ==
  ASSUME CallsSteady, NEW t \in Tokens, Timeout(t)
  PROVE  Moved(t)
<1>1. /\ pc[t] = "drive" /\ call[t] # None
      /\ Len(stream[t]) <= MaxBeats + 1
      /\ Len(stream[t]) \in Nat /\ MaxBeats \in Nat
      /\ CancelTask(t, TimedOut)
      /\ UNCHANGED <<entry, owner, thread, call>>
      /\ stream' = stream /\ stream \in [Tokens -> Seq(Events)]
  BY LifeAssumption DEF Timeout, CallsSteady, Typed, Steady, ledger
<1>2. QED
  BY <1>1, MoveCancel, FinalsAre

LEMMA MovePollCancel ==
  ASSUME CallsSteady, NEW t \in Tokens, PollCancel(t)
  PROVE  Moved(t)
<1>1. /\ pc[t] = "drive" /\ call[t] # None
      /\ Len(stream[t]) <= MaxBeats + 1
      /\ Len(stream[t]) \in Nat /\ MaxBeats \in Nat
      /\ UNCHANGED <<entry, owner, thread, call>>
      /\ stream' = stream /\ stream \in [Tokens -> Seq(Events)]
  BY LifeAssumption DEF PollCancel, CallsSteady, Typed, Steady, ledger
<1>2. CASE CancelTask(t, Cancelled)
  BY <1>1, <1>2, MoveCancel, FinalsAre
<1>3. CASE /\ Len(stream[t]) <= MaxBeats
           /\ Goto(t, "renew")
           /\ UNCHANGED <<task, intent>>
  <2>1. "renew" \in Awaits
    BY DEF Awaits
  <2>2. QED
    BY <1>1, <1>3, <2>1, GotoFacts
       DEF CallsSteady, Typed, Steady, Moved, OthersKept
<1>4. CASE CancelTask(t, None)
  BY <1>1, <1>4, MoveCancel, FinalsAre
<1>5. QED
  BY <1>2, <1>3, <1>4 DEF PollCancel

LEMMA MoveRenew ==
  ASSUME CallsSteady, NEW t \in Tokens, Renew(t)
  PROVE  Moved(t)
<1>1. /\ pc[t] = "renew" /\ call[t] # None
      /\ Len(stream[t]) <= MaxBeats
      /\ Len(stream[t]) \in Nat /\ MaxBeats \in Nat
      /\ UNCHANGED <<entry, owner, thread, call>>
      /\ stream' = stream /\ stream \in [Tokens -> Seq(Events)]
  BY LifeAssumption DEF Renew, CallsSteady, Typed, Steady, ledger
<1>2. CASE Goto(t, "beat") /\ UNCHANGED <<task, intent>>
  <2>1. "beat" \in Awaits
    BY DEF Awaits
  <2>2. QED
    BY <1>1, <1>2, <2>1, GotoFacts
       DEF CallsSteady, Typed, Steady, Moved, OthersKept
<1>3. CASE CancelTask(t, None)
  BY <1>1, <1>3, MoveCancel, FinalsAre
<1>4. QED
  BY <1>2, <1>3 DEF Renew

LEMMA MoveBeat ==
  ASSUME CallsSteady, NEW t \in Tokens, Beat(t)
  PROVE  Moved(t)
<1>1. /\ pc[t] = "beat" /\ call[t] \in Requests
      /\ Len(stream[t]) <= MaxBeats
      /\ UNCHANGED <<entry, owner, thread, call>>
  BY DEF Beat, CallsSteady, Steady, Typed, ledger
<1>2. /\ stream' \in [Tokens -> Seq(Events)]
      /\ Len(stream'[t]) = Len(stream[t]) + 1
      /\ \A u \in Tokens \ {t} : stream'[u] = stream[u]
      /\ Len(stream'[t]) <= MaxBeats + 1
  <2>1. Len(stream[t]) \in Nat /\ MaxBeats \in Nat
    BY LifeAssumption DEF CallsSteady, Typed
  <2>2. /\ Typed /\ Send(t, "RUN_HEARTBEAT", None)
        /\ Len(stream[t]) <= MaxBeats + 2
    BY <1>1, <2>1 DEF Beat, CallsSteady
  <2>3. /\ "RUN_HEARTBEAT" \in {"RUN_ACCEPTED", "RUN_HEARTBEAT"}
                                \cup TerminalTypes
        /\ None \in Finals \cup {None}
    OBVIOUS
  <2>4. /\ stream' \in [Tokens -> Seq(Events)]
        /\ Len(stream'[t]) = Len(stream[t]) + 1
        /\ \A u \in Tokens \ {t} : stream'[u] = stream[u]
    BY <1>1, <2>2, <2>3, SendFacts
  <2>5. QED
    BY <1>1, <2>1, <2>4
<1>3. CASE Goto(t, "drive") /\ UNCHANGED <<task, intent>>
  <2>1. "drive" \in Awaits
    BY DEF Awaits
  <2>2. QED
    BY <1>1, <1>2, <1>3, <2>1, GotoFacts
       DEF CallsSteady, Typed, Steady, Moved, OthersKept
<1>4. CASE CancelTask(t, ExecutionFailed)
  <2>1. Len(stream'[t]) <= MaxBeats + 2 /\ call[t] # None
    BY <1>1, <1>2, LifeAssumption, LifeNoneAssumption
       DEF CallsSteady, Typed
  <2>2. QED
    BY <1>1, <1>2, <1>4, <2>1, MoveCancel, FinalsAre
<1>5. QED
  BY <1>3, <1>4 DEF Beat

LEMMA AfterErrorIs ==
  ASSUME Typed, NEW t \in Tokens
  PROVE  AfterError(t) \in Finals \cup {None} /\ AfterError(t) # TimedOut
  BY FinalsAre DEF AfterError

LEMMA MoveStopped ==
  ASSUME CallsSteady, NEW t \in Tokens, Stopped(t)
  PROVE  Moved(t)
<1>1. /\ pc[t] = "stop" /\ call[t] # None
      /\ Len(stream[t]) <= IF intent[t] = TimedOut THEN MaxBeats + 1
                                                   ELSE MaxBeats + 2
      /\ Len(stream[t]) \in Nat /\ MaxBeats \in Nat
      /\ DropTask(t)
      /\ UNCHANGED <<entry, owner, thread, call, stream>>
  BY LifeAssumption DEF Stopped, CallsSteady, Typed, Steady, ledger
<1>2. PICK f \in Finals \cup {None} :
        /\ f = intent[t] \/ f # TimedOut
        /\ Follow(t, f)
  BY AfterErrorIs DEF Stopped, CallsSteady, Typed
<1>3. Len(stream[t]) <= IF f = TimedOut THEN MaxBeats + 1 ELSE MaxBeats + 2
  BY <1>1, <1>2
<1>4. QED
  BY <1>1, <1>2, <1>3, FollowFacts, TaskFacts
     DEF CallsSteady, Typed, Steady, Moved, OthersKept

LEMMA MoveRecheck ==
  ASSUME CallsSteady, NEW t \in Tokens, Recheck(t)
  PROVE  Moved(t)
<1>1. /\ pc[t] = "recheck" /\ call[t] # None
      /\ Len(stream[t]) <= MaxBeats + 1
      /\ UNCHANGED <<entry, owner, thread, call, task, stream>>
  BY DEF Recheck, CallsSteady, Steady, ledger
<1>2. CASE CommitNext(t, Cancelled)
  BY <1>1, <1>2, CommitNextFacts, FinalsAre, LifeAssumption
     DEF CallsSteady, Typed, Steady, Moved, OthersKept
<1>3. CASE Goto(t, "read") /\ UNCHANGED intent
  <2>1. "read" \in Awaits
    BY DEF Awaits
  <2>2. QED
    BY <1>1, <1>3, <2>1, GotoFacts
       DEF CallsSteady, Typed, Steady, Moved, OthersKept
<1>4. CASE Raise(t)
  BY <1>1, <1>4, RaiseFacts
     DEF CallsSteady, Typed, Steady, Moved, OthersKept
<1>5. QED
  BY <1>2, <1>3, <1>4 DEF Recheck

LEMMA MoveRead ==
  ASSUME CallsSteady, NEW t \in Tokens, Read(t)
  PROVE  Moved(t)
<1> DEFINE ck == thread[Conv(t)]
           f == IF ck # None /\ ck.answer # None THEN Completed(ck)
                                                 ELSE StateInvalid
<1>1. /\ pc[t] = "read" /\ call[t] \in Requests
      /\ Len(stream[t]) <= MaxBeats + 1
      /\ UNCHANGED <<entry, owner, thread, call, task, stream>>
  BY DEF Read, CallsSteady, Steady, Typed, ledger
<1>2. f \in Finals
  <2>1. ck \in Checkpoints \cup {None}
    BY <1>1, LifeAssumption DEF CallsSteady, Typed, Conv
  <2>2. QED
    BY <2>1, FinalsAre
<1>3. CommitNext(t, f) \/ Raise(t)
  BY DEF Read
<1> HIDE DEF f, ck
<1>4. CASE CommitNext(t, f)
  BY <1>1, <1>2, <1>4, CommitNextFacts, LifeAssumption
     DEF CallsSteady, Typed, Steady, Moved, OthersKept
<1>5. CASE Raise(t)
  BY <1>1, <1>5, RaiseFacts
     DEF CallsSteady, Typed, Steady, Moved, OthersKept
<1>6. QED
  BY <1>3, <1>4, <1>5

\* What the ledger's steps do to entries and owners, for a call's run.
LEMMA CommitEntry ==
  ASSUME Typed, NEW t \in Tokens, NEW r \in Runs, NEW f \in Finals,
         Ledger!Commit(t, r, f)
  PROVE  /\ entry' \in [Runs -> EntryRecords \cup {None}]
         /\ owner' \in [Convs -> Tokens \cup {None}]
         /\ entry[r] \in EntryRecords /\ entry[r].final = None
         /\ entry'[r] \in EntryRecords
         /\ entry'[r].req = entry[r].req /\ entry'[r].final = f
         /\ \A s \in Runs \ {r} : entry'[s] = entry[s]
<1>1. entry[r] \in EntryRecords /\ entry[r].final = None
  BY DEF Typed, Ledger!Commit, Ledger!InFlight
<1>2. entry' = [entry EXCEPT ![r].final = f, ![r].cancel = FALSE]
  BY DEF Ledger!Commit
<1>3. /\ entry'[r] \in EntryRecords
      /\ entry'[r].req = entry[r].req /\ entry'[r].final = f
      /\ entry' \in [Runs -> EntryRecords \cup {None}]
      /\ \A s \in Runs \ {r} : entry'[s] = entry[s]
  BY <1>1, <1>2 DEF Typed, EntryRecords
<1>4. owner' \in [Convs -> Tokens \cup {None}]
  BY DEF Typed, Ledger!Commit
<1>5. QED
  BY <1>1, <1>3, <1>4

LEMMA AfterCommitFacts ==
  ASSUME Typed, NEW t \in Tokens, AfterCommit(t)
  PROVE  /\ pc' \in [Tokens -> Awaits]
         /\ intent' \in [Tokens -> Finals \cup {None}]
         /\ \/ pc'[t] = "returned"
            \/ pc'[t] = "tell" /\ intent'[t] = intent[t]
         /\ \A u \in Tokens \ {t} : pc'[u] = pc[u] /\ intent'[u] = intent[u]
  BY DEF Typed, AfterCommit, End, Goto, Awaits

LEMMA MoveCommit ==
  ASSUME CallsSteady, NEW t \in Tokens, Commit(t)
  PROVE  Moved(t)
<1>1. /\ pc[t] = "commit" /\ call[t] \in Requests
      /\ Run(t) \in Runs /\ intent[t] \in Finals /\ intent[t] # None
      /\ Len(stream[t]) <= IF intent[t] = TimedOut THEN MaxBeats + 1
                                                   ELSE MaxBeats + 2
      /\ UNCHANGED <<thread, call, task, stream>>
  BY LifeAssumption DEF Commit, CallsSteady, Steady, Typed, Run
<1>2. /\ entry' \in [Runs -> EntryRecords \cup {None}]
      /\ owner' \in [Convs -> Tokens \cup {None}]
  BY <1>1, CommitEntry DEF Commit, CallsSteady, Typed, ledger
<1>3. CASE AfterCommit(t)
  BY <1>1, <1>2, <1>3, AfterCommitFacts
     DEF CallsSteady, Typed, Steady, Moved, OthersKept
<1>4. CASE Raise(t)
  BY <1>1, <1>2, <1>4, RaiseFacts
     DEF CallsSteady, Typed, Steady, Moved, OthersKept
<1>5. QED
  BY <1>3, <1>4 DEF Commit

LEMMA MoveCommitRefused ==
  ASSUME CallsSteady, NEW t \in Tokens, CommitRefused(t)
  PROVE  Moved(t)
  BY RaiseFacts
     DEF CommitRefused, CallsSteady, Typed, Steady, Moved, OthersKept, ledger

LEMMA MoveReplay ==
  ASSUME CallsSteady, NEW t \in Tokens, Replay(t)
  PROVE  Moved(t)
<1>1. /\ pc[t] = "replay" /\ call[t] # None /\ intent[t] # None
      /\ stream[t] = <<>>
      /\ UNCHANGED <<entry, owner, thread, call, task, stream>>
  BY DEF Replay, CallsSteady, Steady, ledger
<1>2. CASE Goto(t, "again") /\ UNCHANGED intent
  <2>1. "again" \in Awaits
    BY DEF Awaits
  <2>2. QED
    BY <1>1, <1>2, <2>1, GotoFacts
       DEF CallsSteady, Typed, Steady, Moved, OthersKept
<1>3. CASE Raise(t)
  BY <1>1, <1>3, RaiseFacts
     DEF CallsSteady, Typed, Steady, Moved, OthersKept
<1>4. QED
  BY <1>2, <1>3 DEF Replay

\* The terminal event is one of the two types, and holds what was committed.
LEMMA TellSends ==
  ASSUME CallsSteady, NEW t \in Tokens, Tell(t)
  PROVE  /\ pc[t] = "tell" /\ call[t] \in Requests
         /\ intent[t] \in Finals /\ intent[t] # None
         /\ Len(stream[t]) <= IF intent[t] = TimedOut THEN MaxBeats + 1
                                                      ELSE MaxBeats + 2
         /\ stream' \in [Tokens -> Seq(Events)]
         /\ Len(stream'[t]) = Len(stream[t]) + 1
         /\ \A u \in Tokens \ {t} : stream'[u] = stream[u]
         /\ UNCHANGED <<entry, owner, thread, call, task>>
<1>1. /\ pc[t] = "tell" /\ call[t] \in Requests
      /\ intent[t] \in Finals /\ intent[t] # None
      /\ Len(stream[t]) <= IF intent[t] = TimedOut THEN MaxBeats + 1
                                                   ELSE MaxBeats + 2
      /\ UNCHANGED <<entry, owner, thread, call, task>>
  BY DEF Tell, CallsSteady, Steady, Typed, ledger
<1> DEFINE type == IF intent[t].status = "COMPLETED" THEN "FINAL_MESSAGE"
                                                     ELSE "RUN_FAILED"
<1>2. /\ Typed /\ Send(t, type, intent[t])
      /\ Len(stream[t]) <= MaxBeats + 2
  <2>1. Len(stream[t]) \in Nat /\ MaxBeats \in Nat
    BY LifeAssumption DEF CallsSteady, Typed
  <2>2. QED
    BY <1>1, <2>1 DEF Tell, CallsSteady
<1>3. type \in {"RUN_ACCEPTED", "RUN_HEARTBEAT"} \cup TerminalTypes
  BY DEF TerminalTypes
<1> HIDE DEF type
<1>4. /\ stream' \in [Tokens -> Seq(Events)]
      /\ Len(stream'[t]) = Len(stream[t]) + 1
      /\ \A u \in Tokens \ {t} : stream'[u] = stream[u]
  BY <1>1, <1>2, <1>3, SendFacts
<1>5. QED
  BY <1>1, <1>4

LEMMA MoveTell ==
  ASSUME CallsSteady, NEW t \in Tokens, Tell(t)
  PROVE  Moved(t)
<1>1. /\ pc[t] = "tell" /\ call[t] \in Requests
      /\ UNCHANGED <<entry, owner, thread, call, task>>
      /\ stream' \in [Tokens -> Seq(Events)]
      /\ \A u \in Tokens \ {t} : stream'[u] = stream[u]
  BY TellSends
<1>2. CASE End(t, "returned")
  BY <1>1, <1>2
     DEF CallsSteady, Typed, Steady, Moved, OthersKept, End, Goto, Awaits
<1>3. CASE intent[t] = TimedOut /\ CommitNext(t, ExecutionFailed)
  <2>1. Len(stream'[t]) <= MaxBeats + 2
    <3>1. Len(stream[t]) \in Nat /\ MaxBeats \in Nat
      BY LifeAssumption DEF CallsSteady, Typed
    <3>2. QED
      BY <1>3, <3>1, TellSends
  <2>2. QED
    BY <1>1, <1>3, <2>1, CommitNextFacts, FinalsAre
       DEF CallsSteady, Typed, Steady, Moved, OthersKept
<1>4. CASE Raise(t)
  BY <1>1, <1>4, RaiseFacts
     DEF CallsSteady, Typed, Steady, Moved, OthersKept
<1>5. QED
  BY <1>2, <1>3, <1>4 DEF Tell

LEMMA BeginFacts ==
  ASSUME CallsSteady, NEW q \in Requests, NEW t \in Tokens,
         NEW p \in {"start", "resume", "replay"}, Begin(q, t, p)
  PROVE  /\ call[t] = None /\ pc[t] = "idle"
         /\ call' \in [Tokens -> Requests \cup {None}] /\ call'[t] = q
         /\ pc' \in [Tokens -> Awaits]
         /\ pc'[t] = p \/ (pc'[t] = "raised" /\ p # "replay")
         /\ \A u \in Tokens \ {t} : call'[u] = call[u] /\ pc'[u] = pc[u]
         /\ UNCHANGED <<thread, task, stream>>
         /\ q # None /\ RunOf[q] \in Runs
<1>1. /\ call[t] = None /\ call' = [call EXCEPT ![t] = q]
      /\ pc' = [pc EXCEPT ![t] = p]
           \/ (pc' = [pc EXCEPT ![t] = "raised"] /\ p # "replay")
      /\ UNCHANGED <<thread, task, stream>>
  BY DEF Begin, Goto
<1>2. /\ call \in [Tokens -> Requests \cup {None}] /\ pc \in [Tokens -> Awaits]
      /\ pc[t] = "idle"
  BY <1>1 DEF CallsSteady, Typed, Steady
<1>3. p \in Awaits /\ "raised" \in Awaits
  BY DEF Awaits
<1>4. q # None /\ RunOf[q] \in Runs
  BY LifeNoneAssumption, LifeAssumption
<1>5. QED
  BY <1>1, <1>2, <1>3, <1>4

LEMMA StartEntry ==
  ASSUME Typed, NEW q \in Requests, NEW t \in Tokens, Ledger!Start(q, t)
  PROVE  /\ entry' \in [Runs -> EntryRecords \cup {None}]
         /\ owner' \in [Convs -> Tokens \cup {None}]
         /\ entry[RunOf[q]] = None
         /\ entry'[RunOf[q]] # None /\ entry'[RunOf[q]].req = q
         /\ \A s \in Runs \ {RunOf[q]} : entry'[s] = entry[s]
<1> DEFINE e == [req |-> q, final |-> None, cancel |-> FALSE]
<1>1. /\ RunOf[q] \in Runs /\ e \in EntryRecords /\ e.req = q
  BY LifeAssumption DEF EntryRecords
<1>2. entry[RunOf[q]] = None /\ entry' = [entry EXCEPT ![RunOf[q]] = e]
  BY DEF Ledger!Start
<1>3. owner' \in [Convs -> Tokens \cup {None}]
  BY LifeAssumption DEF Ledger!Start, Ledger!Own, Typed
<1> HIDE DEF e
<1>4. QED
  BY <1>1, <1>2, <1>3, LifeNoneAssumption DEF Typed

LEMMA MoveBegin ==
  ASSUME CallsSteady, NEW q \in Requests, NEW t \in Tokens,
         BeginStarted(q, t) \/ BeginResumed(q, t) \/ BeginReplay(q, t)
  PROVE  Moved(t)
<1>1. CASE BeginStarted(q, t)
  <2>1. Begin(q, t, "start") /\ Ledger!Start(q, t) /\ UNCHANGED intent
    BY <1>1 DEF BeginStarted
  <2>2. QED
    BY <2>1, BeginFacts, StartEntry
       DEF CallsSteady, Typed, Steady, Moved, OthersKept, NoTask
<1>2. CASE BeginResumed(q, t)
  <2>1. /\ Begin(q, t, "resume") /\ Ledger!TakeOver(q, t)
        /\ UNCHANGED <<intent, entry>>
    BY <1>2 DEF BeginResumed, Ledger!TakeOver
  <2>2. owner' \in [Convs -> Tokens \cup {None}]
    BY <2>1, LifeAssumption
       DEF Ledger!TakeOver, Ledger!Own, CallsSteady, Typed
  <2>3. QED
    BY <2>1, <2>2, BeginFacts
       DEF CallsSteady, Typed, Steady, Moved, OthersKept, NoTask
<1>3. CASE BeginReplay(q, t)
  <2>1. /\ Begin(q, t, "replay") /\ UNCHANGED <<entry, owner>>
        /\ entry[RunOf[q]] # None /\ entry[RunOf[q]].final # None
        /\ intent' = [intent EXCEPT ![t] = entry[RunOf[q]].final]
    BY <1>3 DEF BeginReplay, ledger
  <2>2. entry[RunOf[q]].final \in Finals
    BY <2>1, LifeAssumption DEF CallsSteady, Typed, EntryRecords
  <2>3. QED
    BY <2>1, <2>2, BeginFacts
       DEF CallsSteady, Typed, Steady, Moved, OthersKept, NoTask
<1>4. QED
  BY <1>1, <1>2, <1>3

LEMMA MoveGraph ==
  ASSUME CallsSteady, NEW t \in Tokens, Graph(t)
  PROVE  Moved(t)
<1>1. /\ pc[t] # "idle" /\ call[t] \in Requests /\ Conv(t) \in Convs
      /\ UNCHANGED <<entry, owner, call, pc, intent, stream>>
  <2>1. task[t].stage \in Working
    BY DEF Graph, GraphInput, GraphLoad, GraphSync, GraphAnswer, GraphError,
           GraphCancelled, Working
  <2>2. pc[t] # "idle"
    BY <2>1 DEF CallsSteady, Steady, NoTask, Working
  <2>3. QED
    BY <2>2, LifeAssumption
       DEF Graph, CallsSteady, Steady, Typed, ledger, Conv
<1>2. ASSUME NEW stage \in Working \cup {"done", "error", "cancelled"},
             NEW req \in Requests \cup {None},
             stage \in {"sync", "answer"} => req \in Requests,
             Step(t, stage, req),
             thread' \in [Convs -> Checkpoints \cup {None}]
      PROVE  Moved(t)
  <2> DEFINE k == [stage |-> stage, req |-> req]
  <2>1. k \in TaskRecords /\ k.stage = stage /\ k.req = req
    BY DEF TaskRecords
  <2>2. task' = [task EXCEPT ![t] = k]
    BY <1>2 DEF Step
  <2> HIDE DEF k
  <2>3. QED
    BY <1>1, <1>2, <2>1, <2>2
       DEF CallsSteady, Typed, Steady, Moved, OthersKept
<1>3. ASSUME NEW stage \in Stages, NEW req \in Requests,
             NEW answer \in Answers \cup {None}, Write(t, stage, req, answer)
      PROVE  thread' \in [Convs -> Checkpoints \cup {None}]
  <2>1. [req |-> req, stage |-> stage, answer |-> answer, by |-> t]
          \in Checkpoints
    BY <1>3 DEF Checkpoints, Calls
  <2>2. QED
    BY <1>3, <2>1 DEF Write, CallsSteady, Typed
<1>4. thread[Conv(t)] \in Checkpoints \cup {None}
  BY <1>1 DEF CallsSteady, Typed
<1>5. CASE GraphInput(t)
  <2> DEFINE a == IF thread[Conv(t)] = None THEN None
                  ELSE thread[Conv(t)].answer
  <2>1. a \in Answers \cup {None} /\ "input" \in Stages
    BY <1>4 DEF Checkpoints, Stages
  <2>2. Write(t, "input", call[t], a) /\ Step(t, "sync", call[t])
    BY <1>5 DEF GraphInput
  <2> HIDE DEF a
  <2>3. QED
    BY <1>1, <1>2, <1>3, <2>1, <2>2 DEF Working
<1>6. CASE GraphLoad(t)
  <2>1. thread[Conv(t)].req \in Requests /\ UNCHANGED thread
    BY <1>4, <1>6 DEF GraphLoad, Checkpoints
  <2>2. thread' \in [Convs -> Checkpoints \cup {None}]
    BY <2>1 DEF CallsSteady, Typed
  <2>3. QED
    BY <1>2, <1>6, <2>1, <2>2 DEF GraphLoad, Finish, Working
<1>7. CASE GraphSync(t)
  <2>1. /\ Write(t, "sync", call[t], None) /\ Step(t, "answer", call[t])
        /\ "sync" \in Stages
    BY <1>7 DEF GraphSync, Stages
  <2>2. QED
    BY <1>1, <1>2, <1>3, <2>1 DEF Working
<1>8. CASE GraphAnswer(t)
  <2> DEFINE a == [req |-> task[t].req, by |-> t]
  <2>1. /\ task[t].req \in Requests /\ a \in Answers /\ "end" \in Stages
    BY <1>8 DEF GraphAnswer, CallsSteady, Steady, Answers, Calls, Stages
  <2>2. Write(t, "end", task[t].req, a) /\ Step(t, "done", None)
    BY <1>8 DEF GraphAnswer, Finish
  <2> HIDE DEF a
  <2>3. QED
    BY <1>2, <1>3, <2>1, <2>2
<1>9. CASE GraphError(t)
  <2>1. Step(t, "error", None) /\ thread' \in [Convs -> Checkpoints \cup {None}]
    BY <1>9 DEF GraphError, Finish, CallsSteady, Typed
  <2>2. QED
    BY <1>2, <2>1
<1>10. CASE GraphCancelled(t)
  <2>1. /\ Step(t, "cancelled", None)
        /\ thread' \in [Convs -> Checkpoints \cup {None}]
    BY <1>10 DEF GraphCancelled, Finish, CallsSteady, Typed
  <2>2. QED
    BY <1>2, <2>1
<1>11. QED
  BY <1>5, <1>6, <1>7, <1>8, <1>9, <1>10 DEF Graph

LEMMA MoveAbort ==
  ASSUME CallsSteady, NEW t \in Tokens, Abort(t)
  PROVE  Moved(t)
  BY RaiseFacts
     DEF Abort, Live, CallsSteady, Typed, Steady, Moved, OthersKept, ledger

LEMMA MoveCrash ==
  ASSUME CallsSteady, NEW t \in Tokens, Crash(t)
  PROVE  Moved(t)
<1>1. /\ Raise(t) /\ DropTask(t)
      /\ UNCHANGED <<entry, owner, thread, call, stream>>
  BY DEF Crash, ledger
<1>2. call[t] # None
  BY DEF Crash, Live, CallsSteady, Steady, NoTask, Working
<1>3. QED
  BY <1>1, <1>2, RaiseFacts, TaskFacts
     DEF CallsSteady, Typed, Steady, Moved, OthersKept

\* Every step of the calls is a move of one call; the environment's other
\* steps touch only the store.
LEMMA CallMoves ==
  ASSUME CallsSteady, NEW t \in Tokens,
         \/ \E q \in Requests \ Past :
              BeginStarted(q, t) \/ BeginResumed(q, t) \/ BeginReplay(q, t)
         \/ CallStep(t) \/ Timeout(t) \/ Graph(t) \/ Abort(t) \/ Crash(t)
  PROVE  Moved(t)
<1>1. CASE CallStep(t)
  BY <1>1, MoveAccept, MoveGraphReturned, MovePollCancel, MoveRenew, MoveBeat,
     MoveStopped, MoveRecheck, MoveRead, MoveCommit, MoveCommitRefused, MoveTell, MoveReplay
     DEF CallStep
<1>2. QED
  BY <1>1, MoveBegin, MoveTimeout, MoveGraph, MoveAbort, MoveCrash

LEMMA StoreSteps ==
  ASSUME CallsSteady,
         \/ \E r \in Runs : RequestCancel(r) \/ HashExpires(r)
         \/ \E c \in Convs : LeaseExpires(c)
  PROVE  /\ Typed'
         /\ UNCHANGED <<thread, call, pc, intent, task, stream>>
<1>1. ASSUME NEW r \in Runs, RequestCancel(r)
      PROVE  /\ Typed'
             /\ UNCHANGED <<thread, call, pc, intent, task, stream>>
  <2>1. entry[r] \in EntryRecords
    BY <1>1 DEF RequestCancel, Ledger!RequestCancel, Ledger!InFlight,
                CallsSteady, Typed
  <2>2. entry' \in [Runs -> EntryRecords \cup {None}]
    BY <1>1, <2>1 DEF RequestCancel, Ledger!RequestCancel, CallsSteady, Typed,
                      EntryRecords
  <2>3. QED
    BY <1>1, <2>2
       DEF RequestCancel, Ledger!RequestCancel, CallsSteady, Typed
<1>2. ASSUME NEW r \in Runs, HashExpires(r)
      PROVE  /\ Typed'
             /\ UNCHANGED <<thread, call, pc, intent, task, stream>>
  BY <1>2 DEF HashExpires, CallsSteady, Typed
<1>3. ASSUME NEW c \in Convs, LeaseExpires(c)
      PROVE  /\ Typed'
             /\ UNCHANGED <<thread, call, pc, intent, task, stream>>
  BY <1>3 DEF LeaseExpires, CallsSteady, Typed
<1>4. QED
  BY <1>1, <1>2, <1>3

LEMMA SteadyNext == CallsSteady /\ [LifeNext]_lifeVars => CallsSteady'
<1> SUFFICES ASSUME CallsSteady, [LifeNext]_lifeVars
             PROVE  CallsSteady'
  OBVIOUS
<1>1. CASE UNCHANGED lifeVars
  BY <1>1 DEF lifeVars, CallsSteady, Typed, Steady
<1>2. CASE \/ \E r \in Runs : RequestCancel(r) \/ HashExpires(r)
           \/ \E c \in Convs : LeaseExpires(c)
  BY <1>2, StoreSteps DEF CallsSteady, Steady
<1>3. CASE \E t \in Tokens :
             \/ \E q \in Requests \ Past :
                  BeginStarted(q, t) \/ BeginResumed(q, t) \/ BeginReplay(q, t)
             \/ CallStep(t) \/ Timeout(t) \/ Graph(t) \/ Abort(t) \/ Crash(t)
  BY <1>3, CallMoves, Frame
<1>4. QED
  BY <1>1, <1>2, <1>3 DEF LifeNext

LEMMA SteadyInit == LifeInit => CallsSteady
<1> SUFFICES ASSUME LifeInit
             PROVE  CallsSteady
  OBVIOUS
<1>1. \A q \in Past : AnsweredThread(q) \in Checkpoints
  BY LifeAssumption
     DEF AnsweredThread, Checkpoints, Stages, Answers, Calls
<1>2. NoTask \in TaskRecords /\ NoTask.stage = "none"
  BY DEF NoTask, TaskRecords
<1>3. <<>> \in Seq(Events)
  OBVIOUS
<1>4. Typed
  BY <1>1, <1>2, <1>3 DEF LifeInit, Typed, Awaits
<1>5. \A t \in Tokens : Steady(t)
  BY <1>2 DEF LifeInit, Steady
<1>6. QED
  BY <1>4, <1>5 DEF CallsSteady

THEOREM SteadyAlways == LifeSpec => []CallsSteady
  BY SteadyInit, SteadyNext, PTL DEF LifeSpec

(* Every call, task, checkpoint and event keeps its type whatever fails, a  *)
(* call that is about to commit, tell or replay knows what, and a stream    *)
(* never grows beyond the heartbeats and its two other events.              *)
THEOREM LifeTypeCorrect == LifeSpec => []LifeTypeOK
<1>1. CallsSteady => LifeTypeOK
  <2> SUFFICES ASSUME CallsSteady
               PROVE  LifeTypeOK
    OBVIOUS
  <2>1. \A t \in Tokens : \A i \in 1..Len(stream[t]) : stream[t][i] \in Events
    BY DEF CallsSteady, Typed
  <2>2. QED
    BY <2>1 DEF CallsSteady, Typed, Steady, LifeTypeOK
<1>2. QED
  BY <1>1, SteadyAlways, PTL

-----------------------------------------------------------------------------
(* The ends.  While a call lives the store remembers its run under its own  *)
(* request, and what the call is about to tell is the run's final.          *)
Kept(t) ==
  Live(t) => /\ entry[Run(t)] # None
             /\ entry[Run(t)].req = call[t]
Told(t) ==
  pc[t] \in {"replay", "again", "tell"} => entry[Run(t)].final = intent[t]

EndsAgree == \A t \in Tokens : Kept(t) /\ Told(t)

\* An entry keeps its request, and its final once it has one, until the
\* hash expires.
EntryKept(r) ==
  /\ entry'[r] # None
  /\ entry'[r].req = entry[r].req
  /\ entry[r].final # None => entry'[r].final = entry[r].final

LEMMA EntryStays ==
  ASSUME CallsSteady, [LifeNext]_lifeVars, NEW r \in Runs,
         entry[r] # None, ~HashExpires(r)
  PROVE  EntryKept(r)
<1>1. CASE UNCHANGED entry
  BY <1>1 DEF EntryKept
<1>2. ASSUME NEW q \in Requests, NEW t \in Tokens, BeginStarted(q, t)
      PROVE  EntryKept(r)
  BY <1>2, StartEntry DEF BeginStarted, CallsSteady, EntryKept
<1>3. ASSUME NEW t \in Tokens, Commit(t)
      PROVE  EntryKept(r)
  <2>1. /\ call[t] \in Requests /\ Run(t) \in Runs /\ intent[t] \in Finals
    BY <1>3, LifeAssumption DEF Commit, CallsSteady, Steady, Typed, Run
  <2>2. CASE Ledger!Commit(t, Run(t), intent[t])
    BY <2>1, <2>2, CommitEntry, LifeNoneAssumption
       DEF CallsSteady, EntryKept
  <2>3. CASE UNCHANGED ledger
    BY <2>3, <1>1 DEF ledger
  <2>4. QED
    BY <1>3, <2>2, <2>3 DEF Commit
<1>4. ASSUME NEW s \in Runs, RequestCancel(s)
      PROVE  EntryKept(r)
  <2>1. /\ entry[s] \in EntryRecords
        /\ entry' = [entry EXCEPT ![s].cancel = TRUE]
    BY <1>4 DEF RequestCancel, Ledger!RequestCancel, Ledger!InFlight,
                CallsSteady, Typed
  <2>2. /\ entry'[s] \in EntryRecords
        /\ entry'[s].req = entry[s].req /\ entry'[s].final = entry[s].final
        /\ \A u \in Runs \ {s} : entry'[u] = entry[u]
    BY <2>1 DEF CallsSteady, Typed, EntryRecords
  <2>3. QED
    BY <2>2, LifeNoneAssumption DEF EntryKept
<1>5. ASSUME NEW s \in Runs, HashExpires(s)
      PROVE  EntryKept(r)
  <2>1. s # r
    BY <1>5
  <2>2. QED
    BY <1>5, <2>1 DEF HashExpires, EntryKept, CallsSteady, Typed
<1>6. ASSUME NEW t \in Tokens, CallStep(t), ~Commit(t)
      PROVE  UNCHANGED entry
  <2>1. UNCHANGED ledger => UNCHANGED entry
    BY DEF ledger
  <2>2. Accept(t) \/ GraphReturned(t) \/ PollCancel(t) \/ Renew(t)
          => UNCHANGED ledger
    BY DEF Accept, GraphReturned, PollCancel, Renew
  <2>3. Beat(t) \/ Stopped(t) \/ Recheck(t) \/ Read(t) => UNCHANGED ledger
    BY DEF Beat, Stopped, Recheck, Read
  <2>4. CommitRefused(t) \/ Tell(t) \/ Replay(t) => UNCHANGED ledger
    BY DEF CommitRefused, Tell, Replay
  <2>5. QED
    BY <1>6, <2>1, <2>2, <2>3, <2>4 DEF CallStep
<1>7. ASSUME NEW t \in Tokens,
             Timeout(t) \/ Graph(t) \/ Abort(t) \/ Crash(t)
      PROVE  UNCHANGED entry
  BY <1>7 DEF ledger, Timeout, Graph, Abort, Crash
<1>8. ASSUME NEW t \in Tokens, NEW q \in Requests,
             BeginResumed(q, t) \/ BeginReplay(q, t)
      PROVE  UNCHANGED entry
  BY <1>8 DEF ledger, BeginResumed, Ledger!TakeOver, BeginReplay
<1>9. CASE UNCHANGED lifeVars \/ \E c \in Convs : LeaseExpires(c)
  BY <1>9, <1>1 DEF lifeVars, LeaseExpires
<1>10. QED
  BY <1>1, <1>2, <1>3, <1>4, <1>5, <1>6, <1>7, <1>8, <1>9 DEF LifeNext

\* A step of t on which nothing is told next, and no call begins.
LEMMA Onward ==
  ASSUME CallsSteady, EndsAgree, NEW t \in Tokens, UNCHANGED <<entry, call>>,
         pc'[t] \notin {"replay", "again", "tell"},
         Live(t) \/ pc'[t] \in {"returned", "raised"}
  PROVE  Kept(t)' /\ Told(t)'
  BY DEF EndsAgree, Kept, Told, Live, Run

LEMMA EndsMove ==
  ASSUME CallsSteady, EndsAgree, NEW t \in Tokens,
         \/ \E q \in Requests \ Past :
              BeginStarted(q, t) \/ BeginResumed(q, t) \/ BeginReplay(q, t)
         \/ CallStep(t) \/ Timeout(t) \/ Graph(t) \/ Abort(t) \/ Crash(t)
  PROVE  Kept(t)' /\ Told(t)'
<1> USE DEF CallsSteady
<1>1. CASE Accept(t)
  <2>1. CASE Raise(t)
    BY <1>1, <2>1, RaiseFacts, Onward DEF Accept, ledger
  <2>2. CASE Goto(t, IF pc[t] = "again" THEN "tell" ELSE "drive")
             /\ UNCHANGED intent
    <3>1. /\ UNCHANGED <<entry, call, intent>>
          /\ pc[t] \in {"start", "resume", "again"}
          /\ pc'[t] = IF pc[t] = "again" THEN "tell" ELSE "drive"
      BY <1>1, <2>2 DEF Accept, ledger, Goto, Typed
    <3>2. QED
      BY <3>1 DEF EndsAgree, Kept, Told, Live, Run
  <2>3. QED
    BY <1>1, <2>1, <2>2 DEF Accept
<1>2. CASE GraphReturned(t) \/ PollCancel(t) \/ Renew(t) \/ Beat(t)
           \/ Stopped(t) \/ Recheck(t) \/ Read(t) \/ Timeout(t)
  <2>1. UNCHANGED <<entry, call>> /\ Live(t)
    BY <1>2 DEF GraphReturned, PollCancel, Renew, Beat, Stopped, Recheck, Read,
                Timeout, ledger, Live
  <2>2. pc'[t] \in {"recheck", "commit", "renew", "beat", "drive", "read",
                    "stop", "raised"}
    <3>1. CASE GraphReturned(t) \/ PollCancel(t) \/ Renew(t) \/ Timeout(t)
      BY <1>2, <3>1
         DEF GraphReturned, PollCancel, Renew, Timeout, CancelTask, Follow,
             CommitNext, Raise, End, Goto, Typed
    <3>2. CASE Beat(t) \/ Stopped(t) \/ Recheck(t) \/ Read(t)
      BY <1>2, <3>2
         DEF Beat, Stopped, Recheck, Read, CancelTask, Follow,
             CommitNext, Raise, End, Goto, Typed
    <3>3. QED
      BY <1>2, <3>1, <3>2
  <2>3. QED
    BY <2>1, <2>2, Onward
<1>3. CASE CommitRefused(t) \/ Abort(t) \/ Crash(t)
  BY <1>3, RaiseFacts, Onward DEF CommitRefused, Abort, Crash, ledger
<1>4. CASE Commit(t)
  <2>1. /\ pc[t] = "commit" /\ call[t] \in Requests /\ call' = call
        /\ Run(t) \in Runs /\ intent[t] \in Finals
    BY <1>4, LifeAssumption DEF Commit, Steady, Typed, Run
  <2>2. /\ entry'[Run(t)] # None
        /\ entry'[Run(t)].req = call[t]
        /\ entry'[Run(t)].final = intent[t]
    <3>1. entry[Run(t)] # None /\ entry[Run(t)].req = call[t]
      BY <2>1 DEF EndsAgree, Kept, Live
    <3>2. QED
      BY <1>4, <2>1, <3>1, CommitEntry, LifeNoneAssumption DEF Commit, ledger
  <2>3. CASE AfterCommit(t)
    BY <2>1, <2>2, <2>3, AfterCommitFacts DEF Kept, Told, Live, Run
  <2>4. CASE Raise(t)
    BY <2>1, <2>2, <2>4, RaiseFacts DEF Kept, Told, Live, Run
  <2>5. QED
    BY <1>4, <2>3, <2>4 DEF Commit
<1>5. CASE Tell(t)
  <2>1. UNCHANGED <<entry, call>> /\ Live(t)
    BY <1>5 DEF Tell, ledger, Live
  <2>2. pc'[t] \in {"returned", "commit", "raised"}
    BY <1>5 DEF Tell, CommitNext, Raise, End, Goto, Typed
  <2>3. QED
    BY <2>1, <2>2, Onward
<1>6. CASE Replay(t)
  <2>1. CASE Raise(t)
    BY <1>6, <2>1, RaiseFacts, Onward DEF Replay, ledger
  <2>2. CASE Goto(t, "again") /\ UNCHANGED intent
    BY <1>6, <2>2
       DEF Replay, ledger, Goto, Typed, EndsAgree, Kept, Told, Live, Run
  <2>3. QED
    BY <1>6, <2>1, <2>2 DEF Replay
<1>7. CASE Graph(t)
  BY <1>7 DEF Graph, ledger, EndsAgree, Kept, Told, Live, Run
<1>8. ASSUME NEW q \in Requests, BeginStarted(q, t)
      PROVE  Kept(t)' /\ Told(t)'
  BY <1>8, BeginFacts, StartEntry DEF BeginStarted, Kept, Told, Live, Run
<1>9. ASSUME NEW q \in Requests, BeginResumed(q, t)
      PROVE  Kept(t)' /\ Told(t)'
  BY <1>9, BeginFacts
     DEF BeginResumed, Ledger!TakeOver, Ledger!InFlight, Kept, Told, Live, Run
<1>10. ASSUME NEW q \in Requests, BeginReplay(q, t)
       PROVE  Kept(t)' /\ Told(t)'
  <2>1. /\ Begin(q, t, "replay") /\ UNCHANGED entry
        /\ entry[RunOf[q]] # None /\ entry[RunOf[q]].req = q
        /\ intent'[t] = entry[RunOf[q]].final
    BY <1>10 DEF BeginReplay, ledger, Typed
  <2>2. QED
    BY <2>1, BeginFacts DEF Kept, Told, Live, Run
<1>11. QED
  BY <1>1, <1>2, <1>3, <1>4, <1>5, <1>6, <1>7, <1>8, <1>9, <1>10 DEF CallStep

LEMMA EndsNext ==
  CallsSteady /\ EndsAgree /\ [LifeNext]_lifeVars => EndsAgree'
<1> SUFFICES ASSUME CallsSteady, EndsAgree, [LifeNext]_lifeVars,
                    NEW u \in Tokens
             PROVE  Kept(u)' /\ Told(u)'
  BY DEF EndsAgree
\* Whatever happens to the others, a call that stays keeps its entry.
<1>1. ASSUME call'[u] = call[u], pc'[u] = pc[u], intent'[u] = intent[u]
      PROVE  Kept(u)' /\ Told(u)'
  <2> SUFFICES ASSUME Live(u)
               PROVE  Kept(u)' /\ Told(u)'
    BY <1>1 DEF Kept, Told, Live
  <2>1. /\ entry[Run(u)] # None /\ entry[Run(u)].req = call[u]
        /\ Run(u) \in Runs
        /\ pc[u] \in {"replay", "again", "tell"} =>
             entry[Run(u)].final = intent[u] /\ intent[u] # None
    BY LifeAssumption
       DEF EndsAgree, Kept, Told, Live, Run, CallsSteady, Steady, Typed
  <2>2. ~HashExpires(Run(u))
    BY DEF HashExpires
  <2>3. EntryKept(Run(u))
    BY <2>1, <2>2, EntryStays
  <2>4. QED
    BY <1>1, <2>1, <2>3 DEF EntryKept, Kept, Told, Run
<1>2. CASE UNCHANGED lifeVars
  BY <1>1, <1>2 DEF lifeVars
<1>3. CASE \/ \E r \in Runs : RequestCancel(r) \/ HashExpires(r)
           \/ \E c \in Convs : LeaseExpires(c)
  BY <1>1, <1>3, StoreSteps
<1>4. ASSUME NEW t \in Tokens,
             \/ \E q \in Requests \ Past :
                  BeginStarted(q, t) \/ BeginResumed(q, t) \/ BeginReplay(q, t)
             \/ CallStep(t) \/ Timeout(t) \/ Graph(t) \/ Abort(t) \/ Crash(t)
      PROVE  Kept(u)' /\ Told(u)'
  <2>1. CASE u = t
    BY <1>4, <2>1, EndsMove
  <2>2. CASE u # t
    BY <1>1, <1>4, <2>2, CallMoves DEF Moved, OthersKept
  <2>3. QED
    BY <2>1, <2>2
<1>5. QED
  BY <1>2, <1>3, <1>4 DEF LifeNext

THEOREM EndsAgreeAlways == LifeSpec => []EndsAgree
<1>1. LifeInit => EndsAgree
  BY DEF LifeInit, EndsAgree, Kept, Told, Live
<1>2. QED
  BY <1>1, EndsNext, SteadyAlways, PTL DEF LifeSpec

-----------------------------------------------------------------------------
\* Only Tell adds a terminal event: the final the call was about to tell.
LEMMA NewEvents ==
  ASSUME CallsSteady, [LifeNext]_lifeVars, NEW t \in Tokens,
         NEW e \in TerminalEvents(t)' \ TerminalEvents(t)
  PROVE  /\ Tell(t)
         /\ e.req = call[t] /\ e.final = intent[t]
         /\ e.type = IF intent[t].status = "COMPLETED" THEN "FINAL_MESSAGE"
                                                       ELSE "RUN_FAILED"
<1>1. ASSUME stream'[t] = stream[t]
      PROVE  FALSE
  BY <1>1 DEF TerminalEvents
<1>2. ASSUME NEW type, NEW final, Send(t, type, final)
      PROVE  e = [type |-> type, req |-> call[t], index |-> Len(stream[t]) + 1,
                  final |-> final]
  <2> DEFINE new == [type |-> type, req |-> call[t],
                     index |-> Len(stream[t]) + 1, final |-> final]
  <2>1. stream'[t] = Append(stream[t], new) /\ stream[t] \in Seq(Events)
    BY <1>2 DEF Send, CallsSteady, Typed
  <2> HIDE DEF new
  <2>2. PICK i \in 1..Len(stream'[t]) : /\ stream'[t][i] = e
                                       /\ e.type \in TerminalTypes
    BY DEF TerminalEvents
  <2>3. CASE i = Len(stream[t]) + 1
    BY <2>1, <2>2, <2>3 DEF new
  <2>4. CASE i # Len(stream[t]) + 1
    <3>1. i \in 1..Len(stream[t]) /\ stream[t][i] = e
      BY <2>1, <2>2, <2>4
    <3>2. QED
      BY <2>2, <3>1 DEF TerminalEvents
  <2>5. QED
    BY <2>3, <2>4
<1>3. e.type \in TerminalTypes
  BY DEF TerminalEvents
<1>4. CASE Accept(t) \/ Beat(t)
  BY <1>2, <1>3, <1>4 DEF Accept, Beat, TerminalTypes
<1>5. CASE Tell(t)
  BY <1>2, <1>5 DEF Tell
<1>6. CASE ~(Accept(t) \/ Beat(t) \/ Tell(t))
  <2>1. stream'[t] = stream[t]
    <3>1. ASSUME NEW u \in Tokens \ {t},
                 \/ \E q \in Requests \ Past :
                      BeginStarted(q, u) \/ BeginResumed(q, u) \/ BeginReplay(q, u)
                 \/ CallStep(u) \/ Timeout(u) \/ Graph(u) \/ Abort(u) \/ Crash(u)
          PROVE  stream'[t] = stream[t]
      BY <3>1, CallMoves DEF Moved, OthersKept
    <3>2. CASE \/ \E r \in Runs : RequestCancel(r) \/ HashExpires(r)
               \/ \E c \in Convs : LeaseExpires(c)
      BY <3>2, StoreSteps
    <3>3. CASE CallStep(t)
      <4>1. GraphReturned(t) \/ PollCancel(t) \/ Renew(t) \/ Stopped(t)
              \/ Recheck(t) => UNCHANGED stream
        BY DEF GraphReturned, PollCancel, Renew, Stopped, Recheck
      <4>2. Read(t) \/ Commit(t) \/ CommitRefused(t) \/ Replay(t)
              => UNCHANGED stream
        BY DEF Read, Commit, CommitRefused, Replay
      <4>3. QED
        BY <1>6, <3>3, <4>1, <4>2 DEF CallStep
    <3>4. CASE Timeout(t) \/ Graph(t) \/ Abort(t) \/ Crash(t)
      BY <3>4 DEF Timeout, Graph, Abort, Crash
    <3>5. ASSUME NEW q \in Requests,
                 BeginStarted(q, t) \/ BeginResumed(q, t) \/ BeginReplay(q, t)
          PROVE  stream'[t] = stream[t]
      BY <3>5 DEF BeginStarted, BeginResumed, BeginReplay, Begin
    <3>6. CASE UNCHANGED lifeVars
      BY <3>6 DEF lifeVars
    <3>7. QED
      BY <3>1, <3>2, <3>3, <3>4, <3>5, <3>6 DEF LifeNext
  <2>2. QED
    BY <1>1, <2>1
<1>7. QED
  BY <1>4, <1>5, <1>6

(* Nobody is told an end that the store does not hold for that very request *)
(* at that moment: not by a call that lost its lease, not by a replay.      *)
THEOREM TerminalEventsCommittedHolds == LifeSpec => TerminalEventsCommitted
<1>1. CallsSteady /\ EndsAgree /\ [LifeNext]_lifeVars =>
        [\A t \in Tokens : \A e \in TerminalEvents(t)' \ TerminalEvents(t) :
           /\ entry[RunOf[e.req]] # None
           /\ entry[RunOf[e.req]].req = e.req
           /\ entry[RunOf[e.req]].final = e.final]_lifeVars
  <2> SUFFICES ASSUME CallsSteady, EndsAgree, [LifeNext]_lifeVars,
                      NEW t \in Tokens,
                      NEW e \in TerminalEvents(t)' \ TerminalEvents(t)
               PROVE  /\ entry[RunOf[e.req]] # None
                      /\ entry[RunOf[e.req]].req = e.req
                      /\ entry[RunOf[e.req]].final = e.final
    OBVIOUS
  <2>1. Tell(t) /\ e.req = call[t] /\ e.final = intent[t]
    BY NewEvents
  <2>2. pc[t] = "tell"
    BY <2>1 DEF Tell
  <2>3. QED
    BY <2>1, <2>2 DEF EndsAgree, Kept, Told, Live, Run
<1>2. QED
  BY <1>1, SteadyAlways, EndsAgreeAlways, PTL
     DEF LifeSpec, TerminalEventsCommitted

\* What was ever told about a run is what the store still says about it.
EndsRemembered ==
  "forget" \notin Faults =>
    \A t \in Tokens : \A e \in TerminalEvents(t) :
      /\ e.req \in Requests
      /\ entry[RunOf[e.req]] # None
      /\ entry[RunOf[e.req]].final = e.final
      /\ e.final # None

LEMMA RememberedNext ==
  CallsSteady /\ EndsAgree /\ EndsRemembered /\ [LifeNext]_lifeVars
    => EndsRemembered'
<1> SUFFICES ASSUME CallsSteady, EndsAgree, EndsRemembered,
                    [LifeNext]_lifeVars, "forget" \notin Faults,
                    NEW t \in Tokens, NEW e \in TerminalEvents(t)'
             PROVE  /\ e.req \in Requests
                    /\ entry'[RunOf[e.req]] # None
                    /\ entry'[RunOf[e.req]].final = e.final
                    /\ e.final # None
  BY DEF EndsRemembered
<1>1. CASE e \in TerminalEvents(t)
  <2>1. /\ e.req \in Requests /\ RunOf[e.req] \in Runs
        /\ entry[RunOf[e.req]] # None
        /\ entry[RunOf[e.req]].final = e.final /\ e.final # None
    BY <1>1, LifeAssumption DEF EndsRemembered
  <2>2. ~HashExpires(RunOf[e.req])
    BY DEF HashExpires
  <2>3. QED
    BY <2>1, <2>2, EntryStays DEF EntryKept
<1>2. CASE e \notin TerminalEvents(t)
  <2>1. Tell(t) /\ e.req = call[t] /\ e.final = intent[t]
    BY <1>2, NewEvents
  <2>2. pc[t] = "tell" /\ call[t] \in Requests /\ intent[t] # None
        /\ UNCHANGED entry
    BY <2>1, TellSends
  <2>3. QED
    BY <2>1, <2>2 DEF EndsAgree, Kept, Told, Live, Run
<1>3. QED
  BY <1>1, <1>2

(* All calls that tell the end of a run tell the same end, as long as its   *)
(* hash does not expire.                                                    *)
THEOREM OneEndPerRunHolds == LifeSpec => []OneEndPerRun
<1>1. LifeInit => EndsRemembered
  BY DEF LifeInit, EndsRemembered, TerminalEvents
<1>2. EndsRemembered => OneEndPerRun
  BY DEF EndsRemembered, OneEndPerRun
<1>3. QED
  BY <1>1, <1>2, RememberedNext, SteadyAlways, EndsAgreeAlways, PTL DEF LifeSpec

-----------------------------------------------------------------------------
\* A graph works only while its call drives it, or waits for it to stop.
Driven(t) ==
  task[t].stage \in Working => pc[t] \in {"drive", "renew", "beat", "stop"}

LEMMA DrivenMove ==
  ASSUME "abort" \notin Faults, CallsSteady, NEW t \in Tokens, Driven(t),
         \/ \E q \in Requests \ Past :
              BeginStarted(q, t) \/ BeginResumed(q, t) \/ BeginReplay(q, t)
         \/ CallStep(t) \/ Timeout(t) \/ Graph(t) \/ Abort(t) \/ Crash(t)
  PROVE  Driven(t)'
<1> USE DEF CallsSteady, Driven
<1>1. CASE DropTask(t)
  BY <1>1, TaskFacts DEF Working
<1>2. ASSUME NEW f \in Finals \cup {None}, CancelTask(t, f)
       PROVE  Driven(t)'
  BY <1>2, CancelFacts DEF Working
<1>3. CASE UNCHANGED task /\ task[t].stage \notin Working
  BY <1>3
<1>4. CASE Accept(t)
  <2>1. CASE UNCHANGED task
    BY <1>3, <1>4, <2>1 DEF Accept
  <2>2. CASE /\ Goto(t, IF pc[t] = "again" THEN "tell" ELSE "drive")
             /\ task' = [task EXCEPT ![t].stage =
                           CASE pc[t] = "start" -> "input"
                             [] pc[t] = "resume" -> "load" [] OTHER -> @]
    <3>1. /\ pc[t] \in {"start", "resume", "again"}
          /\ pc'[t] = IF pc[t] = "again" THEN "tell" ELSE "drive"
      BY <1>4, <2>2 DEF Accept, Goto, Typed
    <3>2. CASE pc[t] # "again"
      BY <3>1, <3>2
    <3>3. CASE pc[t] = "again"
      <4>1. task'[t].stage = task[t].stage
        BY <2>2, <3>3 DEF Typed, TaskRecords
      <4>2. QED
        BY <3>3, <4>1
    <3>4. QED
      BY <3>2, <3>3
  <2>3. QED
    BY <1>4, <2>1, <2>2 DEF Accept
<1>5. CASE GraphReturned(t) \/ Stopped(t) \/ Crash(t)
  BY <1>1, <1>5 DEF GraphReturned, Stopped, Crash
<1>6. CASE Timeout(t)
  BY <1>6, <1>2, FinalsAre DEF Timeout
<1>7. CASE PollCancel(t)
  <2>1. CASE Goto(t, "renew") /\ UNCHANGED task
    BY <2>1 DEF Goto, Typed
  <2>2. QED
    BY <1>7, <1>2, <2>1, FinalsAre DEF PollCancel
<1>8. CASE Renew(t)
  <2>1. CASE Goto(t, "beat") /\ UNCHANGED task
    BY <2>1 DEF Goto, Typed
  <2>2. QED
    BY <1>8, <1>2, <2>1, FinalsAre DEF Renew
<1>9. CASE Beat(t)
  <2>1. CASE Goto(t, "drive") /\ UNCHANGED task
    BY <2>1 DEF Goto, Typed
  <2>2. QED
    BY <1>9, <1>2, <2>1, FinalsAre DEF Beat
<1>10. CASE Recheck(t) \/ Read(t) \/ Commit(t)
  BY <1>3, <1>10 DEF Recheck, Read, Commit
<1>11. CASE CommitRefused(t) \/ Tell(t) \/ Replay(t)
  BY <1>3, <1>11 DEF CommitRefused, Tell, Replay
<1>12. CASE Graph(t)
  <2>1. task[t].stage \in Working /\ UNCHANGED pc
    BY <1>12 DEF Graph, GraphInput, GraphLoad, GraphSync, GraphAnswer,
                 GraphError, GraphCancelled, Working
  <2>2. QED
    BY <2>1
<1>13. ASSUME NEW q \in Requests,
              BeginStarted(q, t) \/ BeginResumed(q, t) \/ BeginReplay(q, t)
       PROVE  Driven(t)'
  <2>1. UNCHANGED task /\ call[t] = None
    BY <1>13 DEF BeginStarted, BeginResumed, BeginReplay, Begin
  <2>2. task[t].stage \notin Working
    BY <2>1 DEF Steady, NoTask, Working
  <2>3. QED
    BY <1>3, <2>1, <2>2
<1>14. QED
  BY <1>4, <1>5, <1>7, <1>8, <1>9, <1>10, <1>11, <1>12, <1>13, <1>6
     DEF CallStep, Abort

LEMMA DrivenNext ==
  ASSUME "abort" \notin Faults
  PROVE  CallsSteady /\ (\A t \in Tokens : Driven(t)) /\ [LifeNext]_lifeVars
           => (\A t \in Tokens : Driven(t))'
<1> SUFFICES ASSUME CallsSteady, \A t \in Tokens : Driven(t),
                    [LifeNext]_lifeVars, NEW u \in Tokens
             PROVE  Driven(u)'
  OBVIOUS
<1>1. CASE UNCHANGED lifeVars
  BY <1>1 DEF lifeVars, Driven
<1>2. CASE \/ \E r \in Runs : RequestCancel(r) \/ HashExpires(r)
           \/ \E c \in Convs : LeaseExpires(c)
  BY <1>2, StoreSteps DEF Driven
<1>3. ASSUME NEW t \in Tokens,
             \/ \E q \in Requests \ Past :
                  BeginStarted(q, t) \/ BeginResumed(q, t) \/ BeginReplay(q, t)
             \/ CallStep(t) \/ Timeout(t) \/ Graph(t) \/ Abort(t) \/ Crash(t)
      PROVE  Driven(u)'
  <2>1. CASE u = t
    BY <1>3, <2>1, DrivenMove
  <2>2. CASE u # t
    BY <1>3, <2>2, CallMoves DEF Moved, OthersKept, Driven
  <2>3. QED
    BY <2>1, <2>2
<1>4. QED
  BY <1>1, <1>2, <1>3 DEF LifeNext

(* However a call ends, its graph ended before it, unless the caller's own  *)
(* task is cancelled: that one path has no handler.                         *)
THEOREM NoOrphanTaskHolds ==
  ASSUME "abort" \notin Faults
  PROVE  LifeSpec => []NoOrphanTask
<1>1. LifeInit => \A t \in Tokens : Driven(t)
  BY DEF LifeInit, Driven, NoTask, Working
<1>2. (\A t \in Tokens : Driven(t)) => NoOrphanTask
  BY DEF Driven, NoOrphanTask
<1>3. CallsSteady /\ (\A t \in Tokens : Driven(t)) /\ [LifeNext]_lifeVars
        => (\A t \in Tokens : Driven(t))'
  BY DrivenNext
<1>4. QED
  BY <1>1, <1>2, <1>3, SteadyAlways, PTL DEF LifeSpec

-----------------------------------------------------------------------------
(* Whose answer is told.  A calm environment has no fault but crashes after *)
(* the input was written, and run hashes that expire.                       *)
Calm == Faults \subseteq {"crash", "forget"}

\* An owner is the call that runs the one run in flight.
Owners == \A c \in Convs : owner[c] # None =>
  /\ call[owner[c]] # None /\ Conv(owner[c]) = c
  /\ Ledger!InFlight(Run(owner[c]))
  /\ entry[Run(owner[c])].req = call[owner[c]]
Sole == \A r, s \in Runs :
  /\ Ledger!InFlight(r) /\ Ledger!InFlight(s)
  /\ Ledger!EntryConv(r) = Ledger!EntryConv(s)
  => r = s

\* A call owns its conversation from its begin to its commit.
Driving == {"start", "resume", "drive", "renew", "beat", "stop", "recheck",
            "read", "commit"}
Holding(t) == pc[t] \in Driving => owner[Conv(t)] = t

\* The thread holds the request's input: at least once its graph read it,
\* and for whoever resumes a run that lost its owner.
HoldsInput(c, q) == thread[c] # None /\ thread[c].req = q
Resumable == \A r \in Runs :
  /\ Ledger!InFlight(r)
  /\ owner[Ledger!EntryConv(r)] # None => ~Live(owner[Ledger!EntryConv(r)])
  => HoldsInput(Ledger!EntryConv(r), entry[r].req)
Reads(t) ==
  \/ pc[t] \in {"resume", "recheck", "read"}
  \/ task[t].stage \in {"load", "sync", "answer", "done", "cancelled"}
Finished(t) == pc[t] \in {"recheck", "read"} \/ task[t].stage = "done"
Placed(t) ==
  /\ task[t].stage # "none" => pc[t] \in {"drive", "renew", "beat", "stop"}
  /\ task[t].stage \in {"sync", "answer"} => task[t].req = call[t]
  /\ Reads(t) => HoldsInput(Conv(t), call[t])
  /\ Finished(t) => thread[Conv(t)].stage = "end"

\* A finished thread answers the request whose input it holds, and so does
\* what a call is to commit or to tell, and what the store remembers.
Whole == \A c \in Convs :
  thread[c] # None /\ thread[c].stage = "end" =>
    thread[c].answer.req = thread[c].req
AnswersFor(f, q) ==
  f # None /\ f.status = "COMPLETED" => f.outcome.answer.req = q
Ready(t) ==
  /\ pc[t] \in {"stop", "commit", "tell", "replay", "again"} =>
       AnswersFor(intent[t], call[t])
  /\ pc[t] = "stop" => intent[t] \in {TimedOut, Cancelled}
Remembered == \A r \in Runs :
  entry[r] # None => AnswersFor(entry[r].final, entry[r].req)

OwnWork ==
  /\ Owners /\ Sole /\ Resumable /\ Whole /\ Remembered
  /\ \A t \in Tokens : Holding(t) /\ Placed(t) /\ Ready(t)

LEMMA CalmFacts ==
  ASSUME Calm
  PROVE  /\ ~SinkFails /\ ~StoreFails /\ ~InputRefused
         /\ "abort" \notin Faults /\ "early" \notin Faults
         /\ "stall" \notin Faults
  BY DEF Calm, SinkFails, StoreFails, InputRefused

\* The run of a call, and the entry of a run in flight, are of their types.
LEMMA RunFacts ==
  ASSUME CallsSteady
  PROVE  /\ \A t \in Tokens : call[t] # None =>
              call[t] \in Requests /\ Run(t) \in Runs /\ Conv(t) \in Convs
         /\ \A r \in Runs : entry[r] # None =>
              /\ entry[r] \in EntryRecords /\ entry[r].req \in Requests
              /\ Ledger!EntryConv(r) \in Convs
         /\ \A t \in Tokens : pc[t] # "idle" => call[t] # None
<1>1. \A r \in Runs : entry[r] # None =>
        entry[r] \in EntryRecords /\ entry[r].req \in Requests
  BY DEF CallsSteady, Typed, EntryRecords
<1>2. QED
  BY <1>1, LifeAssumption
     DEF CallsSteady, Typed, Steady, Run, Conv, Ledger!EntryConv

\* A step that leaves store and threads alone, and moves only call t: it has
\* to mind what t knows, and that the thread holds its input if it dies.
LEMMA LocalStep ==
  ASSUME CallsSteady, OwnWork, NEW t \in Tokens, OthersKept(t),
         UNCHANGED <<entry, owner, thread>>,
         call[t] # None => call'[t] = call[t],
         Holding(t)', Placed(t)', Ready(t)',
         owner[Conv(t)] = t /\ call[t] # None =>
           Live(t)' \/ HoldsInput(Conv(t), call[t])
  PROVE  OwnWork'
<1> USE DEF OwnWork
<1>1. \A u \in Tokens \ {t} : Holding(u)' /\ Placed(u)' /\ Ready(u)'
  BY DEF OthersKept, Holding, Placed, Ready, Reads, Finished, Conv, HoldsInput
<1>2. Owners'
  BY DEF Owners, OthersKept, CallsSteady, Typed, Conv, Run, Ledger!InFlight
<1>3. Sole' /\ Whole' /\ Remembered'
  BY DEF Sole, Whole, Remembered, Ledger!InFlight, Ledger!EntryConv
<1>4. Resumable'
  <2> SUFFICES ASSUME NEW r \in Runs, Ledger!InFlight(r),
                      NEW o, o = owner[Ledger!EntryConv(r)],
                      o # None => ~Live(o)'
               PROVE  HoldsInput(Ledger!EntryConv(r), entry[r].req)
    BY DEF Resumable, HoldsInput, Ledger!InFlight, Ledger!EntryConv, Live
  <2>1. Ledger!EntryConv(r) \in Convs /\ (o # None => o \in Tokens)
    BY RunFacts DEF Ledger!InFlight, CallsSteady, Typed
  <2>2. CASE o = t
    <3>1. /\ call[t] # None /\ Conv(t) = Ledger!EntryConv(r)
          /\ Ledger!InFlight(Run(t)) /\ entry[Run(t)].req = call[t]
          /\ Run(t) \in Runs
      BY <2>1, <2>2, LifeNoneAssumption, RunFacts DEF Owners
    <3>2. HoldsInput(Conv(t), call[t])
      BY <2>2, <3>1, LifeNoneAssumption
    <3>3. r = Run(t)
      BY <3>1 DEF Sole, Ledger!EntryConv, Conv
    <3>4. QED
      BY <3>1, <3>2, <3>3
  <2>3. CASE o # t
    BY <2>1, <2>3 DEF Resumable, OthersKept, Live
  <2>4. QED
    BY <2>2, <2>3
<1>5. QED
  BY <1>1, <1>2, <1>3, <1>4

\* A step of t's graph: only t owns the conversation of the thread it writes.
LEMMA GraphFrame ==
  ASSUME CallsSteady, OwnWork, NEW t \in Tokens, OthersKept(t),
         task[t].stage \in Working,
         UNCHANGED <<entry, owner, call, pc, intent>>,
         \A c \in Convs \ {Conv(t)} : thread'[c] = thread[c],
         Placed(t)',
         thread'[Conv(t)] # None /\ thread'[Conv(t)].stage = "end" =>
           thread'[Conv(t)].answer.req = thread'[Conv(t)].req
  PROVE  OwnWork'
<1> USE DEF OwnWork
<1>1. /\ pc[t] \in {"drive", "renew", "beat", "stop"}
      /\ owner[Conv(t)] = t /\ Live(t)
      /\ Conv(t) \in Convs
  BY RunFacts DEF Placed, Holding, Driving, Working, Live
<1>2. ASSUME NEW u \in Tokens \ {t}
      PROVE  Holding(u)' /\ Placed(u)' /\ Ready(u)'
  <2>1. pc[u] \in Driving => Conv(u) \in Convs \ {Conv(t)}
    BY <1>1, RunFacts DEF Holding, Driving
  <2>2. pc[u] \notin Driving => task[u].stage = "none" /\ ~Reads(u) /\ ~Finished(u)
    BY DEF Placed, Driving, Reads, Finished
  <2>3. Reads(u) \/ Finished(u) => pc[u] \in Driving
    BY <2>2
  <2>4. QED
    BY <2>1, <2>3
       DEF OthersKept, Holding, Placed, Ready, Reads, Finished, Conv, HoldsInput
<1>3. Holding(t)' /\ Ready(t)'
  BY DEF Holding, Ready, Conv
<1>4. Owners' /\ Sole' /\ Remembered'
  BY DEF Owners, Sole, Remembered, Conv, Run, Ledger!InFlight, Ledger!EntryConv
<1>5. Whole'
  BY DEF Whole
<1>6. Resumable'
  <2> SUFFICES ASSUME NEW r \in Runs, Ledger!InFlight(r),
                      owner[Ledger!EntryConv(r)] # None =>
                        ~Live(owner[Ledger!EntryConv(r)])
               PROVE  HoldsInput(Ledger!EntryConv(r), entry[r].req)'
    BY DEF Resumable, Live, Ledger!InFlight, Ledger!EntryConv
  <2>1. Ledger!EntryConv(r) \in Convs \ {Conv(t)}
    BY <1>1, RunFacts, LifeNoneAssumption DEF Ledger!InFlight
  <2>2. HoldsInput(Ledger!EntryConv(r), entry[r].req)
    BY DEF Resumable
  <2>3. QED
    BY <2>1, <2>2 DEF HoldsInput, Ledger!EntryConv
<1>7. QED
  BY <1>2, <1>3, <1>4, <1>5, <1>6

LEMMA StepFacts ==
  ASSUME Typed, NEW t \in Tokens, NEW stage, NEW req, Step(t, stage, req)
  PROVE  task'[t].stage = stage /\ task'[t].req = req
  BY DEF Typed, Step

LEMMA WriteFacts ==
  ASSUME Typed, NEW t \in Tokens, Conv(t) \in Convs, NEW stage \in Stages,
         NEW req \in Requests, NEW answer \in Answers \cup {None},
         Write(t, stage, req, answer)
  PROVE  /\ thread'[Conv(t)] # None
         /\ thread'[Conv(t)].req = req
         /\ thread'[Conv(t)].stage = stage
         /\ thread'[Conv(t)].answer = answer
         /\ \A c \in Convs \ {Conv(t)} : thread'[c] = thread[c]
<1> DEFINE ck == [req |-> req, stage |-> stage, answer |-> answer, by |-> t]
<1>1. ck \in Checkpoints
  BY DEF Checkpoints, Calls
<1>2. thread' = [thread EXCEPT ![Conv(t)] = ck]
  BY DEF Write
<1>3. ck # None /\ ck.req = req /\ ck.stage = stage /\ ck.answer = answer
  BY <1>1, LifeNoneAssumption
<1> HIDE DEF ck
<1>4. QED
  BY <1>2, <1>3 DEF Typed

LEMMA GraphOwn ==
  ASSUME Calm, CallsSteady, OwnWork, NEW t \in Tokens, Graph(t)
  PROVE  OwnWork'
<1>1. /\ OthersKept(t) /\ Typed
      /\ UNCHANGED <<entry, owner, call, pc, intent>>
  BY MoveGraph DEF Moved, Graph, ledger, CallsSteady
<1>2. task[t].stage \in Working
  BY DEF Graph, GraphInput, GraphLoad, GraphSync, GraphAnswer, GraphError,
         GraphCancelled, Working
<1>3. /\ pc[t] \in {"drive", "renew", "beat", "stop"}
      /\ call[t] \in Requests /\ Conv(t) \in Convs
  BY <1>2, RunFacts DEF OwnWork, Placed, Working
<1>4. thread[Conv(t)] # None /\ thread[Conv(t)].stage = "end" =>
        thread[Conv(t)].answer.req = thread[Conv(t)].req
  BY <1>3 DEF OwnWork, Whole
<1>5. pc'[t] \in {"drive", "renew", "beat", "stop"} /\ Conv(t)' = Conv(t)
  BY <1>1, <1>3 DEF Conv
<1> USE <1>1, <1>2, <1>3, <1>4, <1>5
<1>6. CASE GraphInput(t)
  <2> DEFINE a == IF thread[Conv(t)] = None THEN None
                  ELSE thread[Conv(t)].answer
  <2>1. a \in Answers \cup {None} /\ "input" \in Stages
    BY DEF Checkpoints, Stages, Typed
  <2>2. Write(t, "input", call[t], a) /\ Step(t, "sync", call[t])
    BY <1>6 DEF GraphInput
  <2> HIDE DEF a
  <2>3. /\ task'[t].stage = "sync" /\ task'[t].req = call[t]
        /\ thread'[Conv(t)] # None /\ thread'[Conv(t)].req = call[t]
        /\ thread'[Conv(t)].stage = "input"
        /\ \A c \in Convs \ {Conv(t)} : thread'[c] = thread[c]
    BY <2>1, <2>2, StepFacts, WriteFacts
  <2>4. Placed(t)'
    BY <2>3 DEF Placed, Reads, Finished, HoldsInput
  <2>5. QED
    BY <2>3, <2>4, GraphFrame
<1>7. CASE GraphLoad(t)
  <2>1. /\ UNCHANGED thread /\ thread[Conv(t)] # None
        /\ thread[Conv(t)].req = call[t]
    BY <1>7 DEF GraphLoad, OwnWork, Placed, Reads, HoldsInput
  <2>2. \/ task'[t].stage \in {"sync", "answer"} /\ task'[t].req = call[t]
        \/ task'[t].stage = "done" /\ thread[Conv(t)].stage = "end"
    BY <1>7, <2>1, StepFacts DEF GraphLoad, Finish
  <2>3. Placed(t)'
    BY <2>1, <2>2 DEF Placed, Reads, Finished, HoldsInput
  <2>4. QED
    BY <2>1, <2>3, GraphFrame
<1>8. CASE GraphSync(t)
  <2>1. Write(t, "sync", call[t], None) /\ Step(t, "answer", call[t])
        /\ "sync" \in Stages
    BY <1>8 DEF GraphSync, Stages
  <2>2. /\ task'[t].stage = "answer" /\ task'[t].req = call[t]
        /\ thread'[Conv(t)] # None /\ thread'[Conv(t)].req = call[t]
        /\ thread'[Conv(t)].stage = "sync"
        /\ \A c \in Convs \ {Conv(t)} : thread'[c] = thread[c]
    BY <2>1, StepFacts, WriteFacts
  <2>3. Placed(t)'
    BY <2>2 DEF Placed, Reads, Finished, HoldsInput
  <2>4. QED
    BY <2>2, <2>3, GraphFrame
<1>9. CASE GraphAnswer(t)
  <2> DEFINE a == [req |-> call[t], by |-> t]
  <2>1. a \in Answers /\ a.req = call[t] /\ "end" \in Stages
    BY DEF Answers, Calls, Stages
  <2>2. task[t].req = call[t]
    BY <1>9 DEF GraphAnswer, OwnWork, Placed
  <2>3. Write(t, "end", call[t], a) /\ Step(t, "done", None)
    BY <1>9, <2>2 DEF GraphAnswer, Finish
  <2> HIDE DEF a
  <2>4. /\ task'[t].stage = "done"
        /\ thread'[Conv(t)] # None /\ thread'[Conv(t)].req = call[t]
        /\ thread'[Conv(t)].stage = "end"
        /\ thread'[Conv(t)].answer.req = call[t]
        /\ \A c \in Convs \ {Conv(t)} : thread'[c] = thread[c]
    BY <2>1, <2>3, StepFacts, WriteFacts
  <2>5. Placed(t)'
    BY <2>4 DEF Placed, Reads, Finished, HoldsInput
  <2>6. QED
    BY <2>4, <2>5, GraphFrame
<1>10. CASE GraphError(t)
  <2>1. task'[t].stage = "error" /\ UNCHANGED thread
    BY <1>10, StepFacts DEF GraphError, Finish
  <2>2. Placed(t)'
    BY <2>1 DEF Placed, Reads, Finished
  <2>3. QED
    BY <2>1, <2>2, GraphFrame
\* The process closes under a call only when the thread holds its input.
<1>11. CASE GraphCancelled(t)
  <2>1. /\ task'[t].stage = "cancelled" /\ UNCHANGED thread
        /\ thread[Conv(t)] # None /\ thread[Conv(t)].req = call[t]
    BY <1>11, StepFacts, CalmFacts DEF GraphCancelled, MayDie, Finish
  <2>2. Placed(t)'
    BY <2>1 DEF Placed, Reads, Finished, HoldsInput
  <2>3. QED
    BY <2>1, <2>2, GraphFrame
<1>12. QED
  BY <1>6, <1>7, <1>8, <1>9, <1>10, <1>11 DEF Graph

LEMMA NoAnswer ==
  \A q : /\ AnswersFor(TimedOut, q) /\ AnswersFor(ExecutionFailed, q)
         /\ AnswersFor(StateInvalid, q) /\ AnswersFor(Cancelled, q)
  BY DEF AnswersFor, TimedOut, ExecutionFailed, StateInvalid, Cancelled, Failure

LEMMA NoTaskStage == NoTask.stage = "none"
  BY DEF NoTask

\* While nothing makes leases expire under it, a call holds its lease.
LEMMA HoldsLease ==
  ASSUME CallsSteady, OwnWork, NEW t \in Tokens, pc[t] \in Driving
  PROVE  /\ call[t] # None /\ Run(t) \in Runs /\ owner[Conv(t)] = t /\ Holds(t)
         /\ entry[Run(t)].req = call[t] /\ Ledger!EntryConv(Run(t)) = Conv(t)
<1>1. /\ call[t] # None /\ Run(t) \in Runs /\ Conv(t) \in Convs
      /\ owner[Conv(t)] = t /\ t # None
  BY RunFacts, LifeNoneAssumption DEF Driving, OwnWork, Holding
<1>2. Ledger!InFlight(Run(t)) /\ entry[Run(t)].req = call[t]
  BY <1>1 DEF OwnWork, Owners
<1>3. QED
  BY <1>1, <1>2 DEF Holds, Ledger!EntryConv, Conv

\* A call that tells or replays an end owns nothing.
LEMMA TellerOwnsNothing ==
  ASSUME CallsSteady, EndsAgree, OwnWork, NEW t \in Tokens,
         pc[t] \in {"replay", "again", "tell"}
  PROVE  owner[Conv(t)] # t
<1>1. entry[Run(t)].final = intent[t] /\ intent[t] # None
  BY DEF EndsAgree, Told, CallsSteady, Steady
<1>2. Conv(t) \in Convs
  BY RunFacts
<1>3. QED
  BY <1>1, <1>2, LifeNoneAssumption DEF OwnWork, Owners, Ledger!InFlight

LEMMA DriveStep ==
  ASSUME CallsSteady, OwnWork, NEW t \in Tokens, OthersKept(t),
         UNCHANGED <<entry, owner, thread, call>>,
         pc[t] \in Driving, pc'[t] \in Driving, Placed(t)', Ready(t)'
  PROVE  OwnWork'
<1>1. Holding(t)'
  BY HoldsLease DEF Holding, Conv
<1>2. Live(t)'
  BY DEF Live, Driving
<1>3. QED
  BY <1>1, <1>2, LocalStep

\* The steps at which a call goes on to commit an end without an answer.
LEMMA GiveUp ==
  ASSUME CallsSteady, OwnWork, NEW t \in Tokens, OthersKept(t),
         UNCHANGED <<entry, owner, thread, call>>,
         pc[t] \in Driving, pc'[t] = "commit", task'[t].stage = "none",
         intent'[t] \in {TimedOut, ExecutionFailed, StateInvalid, Cancelled}
  PROVE  OwnWork'
<1>1. Placed(t)'
  BY DEF Placed, Reads, Finished
<1>2. Ready(t)'
  BY NoAnswer DEF Ready
<1>3. QED
  BY <1>1, <1>2, DriveStep DEF Driving

LEMMA AcceptOwn ==
  ASSUME Calm, CallsSteady, EndsAgree, OwnWork, NEW t \in Tokens, Accept(t)
  PROVE  OwnWork'
<1>1. /\ OthersKept(t) /\ Typed
      /\ UNCHANGED <<entry, owner, thread, call, intent>>
      /\ pc[t] \in {"start", "resume", "again"}
      /\ pc'[t] = IF pc[t] = "again" THEN "tell" ELSE "drive"
      /\ task' = [task EXCEPT ![t].stage = CASE pc[t] = "start" -> "input"
                                             [] pc[t] = "resume" -> "load"
                                             [] OTHER -> @]
  BY CalmFacts, MoveAccept
     DEF Accept, Moved, ledger, Goto, CallsSteady, Typed
<1>2. task[t].stage = "none" /\ task[t] \in TaskRecords
  BY <1>1 DEF OwnWork, Placed, Typed
<1>3. task'[t].stage = CASE pc[t] = "start" -> "input"
                         [] pc[t] = "resume" -> "load"
                         [] OTHER -> "none"
  BY <1>1, <1>2 DEF Typed, TaskRecords
<1>4. CASE pc[t] = "again"
  <2>1. pc'[t] = "tell" /\ task'[t].stage = "none"
    BY <1>1, <1>3, <1>4
  <2>2. Placed(t)' /\ Holding(t)' /\ Live(t)'
    BY <2>1 DEF Placed, Reads, Finished, Holding, Driving, Live
  <2>3. Ready(t)'
    BY <1>1, <1>4 DEF OwnWork, Ready
  <2>4. QED
    BY <1>1, <2>2, <2>3, LocalStep
<1>5. CASE pc[t] # "again"
  <2>1. pc[t] \in Driving /\ pc'[t] = "drive" /\ pc'[t] \in Driving
    BY <1>1, <1>5 DEF Driving
  <2>2. Ready(t)'
    BY <2>1 DEF Ready
  <2>3. pc[t] = "resume" => HoldsInput(Conv(t), call[t])
    BY DEF OwnWork, Placed, Reads
  <2>4. Placed(t)'
    BY <1>1, <1>3, <1>5, <2>1, <2>3
       DEF Placed, Reads, Finished, HoldsInput, Conv
  <2>5. QED
    BY <1>1, <2>1, <2>2, <2>4, DriveStep
<1>6. QED
  BY <1>4, <1>5

LEMMA DrivesOwn ==
  ASSUME Calm, CallsSteady, OwnWork, NEW t \in Tokens,
         \/ GraphReturned(t) \/ Timeout(t) \/ PollCancel(t) \/ Renew(t)
         \/ Beat(t) \/ Stopped(t)
  PROVE  OwnWork'
<1>1. /\ OthersKept(t) /\ Typed
      /\ UNCHANGED <<entry, owner, thread, call>>
      /\ pc[t] \in {"drive", "renew", "beat", "stop"} /\ pc[t] \in Driving
  BY MoveGraphReturned, MoveTimeout, MovePollCancel, MoveRenew, MoveBeat,
     MoveStopped
     DEF GraphReturned, Timeout, PollCancel, Renew, Beat, Stopped, Moved,
         ledger, Driving, CallsSteady
<1>2. ASSUME DropTask(t), NEW f \in {TimedOut, ExecutionFailed, Cancelled},
              CommitNext(t, f)
       PROVE  OwnWork'
  <2>1. f \in Finals
    BY FinalsAre
  <2>2. pc'[t] = "commit" /\ intent'[t] = f /\ task'[t].stage = "none"
    BY <1>1, <1>2, <2>1, CommitNextFacts, TaskFacts
  <2>3. QED
    BY <1>1, <2>2, GiveUp
<1>3. ASSUME NEW f \in {TimedOut, Cancelled}, CancelTask(t, f)
      PROVE  OwnWork'
  <2>1. f \in Finals /\ f # None
    BY FinalsAre
  <2>2. /\ intent'[t] = f
        /\ \/ pc'[t] = "stop" /\ task'[t] = task[t]
           \/ pc'[t] = "commit" /\ task'[t].stage = "none"
    BY <1>1, <1>3, <2>1, CancelFacts
  <2>3. CASE pc'[t] = "commit" /\ task'[t].stage = "none"
    BY <1>1, <2>2, <2>3, GiveUp
  <2>4. CASE pc'[t] = "stop" /\ task'[t] = task[t]
    <3>1. Ready(t)' /\ pc'[t] \in Driving
      BY <2>2, <2>4, NoAnswer DEF Ready, Driving
    <3>2. pc[t] # "recheck" /\ pc[t] # "read" /\ Placed(t)
      BY <1>1 DEF OwnWork
    <3>3. Placed(t)'
      BY <1>1, <2>4, <3>2 DEF Placed, Reads, Finished, HoldsInput, Conv
    <3>4. QED
      BY <1>1, <3>1, <3>3, DriveStep
  <2>5. QED
    BY <2>2, <2>3, <2>4
<1>4. ASSUME NEW p \in {"renew", "beat", "drive"}, Goto(t, p),
             UNCHANGED <<task, intent>>
      PROVE  OwnWork'
  <2>1. pc'[t] = p /\ p \in Driving
    BY <1>1, <1>4 DEF Goto, Typed, Driving
  <2>2. Ready(t)'
    BY <2>1 DEF Ready
  <2>3. Placed(t)
    BY DEF OwnWork
  <2>4. Placed(t)'
    BY <1>1, <1>4, <2>1, <2>3 DEF Placed, Reads, Finished, HoldsInput, Conv
  <2>5. QED
    BY <1>1, <2>1, <2>2, <2>4, DriveStep
<1>5. CASE GraphReturned(t)
  <2>1. DropTask(t)
    BY <1>5 DEF GraphReturned
  <2>2. CASE CommitNext(t, ExecutionFailed)
    BY <1>2, <2>1, <2>2
  <2>3. CASE task[t].stage = "done" /\ Goto(t, "recheck")
    <3>1. pc'[t] = "recheck" /\ task'[t].stage = "none"
      BY <1>1, <2>1, <2>3, TaskFacts DEF Goto, Typed
    <3>2. HoldsInput(Conv(t), call[t]) /\ thread[Conv(t)].stage = "end"
      BY <2>3 DEF OwnWork, Placed, Reads, Finished
    <3>3. Placed(t)' /\ Ready(t)' /\ pc'[t] \in Driving
      BY <1>1, <3>1, <3>2
         DEF Placed, Reads, Finished, HoldsInput, Conv, Ready, Driving
    <3>4. QED
      BY <1>1, <3>3, DriveStep
  <2>4. CASE task[t].stage = "cancelled" /\ Raise(t)
    <3>1. pc'[t] = "raised" /\ task'[t].stage = "none"
      BY <1>1, <2>1, <2>4, RaiseFacts, TaskFacts
    <3>2. HoldsInput(Conv(t), call[t])
      BY <2>4 DEF OwnWork, Placed, Reads
    <3>3. Placed(t)' /\ Holding(t)' /\ Ready(t)'
      BY <3>1 DEF Placed, Reads, Finished, Holding, Driving, Ready
    <3>4. QED
      BY <1>1, <3>2, <3>3, LocalStep
  <2>5. QED
    BY <1>5, <2>2, <2>3, <2>4 DEF GraphReturned
<1>6. CASE Timeout(t)
  BY <1>3, <1>6 DEF Timeout
<1>7. CASE PollCancel(t)
  BY <1>3, <1>4, <1>7, CalmFacts DEF PollCancel
<1>8. CASE Renew(t)
  BY <1>1, <1>4, <1>8, CalmFacts, HoldsLease DEF Renew
<1>9. CASE Beat(t)
  BY <1>4, <1>9, CalmFacts DEF Beat
<1>10. CASE Stopped(t)
  <2>1. /\ pc[t] = "stop" /\ DropTask(t)
        /\ Follow(t, intent[t]) \/ Follow(t, AfterError(t))
    BY <1>10 DEF Stopped
  <2>2. intent[t] \in {TimedOut, Cancelled}
    BY <2>1 DEF OwnWork, Ready
  <2>3. AfterError(t) = ExecutionFailed
    BY <2>2 DEF AfterError
  <2>4. PICK f \in {TimedOut, ExecutionFailed, Cancelled} : Follow(t, f)
    BY <2>1, <2>2, <2>3
  <2>5. CommitNext(t, f)
    BY <2>4, FinalsAre DEF Follow
  <2>6. QED
    BY <1>2, <2>1, <2>5
<1>11. QED
  BY <1>5, <1>6, <1>7, <1>8, <1>9, <1>10

LEMMA ReadsOwn ==
  ASSUME Calm, CallsSteady, OwnWork, NEW t \in Tokens, Recheck(t) \/ Read(t)
  PROVE  OwnWork'
<1>1. /\ OthersKept(t) /\ Typed /\ Conv(t) \in Convs
      /\ UNCHANGED <<entry, owner, thread, call, task>>
      /\ pc[t] \in {"recheck", "read"} /\ pc[t] \in Driving
  BY MoveRecheck, MoveRead, RunFacts
     DEF Recheck, Read, Moved, ledger, Driving, CallsSteady
<1>2. /\ task[t].stage = "none"
      /\ HoldsInput(Conv(t), call[t]) /\ thread[Conv(t)].stage = "end"
  BY <1>1 DEF OwnWork, Placed, Reads, Finished
<1>3. ASSUME NEW f \in {StateInvalid, Cancelled}, CommitNext(t, f)
      PROVE  OwnWork'
  <2>1. pc'[t] = "commit" /\ intent'[t] = f
    BY <1>1, <1>3, FinalsAre, CommitNextFacts
  <2>2. QED
    BY <1>1, <1>2, <2>1, GiveUp
<1>4. CASE Goto(t, "read") /\ UNCHANGED intent
  <2>1. pc'[t] = "read" /\ pc'[t] \in Driving
    BY <1>1, <1>4 DEF Goto, Typed, Driving
  <2>2. Placed(t)' /\ Ready(t)'
    BY <1>1, <1>2, <2>1 DEF Placed, Reads, Finished, HoldsInput, Conv, Ready
  <2>3. QED
    BY <1>1, <2>1, <2>2, DriveStep
<1>5. ASSUME NEW ck \in Checkpoints, ck = thread[Conv(t)],
             CommitNext(t, Completed(ck))
      PROVE  OwnWork'
  <2>1. pc'[t] = "commit" /\ intent'[t] = Completed(ck)
    BY <1>1, <1>5, FinalsAre, CommitNextFacts
  <2>2. ck.answer.req = call[t]
    BY <1>1, <1>2, <1>5 DEF OwnWork, Whole, HoldsInput
  <2>3. AnswersFor(Completed(ck), call[t])
    BY <2>2 DEF AnswersFor, Completed
  <2>4. Ready(t)'
    BY <1>1, <2>1, <2>3 DEF Ready
  <2>5. Placed(t)' /\ pc'[t] \in Driving
    BY <1>1, <1>2, <2>1 DEF Placed, Reads, Finished, Driving
  <2>6. QED
    BY <1>1, <2>4, <2>5, DriveStep
<1>6. CASE Recheck(t)
  BY <1>3, <1>4, <1>6, CalmFacts DEF Recheck
<1>7. CASE Read(t)
  <2>1. thread[Conv(t)] \in Checkpoints \cup {None}
    BY <1>1 DEF Typed
  <2>2. QED
    BY <1>3, <1>5, <1>7, <2>1, CalmFacts DEF Read
<1>8. QED
  BY <1>6, <1>7

\* A call that ends owns nothing, or has left its input in the thread.
LEMMA EndsOwn ==
  ASSUME Calm, CallsSteady, EndsAgree, OwnWork, NEW t \in Tokens,
         Tell(t) \/ Replay(t) \/ CommitRefused(t) \/ Abort(t) \/ Crash(t)
  PROVE  OwnWork'
<1>1. /\ OthersKept(t) /\ Typed
      /\ UNCHANGED <<entry, owner, thread, call>>
  BY MoveTell, MoveReplay, MoveCommitRefused, MoveAbort, MoveCrash
     DEF Tell, Replay, CommitRefused, Abort, Crash, Moved, ledger, CallsSteady
<1>2. ASSUME pc'[t] \in {"returned", "raised"}, task'[t].stage = "none",
             owner[Conv(t)] = t => HoldsInput(Conv(t), call[t])
      PROVE  OwnWork'
  <2>1. Placed(t)' /\ Holding(t)' /\ Ready(t)'
    BY <1>2 DEF Placed, Reads, Finished, Holding, Driving, Ready
  <2>2. QED
    BY <1>1, <1>2, <2>1, LocalStep
<1>3. CASE Tell(t)
  <2>1. pc[t] = "tell" /\ End(t, "returned") /\ UNCHANGED task
    BY <1>3, CalmFacts DEF Tell
  <2>2. task'[t].stage = "none"
    BY <2>1 DEF OwnWork, Placed
  <2>3. pc'[t] = "returned"
    BY <1>1, <2>1 DEF End, Goto, Typed
  <2>4. QED
    BY <1>2, <2>1, <2>2, <2>3, TellerOwnsNothing
<1>4. CASE Replay(t)
  <2>1. pc[t] = "replay" /\ UNCHANGED task /\ task'[t].stage = "none"
    BY <1>4 DEF Replay, OwnWork, Placed
  <2>2. CASE Goto(t, "again") /\ UNCHANGED intent
    <3>1. pc'[t] = "again"
      BY <1>1, <2>2 DEF Goto, Typed
    <3>2. Placed(t)' /\ Holding(t)' /\ Live(t)'
      BY <2>1, <3>1 DEF Placed, Reads, Finished, Holding, Driving, Live
    <3>3. Ready(t)'
      BY <1>1, <2>1, <2>2, <3>1 DEF OwnWork, Ready
    <3>4. QED
      BY <1>1, <3>2, <3>3, LocalStep
  <2>3. CASE Raise(t)
    BY <1>1, <1>2, <2>1, <2>3, RaiseFacts, TellerOwnsNothing
  <2>4. QED
    BY <1>4, <2>2, <2>3 DEF Replay
<1>5. CASE Crash(t)
  <2>1. /\ DropTask(t) /\ Raise(t)
        /\ thread[Conv(t)] # None /\ thread[Conv(t)].req = call[t]
    BY <1>5, CalmFacts DEF Crash, MayDie
  <2>2. QED
    BY <1>1, <1>2, <2>1, RaiseFacts, TaskFacts DEF HoldsInput
<1>6. ~Abort(t)
  BY CalmFacts DEF Abort
<1>7. ~CommitRefused(t)
  BY CalmFacts, HoldsLease DEF CommitRefused, Driving
<1>8. QED
  BY <1>3, <1>4, <1>5, <1>6, <1>7

LEMMA ReplayOwn ==
  ASSUME CallsSteady, OwnWork, NEW t \in Tokens, NEW q \in Requests,
         BeginReplay(q, t)
  PROVE  OwnWork'
<1>1. /\ OthersKept(t) /\ UNCHANGED <<entry, owner, thread, task>>
      /\ call[t] = None /\ call'[t] = q /\ pc'[t] = "replay"
      /\ RunOf[q] \in Runs /\ entry[RunOf[q]] # None
      /\ entry[RunOf[q]].req = q
      /\ intent' = [intent EXCEPT ![t] = entry[RunOf[q]].final]
  BY MoveBegin, BeginFacts DEF BeginReplay, Moved, ledger
<1>2. task[t].stage = "none"
  BY <1>1, NoTaskStage DEF CallsSteady, Steady
<1>3. intent'[t] = entry[RunOf[q]].final
  BY <1>1 DEF CallsSteady, Typed
<1>4. AnswersFor(intent'[t], q)
  BY <1>1, <1>3 DEF OwnWork, Remembered
<1>5. Ready(t)'
  BY <1>1, <1>4 DEF Ready, AnswersFor
<1>6. Placed(t)' /\ Holding(t)'
  BY <1>1, <1>2 DEF Placed, Reads, Finished, Holding, Driving
<1>7. QED
  BY <1>1, <1>5, <1>6, LocalStep

\* A new owner: its run is the only one in flight in its conversation, and
\* if it resumes the run its input is in the thread.
LEMMA TakenOver ==
  ASSUME CallsSteady, OwnWork, NEW t \in Tokens, NEW q \in Requests,
         OthersKept(t), UNCHANGED <<thread, task>>,
         call[t] = None, call'[t] = q, pc'[t] \in {"start", "resume"},
         owner[ConvOf[q]] = None,
         owner' = [owner EXCEPT ![ConvOf[q]] = t],
         entry[RunOf[q]] = None \/ entry'[RunOf[q]] = entry[RunOf[q]],
         entry'[RunOf[q]] # None,
         entry'[RunOf[q]].req = q, entry'[RunOf[q]].final = None,
         \A s \in Runs \ {RunOf[q]} :
           /\ entry'[s] = entry[s]
           /\ Ledger!InFlight(s) => Ledger!EntryConv(s) # ConvOf[q],
         pc'[t] = "resume" => entry[RunOf[q]] # None
  PROVE  OwnWork'
<1> DEFINE c == ConvOf[q]
           r0 == RunOf[q]
<1> USE DEF OwnWork
<1>1. /\ r0 \in Runs /\ c \in Convs /\ t # None /\ q # None
      /\ Run(t)' = r0 /\ Conv(t)' = c
      /\ owner'[c] = t /\ \A d \in Convs \ {c} : owner'[d] = owner[d]
      /\ task'[t].stage = "none"
  BY LifeAssumption, LifeNoneAssumption, NoTaskStage
     DEF Run, Conv, CallsSteady, Typed, Steady
<1>2. \A u \in Tokens \ {t} : Run(u)' = Run(u) /\ Conv(u)' = Conv(u)
  BY DEF OthersKept, Run, Conv
<1>3. \A d \in Convs : owner[d] # t
  BY <1>1 DEF Owners
<1>4. Ledger!InFlight(r0)' /\ Ledger!EntryConv(r0)' = c
  BY DEF Ledger!InFlight, Ledger!EntryConv
<1>5. \A s \in Runs \ {r0} :
        /\ Ledger!InFlight(s)' = Ledger!InFlight(s)
        /\ Ledger!EntryConv(s)' = Ledger!EntryConv(s)
  BY DEF Ledger!InFlight, Ledger!EntryConv
<1>6. Owners'
  <2> SUFFICES ASSUME NEW d \in Convs, NEW u, u = owner'[d], u # None
               PROVE  /\ call'[u] # None /\ Conv(u)' = d
                      /\ Ledger!InFlight(Run(u))'
                      /\ entry'[Run(u)'].req = call'[u]
    BY DEF Owners, Conv, Run, Ledger!InFlight
  <2>1. CASE d = c
    BY <1>1, <1>4, <2>1
  <2>2. CASE d # c
    <3>1. u = owner[d] /\ u \in Tokens \ {t}
      BY <1>1, <1>3, <2>2 DEF CallsSteady, Typed
    <3>2. /\ call[u] # None /\ Conv(u) = d /\ Ledger!InFlight(Run(u))
          /\ entry[Run(u)].req = call[u] /\ Run(u) \in Runs
      BY <3>1, RunFacts DEF Owners
    <3>3. entry'[Run(u)] = entry[Run(u)]
      BY <3>2 DEF Ledger!InFlight
    <3>4. call'[u] = call[u] /\ Run(u)' = Run(u) /\ Conv(u)' = Conv(u)
      BY <1>2, <3>1 DEF OthersKept
    <3>5. QED
      BY <3>2, <3>3, <3>4 DEF Ledger!InFlight
  <2>3. QED
    BY <2>1, <2>2
<1>7. Sole'
  BY <1>4, <1>5 DEF Sole
<1>8. Resumable'
  <2> SUFFICES ASSUME NEW r \in Runs, Ledger!InFlight(r)',
                      NEW d, d = Ledger!EntryConv(r)',
                      NEW x, x = owner'[d], x # None => ~Live(x)',
                      NEW k, k = entry'[r].req
               PROVE  HoldsInput(d, k)
    BY DEF Resumable, HoldsInput, Live, Ledger!InFlight, Ledger!EntryConv
  <2>1. Live(t)'
    BY DEF Live
  <2>2. d # c
    BY <1>1, <2>1
  <2>3. r # r0
    BY <1>4, <2>2
  <2>4. /\ Ledger!InFlight(r) /\ d = Ledger!EntryConv(r) /\ d \in Convs
        /\ k = entry[r].req
    BY <1>5, <2>3, RunFacts DEF Ledger!InFlight
  <2>5. x = owner[d] /\ (x = None \/ x \in Tokens \ {t})
    BY <1>1, <1>3, <2>2, <2>4 DEF CallsSteady, Typed
  <2>6. x # None => ~Live(x)
    BY <2>5 DEF OthersKept, Live
  <2>7. QED
    BY <2>4, <2>5, <2>6 DEF Resumable
<1>9. Whole'
  BY DEF Whole
<1>10. Remembered'
  BY DEF Remembered, AnswersFor
<1>11. Holding(t)' /\ Ready(t)'
  BY <1>1 DEF Holding, Ready
<1>12. Placed(t)'
  <2>1. CASE pc'[t] = "resume"
    <3>1. Ledger!InFlight(r0) /\ Ledger!EntryConv(r0) = c /\ entry[r0].req = q
      BY <2>1 DEF Ledger!InFlight, Ledger!EntryConv
    <3>2. HoldsInput(c, q)
      BY <1>1, <3>1 DEF Resumable
    <3>3. QED
      BY <1>1, <2>1, <3>2 DEF Placed, Reads, Finished, HoldsInput
  <2>2. CASE pc'[t] = "start"
    BY <1>1, <2>2 DEF Placed, Reads, Finished
  <2>3. QED
    BY <2>1, <2>2
<1>13. ASSUME NEW u \in Tokens \ {t}
       PROVE  Holding(u)' /\ Placed(u)' /\ Ready(u)'
  <2>1. pc[u] \in Driving => owner'[Conv(u)] = u
    <3> SUFFICES ASSUME pc[u] \in Driving
                 PROVE  owner'[Conv(u)] = u
      OBVIOUS
    <3>1. owner[Conv(u)] = u /\ Conv(u) \in Convs /\ u # None
      BY RunFacts, LifeNoneAssumption DEF Holding, Driving
    <3>2. QED
      BY <1>1, <3>1
  <2>2. QED
    BY <1>2, <2>1
       DEF OthersKept, Holding, Placed, Ready, Reads, Finished, HoldsInput
<1>14. QED
  BY <1>6, <1>7, <1>8, <1>9, <1>10, <1>11, <1>12, <1>13

LEMMA BeginOwn ==
  ASSUME Calm, CallsSteady, OwnWork, NEW t \in Tokens, NEW q \in Requests,
         BeginStarted(q, t) \/ BeginResumed(q, t)
  PROVE  OwnWork'
<1>1. /\ OthersKept(t) /\ Typed /\ UNCHANGED intent
      /\ RunOf[q] \in Runs /\ q # None
  BY MoveBegin, LifeAssumption, LifeNoneAssumption
     DEF BeginStarted, BeginResumed, Moved, CallsSteady
<1>2. ASSUME NEW p \in {"start", "resume"}, Begin(q, t, p)
      PROVE  /\ call[t] = None /\ call'[t] = q /\ pc'[t] = p
             /\ UNCHANGED <<thread, task>>
  <2>1. call[t] = None /\ call'[t] = q /\ UNCHANGED <<thread, task>>
    BY <1>2, BeginFacts
  <2>2. pc' = [pc EXCEPT ![t] = p]
    BY <1>2, CalmFacts DEF Begin, Goto
  <2>3. QED
    BY <1>1, <2>1, <2>2 DEF Typed
<1>3. CASE BeginStarted(q, t)
  <2> DEFINE e == [req |-> q, final |-> None, cancel |-> FALSE]
  <2>1. /\ call[t] = None /\ call'[t] = q /\ pc'[t] = "start"
        /\ UNCHANGED <<thread, task>>
    BY <1>2, <1>3 DEF BeginStarted
  <2>2. /\ entry[RunOf[q]] = None
        /\ entry' = [entry EXCEPT ![RunOf[q]] = e]
        /\ owner[ConvOf[q]] = None
        /\ owner' = [owner EXCEPT ![ConvOf[q]] = t]
        /\ \A s \in Runs : Ledger!InFlight(s) => Ledger!EntryConv(s) # ConvOf[q]
    BY <1>3 DEF BeginStarted, Ledger!Start, Ledger!Own, Ledger!Quiet
  <2>3. /\ entry'[RunOf[q]] = e
        /\ \A s \in Runs \ {RunOf[q]} : entry'[s] = entry[s]
    BY <1>1, <2>2 DEF Typed
  <2>4. e # None /\ e.req = q /\ e.final = None
    <3>1. e \in EntryRecords
      BY DEF EntryRecords
    <3>2. QED
      BY <3>1, LifeNoneAssumption
  <2> HIDE DEF e
  <2>5. QED
    BY <1>1, <2>1, <2>2, <2>3, <2>4, TakenOver
<1>4. CASE BeginResumed(q, t)
  <2>1. /\ call[t] = None /\ call'[t] = q /\ pc'[t] = "resume"
        /\ UNCHANGED <<thread, task>>
    BY <1>2, <1>4 DEF BeginResumed
  <2>2. /\ Ledger!InFlight(RunOf[q]) /\ entry[RunOf[q]].req = q
        /\ entry' = entry
        /\ owner[ConvOf[q]] = None
        /\ owner' = [owner EXCEPT ![ConvOf[q]] = t]
    BY <1>4 DEF BeginResumed, Ledger!TakeOver, Ledger!Own
  <2>3. \A s \in Runs \ {RunOf[q]} :
          Ledger!InFlight(s) => Ledger!EntryConv(s) # ConvOf[q]
    BY <1>1, <2>2 DEF OwnWork, Sole, Ledger!EntryConv
  <2>4. entry[RunOf[q]] # None /\ entry[RunOf[q]].final = None
    BY <2>2 DEF Ledger!InFlight
  <2>5. QED
    BY <1>1, <2>1, <2>2, <2>3, <2>4, TakenOver
<1>5. QED
  BY <1>3, <1>4

\* A commit frees the conversation, and the entry remembers what the call
\* was ready to commit.
LEMMA CommitOwn ==
  ASSUME Calm, CallsSteady, OwnWork, NEW t \in Tokens, Commit(t)
  PROVE  OwnWork'
<1> DEFINE r0 == Run(t)
           c == Conv(t)
<1> USE DEF OwnWork
<1>1. /\ OthersKept(t) /\ Typed /\ pc[t] = "commit" /\ pc[t] \in Driving
      /\ UNCHANGED <<thread, call, task>>
  BY MoveCommit DEF Commit, Moved, Driving, CallsSteady
<1>2. /\ r0 \in Runs /\ c \in Convs /\ call[t] # None
      /\ owner[c] = t /\ t # None
      /\ entry[r0].req = call[t] /\ Ledger!EntryConv(r0) = c
      /\ Ledger!InFlight(r0)
      /\ intent[t] \in Finals /\ intent[t] # None
  BY <1>1, HoldsLease, RunFacts, LifeNoneAssumption
     DEF Holds, CallsSteady, Steady, Typed
<1>3. Ledger!Commit(t, r0, intent[t]) /\ AfterCommit(t)
  BY <1>1, <1>2, CalmFacts DEF Commit, Ledger!InFlight
<1>4. /\ entry'[r0] \in EntryRecords
      /\ entry'[r0].req = call[t] /\ entry'[r0].final = intent[t]
      /\ \A s \in Runs \ {r0} : entry'[s] = entry[s]
  BY <1>1, <1>2, <1>3, CommitEntry
<1>5. /\ owner'[c] = None /\ \A d \in Convs \ {c} : owner'[d] = owner[d]
  <2>1. owner' = [owner EXCEPT ![c] = None]
    BY <1>2, <1>3 DEF Ledger!Commit
  <2>2. QED
    BY <1>1, <1>2, <2>1 DEF Typed
<1>6. /\ \/ pc'[t] = "returned"
         \/ pc'[t] = "tell" /\ intent'[t] = intent[t]
      /\ task'[t].stage = "none"
  BY <1>1, <1>3, AfterCommitFacts DEF Placed
<1>7. \A s \in Runs : Ledger!InFlight(s)' =>
        /\ s # r0 /\ Ledger!InFlight(s) /\ entry'[s] = entry[s]
        /\ Ledger!EntryConv(s)' = Ledger!EntryConv(s)
        /\ Ledger!EntryConv(s) \in Convs \ {c}
  <2> SUFFICES ASSUME NEW s \in Runs, Ledger!InFlight(s)'
               PROVE  /\ s # r0 /\ Ledger!InFlight(s) /\ entry'[s] = entry[s]
                      /\ Ledger!EntryConv(s)' = Ledger!EntryConv(s)
                      /\ Ledger!EntryConv(s) \in Convs \ {c}
    OBVIOUS
  <2>1. s # r0
    BY <1>2, <1>4 DEF Ledger!InFlight
  <2>2. entry'[s] = entry[s] /\ Ledger!InFlight(s)
    BY <1>4, <2>1 DEF Ledger!InFlight
  <2>3. Ledger!EntryConv(s) \in Convs /\ Ledger!EntryConv(s) # c
    BY <1>2, <2>1, <2>2, RunFacts DEF Sole, Ledger!InFlight
  <2>4. QED
    BY <2>1, <2>2, <2>3 DEF Ledger!EntryConv
<1>8. Owners'
  <2> SUFFICES ASSUME NEW d \in Convs, NEW u, u = owner'[d], u # None
               PROVE  /\ call'[u] # None /\ Conv(u)' = d
                      /\ Ledger!InFlight(Run(u))'
                      /\ entry'[Run(u)'].req = call'[u]
    BY DEF Owners, Conv, Run, Ledger!InFlight
  <2>1. d # c /\ u = owner[d]
    BY <1>5
  <2>2. /\ u \in Tokens /\ call[u] # None /\ Conv(u) = d
        /\ Ledger!InFlight(Run(u))
        /\ entry[Run(u)].req = call[u] /\ Run(u) \in Runs
    BY <1>1, <2>1, RunFacts DEF Owners, Typed
  <2>3. Run(u) # r0
    BY <1>2, <2>1, <2>2 DEF Ledger!EntryConv, Conv
  <2>4. entry'[Run(u)] = entry[Run(u)]
    BY <1>4, <2>2, <2>3
  <2>5. call' = call /\ Run(u)' = Run(u) /\ Conv(u)' = Conv(u)
    BY <1>1 DEF Run, Conv
  <2>6. QED
    BY <2>2, <2>4, <2>5 DEF Ledger!InFlight
<1>9. Sole'
  BY <1>7 DEF Sole
<1>10. Resumable'
  <2> SUFFICES ASSUME NEW r \in Runs, Ledger!InFlight(r)',
                      NEW d, d = Ledger!EntryConv(r)',
                      NEW x, x = owner'[d], x # None => ~Live(x)',
                      NEW k, k = entry'[r].req
               PROVE  HoldsInput(d, k)
    BY <1>1 DEF Resumable, HoldsInput, Live, Ledger!InFlight, Ledger!EntryConv
  <2>1. /\ Ledger!InFlight(r) /\ d = Ledger!EntryConv(r)
        /\ d \in Convs \ {c} /\ k = entry[r].req
    BY <1>7
  <2>2. x = owner[d] /\ (x = None \/ x \in Tokens)
    BY <1>1, <1>5, <2>1 DEF Typed
  <2>3. x # t
    BY <1>2, <2>1, <2>2 DEF Owners
  <2>4. x # None => ~Live(x)
    BY <1>1, <2>2, <2>3 DEF OthersKept, Live
  <2>5. QED
    BY <2>1, <2>2, <2>4 DEF Resumable
<1>11. Whole'
  BY <1>1 DEF Whole
<1>12. Remembered'
  <2>1. AnswersFor(intent[t], call[t])
    BY <1>1 DEF Ready
  <2>2. QED
    BY <1>4, <2>1 DEF Remembered, AnswersFor
<1>13. Holding(t)' /\ Placed(t)'
  BY <1>6 DEF Holding, Placed, Driving, Reads, Finished
<1>14. Ready(t)'
  BY <1>1, <1>6 DEF Ready, AnswersFor
<1>15. ASSUME NEW u \in Tokens \ {t}
       PROVE  Holding(u)' /\ Placed(u)' /\ Ready(u)'
  <2>1. pc[u] \in Driving => owner'[Conv(u)] = u
    <3> SUFFICES ASSUME pc[u] \in Driving
                 PROVE  owner'[Conv(u)] = u
      OBVIOUS
    <3>1. owner[Conv(u)] = u /\ Conv(u) \in Convs
      BY RunFacts DEF Holding, Driving
    <3>2. QED
      BY <1>2, <1>5, <3>1
  <2>2. QED
    BY <1>1, <2>1
       DEF OthersKept, Holding, Placed, Ready, Reads, Finished, HoldsInput, Conv
<1>16. QED
  BY <1>8, <1>9, <1>10, <1>11, <1>12, <1>13, <1>14, <1>15

\* The store's own steps: a cancel request, a lease of an ended call and a
\* forgotten run leave everything in place.
LEMMA StoreOwn ==
  ASSUME Calm, CallsSteady, OwnWork,
         UNCHANGED <<thread, call, pc, intent, task>>,
         \A r \in Runs :
           \/ entry'[r] = None
           \/ /\ entry[r] # None /\ entry'[r] # None
              /\ entry'[r].req = entry[r].req /\ entry'[r].final = entry[r].final,
         \A r \in Runs : entry'[r] = None =>
           (Ledger!InFlight(r) => owner[Ledger!EntryConv(r)] = None),
         \A c \in Convs :
           \/ owner'[c] = owner[c]
           \/ owner'[c] = None /\ owner[c] # None /\ ~Live(owner[c])
  PROVE  OwnWork'
<1> USE DEF OwnWork
<1>1. \A r \in Runs : Ledger!InFlight(r)' =>
        /\ Ledger!InFlight(r) /\ entry'[r].req = entry[r].req
        /\ Ledger!EntryConv(r)' = Ledger!EntryConv(r)
        /\ Ledger!EntryConv(r) \in Convs
  BY RunFacts DEF Ledger!InFlight, Ledger!EntryConv
<1>2. Owners'
  <2> SUFFICES ASSUME NEW d \in Convs, NEW u, u = owner'[d], u # None
               PROVE  /\ call'[u] # None /\ Conv(u)' = d
                      /\ Ledger!InFlight(Run(u))'
                      /\ entry'[Run(u)'].req = call'[u]
    BY DEF Owners, Conv, Run, Ledger!InFlight
  <2>1. u = owner[d] /\ u \in Tokens
    BY DEF CallsSteady, Typed
  <2>2. /\ call[u] # None /\ Conv(u) = d /\ Ledger!InFlight(Run(u))
        /\ entry[Run(u)].req = call[u] /\ Run(u) \in Runs
    BY <2>1, RunFacts DEF Owners
  <2>3. owner[Ledger!EntryConv(Run(u))] # None
    BY <2>1, <2>2 DEF Ledger!EntryConv, Conv
  <2>4. /\ entry'[Run(u)] # None /\ entry'[Run(u)].req = call[u]
        /\ entry'[Run(u)].final = None
    BY <2>2, <2>3 DEF Ledger!InFlight
  <2>5. Run(u)' = Run(u) /\ Conv(u)' = Conv(u)
    BY DEF Run, Conv
  <2>6. QED
    BY <2>2, <2>4, <2>5 DEF Ledger!InFlight
<1>3. Sole'
  BY <1>1 DEF Sole
<1>4. Resumable'
  <2> SUFFICES ASSUME NEW r \in Runs, Ledger!InFlight(r)',
                      NEW d, d = Ledger!EntryConv(r)',
                      NEW x, x = owner'[d], x # None => ~Live(x),
                      NEW k, k = entry'[r].req
               PROVE  HoldsInput(d, k)
    BY DEF Resumable, HoldsInput, Live, Ledger!InFlight, Ledger!EntryConv
  <2>1. /\ Ledger!InFlight(r) /\ d = Ledger!EntryConv(r) /\ d \in Convs
        /\ k = entry[r].req
    BY <1>1
  <2>2. owner[d] # None => ~Live(owner[d])
    BY <2>1
  <2>3. QED
    BY <2>1, <2>2 DEF Resumable
<1>5. Whole'
  BY DEF Whole
<1>6. Remembered'
  BY DEF Remembered, AnswersFor
<1>7. ASSUME NEW u \in Tokens
      PROVE  Holding(u)' /\ Placed(u)' /\ Ready(u)'
  <2>1. pc[u] \in Driving => owner'[Conv(u)] = u
    <3> SUFFICES ASSUME pc[u] \in Driving
                 PROVE  owner'[Conv(u)] = u
      OBVIOUS
    <3>1. owner[Conv(u)] = u /\ Conv(u) \in Convs /\ Live(u) /\ u # None
      BY RunFacts, LifeNoneAssumption DEF Holding, Driving, Live
    <3>2. QED
      BY <3>1
  <2>2. QED
    BY <2>1 DEF Holding, Placed, Ready, Reads, Finished, HoldsInput, Conv
<1>8. QED
  BY <1>2, <1>3, <1>4, <1>5, <1>6, <1>7

LEMMA OwnNext ==
  ASSUME Calm, CallsSteady, EndsAgree, OwnWork, [LifeNext]_lifeVars
  PROVE  OwnWork'
<1>1. CASE UNCHANGED lifeVars
  BY <1>1 DEF lifeVars, OwnWork, Owners, Sole, Resumable, Whole, Remembered,
              Holding, Placed, Ready, Reads, Finished, HoldsInput, Conv, Run,
              Live, Ledger!InFlight, Ledger!EntryConv
<1>2. ASSUME NEW t \in Tokens, CallStep(t)
      PROVE  OwnWork'
  BY <1>2, AcceptOwn, DrivesOwn, ReadsOwn, CommitOwn, EndsOwn DEF CallStep
<1>3. ASSUME NEW t \in Tokens, NEW q \in Requests,
             BeginStarted(q, t) \/ BeginResumed(q, t) \/ BeginReplay(q, t)
      PROVE  OwnWork'
  BY <1>3, BeginOwn, ReplayOwn
<1>4. ASSUME NEW t \in Tokens, Timeout(t) \/ Graph(t) \/ Abort(t) \/ Crash(t)
      PROVE  OwnWork'
  BY <1>4, DrivesOwn, GraphOwn, EndsOwn
<1>5. ASSUME NEW r \in Runs, RequestCancel(r)
      PROVE  OwnWork'
  <2>1. /\ UNCHANGED <<owner, thread, call, pc, intent, task>>
        /\ entry[r] \in EntryRecords
        /\ entry' = [entry EXCEPT ![r] = [entry[r] EXCEPT !.cancel = TRUE]]
    BY <1>5 DEF RequestCancel, Ledger!RequestCancel, Ledger!InFlight,
                CallsSteady, Typed
  <2> DEFINE e == [entry[r] EXCEPT !.cancel = TRUE]
  <2>2. e \in EntryRecords /\ e.req = entry[r].req /\ e.final = entry[r].final
    BY <2>1 DEF EntryRecords
  <2> HIDE DEF e
  <2>3. /\ entry'[r] = e /\ e # None /\ entry[r] # None
        /\ \A s \in Runs \ {r} : entry'[s] = entry[s]
    BY <2>1, <2>2, LifeNoneAssumption DEF e, CallsSteady, Typed
  <2>4. \A s \in Runs :
          \/ entry'[s] = None
          \/ /\ entry[s] # None /\ entry'[s] # None
             /\ entry'[s].req = entry[s].req /\ entry'[s].final = entry[s].final
    BY <2>2, <2>3
  <2>5. \A s \in Runs : entry'[s] = None =>
          (Ledger!InFlight(s) => owner[Ledger!EntryConv(s)] = None)
    BY <2>3 DEF Ledger!InFlight
  <2>6. QED
    BY <2>1, <2>4, <2>5, StoreOwn
<1>6. ASSUME NEW r \in Runs, HashExpires(r)
      PROVE  OwnWork'
  <2>1. /\ UNCHANGED <<owner, thread, call, pc, intent, task>>
        /\ entry'[r] = None /\ \A s \in Runs \ {r} : entry'[s] = entry[s]
        /\ Ledger!InFlight(r) => owner[Ledger!EntryConv(r)] = None
    BY <1>6 DEF HashExpires, CallsSteady, Typed
  <2>2. \A s \in Runs : entry'[s] = None =>
          (Ledger!InFlight(s) => owner[Ledger!EntryConv(s)] = None)
    BY <2>1 DEF Ledger!InFlight
  <2>3. QED
    BY <2>1, <2>2, StoreOwn
<1>7. ASSUME NEW c \in Convs, LeaseExpires(c)
      PROVE  OwnWork'
  <2>1. /\ UNCHANGED <<entry, thread, call, pc, intent, task>>
        /\ owner[c] # None /\ ~Live(owner[c])
        /\ owner'[c] = None /\ \A d \in Convs \ {c} : owner'[d] = owner[d]
    BY <1>7, CalmFacts DEF LeaseExpires, CallsSteady, Typed
  <2>2. \A s \in Runs : entry'[s] = None =>
          (Ledger!InFlight(s) => owner[Ledger!EntryConv(s)] = None)
    BY <2>1 DEF Ledger!InFlight
  <2>3. QED
    BY <2>1, <2>2, StoreOwn
<1>8. QED
  BY <1>1, <1>2, <1>3, <1>4, <1>5, <1>6, <1>7 DEF LifeNext

LEMMA OwnInit == LifeInit => OwnWork
<1> SUFFICES ASSUME LifeInit
             PROVE  OwnWork
  OBVIOUS
<1>1. Owners /\ Sole /\ Resumable /\ Remembered
  BY DEF LifeInit, Owners, Sole, Resumable, Remembered, Ledger!InFlight
<1>2. Whole
  <2> SUFFICES ASSUME NEW c \in Convs, thread[c] # None
               PROVE  thread[c].answer.req = thread[c].req
    BY DEF Whole
  <2>1. PICK q \in Past : thread[c] = AnsweredThread(q)
    BY DEF LifeInit
  <2>2. QED
    BY <2>1 DEF AnsweredThread
<1>3. \A t \in Tokens : pc[t] = "idle" /\ task[t].stage = "none"
  BY NoTaskStage DEF LifeInit
<1>4. \A t \in Tokens : Holding(t) /\ Placed(t) /\ Ready(t)
  BY <1>3 DEF Holding, Driving, Placed, Reads, Finished, Ready
<1>5. QED
  BY <1>1, <1>2, <1>4 DEF OwnWork

LEMMA AnswerNext ==
  ASSUME CallsSteady, OwnWork, AnswerIsOwn, [LifeNext]_lifeVars
  PROVE  AnswerIsOwn'
<1> SUFFICES ASSUME NEW t \in Tokens, NEW e \in TerminalEvents(t)',
                    e.type = "FINAL_MESSAGE"
             PROVE  e.final.outcome.answer.req = e.req
  BY DEF AnswerIsOwn
<1>1. CASE e \in TerminalEvents(t)
  BY <1>1 DEF AnswerIsOwn
<1>2. CASE e \notin TerminalEvents(t)
  <2>1. /\ Tell(t) /\ e.req = call[t] /\ e.final = intent[t]
        /\ intent[t].status = "COMPLETED"
    BY <1>2, NewEvents
  <2>2. pc[t] = "tell" /\ intent[t] # None
    BY <2>1, TellSends
  <2>3. QED
    BY <2>1, <2>2 DEF OwnWork, Ready, AnswersFor
<1>3. QED
  BY <1>1, <1>2

(* Calls die once their input is in the thread and run hashes expire, in    *)
(* any order and number: a message sent as the answer to a request was      *)
(* generated for that request, also by whoever resumes or replays its run.  *)
THEOREM AnswerIsOwnHolds ==
  ASSUME Calm
  PROVE  LifeSpec => []AnswerIsOwn
<1>1. LifeInit => AnswerIsOwn
  BY DEF LifeInit, AnswerIsOwn, TerminalEvents
<1>2. CallsSteady /\ EndsAgree /\ OwnWork /\ [LifeNext]_lifeVars => OwnWork'
  BY OwnNext
<1>3. CallsSteady /\ OwnWork /\ AnswerIsOwn /\ [LifeNext]_lifeVars
        => AnswerIsOwn'
  BY AnswerNext
<1>4. QED
  BY <1>1, <1>2, <1>3, OwnInit, SteadyAlways, EndsAgreeAlways, PTL DEF LifeSpec

-----------------------------------------------------------------------------
(* The validator's recursion, unfolded: it starts fresh, and one more event *)
(* is one more call of accept().                                           *)
Follows(f, s, q, n) ==
  f = [k \in 0 .. n |-> IF k = 0 THEN FreshValidator
                                 ELSE AcceptEvent(f[k - 1], s[k], q)]

LEMMA FollowsPointwise ==
  ASSUME NEW f, NEW s, NEW q, NEW n \in Nat, Follows(f, s, q, n)
  PROVE  /\ DOMAIN f = 0 .. n
         /\ f[0] = FreshValidator
         /\ \A k \in 0 .. n - 1 : f[k + 1] = AcceptEvent(f[k], s[k + 1], q)
<1>1. \A k \in 0 .. n : f[k] = IF k = 0 THEN FreshValidator
                               ELSE AcceptEvent(f[k - 1], s[k], q)
  BY DEF Follows
<1>2. DOMAIN f = 0 .. n
  BY DEF Follows
<1>3. ASSUME NEW k \in 0 .. n - 1
      PROVE  f[k + 1] = AcceptEvent(f[k], s[k + 1], q)
  <2>1. k + 1 \in 0 .. n /\ k + 1 # 0 /\ (k + 1) - 1 = k
    OBVIOUS
  <2>2. f[k + 1] = AcceptEvent(f[(k + 1) - 1], s[k + 1], q)
    BY <1>1, <2>1
  <2>3. QED
    BY <2>1, <2>2
<1>4. QED
  BY <1>1, <1>2, <1>3

LEMMA FollowsExists ==
  ASSUME NEW s, NEW q, NEW m \in Nat
  PROVE  \E f : Follows(f, s, q, m)
<1> DEFINE S == {n \in Nat : \E f : Follows(f, s, q, n)}
<1>1. 0 \in S
  <2> DEFINE f == [k \in 0 .. 0 |-> FreshValidator]
  <2>1. \A k \in 0 .. 0 : k = 0
    OBVIOUS
  <2>2. Follows(f, s, q, 0)
    BY <2>1 DEF Follows
  <2>3. QED
    BY <2>2
<1>2. ASSUME NEW n \in Nat, n \in S
      PROVE  n + 1 \in S
  <2>1. PICK f : Follows(f, s, q, n)
    BY <1>2
  <2> DEFINE g == [k \in 0 .. n + 1 |->
                     IF k = n + 1 THEN AcceptEvent(f[n], s[n + 1], q)
                                  ELSE f[k]]
  <2>2. /\ f[0] = FreshValidator
        /\ \A k \in 0 .. n - 1 : f[k + 1] = AcceptEvent(f[k], s[k + 1], q)
    BY <2>1, FollowsPointwise
  <2>3. \A k \in 0 .. n + 1 : g[k] = IF k = n + 1
                                     THEN AcceptEvent(f[n], s[n + 1], q)
                                     ELSE f[k]
    OBVIOUS
  <2>4. ASSUME NEW k \in 0 .. n + 1
        PROVE  g[k] = IF k = 0 THEN FreshValidator
                               ELSE AcceptEvent(g[k - 1], s[k], q)
    <3> HIDE DEF g
    <3>1. CASE k = 0
      BY <2>2, <2>3, <3>1
    <3>2. CASE k = n + 1
      <4>1. k # 0 /\ k - 1 = n /\ n \in 0 .. n + 1 /\ n # n + 1
        BY <3>2
      <4>2. g[n] = f[n] /\ g[n + 1] = AcceptEvent(f[n], s[n + 1], q)
        BY <2>3, <4>1
      <4>3. QED
        BY <3>2, <4>1, <4>2
    <3>3. CASE k # 0 /\ k # n + 1
      <4>1. /\ k - 1 \in 0 .. n - 1 /\ (k - 1) + 1 = k
            /\ k - 1 \in 0 .. n + 1 /\ k - 1 # n + 1
        BY <3>3
      <4>2. g[k] = f[k] /\ g[k - 1] = f[k - 1]
        BY <2>3, <3>3, <4>1
      <4>3. f[k] = AcceptEvent(f[k - 1], s[k], q)
        BY <2>2, <4>1
      <4>4. QED
        BY <3>3, <4>2, <4>3
    <3>4. QED
      BY <3>1, <3>2, <3>3
  <2>5. g = [k \in 0 .. n + 1 |-> g[k]]
    OBVIOUS
  <2> HIDE DEF g
  <2>6. Follows(g, s, q, n + 1)
    BY <2>4, <2>5 DEF Follows
  <2>7. QED
    BY <2>6
<1>3. QED
  <2> HIDE DEF S
  <2>1. m \in S
    BY <1>1, <1>2, SetInduction
  <2>2. QED
    BY <2>1 DEF S

\* Two runs over streams that begin alike are alike.
LEMMA FollowsAgree ==
  ASSUME NEW f, NEW s, NEW n \in Nat, NEW g, NEW t, NEW m \in Nat, NEW q,
         Follows(f, s, q, n), Follows(g, t, q, m), n <= m,
         \A k \in 1 .. n : s[k] = t[k]
  PROVE  \A k \in 0 .. n : f[k] = g[k]
<1> DEFINE S == {k \in Nat : k <= n => f[k] = g[k]}
<1>1. /\ f[0] = FreshValidator /\ g[0] = FreshValidator
      /\ \A k \in 0 .. n - 1 : f[k + 1] = AcceptEvent(f[k], s[k + 1], q)
      /\ \A k \in 0 .. m - 1 : g[k + 1] = AcceptEvent(g[k], t[k + 1], q)
  BY FollowsPointwise
<1>2. 0 \in S
  BY <1>1
<1>3. ASSUME NEW k \in Nat, k \in S
      PROVE  k + 1 \in S
  <2>1. CASE k + 1 <= n
    <3>1. /\ k \in 0 .. n - 1 /\ k \in 0 .. m - 1 /\ k + 1 \in 1 .. n
          /\ f[k] = g[k]
      BY <1>3, <2>1
    <3>2. f[k + 1] = g[k + 1]
      BY <1>1, <3>1
    <3>3. QED
      BY <3>2
  <2>2. QED
    BY <2>1
<1>4. Nat \subseteq S
  <2> HIDE DEF S
  <2>1. QED
    BY <1>2, <1>3, SetInduction
<1>5. QED
  BY <1>4

LEMMA ValidatorIs ==
  ASSUME NEW s, NEW q, Len(s) \in Nat
  PROVE  \E f : Follows(f, s, q, Len(s)) /\ Validator(s, q) = f[Len(s)]
<1> DEFINE g == CHOOSE f : Follows(f, s, q, Len(s))
<1>1. Follows(g, s, q, Len(s))
  BY FollowsExists
<1>2. Validator(s, q) = g[Len(s)]
  BY DEF Validator, Follows
<1>3. QED
  BY <1>1, <1>2

LEMMA ValidatorEmpty ==
  ASSUME NEW q
  PROVE  Validator(<<>>, q) = FreshValidator
<1>1. Len(<<>>) = 0
  OBVIOUS
<1>2. PICK f : Follows(f, <<>>, q, 0) /\ Validator(<<>>, q) = f[0]
  BY <1>1, ValidatorIs
<1>3. QED
  BY <1>2, FollowsPointwise

LEMMA ValidatorAppend ==
  ASSUME NEW E, NEW s \in Seq(E), NEW e \in E, NEW q
  PROVE  Validator(Append(s, e), q) = AcceptEvent(Validator(s, q), e, q)
<1> DEFINE n == Len(s)
           t == Append(s, e)
<1>1. /\ n \in Nat /\ Len(t) = n + 1 /\ t[n + 1] = e
      /\ \A k \in 1 .. n : s[k] = t[k]
  OBVIOUS
<1> HIDE DEF n, t
<1>2. PICK f : Follows(f, s, q, n) /\ Validator(s, q) = f[n]
  BY <1>1, ValidatorIs DEF n
<1>3. PICK g : Follows(g, t, q, n + 1) /\ Validator(t, q) = g[n + 1]
  BY <1>1, ValidatorIs
<1>4. f[n] = g[n]
  BY <1>1, <1>2, <1>3, FollowsAgree
<1>5. g[n + 1] = AcceptEvent(g[n], t[n + 1], q)
  BY <1>1, <1>3, FollowsPointwise
<1>6. QED
  BY <1>1, <1>2, <1>3, <1>4, <1>5 DEF t

-----------------------------------------------------------------------------
(* What the validator of a call's stream has seen: every event in its turn, *)
(* and a terminal one only if the call ended, or if it goes on to a commit  *)
(* that the store will refuse, because the run is TIMED OUT already.        *)
Listened(t) == pc[t] \in {"drive", "renew", "beat", "stop", "recheck",
                          "read", "commit", "tell"}
Concluded(t) ==
  \/ pc[t] \in {"returned", "raised"}
  \/ /\ pc[t] = "commit" /\ intent[t] = ExecutionFailed
     /\ entry[Run(t)].final = TimedOut
InTurn(t) ==
  call[t] # None =>
    LET v == Validator(stream[t], call[t])
    IN  /\ ~v.rejected
        /\ v.last = Len(stream[t])
        /\ Listened(t) => v.last > 0
        /\ v.terminated => Concluded(t)

StreamsInTurn == \A t \in Tokens : InTurn(t)

\* Nothing is sent, by a call that is where it may go on from.
LEMMA SilentStep ==
  ASSUME NEW t \in Tokens, InTurn(t), call[t] # None,
         UNCHANGED <<call, stream>>,
         Listened(t)' => Listened(t),
         ~Concluded(t) \/ Concluded(t)'
  PROVE  InTurn(t)'
<1> DEFINE v == Validator(stream[t], call[t])
<1>1. /\ ~v.rejected /\ v.last = Len(stream[t])
      /\ Listened(t) => v.last > 0
      /\ v.terminated => Concluded(t)
  BY DEF InTurn
<1>2. Validator(stream[t], call[t])' = v
  OBVIOUS
<1> HIDE DEF v
<1>3. QED
  BY <1>1, <1>2 DEF InTurn

\* An event is sent in its turn.
LEMMA SentInTurn ==
  ASSUME CallsSteady, StreamsInTurn, NEW t \in Tokens, call[t] # None,
         NEW type, NEW final, Send(t, type, final),
         ~Concluded(t),
         IF Len(stream[t]) = 0 THEN type = "RUN_ACCEPTED"
                               ELSE type # "RUN_ACCEPTED"
  PROVE  /\ Validator(stream'[t], call[t])
              = [last |-> Len(stream[t]) + 1,
                 terminated |-> type \in TerminalTypes, rejected |-> FALSE]
         /\ Len(stream'[t]) = Len(stream[t]) + 1
<1> DEFINE e == [type |-> type, req |-> call[t], index |-> Len(stream[t]) + 1,
                 final |-> final]
           v == Validator(stream[t], call[t])
<1>1. stream'[t] = Append(stream[t], e)
  BY DEF Send, CallsSteady, Typed
<1>2. /\ e.type = type /\ e.req = call[t] /\ e.index = Len(stream[t]) + 1
  OBVIOUS
<1>3. /\ stream[t] \in Seq(Events \cup {e}) /\ e \in Events \cup {e}
      /\ Len(stream[t]) \in Nat
  <2>1. stream[t] \in Seq(Events)
    BY DEF CallsSteady, Typed
  <2> HIDE DEF e
  <2>2. QED
    BY <2>1
<1>4. ~v.rejected /\ v.last = Len(stream[t]) /\ ~v.terminated
  BY DEF StreamsInTurn, InTurn
<1> HIDE DEF e, v
<1>5. Acceptable(v, e, call[t])
  BY <1>2, <1>3, <1>4 DEF Acceptable
<1>6. AcceptEvent(v, e, call[t])
        = [last |-> Len(stream[t]) + 1, terminated |-> type \in TerminalTypes,
           rejected |-> FALSE]
  BY <1>2, <1>5 DEF AcceptEvent
<1>7. Validator(Append(stream[t], e), call[t]) = AcceptEvent(v, e, call[t])
  BY <1>3, ValidatorAppend DEF v
<1>8. Len(Append(stream[t], e)) = Len(stream[t]) + 1
  BY <1>3
<1>9. QED
  BY <1>1, <1>6, <1>7, <1>8

\* A call that has sent nothing yet.
LEMMA NothingSent ==
  ASSUME NEW t \in Tokens, stream[t] = <<>>
  PROVE  /\ Validator(stream[t], call[t]) = FreshValidator
         /\ Len(stream[t]) = 0
  BY ValidatorEmpty

LEMMA TurnAccept ==
  ASSUME CallsSteady, StreamsInTurn, NEW t \in Tokens, Accept(t)
  PROVE  InTurn(t)'
<1>1. /\ call[t] # None /\ call' = call /\ stream[t] = <<>>
      /\ pc[t] \in {"start", "resume", "again"}
      /\ Send(t, "RUN_ACCEPTED", None)
  BY DEF Accept, CallsSteady, Steady
<1>2. ~Concluded(t) /\ Len(stream[t]) = 0
  BY <1>1 DEF Concluded
<1>3. /\ Validator(stream'[t], call[t])
           = [last |-> Len(stream[t]) + 1,
              terminated |-> "RUN_ACCEPTED" \in TerminalTypes,
              rejected |-> FALSE]
      /\ Len(stream'[t]) = Len(stream[t]) + 1
  BY <1>1, <1>2, SentInTurn
<1>4. ("RUN_ACCEPTED" \in TerminalTypes) = FALSE
  BY DEF TerminalTypes
<1>5. Validator(stream'[t], call[t])
        = [last |-> Len(stream[t]) + 1, terminated |-> FALSE,
           rejected |-> FALSE]
  BY <1>3, <1>4
<1>6. QED
  BY <1>1, <1>2, <1>3, <1>5 DEF InTurn

LEMMA TurnBeat ==
  ASSUME CallsSteady, StreamsInTurn, NEW t \in Tokens, Beat(t)
  PROVE  InTurn(t)'
<1>1. /\ call[t] # None /\ call' = call /\ pc[t] = "beat"
      /\ Send(t, "RUN_HEARTBEAT", None) /\ Len(stream[t]) \in Nat
  BY DEF Beat, CallsSteady, Steady, Typed
<1>2. ~Concluded(t) /\ Len(stream[t]) # 0
  BY <1>1 DEF Concluded, StreamsInTurn, InTurn, Listened
<1>3. /\ Validator(stream'[t], call[t])
           = [last |-> Len(stream[t]) + 1,
              terminated |-> "RUN_HEARTBEAT" \in TerminalTypes,
              rejected |-> FALSE]
      /\ Len(stream'[t]) = Len(stream[t]) + 1
  BY <1>1, <1>2, SentInTurn
<1>4. ("RUN_HEARTBEAT" \in TerminalTypes) = FALSE
  BY DEF TerminalTypes
<1>5. Validator(stream'[t], call[t])
        = [last |-> Len(stream[t]) + 1, terminated |-> FALSE,
           rejected |-> FALSE]
  BY <1>3, <1>4
<1>6. QED
  BY <1>1, <1>3, <1>5 DEF InTurn

\* The timeout's event was delivered though its sink failed: the run is
\* TIMED OUT in the store by then.
LEMMA TurnTell ==
  ASSUME CallsSteady, EndsAgree, StreamsInTurn, NEW t \in Tokens, Tell(t)
  PROVE  InTurn(t)'
<1> DEFINE type == IF intent[t].status = "COMPLETED" THEN "FINAL_MESSAGE"
                                                     ELSE "RUN_FAILED"
<1>1. /\ call[t] # None /\ call' = call /\ entry' = entry /\ pc[t] = "tell"
      /\ Send(t, type, intent[t]) /\ Len(stream[t]) \in Nat
  BY DEF Tell, CallsSteady, Steady, Typed, ledger
<1>2. type \in TerminalTypes /\ type # "RUN_ACCEPTED"
  BY DEF TerminalTypes
<1> HIDE DEF type
<1>3. ~Concluded(t) /\ Len(stream[t]) # 0
  BY <1>1 DEF Concluded, StreamsInTurn, InTurn, Listened
<1>4. /\ Validator(stream'[t], call[t])
           = [last |-> Len(stream[t]) + 1, terminated |-> type \in TerminalTypes,
              rejected |-> FALSE]
      /\ Len(stream'[t]) = Len(stream[t]) + 1
  BY <1>1, <1>2, <1>3, SentInTurn
<1>5. Concluded(t)'
  <2>1. entry[Run(t)].final = intent[t]
    BY <1>1 DEF EndsAgree, Told
  <2>2. CASE End(t, "returned")
    BY <2>2 DEF End, Goto, Concluded, CallsSteady, Typed
  <2>3. CASE intent[t] = TimedOut /\ CommitNext(t, ExecutionFailed)
    BY <1>1, <2>1, <2>3 DEF CommitNext, Goto, Concluded, CallsSteady, Typed, Run
  <2>4. CASE Raise(t)
    BY <2>4, RaiseFacts DEF Concluded, CallsSteady
  <2>5. QED
    BY <2>2, <2>3, <2>4 DEF Tell
<1>6. QED
  BY <1>1, <1>4, <1>5 DEF InTurn

\* A call whose stream has ended is not let through its commit: the store
\* holds TIMED OUT, which no commit may change and which it does not want.
LEMMA TurnCommit ==
  ASSUME CallsSteady, StreamsInTurn, NEW t \in Tokens, Commit(t)
  PROVE  InTurn(t)'
<1>1. /\ call[t] # None /\ pc[t] = "commit" /\ UNCHANGED <<call, stream>>
  BY DEF Commit, CallsSteady, Steady
<1>2. ~Concluded(t)
  <2>1. SUFFICES ASSUME /\ intent[t] = ExecutionFailed
                        /\ entry[Run(t)].final = TimedOut
                 PROVE  FALSE
    BY <1>1 DEF Concluded
  <2>2. TimedOut # None /\ TimedOut # ExecutionFailed
    BY FinalsAre
  <2>3. ~Ledger!Commit(t, Run(t), intent[t])
    BY <2>1, <2>2 DEF Ledger!Commit, Ledger!InFlight
  <2>4. QED
    BY <2>1, <2>2, <2>3 DEF Commit
<1>3. Listened(t)
  BY <1>1 DEF Listened
<1>4. QED
  BY <1>1, <1>2, <1>3, SilentStep DEF StreamsInTurn

LEMMA TurnMove ==
  ASSUME CallsSteady, EndsAgree, StreamsInTurn, NEW t \in Tokens,
         \/ \E q \in Requests \ Past :
              BeginStarted(q, t) \/ BeginResumed(q, t) \/ BeginReplay(q, t)
         \/ CallStep(t) \/ Timeout(t) \/ Graph(t) \/ Abort(t) \/ Crash(t)
  PROVE  InTurn(t)'
<1>1. CASE GraphReturned(t) \/ PollCancel(t) \/ Renew(t) \/ Stopped(t)
           \/ Recheck(t) \/ Read(t) \/ Timeout(t)
  <2>1. /\ pc[t] \in {"drive", "renew", "stop", "recheck", "read"}
        /\ UNCHANGED <<call, stream>>
    BY <1>1 DEF GraphReturned, PollCancel, Renew, Stopped, Recheck, Read,
                Timeout
  <2>2. call[t] # None /\ Listened(t) /\ ~Concluded(t)
    BY <2>1 DEF CallsSteady, Steady, Listened, Concluded
  <2>3. QED
    BY <2>1, <2>2, SilentStep DEF StreamsInTurn
<1>2. CASE CommitRefused(t) \/ Abort(t) \/ Crash(t)
  <2>1. pc'[t] = "raised" /\ UNCHANGED <<call, stream>>
    BY <1>2, RaiseFacts DEF CommitRefused, Abort, Crash, CallsSteady
  <2>2. Concluded(t)' /\ ~Listened(t)'
    BY <2>1 DEF Concluded, Listened
  <2>3. CASE call[t] # None
    BY <2>1, <2>2, <2>3, SilentStep DEF StreamsInTurn
  <2>4. CASE call[t] = None
    BY <2>1, <2>4 DEF InTurn
  <2>5. QED
    BY <2>3, <2>4
<1>3. CASE Replay(t)
  <2>1. /\ pc[t] = "replay" /\ UNCHANGED <<call, stream>>
        /\ pc'[t] \in {"again", "raised"}
    BY <1>3 DEF Replay, Goto, Raise, End, CallsSteady, Typed
  <2>2. /\ call[t] # None /\ ~Concluded(t) /\ ~Listened(t)'
    BY <2>1 DEF CallsSteady, Steady, Concluded, Listened
  <2>3. QED
    BY <2>1, <2>2, SilentStep DEF StreamsInTurn
<1>4. CASE Graph(t)
  BY <1>4 DEF Graph, ledger, StreamsInTurn, InTurn, Listened, Concluded, Run
<1>5. ASSUME NEW q \in Requests, NEW p \in {"start", "resume", "replay"},
             Begin(q, t, p)
      PROVE  InTurn(t)'
  <2>1. /\ pc'[t] \in {"start", "resume", "replay", "raised"}
        /\ stream' = stream /\ pc[t] = "idle"
    BY <1>5, BeginFacts
  <2>2. stream[t] = <<>>
    BY <2>1 DEF CallsSteady, Steady
  <2>3. Validator(stream[t], call[t])' = FreshValidator /\ Len(stream'[t]) = 0
    BY <2>1, <2>2, ValidatorEmpty
  <2>4. QED
    BY <2>1, <2>3 DEF InTurn, Listened, FreshValidator
<1>6. QED
  BY <1>1, <1>2, <1>3, <1>4, <1>5, TurnAccept, TurnBeat, TurnTell, TurnCommit
     DEF CallStep, BeginStarted, BeginResumed, BeginReplay

LEMMA TurnNext ==
  CallsSteady /\ EndsAgree /\ StreamsInTurn /\ [LifeNext]_lifeVars
    => StreamsInTurn'
<1> SUFFICES ASSUME CallsSteady, EndsAgree, StreamsInTurn,
                    [LifeNext]_lifeVars, NEW u \in Tokens
             PROVE  InTurn(u)'
  BY DEF StreamsInTurn
\* Whatever the others do, a final does not change under a live call.
<1>1. ASSUME call'[u] = call[u], pc'[u] = pc[u], intent'[u] = intent[u],
             stream'[u] = stream[u]
      PROVE  InTurn(u)'
  <2>1. ASSUME call[u] # None, Concluded(u)
        PROVE  Concluded(u)'
    <3>1. CASE pc[u] \in {"returned", "raised"}
      BY <1>1, <3>1 DEF Concluded
    <3>2. CASE pc[u] \notin {"returned", "raised"}
      <4>1. /\ Live(u) /\ Run(u) \in Runs /\ entry[Run(u)] # None
            /\ entry[Run(u)].final = TimedOut
        BY <2>1, <3>2, LifeAssumption
           DEF Concluded, Live, Run, EndsAgree, Kept, CallsSteady, Typed
      <4>2. EntryKept(Run(u))
        BY <4>1, EntryStays DEF HashExpires
      <4>3. entry'[Run(u)].final = TimedOut
        BY <4>1, <4>2, FinalsAre DEF EntryKept
      <4>4. QED
        BY <1>1, <2>1, <3>2, <4>3 DEF Concluded, Run
    <3>3. QED
      BY <3>1, <3>2
  <2>2. Validator(stream[u], call[u])' = Validator(stream[u], call[u])
    BY <1>1
  <2>3. Listened(u)' <=> Listened(u)
    BY <1>1 DEF Listened
  <2>4. QED
    BY <1>1, <2>1, <2>2, <2>3 DEF StreamsInTurn, InTurn
<1>2. CASE UNCHANGED lifeVars
  BY <1>1, <1>2 DEF lifeVars
<1>3. CASE \/ \E r \in Runs : RequestCancel(r) \/ HashExpires(r)
           \/ \E c \in Convs : LeaseExpires(c)
  BY <1>1, <1>3, StoreSteps
<1>4. ASSUME NEW t \in Tokens,
             \/ \E q \in Requests \ Past :
                  BeginStarted(q, t) \/ BeginResumed(q, t) \/ BeginReplay(q, t)
             \/ CallStep(t) \/ Timeout(t) \/ Graph(t) \/ Abort(t) \/ Crash(t)
      PROVE  InTurn(u)'
  <2>1. CASE u = t
    BY <1>4, <2>1, TurnMove
  <2>2. CASE u # t
    BY <1>1, <1>4, <2>2, CallMoves DEF Moved, OthersKept
  <2>3. QED
    BY <2>1, <2>2
<1>5. QED
  BY <1>2, <1>3, <1>4 DEF LifeNext

(* Whatever fails, whoever works on the same run and however often a run is *)
(* resumed or replayed, the validator of the wire contract accepts every    *)
(* stream: a run is accepted first and once, indices grow, and nothing      *)
(* follows a terminal event, also when that event's sink failed and the     *)
(* call went on to commit another end.                                      *)
THEOREM StreamsValidatedHolds == LifeSpec => []StreamsValidated
<1>1. LifeInit => StreamsInTurn
  BY DEF LifeInit, StreamsInTurn, InTurn
<1>2. StreamsInTurn => StreamsValidated
  BY DEF StreamsInTurn, InTurn, StreamsValidated, Validated
<1>3. QED
  BY <1>1, <1>2, TurnNext, SteadyAlways, EndsAgreeAlways, PTL DEF LifeSpec

-----------------------------------------------------------------------------
(* What the calls do to the run store is what the ledger allows.           *)
LEMMA CallsKeepLedger ==
  ASSUME CallsSteady, NEW t \in Tokens,
         \/ \E q \in Requests \ Past :
              BeginStarted(q, t) \/ BeginResumed(q, t) \/ BeginReplay(q, t)
         \/ CallStep(t) \/ Timeout(t) \/ Graph(t) \/ Abort(t) \/ Crash(t)
  PROVE  Ledger!Next \/ UNCHANGED ledger
<1>1. ASSUME NEW q \in Requests, BeginStarted(q, t) \/ BeginResumed(q, t)
      PROVE  Ledger!Next
  BY <1>1 DEF BeginStarted, BeginResumed, Ledger!Next
<1>2. ASSUME NEW q \in Requests, BeginReplay(q, t)
      PROVE  UNCHANGED ledger
  BY <1>2 DEF BeginReplay
<1>3. CASE Commit(t)
  <2>1. Run(t) \in Runs /\ intent[t] \in Finals
    BY <1>3, LifeAssumption DEF Commit, CallsSteady, Steady, Typed, Run
  <2>2. QED
    BY <1>3, <2>1 DEF Commit, Ledger!Next
<1>4. CASE Accept(t) \/ GraphReturned(t) \/ PollCancel(t) \/ Renew(t)
  BY <1>4 DEF Accept, GraphReturned, PollCancel, Renew
<1>5. CASE Beat(t) \/ Stopped(t) \/ Recheck(t) \/ Read(t)
  BY <1>5 DEF Beat, Stopped, Recheck, Read
<1>6. CASE CommitRefused(t) \/ Tell(t) \/ Replay(t)
  BY <1>6 DEF CommitRefused, Tell, Replay
<1>7. CASE Timeout(t) \/ Graph(t) \/ Abort(t) \/ Crash(t)
  BY <1>7 DEF Timeout, Graph, Abort, Crash
<1>8. QED
  BY <1>1, <1>2, <1>3, <1>4, <1>5, <1>6, <1>7 DEF CallStep

LEMMA ExpiriesKeepLedger ==
  ASSUME CallsSteady, CallsSteady',
         \/ \E r \in Runs : RequestCancel(r) \/ HashExpires(r)
         \/ \E c \in Convs : LeaseExpires(c)
  PROVE  Ledger!Next
<1>1. ASSUME NEW r \in Runs, RequestCancel(r)
      PROVE  Ledger!Next
  BY <1>1 DEF RequestCancel, Ledger!Next
<1>2. /\ entry' = [r \in Runs |-> entry'[r]]
      /\ owner' = [c \in Convs |-> owner'[c]]
  BY DEF CallsSteady, Typed
<1>3. ASSUME NEW c \in Convs, LeaseExpires(c)
      PROVE  Ledger!Lose
  <2>1. entry' = entry /\ \A d \in Convs : owner'[d] \in {owner[d], None}
    BY <1>3 DEF LeaseExpires, CallsSteady, Typed
  <2>2. \A r \in Runs : ~(Ledger!InFlight(r) /\ entry'[r] = None)
    BY <2>1 DEF Ledger!InFlight
  <2>3. QED
    BY <1>2, <2>1, <2>2 DEF Ledger!Lose
<1>4. ASSUME NEW r \in Runs, HashExpires(r)
      PROVE  Ledger!Lose
  <2>1. /\ owner' = owner /\ \A s \in Runs : entry'[s] \in {entry[s], None}
        /\ \A s \in Runs \ {r} : entry'[s] = entry[s]
    BY <1>4 DEF HashExpires, CallsSteady, Typed
  <2>2. \A s \in Runs : Ledger!InFlight(s) /\ entry'[s] = None =>
          owner'[Ledger!EntryConv(s)] = None
    BY <1>4, <2>1 DEF HashExpires, Ledger!InFlight
  <2>3. QED
    BY <1>2, <2>1, <2>2 DEF Ledger!Lose
<1>5. QED
  BY <1>1, <1>3, <1>4 DEF Ledger!Next

(* The store the calls are modelled over is the ledger that the scripts     *)
(* implement: begin, cancel, complete and fail, and what expires under a    *)
(* call that is too slow, do nothing to it that the ledger does not allow.  *)
THEOREM CallsUseTheLedger == LifeSpec => Ledger!Spec
<1>1. LifeInit => Ledger!Init
  BY DEF LifeInit, Ledger!Init
<1>2. CallsSteady /\ CallsSteady' /\ [LifeNext]_lifeVars
        => [Ledger!Next]_(Ledger!ledgerVars)
  <2> SUFFICES ASSUME CallsSteady, CallsSteady', [LifeNext]_lifeVars
               PROVE  Ledger!Next \/ UNCHANGED ledger
    BY DEF Ledger!ledgerVars, ledger
  <2>1. CASE UNCHANGED lifeVars
    BY <2>1 DEF lifeVars, ledger
  <2>2. CASE LifeNext
    BY <2>2, CallsKeepLedger, ExpiriesKeepLedger DEF LifeNext
  <2>3. QED
    BY <2>1, <2>2
<1>3. QED
  BY <1>1, <1>2, SteadyAlways, PTL DEF LifeSpec, Ledger!Spec

-----------------------------------------------------------------------------
(* What the calls may therefore rely on.                                   *)
Promised == INSTANCE RunLedgerProofs
              WITH GuardTokens <- {}, cleaner <- [c \in Convs |-> None]

\* The ledger of the model and the one the promises are proved of are one.
LEMMA SameLedger ==
  /\ Ledger!Init => Promised!Init
  /\ [Ledger!Next]_(Ledger!ledgerVars) => [Promised!Next]_(Promised!ledgerVars)
<1>1. Ledger!Init => Promised!Init
  BY DEF Ledger!Init, Promised!Init
<1>2. [Ledger!Next]_(Ledger!ledgerVars) => [Promised!Next]_(Promised!ledgerVars)
  BY DEF Ledger!Next, Promised!Next, Ledger!InFlight, Promised!InFlight,
         Ledger!EntryConv, Promised!EntryConv, Ledger!Quiet, Promised!Quiet,
         Ledger!Own, Promised!Own, Ledger!Start, Promised!Start,
         Ledger!TakeOver, Promised!TakeOver, Ledger!RequestCancel,
         Promised!RequestCancel, Ledger!Commit, Promised!Commit,
         Ledger!Clean, Promised!Clean, Ledger!Lose, Promised!Lose,
         Ledger!ledgerVars, Promised!ledgerVars
<1>3. QED
  BY <1>1, <1>2

(* However calls interleave, take over, time out and die: a conversation    *)
(* has one run in flight, whoever owns it has that run to finish, a final   *)
(* once told does not change while it is remembered, an accepted cancel     *)
(* stays until the run ends, and only the owner ends it.                    *)
THEOREM CallsKeepPromises ==
  LifeSpec => /\ []Promised!LedgerConsistent
              /\ Promised!EntriesAdvance /\ Promised!OwnersDecide
<1>1. Promised!LedgerAssumption
  BY LifeAssumption, LifeNoneAssumption
     DEF Promised!LedgerAssumption, Promised!Records, EntryRecords
<1>2. Promised!Spec =>
        /\ []Promised!LedgerConsistent
        /\ Promised!EntriesAdvance /\ Promised!OwnersDecide
  BY <1>1, Promised!LedgerPromises
<1>3. QED
  BY <1>2, SameLedger, CallsUseTheLedger, PTL DEF Promised!Spec, Ledger!Spec
=============================================================================
