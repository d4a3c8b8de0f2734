---------------------------- MODULE RunLifecycle ----------------------------
(***************************************************************************)
(* AgentRunLifecycle.execute: the calls that run a request's graph, keep   *)
(* its lease alive, watch for cancellation and timeout, commit the final   *)
(* and tell the caller.  Many calls work at once, on the same run or on    *)
(* the same conversation, and any of them may be slow, fail or die.        *)
(*                                                                         *)
(*   - the run store is RunLedger: each store call is one of its actions,  *)
(*     or a reply that changes nothing;                                    *)
(*   - a call is named by the lease token its begin() generates;           *)
(*   - each step of a call ends at an await: what it read there may be     *)
(*     stale when the next step uses it;                                   *)
(*   - LangGraph (external) is a task per call that reads and writes the   *)
(*     latest checkpoint of the conversation's thread.                     *)
(***************************************************************************)
EXTENDS Integers, Sequences, EventSequence

CONSTANTS
  Runs, Convs, Requests, RunOf, ConvOf, Tokens, None,
  Sequence,    \* trigger sequence of a request's message
  Past,        \* requests that were answered, and their runs forgotten, before
               \* the calls considered here: they are not made again
  MaxBeats,    \* bound: heartbeats per call
  Faults       \* what the environment may do, see the last section

ASSUME LifeAssumption ==
  /\ RunOf \in [Requests -> Runs]
  /\ ConvOf \in [Requests -> Convs]
  /\ Sequence \in [Requests -> Nat]
  /\ MaxBeats \in Nat
  /\ Past \subseteq Requests

VARIABLES
  entry, owner,   \* the run store
  thread,         \* latest checkpoint of a conversation's thread
  call,           \* the request a call executes, None before it began
  pc,             \* the await the call is at
  intent,         \* the final the call is about to commit or to tell
  task,           \* the graph task of a call: where it is and its channels
  stream          \* the events the call emitted

ledger == <<entry, owner>>
lifeVars == <<entry, owner, thread, call, pc, intent, task, stream>>

-----------------------------------------------------------------------------
(* Data.  A checkpoint is its channels (whose input it holds, the answer)  *)
(* with the node and the call that wrote it, which together identify it.   *)
Calls == Tokens \cup {None}      \* None stands for any call of the past
Answers == [req : Requests, by : Calls]
Stages == {"input", "sync", "end"}
Checkpoints == [req : Requests, stage : Stages, answer : Answers \cup {None},
                by : Calls]

Failure(code) == [status |-> "FAILED", outcome |-> code]
TimedOut == Failure("MODEL_TIMEOUT")
ExecutionFailed == Failure("AGENT_EXECUTION_FAILED")
StateInvalid == Failure("AGENT_FINAL_STATE_INVALID")
Cancelled == [status |-> "CANCELLED", outcome |-> None]
Completed(ck) == [status |-> "COMPLETED", outcome |-> ck]

Finals == {TimedOut, ExecutionFailed, StateInvalid, Cancelled}
            \cup {Completed(ck) : ck \in Checkpoints}

EntryRecords == [req : Requests, final : Finals \cup {None}, cancel : BOOLEAN]

\* None is no id, no token and no record.
ASSUME LifeNoneAssumption ==
  /\ None \notin Runs \cup Convs \cup Requests \cup Tokens
  /\ None \notin Finals
  /\ None \notin EntryRecords
  /\ None \notin Checkpoints

Ledger == INSTANCE RunLedger
            WITH GuardTokens <- {}, cleaner <- [c \in Convs |-> None]

Run(t) == RunOf[call[t]]
Conv(t) == ConvOf[call[t]]
Live(t) == pc[t] \notin {"idle", "returned", "raised"}

NoTask == [stage |-> "none", req |-> None]
Working == {"input", "load", "sync", "answer"}     \* stages of a live task

\* The thread of a conversation whose last run answered q.
AnsweredThread(q) ==
  [req |-> q, stage |-> "end", answer |-> [req |-> q, by |-> None],
   by |-> None]

LifeInit ==
  /\ entry = [r \in Runs |-> None]
  /\ owner = [c \in Convs |-> None]
  /\ thread \in [Convs -> {None} \cup {AnsweredThread(q) : q \in Past}]
  /\ \A c \in Convs : thread[c] # None => ConvOf[thread[c].req] = c
  /\ call = [t \in Tokens |-> None]
  /\ pc = [t \in Tokens |-> "idle"]
  /\ intent = [t \in Tokens |-> None]
  /\ task = [t \in Tokens |-> NoTask]
  /\ stream = [t \in Tokens |-> <<>>]

-----------------------------------------------------------------------------
(* Pieces of a step.                                                       *)

Goto(t, p) == pc' = [pc EXCEPT ![t] = p]

\* The call returns, or raises to its caller; no handler runs any more.
End(t, p) == Goto(t, p) /\ intent' = [intent EXCEPT ![t] = None]
Raise(t) == End(t, "raised")

\* The call goes on to commit f.
CommitNext(t, f) ==
  /\ Goto(t, "commit")
  /\ intent' = [intent EXCEPT ![t] = f]

\* Nobody looks at the task again; what it was to return is dropped.
DropTask(t) == task' = [task EXCEPT ![t] = NoTask]

\* f is committed next or, where there is none, the call raises.
Follow(t, f) == IF f = None THEN Raise(t) ELSE CommitNext(t, f)

\* _cancel_task, to be followed by f.  The call waits for a task that is not
\* done, and the task may work on until the cancellation reaches it.
CancelTask(t, f) ==
  IF task[t].stage \in Working
    THEN /\ Goto(t, "stop")
         /\ intent' = [intent EXCEPT ![t] = f]
         /\ UNCHANGED task
    ELSE DropTask(t) /\ Follow(t, f)

\* _EventEmitter.send: the event takes the next index, then the sink gets it.
Send(t, type, final) ==
  stream' = [stream EXCEPT ![t] =
    Append(@, [type |-> type, req |-> call[t], index |-> Len(@) + 1,
               final |-> final])]

SinkFails == "sink" \in Faults
StoreFails == "store" \in Faults
InputRefused == "input" \in Faults

\* Whether the environment may take call t away now.
MayDie(t) ==
  /\ "crash" \in Faults
  /\ \/ "early" \in Faults
     \/ thread[Conv(t)] # None /\ thread[Conv(t)].req = call[t]

-----------------------------------------------------------------------------
(* begin.  A refused request (IN_PROGRESS, CONFLICT) changes nothing.      *)

\* The script ran; its reply reaches the caller, or is lost with the token.
Begin(q, t, p) ==
  /\ call[t] = None
  /\ call' = [call EXCEPT ![t] = q]
  /\ Goto(t, p) \/ (StoreFails /\ p # "replay" /\ Goto(t, "raised"))
  /\ UNCHANGED <<thread, task, stream>>

BeginStarted(q, t) ==
  /\ Begin(q, t, "start")
  /\ Ledger!Start(q, t)
  /\ UNCHANGED intent

BeginResumed(q, t) ==
  /\ Begin(q, t, "resume")
  /\ Ledger!TakeOver(q, t)
  /\ UNCHANGED intent

\* REPLAY_COMPLETED: the record names the checkpoint to tell again.
BeginReplay(q, t) ==
  /\ Begin(q, t, "replay")
  /\ entry[RunOf[q]] # None
  /\ entry[RunOf[q]].req = q
  /\ entry[RunOf[q]].final # None
  /\ entry[RunOf[q]].final.status = "COMPLETED"
  /\ intent' = [intent EXCEPT ![t] = entry[RunOf[q]].final]
  /\ UNCHANGED ledger

\* RUN_ACCEPTED, then the graph task: a STARTED run gives its graph the
\* request as input, which adapt_run_request may refuse; a RESUMED one gives
\* None to continue the thread.
Accept(t) ==
  /\ pc[t] \in {"start", "resume", "again"}
  /\ Send(t, "RUN_ACCEPTED", None)
  /\ \/ /\ Goto(t, IF pc[t] = "again" THEN "tell" ELSE "drive")
        /\ task' = [task EXCEPT ![t].stage = CASE pc[t] = "start" -> "input"
                                               [] pc[t] = "resume" -> "load"
                                               [] OTHER -> @]
        /\ UNCHANGED intent
     \/ /\ SinkFails \/ (pc[t] = "start" /\ InputRefused)
        /\ Raise(t) /\ UNCHANGED task
  /\ UNCHANGED <<ledger, thread, call>>

-----------------------------------------------------------------------------
(* LangGraph (external): the task's next checkpoint.                       *)

\* preserve_identity: an input may follow its own or an older run's.
MayFollow(q, p) ==
  q = p \/ (Sequence[q] > Sequence[p] /\ RunOf[q] # RunOf[p])

Step(t, stage, req) ==
  task' = [task EXCEPT ![t] = [stage |-> stage, req |-> req]]
Finish(t, stage) == Step(t, stage, None)

Write(t, stage, req, answer) ==
  thread' = [thread EXCEPT ![Conv(t)] =
               [req |-> req, stage |-> stage, answer |-> answer, by |-> t]]

\* The input is merged into the thread's channels: the answer of the
\* previous run is still there.
GraphInput(t) ==
  LET ck == thread[Conv(t)]
  IN  /\ task[t].stage = "input"
      /\ ck # None => MayFollow(call[t], ck.req)
      /\ Write(t, "input", call[t], IF ck = None THEN None ELSE ck.answer)
      /\ Step(t, "sync", call[t])

\* Mutant: the input checkpoint already counts as a finished thread.
GraphLoadEager(t) ==
  /\ task[t].stage = "load"
  /\ thread[Conv(t)] # None
  /\ IF thread[Conv(t)].stage = "sync" THEN Step(t, "answer", call[t])
                                       ELSE Finish(t, "done")
  /\ UNCHANGED thread

\* ainvoke(None): a finished thread is left as it is.
GraphLoad(t) ==
  LET ck == thread[Conv(t)]
  IN  /\ task[t].stage = "load"
      /\ ck # None
      /\ \/ ck.stage = "input" /\ Step(t, "sync", ck.req)
         \/ ck.stage = "sync" /\ Step(t, "answer", ck.req)
         \/ ck.stage = "end" /\ Finish(t, "done")
      /\ UNCHANGED thread

\* context_sync_node: the state must belong to the caller's request; what an
\* earlier run left is cleared.
GraphSync(t) ==
  /\ task[t].stage = "sync"
  /\ task[t].req = call[t]
  /\ Write(t, "sync", task[t].req, None)
  /\ Step(t, "answer", task[t].req)

\* The rest of the graph, to its end.
GraphAnswer(t) ==
  /\ task[t].stage = "answer"
  /\ Write(t, "end", task[t].req, [req |-> task[t].req, by |-> t])
  /\ Finish(t, "done")

\* A node or LangGraph raises: an identity refused, no checkpoint to
\* continue, a model that fails.  (What ends a task that is being cancelled is
\* part of Stopped.)
GraphError(t) ==
  /\ task[t].stage \in Working /\ pc[t] # "stop"
  /\ Finish(t, "error")
  /\ UNCHANGED thread

\* The inference a node waits for is cancelled: the process closes its models
\* under a graph that runs.
GraphCancelled(t) ==
  /\ task[t].stage \in Working /\ pc[t] # "stop"
  /\ MayDie(t)
  /\ Finish(t, "cancelled")
  /\ UNCHANGED thread

Graph(t) ==
  /\ \/ GraphInput(t) \/ GraphLoad(t) \/ GraphSync(t) \/ GraphAnswer(t)
     \/ GraphError(t) \/ GraphCancelled(t)
  /\ UNCHANGED <<ledger, call, pc, intent, stream>>

-----------------------------------------------------------------------------
(* _drive_graph.                                                           *)

\* asyncio.wait returned the task: its result, or what it raised.  No handler
\* catches a CancelledError, and nothing is committed.
GraphReturned(t) ==
  /\ pc[t] = "drive"
  /\ \/ task[t].stage = "done" /\ Goto(t, "recheck") /\ UNCHANGED intent
     \/ task[t].stage = "error" /\ CommitNext(t, ExecutionFailed)
     \/ task[t].stage = "cancelled" /\ Raise(t)
  /\ DropTask(t)
  /\ UNCHANGED <<ledger, thread, call, stream>>

\* Mutant: the timed out task is left running.
TimeoutLeavingTask(t) ==
  /\ pc[t] = "drive"
  /\ CommitNext(t, TimedOut)
  /\ UNCHANGED <<ledger, thread, call, task, stream>>

\* Mutant: asyncio.wait without a timeout.
TimeoutAfterTask(t) ==
  /\ pc[t] = "drive"
  /\ task[t].stage \notin Working
  /\ CancelTask(t, TimedOut)
  /\ UNCHANGED <<ledger, thread, call, stream>>

\* The budget is used up; the task may have finished unnoticed.
Timeout(t) ==
  /\ pc[t] = "drive"
  /\ CancelTask(t, TimedOut)
  /\ UNCHANGED <<ledger, thread, call, stream>>

CancelRequested(t) == entry[Run(t)] # None /\ entry[Run(t)].cancel

\* A heartbeat period passed with the task unfinished.
PollCancel(t) ==
  /\ pc[t] = "drive"
  /\ \/ /\ CancelRequested(t)
        /\ CancelTask(t, Cancelled)
     \/ /\ ~CancelRequested(t)
        /\ Len(stream[t]) <= MaxBeats
        /\ Goto(t, "renew")
        /\ UNCHANGED <<task, intent>>
     \/ StoreFails /\ CancelTask(t, None)
  /\ UNCHANGED <<ledger, thread, call, stream>>

Holds(t) == Ledger!InFlight(Run(t)) /\ owner[Ledger!EntryConv(Run(t))] = t

\* renew_lease: a lost lease stops the graph and is raised, like any other
\* error of the store.
Renew(t) ==
  /\ pc[t] = "renew"
  /\ \/ Holds(t) /\ Goto(t, "beat") /\ UNCHANGED <<task, intent>>
     \/ (~Holds(t) \/ StoreFails) /\ CancelTask(t, None)
  /\ UNCHANGED <<ledger, thread, call, stream>>

Beat(t) ==
  /\ pc[t] = "beat"
  /\ Send(t, "RUN_HEARTBEAT", None)
  /\ \/ Goto(t, "drive") /\ UNCHANGED <<task, intent>>
     \/ SinkFails /\ CancelTask(t, ExecutionFailed)
  /\ UNCHANGED <<ledger, thread, call>>

\* When a task raises while it is being cancelled: inside _drive_graph the
\* handler of graph errors takes over, inside a handler the call raises.
AfterError(t) ==
  IF intent[t] \in {TimedOut, Cancelled} THEN ExecutionFailed ELSE None

\* The task is over: cancelled, finished before it noticed, or with an error.
Stopped(t) ==
  /\ pc[t] = "stop"
  /\ \/ Follow(t, intent[t])
     \/ task[t].stage \in Working /\ Follow(t, AfterError(t))
  /\ DropTask(t)
  /\ UNCHANGED <<ledger, thread, call, stream>>

-----------------------------------------------------------------------------
(* After the graph.                                                        *)

\* Mutant: the state is not read before the commit.
RecheckWithoutRead(t) ==
  /\ pc[t] = "recheck"
  /\ \/ CancelRequested(t) /\ CommitNext(t, Cancelled)
     \/ ~CancelRequested(t) /\ Goto(t, "commit") /\ UNCHANGED intent
  /\ UNCHANGED <<ledger, thread, call, task, stream>>

\* The last look at the cancel intent before the final is built.
Recheck(t) ==
  /\ pc[t] = "recheck"
  /\ \/ CancelRequested(t) /\ CommitNext(t, Cancelled)
     \/ ~CancelRequested(t) /\ Goto(t, "read") /\ UNCHANGED intent
     \/ StoreFails /\ Raise(t)
  /\ UNCHANGED <<ledger, thread, call, task, stream>>

\* aget_state of the thread, and build_terminal_event: the latest checkpoint,
\* whichever run and call wrote it, must hold a result.
Read(t) ==
  LET ck == thread[Conv(t)]
  IN  /\ pc[t] = "read"
      /\ \/ CommitNext(t, IF ck # None /\ ck.answer # None THEN Completed(ck)
                                                          ELSE StateInvalid)
         \/ StoreFails /\ Raise(t)
      /\ UNCHANGED <<ledger, thread, call, task, stream>>

AfterCommit(t) ==
  IF intent[t] = Cancelled THEN End(t, "returned")
                           ELSE Goto(t, "tell") /\ UNCHANGED intent

\* Mutant: ALREADY_TERMINAL compares the status alone.
CommitSameStatus(t) ==
  /\ pc[t] = "commit"
  /\ \/ Ledger!Commit(t, Run(t), intent[t]) /\ AfterCommit(t)
     \/ /\ entry[Run(t)] # None
        /\ entry[Run(t)].final # None
        /\ entry[Run(t)].final.status = intent[t].status
        /\ AfterCommit(t)
        /\ UNCHANGED ledger
  /\ UNCHANGED <<thread, call, task, stream>>

\* complete, fail and cancel.  The store answers TERMINATED, or
\* ALREADY_TERMINAL to a call that wants just what is there.
Commit(t) ==
  /\ pc[t] = "commit"
  /\ \/ /\ Ledger!Commit(t, Run(t), intent[t])
        /\ AfterCommit(t) \/ (StoreFails /\ Raise(t))
     \/ /\ entry[Run(t)] # None
        /\ entry[Run(t)].final = intent[t]
        /\ AfterCommit(t)
        /\ UNCHANGED ledger
  /\ UNCHANGED <<thread, call, task, stream>>

\* Mutant: a refused commit is logged and the event sent all the same.
CommitRefusedIgnored(t) ==
  /\ pc[t] = "commit"
  /\ ~Holds(t)
  /\ AfterCommit(t)
  /\ UNCHANGED <<ledger, thread, call, task, stream>>

\* LEASE_LOST, INVALID_TRANSITION, or no answer.
CommitRefused(t) ==
  /\ pc[t] = "commit"
  /\ \/ StoreFails
     \/ ~Holds(t) /\ (entry[Run(t)] = None \/ entry[Run(t)].final # intent[t])
  /\ Raise(t)
  /\ UNCHANGED <<ledger, thread, call, task, stream>>

\* The terminal event.  A sink that fails on a timeout's event fails inside
\* _drive_graph, whose handler commits another error code.
Tell(t) ==
  /\ pc[t] = "tell"
  /\ Send(t, IF intent[t].status = "COMPLETED" THEN "FINAL_MESSAGE"
                                               ELSE "RUN_FAILED", intent[t])
  /\ \/ End(t, "returned")
     \/ /\ SinkFails
        /\ IF intent[t] = TimedOut THEN CommitNext(t, ExecutionFailed)
                                   ELSE Raise(t)
  /\ UNCHANGED <<ledger, thread, call, task>>

\* Mutant: a replay tells the end without RUN_ACCEPTED.
ReplayUnaccepted(t) ==
  /\ pc[t] = "replay"
  /\ \/ intent[t].outcome.req = call[t] /\ Goto(t, "tell") /\ UNCHANGED intent
     \/ Raise(t)
  /\ UNCHANGED <<ledger, thread, call, task, stream>>

\* _replay_completed: the checkpoint must be this request's own.  It may be
\* gone or changed (RUN_REPLAY_UNAVAILABLE), or cannot be read.
Replay(t) ==
  /\ pc[t] = "replay"
  /\ \/ intent[t].outcome.req = call[t] /\ Goto(t, "again") /\ UNCHANGED intent
     \/ Raise(t)
  /\ UNCHANGED <<ledger, thread, call, task, stream>>

-----------------------------------------------------------------------------
(* The environment.  Cancel requests come at any time.  Faults names what  *)
(* else may happen:                                                        *)
(*   "sink"    sending an event raises (it may have been delivered);       *)
(*   "store"   a call of Redis or of the checkpointer raises, having had   *)
(*             its effect or not;                                          *)
(*   "input"   adapt_run_request refuses a request;                        *)
(*   "abort"   the caller's task is cancelled: no handler catches          *)
(*             CancelledError, the graph task is not told; only the wait   *)
(*             for a cancelled task swallows it;                           *)
(*   "crash"   the call's process dies with its graph task, or shuts down  *)
(*             under it, once the thread holds the call's request;         *)
(*   "early"   it may do so before that too;                               *)
(*   "stall"   a call is so slow that its lease expires under it;          *)
(*   "forget"  the run hash of an ended call expires.                      *)
RequestCancel(r) ==
  /\ Ledger!RequestCancel(r)
  /\ UNCHANGED <<thread, call, pc, intent, task, stream>>

Abort(t) ==
  /\ "abort" \in Faults
  /\ Live(t) /\ pc[t] # "stop"
  /\ Raise(t)
  /\ UNCHANGED <<ledger, thread, call, task, stream>>

Crash(t) ==
  /\ Live(t) \/ task[t].stage \in Working
  /\ MayDie(t)
  /\ Raise(t)
  /\ DropTask(t)
  /\ UNCHANGED <<ledger, thread, call, stream>>

\* Mutant: the lease key has no TTL.
LeaseForEver(c) == FALSE

LeaseExpires(c) ==
  /\ owner[c] # None
  /\ "stall" \in Faults \/ ~Live(owner[c])
  /\ owner' = [owner EXCEPT ![c] = None]
  /\ UNCHANGED <<entry, thread, call, pc, intent, task, stream>>

HashExpires(r) ==
  /\ "forget" \in Faults
  /\ entry[r] # None
  /\ \A t \in Tokens : Live(t) \/ task[t].stage \in Working => Run(t) # r
  /\ Ledger!InFlight(r) => owner[Ledger!EntryConv(r)] = None
  /\ entry' = [entry EXCEPT ![r] = None]
  /\ UNCHANGED <<owner, thread, call, pc, intent, task, stream>>

-----------------------------------------------------------------------------
CallStep(t) ==
  \/ Accept(t) \/ GraphReturned(t) \/ PollCancel(t) \/ Renew(t) \/ Beat(t)
  \/ Stopped(t) \/ Recheck(t) \/ Read(t) \/ Commit(t) \/ CommitRefused(t) \/ Tell(t)
  \/ Replay(t)

LifeNext ==
  \/ \E t \in Tokens :
       \/ \E q \in Requests \ Past :
            BeginStarted(q, t) \/ BeginResumed(q, t) \/ BeginReplay(q, t)
       \/ CallStep(t) \/ Timeout(t) \/ Graph(t) \/ Abort(t) \/ Crash(t)
  \/ \E r \in Runs : RequestCancel(r) \/ HashExpires(r)
  \/ \E c \in Convs : LeaseExpires(c)

LifeSpec == LifeInit /\ [][LifeNext]_lifeVars

(* The event loop runs every call that can go on, the deadline of a call    *)
(* comes, and the lease of an ended call expires.  Graphs may hang, until   *)
(* they are cancelled: a node that waits gives up, as the wait itself does. *)
LifeFairness ==
  /\ \A t \in Tokens : WF_lifeVars(CallStep(t)) /\ WF_lifeVars(Timeout(t))
  /\ \A c \in Convs : WF_lifeVars(owner[c] # None /\ ~Live(owner[c]) /\ LeaseExpires(c))

FairLifeSpec == LifeSpec /\ LifeFairness

-----------------------------------------------------------------------------
Awaits == {"idle", "start", "resume", "again", "drive", "renew", "beat",
           "stop", "recheck", "read", "commit", "tell", "replay", "returned", "raised"}
TaskRecords == [stage : Working \cup {"none", "done", "error", "cancelled"},
                req : Requests \cup {None}]
Events == [type : {"RUN_ACCEPTED", "RUN_HEARTBEAT"} \cup TerminalTypes,
           req : Requests, index : 1..(MaxBeats + 3),
           final : Finals \cup {None}]

(* The calls, tasks and checkpoints are of their types, a call that reached *)
(* its commit knows what it will commit, and one that never began did       *)
(* nothing.                                                                 *)
LifeTypeOK ==
  /\ entry \in [Runs -> EntryRecords \cup {None}]
  /\ owner \in [Convs -> Tokens \cup {None}]
  /\ thread \in [Convs -> Checkpoints \cup {None}]
  /\ call \in [Tokens -> Requests \cup {None}]
  /\ pc \in [Tokens -> Awaits]
  /\ intent \in [Tokens -> Finals \cup {None}]
  /\ task \in [Tokens -> TaskRecords]
  /\ \A t \in Tokens : \A i \in 1..Len(stream[t]) : stream[t][i] \in Events
  /\ \A t \in Tokens :
       /\ pc[t] \in {"commit", "tell", "replay", "again"} => intent[t] # None
       /\ call[t] = None <=> pc[t] = "idle"
       /\ call[t] = None => task[t] = NoTask /\ stream[t] = <<>>

(* Whatever fails and whenever, every stream a call emits passes the        *)
(* AgentEventSequenceValidator: RUN_ACCEPTED first and once, at most one    *)
(* terminal event, nothing after it.                                        *)
StreamsValidated ==
  \A t \in Tokens : call[t] # None => Validated(stream[t], call[t])

TerminalEvents(t) ==
  {stream[t][i] : i \in {j \in 1..Len(stream[t]) :
                           stream[t][j].type \in TerminalTypes}}

(* A terminal event is sent only after the store holds that very final for  *)
(* that very request, also by a call that lost its lease or replays.        *)
TerminalEventsCommitted ==
  [][\A t \in Tokens : \A e \in TerminalEvents(t)' \ TerminalEvents(t) :
       /\ entry[RunOf[e.req]] # None
       /\ entry[RunOf[e.req]].req = e.req
       /\ entry[RunOf[e.req]].final = e.final]_lifeVars

(* No two calls tell different ends of a run: while its hash is remembered, *)
(* every terminal event any call ever sent for it is the same.              *)
OneEndPerRun ==
  "forget" \notin Faults =>
    \A t, u \in Tokens : \A e \in TerminalEvents(t), f \in TerminalEvents(u) :
      RunOf[e.req] = RunOf[f.req] => e.final = f.final

(* A message sent as the answer to a request was generated for that request.*)
AnswerIsOwn ==
  \A t \in Tokens : \A e \in TerminalEvents(t) :
    e.type = "FINAL_MESSAGE" => e.final.outcome.answer.req = e.req

(* "Any exit path must handle the background graph_task": no graph runs for *)
(* a call that ended.                                                       *)
NoOrphanTask ==
  \A t \in Tokens : pc[t] \in {"returned", "raised"} =>
    task[t].stage \notin Working

(* Every call ends, although its graph may hang, and frees its conversation:*)
(* no lease is held for ever.                                               *)
CallsEnd == \A t \in Tokens : Live(t) ~> ~Live(t)
LeasesFreed == \A c \in Convs : owner[c] # None ~> owner[c] = None

(* "Neither cancellation nor timeout produces a final that can be saved":   *)
(* a run that is asked to cancel while in flight is not COMPLETED.          *)
CancelledRunNeverCompletes ==
  [][\A r \in Runs :
       (Ledger!InFlight(r) /\ entry[r].cancel /\ entry'[r] # None
          /\ entry'[r].final # None) => entry'[r].final.status # "COMPLETED"
    ]_lifeVars
=============================================================================
