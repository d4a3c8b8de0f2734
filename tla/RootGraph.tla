----------------------------- MODULE RootGraph -----------------------------
(***************************************************************************)
(* The customer service graph on one conversation's thread: context_sync,  *)
(* classify, the fixed terminals, the four branches, output_gate and       *)
(* finalize.  LangGraph (external) checkpoints the thread's channels after *)
(* every node, so a call that dies is resumed at the node it had reached,  *)
(* and the channels of one request are there when the next one comes.      *)
(*                                                                         *)
(*   - the knowledge branch is KnowledgeRag;                               *)
(*   - the three professional branches are not in the repository: they are *)
(*     anything RootBranch allows, asking Java through ToolCall with the   *)
(*     tools of their capability package;                                  *)
(*   - texts are abstracted to whose request they answer, what order and   *)
(*     status they claim, and whether the gate's patterns find them clean. *)
(***************************************************************************)
EXTENDS Sequences, FiniteSetsExt, ToolCall, KnowledgeRag

CONSTANTS
  Sequence,     \* trigger sequence of a request
  Customer,     \* customer of a request
  Known,        \* orders in a request's business context
  MaxAsks       \* bound: tools a branch asks for in one node

ASSUME GraphAssumption ==
  /\ Sequence \in [Requests -> Nat]
  /\ Known \in [Requests -> SUBSET Orders]
  /\ MaxAsks \in Nat

VARIABLES
  thread,   \* the channels of the latest checkpoint, None before the first
  seen,     \* requests whose input was given to the graph
  live,     \* a call is executing thread.next
  found     \* tool results so far of the professional branch being executed

graphVars == <<thread, seen, live, found, now, tool, rag>>

-----------------------------------------------------------------------------
(* Channels.                                                               *)
Professional == DOMAIN Capability
InputTerminals == {"security_block", "human_handoff", "input_clarify"}
ClassTerminals == {"classification_fallback", "clarify", "unsupported"}
Nodes == {"context_sync", "classify", "knowledge", "output_gate", "finalize",
          "END"} \cup Professional \cup InputTerminals \cup ClassTerminals

Dispositions == {"ALLOW", "BLOCK", "HUMAN_HANDOFF", "CLARIFY"}
\* AgentRunRequest refuses an empty message before it is assessed.
Assessed == Dispositions \ {"CLARIFY"}

RouteTarget ==
  [HUMAN_REQUEST |-> "human_handoff", AFTER_SALES |-> "after_sales",
   ORDER_SUPPORT |-> "order_support", PRE_SALES |-> "pre_sales",
   KNOWLEDGE |-> "knowledge", UNSUPPORTED |-> "unsupported"]
Intents == DOMAIN RouteTarget
Confidences == {"low", "middle", "direct"}     \* against the two thresholds
Decisions == [intent : Intents, confidence : Confidences]
\* RouteClassificationFailure
Failed == [intent |-> None, confidence |-> None]

Claims == [order : Orders \cup {None}, status : Statuses \cup {None}]
NoClaim == [order |-> None, status |-> None]
Kinds == {"fixed", "branch", "knowledge", "insufficient"}
\* vetted: this very text passed verification.
Answers == [kind : Kinds, req : Requests, vetted : BOOLEAN, claim : Claims]
AnswerOf(kind, q, claim) ==
  [kind |-> kind, req |-> q, vetted |-> FALSE, claim |-> claim]

Checkpoints ==
  [next : Nodes, req : Requests, disposition : Dispositions,
   decision : Decisions \cup {None, Failed},
   cites : SUBSET Requests, tools : SUBSET SafeToolResults,
   answer : Answers \cup {None},       \* the terminals; a suggestion is the
   handoff : Requests \cup {None},     \* request it was made for
   escalation : Requests \cup {None},
   unfit : BOOLEAN,         \* a terminal text the gate's patterns refuse
   dirty : BOOLEAN]         \* a message of the thread they refuse

ASSUME NoneAssumption ==
  /\ None \notin Requests \cup Orders \cup Statuses
  /\ None \notin Nodes
  /\ None \notin Answers

EmptyThread ==
  [next |-> None, req |-> None, disposition |-> None, decision |-> None,
   cites |-> {}, tools |-> {}, answer |-> None, handoff |-> None,
   escalation |-> None, unfit |-> FALSE, dirty |-> FALSE]

GraphInit ==
  /\ thread = EmptyThread
  /\ seen = {}
  /\ live = FALSE
  /\ found = <<>>
  /\ now = 0
  /\ tool = NoCall
  /\ rag = NoPass

-----------------------------------------------------------------------------
(* A call begins and ends.                                                 *)

\* preserve_identity
MayFollow(q, p) ==
  \/ p \in {None, q}
  \/ Customer[q] = Customer[p] /\ Sequence[q] > Sequence[p]

\* Local work is forgotten; the clock belongs to the call.
Reset == found' = <<>> /\ tool' = NoCall /\ rag' = NoPass /\ now' = 0

\* adapt_run_request, then ainvoke(input): the channels it names are merged
\* into the thread and the graph starts again at its entry.
Invoke(q) ==
  /\ ~live
  /\ q \notin seen
  /\ seen' = seen \cup {q}
  /\ IF MayFollow(q, thread.req)
     THEN /\ live' = TRUE
          /\ \E d \in Assessed :
               thread' = [thread EXCEPT !.next = "context_sync", !.req = q,
                                        !.disposition = d, !.decision =
                                          IF @ = Failed THEN None ELSE @]
     ELSE UNCHANGED <<thread, live>>
  /\ Reset

\* ainvoke(None) for the run the thread belongs to.
Resume ==
  /\ ~live
  /\ thread.next \notin {None, "END"}
  /\ live' = TRUE
  /\ Reset
  /\ UNCHANGED <<thread, seen>>

\* The process dies, or the call is cancelled or timed out.
Crash ==
  /\ live
  /\ live' = FALSE
  /\ Reset
  /\ UNCHANGED <<thread, seen>>

\* The node raises: no checkpoint is written.
Raise == live' = FALSE /\ Reset /\ UNCHANGED <<thread, seen>>

\* The node's update is checkpointed and the graph goes on to t.next.
Commit(t) ==
  /\ thread' = t
  /\ live' = (t.next # "END")
  /\ found' = <<>> /\ tool' = NoCall /\ rag' = NoPass
  /\ now' = IF t.next = "END" THEN 0 ELSE now
  /\ UNCHANGED seen

Running(n) == live /\ thread.next = n

-----------------------------------------------------------------------------
(* Nodes of the root graph.                                                *)

\* select_entry_route
EntryRoute(d) ==
  CASE d = "BLOCK"         -> "security_block"
    [] d = "HUMAN_HANDOFF" -> "human_handoff"
    [] d = "CLARIFY"       -> "input_clarify"
    [] d = "ALLOW"         -> "classify"

\* Mutant: the terminals of an earlier request are left in place.
ContextSyncKeepsTerminals ==
  /\ Running("context_sync")
  /\ \/ Raise
     \/ /\ ~Late
        /\ Commit([thread EXCEPT !.next = EntryRoute(thread.disposition),
                    !.decision = None, !.cites = {}, !.tools = {}])

\* Mutant: the tool results of an earlier request are left in place.
ContextSyncKeepsTools ==
  /\ Running("context_sync")
  /\ \/ Raise
     \/ /\ ~Late
        /\ Commit([thread EXCEPT !.next = EntryRoute(thread.disposition),
                    !.decision = None, !.cites = {}, !.answer = None,
                    !.handoff = None, !.escalation = None, !.unfit = FALSE])

\* Raises when it is late, and when the identity, the thread or the trigger
\* message are not those of the call.
ContextSync ==
  /\ Running("context_sync")
  /\ \/ Raise
     \/ /\ ~Late
        /\ Commit([thread EXCEPT !.next = EntryRoute(thread.disposition),
                    !.decision = None, !.cites = {}, !.tools = {},
                    !.answer = None, !.handoff = None, !.escalation = None,
                    !.unfit = FALSE])

\* select_classification_route
ClassificationRoute(d) ==
  CASE d = Failed -> "classification_fallback"
    [] d # Failed /\ d.confidence = "low" -> "classification_fallback"
    [] d # Failed /\ d.confidence = "middle" -> "clarify"
    [] d # Failed /\ d.confidence = "direct" -> RouteTarget[d.intent]

\* One structured call of the routing model, with its own timeout: what
\* openai, pydantic and the configuration raise becomes a failure code.
Classify ==
  /\ Running("classify")
  /\ \E d \in Decisions \cup {Failed} :
       Commit([thread EXCEPT !.next = ClassificationRoute(d), !.decision = d])

\* build_input_terminal.  It refuses an input it thinks cannot arrive.
InputTerminal ==
  /\ live /\ thread.next \in InputTerminals
  /\ CASE thread.disposition \in {"BLOCK", "CLARIFY"} ->
            Commit([thread EXCEPT !.next = "output_gate", !.handoff = None,
                      !.answer = AnswerOf("fixed", thread.req, NoClaim),
                      !.escalation = None])
       [] thread.disposition = "HUMAN_HANDOFF" ->
            Commit([thread EXCEPT !.next = "output_gate", !.answer = None,
                      !.handoff = thread.req, !.escalation = None])
       [] thread.disposition = "ALLOW" -> Raise

ClassTerminal ==
  /\ live /\ thread.next \in ClassTerminals
  /\ Commit([thread EXCEPT !.next = "output_gate", !.handoff = None,
               !.answer = AnswerOf("fixed", thread.req, NoClaim),
               !.escalation = None])

-----------------------------------------------------------------------------
(* The knowledge branch.                                                   *)
KnowledgeStep ==
  /\ Running("knowledge")
  /\ RagStart \/ RagStep
  /\ UNCHANGED <<thread, seen, live, found, tool>>

\* KnowledgeRagBranch.ainvoke: three channels, the others stay.
KnowledgeReturn ==
  /\ Running("knowledge")
  /\ rag.at = "done"
  /\ \E claim \in Claims, unfit \in BOOLEAN :
       /\ rag.answer = "insufficient" => claim = NoClaim /\ ~unfit
       /\ Commit([thread EXCEPT !.next = "output_gate",
            !.answer = [kind |-> IF rag.answer = "insufficient"
                                 THEN "insufficient" ELSE "knowledge",
                        req |-> thread.req, claim |-> claim,
                        vetted |-> rag.answer \in rag.passed],
            !.cites = IF rag.cited THEN {thread.req} ELSE {},
            !.handoff = None, !.unfit = unfit])

-----------------------------------------------------------------------------
(* The professional branches (external).                                   *)
AskTool ==
  /\ live /\ thread.next \in Professional
  /\ Len(found) < MaxAsks
  /\ \E d \in Capability[thread.next] : Ask(thread.req, d)
  /\ UNCHANGED <<thread, seen, live, found, rag>>

ToolRuns ==
  /\ live /\ thread.next \in Professional
  /\ ToolStep
  /\ UNCHANGED <<thread, seen, live, found, rag>>

\* The tool's artifact is in the branch's hands.
TakeResult ==
  /\ live /\ thread.next \in Professional
  /\ tool.at = "done"
  /\ found' = Append(found, tool.result)
  /\ tool' = NoCall
  /\ UNCHANGED <<thread, seen, live, now, rag>>

\* Each field a branch may return is set or left alone; tool results are
\* the artifacts it got.
BranchReturn ==
  /\ live /\ thread.next \in Professional
  /\ tool.at = "idle"
  /\ \E answer \in {thread.answer}
                     \cup {AnswerOf("branch", thread.req, c) : c \in Claims},
        handoff \in {thread.handoff, thread.req},
        escalation \in {thread.escalation, thread.req},
        tools \in {thread.tools, {found[i] : i \in DOMAIN found}},
        cites \in {thread.cites, {thread.req}},
        unfit \in {thread.unfit, TRUE}, dirty \in {thread.dirty, TRUE} :
       Commit([thread EXCEPT !.next = "output_gate", !.answer = answer,
                 !.handoff = handoff, !.escalation = escalation,
                 !.tools = tools, !.cites = cites, !.unfit = unfit,
                 !.dirty = dirty])

\* A branch raises, or returns what invoke_root_branch refuses; a broken
\* tool call or a failed knowledge pass does not get further.
BranchRaises ==
  /\ live
  /\ \/ thread.next \in Professional /\ tool.at \in {"idle", "broken"}
     \/ thread.next = "knowledge" /\ rag.at = "raised"
  /\ Raise

-----------------------------------------------------------------------------
(* output_gate and finalize.                                               *)

\* _tool_fact_evidence: every fact counts, whatever field it comes from.
FactsOf(t) == {t.order, t.status} \ {None}
Facts == UNION {FactsOf(t) : t \in thread.tools}

\* Mutant: only the terminal texts are looked at, not the messages.
GateAcceptsMessages ==
  /\ ~thread.unfit
  /\ thread.answer # None =>
       /\ thread.answer.claim.order
            \in Known[thread.req] \cup Facts \cup {None}
       /\ thread.answer.claim.status \in Facts \cup {None}

\* Mutant: the business context is evidence for a status too.
GateAcceptsAnyStatus ==
  /\ ~thread.unfit
  /\ ~thread.dirty
  /\ thread.answer # None =>
       thread.answer.claim.order
         \in Known[thread.req] \cup Facts \cup {None}

\* validate_output_state, for an identity that is the caller's.
GateAccepts ==
  /\ ~thread.unfit
  /\ ~thread.dirty
  /\ thread.answer # None =>
       /\ thread.answer.claim.order
            \in Known[thread.req] \cup Facts \cup {None}
       /\ thread.answer.claim.status \in Facts \cup {None}

OutputGate ==
  /\ Running("output_gate")
  /\ IF GateAccepts THEN Commit([thread EXCEPT !.next = "finalize"])
                    ELSE Raise

Terminals(t) ==
  (IF t.answer = None THEN {} ELSE {"final_answer"})
    \cup (IF t.handoff = None THEN {} ELSE {"handoff"})
    \cup (IF t.escalation = None THEN {} ELSE {"escalation"})

\* Mutant: at least one terminal is enough.
FinalizeSome ==
  /\ Running("finalize")
  /\ IF Terminals(thread) # {}
     THEN Commit([thread EXCEPT !.next = "END"])
     ELSE Raise

Finalize ==
  /\ Running("finalize")
  /\ IF Cardinality(Terminals(thread)) = 1
     THEN Commit([thread EXCEPT !.next = "END"])
     ELSE Raise

-----------------------------------------------------------------------------
Node ==
  \/ ContextSync \/ Classify \/ InputTerminal \/ ClassTerminal
  \/ KnowledgeStep \/ KnowledgeReturn
  \/ AskTool \/ ToolRuns \/ TakeResult \/ BranchReturn \/ BranchRaises
  \/ OutputGate \/ Finalize

Time == live /\ Tick /\ UNCHANGED <<thread, seen, live, found, tool, rag>>

GraphNext ==
  \/ \E q \in Requests : Invoke(q)
  \/ Resume \/ Crash \/ Node \/ Time

GraphSpec ==
  GraphInit /\ [][GraphNext]_graphVars
            /\ WF_graphVars(Node) /\ WF_graphVars(Time)

-----------------------------------------------------------------------------
(* Properties.                                                             *)

\* Types of the thread, the calls in progress and what they gathered; a tool
\* call sends at most twice, a knowledge pass calls the model at most four
\* times.
GraphTypeOK ==
  /\ thread = EmptyThread \/ thread \in Checkpoints
  /\ seen \subseteq Requests
  /\ live \in BOOLEAN
  /\ found \in Seq(SafeToolResults) /\ Len(found) <= MaxAsks
  /\ now \in 0 .. Deadline
  /\ ToolTypeOK
  /\ RagTypeOK

Ended == thread.next = "END"

\* What the gate let through was found clean, terminals and messages alike:
\* a text the patterns refuse is never the last word, nor is any answer
\* given on top of a message they refuse.
NothingUnfitShown == Ended => ~thread.unfit /\ ~thread.dirty

\* A conversation's answer from the knowledge base is the very text the
\* verifier passed, whether first written or repaired; it cites, and the
\* text that admits there is no evidence cites nothing.
NothingUnverifiedShown ==
  Ended /\ thread.answer # None =>
    /\ thread.answer.kind = "knowledge" =>
         thread.answer.vetted /\ thread.cites = {thread.req}
    /\ thread.answer.kind = "insufficient" => thread.cites = {}

\* A status told to a customer is a fact reported by a tool asked for this
\* very request, never one left in the thread by an earlier one.
StatusHasFreshEvidence ==
  Ended /\ thread.answer # None /\ thread.answer.claim.status # None =>
    \E t \in thread.tools :
      /\ t.req = thread.req
      /\ thread.answer.claim.status \in FactsOf(t)

\* No request to Java and no call of the answering models begins once the
\* deadline has passed, retries and repairs included.
NothingAskedLate ==
  [][tool'.sends > tool.sends \/ rag'.calls > rag.calls => ~Late]_graphVars

\* Every call of the graph comes to an end by itself, with or without an
\* answer: no retry, repair or wait outlasts the deadline.
GraphCallsEnd == live ~> ~live

\* The graph is what RunLifecycle takes it for.
Stage ==
  CASE thread.next = None -> "none"
    [] thread.next = "context_sync" -> "input"
    [] thread.next = "END" -> "end"
    [] OTHER -> "sync"

\* The requests the terminals were made for, one entry per terminal.
Owners ==
  LET Entry(q) == IF q = None THEN <<>> ELSE <<q>>
  IN (IF thread.answer = None THEN <<>> ELSE <<thread.answer.req>>)
       \o Entry(thread.handoff) \o Entry(thread.escalation)

Thread == INSTANCE GraphThread WITH
  stage <- Stage, req <- thread.req, shown <- IF Ended THEN Owners ELSE <<>>

\* A finished thread shows one answer, made for the request it holds, and a
\* conversation never goes back to an older request, through every failure,
\* crash and resumption.
ImplementsThread == Thread!ThreadSpec

=============================================================================
