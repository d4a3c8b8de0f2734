--------------------------- MODULE RootGraphProofs ---------------------------
(***************************************************************************)
(* What a finished thread shows a customer is its own, verified and clean, *)
(* nothing is asked past the deadline, and the graph is what the rest of   *)
(* the system takes it for: for any requests, orders, deadline and number  *)
(* of tool calls.                                                          *)
(***************************************************************************)
EXTENDS RootGraph, FiniteSetTheorems, SequenceTheorems, TLAPS

-----------------------------------------------------------------------------
(* A tool call in progress.                                                *)

ToolRecords ==
  [at : ToolPlaces, req : Requests \cup {None},
   domain : Domains \cup {None}, attempt : 0 .. 1,
   wake : 0 .. Deadline, sends : 0 .. 2,
   result : SafeToolResults \cup {None}]

\* At most one request is sent per attempt; a result is of the call.
ToolOK ==
  /\ tool \in ToolRecords
  /\ tool.at = "send" => tool.sends <= tool.attempt
  /\ tool.sends <= tool.attempt + 1
  /\ tool.at = "wait" => tool.attempt = 0
  /\ tool.at # "idle" => tool.req \in Requests
  /\ tool.at = "done" =>
       tool.result \in SafeToolResults /\ tool.result.req = tool.req

ClockOK == Deadline \in Nat /\ now \in 0 .. Deadline

LEMMA NoCallOK ==
  ASSUME Deadline \in Nat
  PROVE  /\ NoCall \in ToolRecords /\ NoCall.at = "idle" /\ NoCall.sends = 0
         /\ NoCall.attempt = 0
<1>1. "idle" \in ToolPlaces /\ None \in Requests \cup {None}
      /\ None \in Domains \cup {None} /\ None \in SafeToolResults \cup {None}
  BY DEF ToolPlaces
<1>2. 0 \in 0 .. 1 /\ 0 \in 0 .. Deadline /\ 0 \in 0 .. 2
  OBVIOUS
<1> QED
  BY <1>1, <1>2 DEF NoCall, ToolRecords

LEMMA FailedIsResult ==
  ASSUME NEW q \in Requests, NEW code
  PROVE  LET r == [outcome |-> ErrorStatus(code), req |-> q,
                   order |-> None, status |-> None]
         IN r \in SafeToolResults /\ r.req = q
<1>1. ErrorStatus(code) \in {"SUCCESS", "NOT_FOUND", "REJECTED", "UNAVAILABLE"}
  BY DEF ErrorStatus
<1> QED
  BY <1>1 DEF SafeToolResults

LEMMA FinishKeeps ==
  ASSUME ToolOK, tool.at # "idle", NEW r \in SafeToolResults, r.req = tool.req,
         Finish(r)
  PROVE  ToolOK' /\ tool'.req = tool.req /\ tool'.sends = tool.sends
<1>1. /\ tool \in ToolRecords /\ tool' = [tool EXCEPT !.at = "done", !.result = r]
      /\ "done" \in ToolPlaces
  BY DEF ToolOK, Finish, ToolPlaces
<1>2. /\ tool' \in ToolRecords /\ tool'.at = "done" /\ tool'.result = r
      /\ tool'.req = tool.req /\ tool'.sends = tool.sends
      /\ tool'.attempt = tool.attempt
  BY <1>1 DEF ToolRecords
<1> QED
  BY <1>2 DEF ToolOK

LEMMA FailKeeps ==
  ASSUME ToolOK, tool.at # "idle", NEW code, Fail(code)
  PROVE  ToolOK' /\ tool'.req = tool.req /\ tool'.sends = tool.sends
<1> DEFINE r == [outcome |-> ErrorStatus(code), req |-> tool.req,
                 order |-> None, status |-> None]
<1>1. tool.req \in Requests
  BY DEF ToolOK
<1>2. r \in SafeToolResults /\ r.req = tool.req
  BY <1>1, FailedIsResult
<1>3. Finish(r)
  BY DEF Fail
<1> HIDE DEF r
<1> QED
  BY <1>2, <1>3, FinishKeeps

LEMMA SendAgainKeeps ==
  ASSUME ToolOK, tool.at # "idle", SendAgain, tool.sends <= 1
  PROVE  ToolOK' /\ tool'.req = tool.req /\ tool'.sends = tool.sends
<1>1. /\ tool \in ToolRecords /\ tool' = [tool EXCEPT !.at = "send", !.attempt = 1]
      /\ "send" \in ToolPlaces /\ 1 \in 0 .. 1
  BY DEF ToolOK, SendAgain, ToolPlaces
<1>2. /\ tool' \in ToolRecords /\ tool'.at = "send" /\ tool'.attempt = 1
      /\ tool'.req = tool.req /\ tool'.sends = tool.sends
      /\ tool'.sends \in 0 .. 2
  BY <1>1 DEF ToolRecords
<1> QED
  BY <1>2 DEF ToolOK

LEMMA RetryOrFailKeeps ==
  ASSUME ToolOK, tool.at # "idle", RetryOrFail
  PROVE  ToolOK' /\ tool'.req = tool.req /\ tool'.sends = tool.sends
<1>1. CASE tool.attempt = 0 /\ ~Late
  BY <1>1, SendAgainKeeps DEF RetryOrFail, ToolOK
<1>2. CASE ~(tool.attempt = 0 /\ ~Late)
  BY <1>2, FailKeeps DEF RetryOrFail
<1> QED
  BY <1>1, <1>2

\* Only a place changes, and what goes with it.
LEMMA PlaceKeeps ==
  ASSUME ToolOK, tool.at # "idle", NEW p \in {"sent", "wait", "body", "broken"},
         NEW wake \in 0 .. Deadline, NEW n \in 0 .. 2, n <= tool.attempt + 1,
         p = "wait" => tool.attempt = 0,
         tool' = [tool EXCEPT !.at = p, !.wake = wake, !.sends = n]
  PROVE  ToolOK' /\ tool'.req = tool.req /\ tool'.sends = n
<1>1. tool \in ToolRecords /\ p \in ToolPlaces /\ p \notin {"send", "done"}
  BY DEF ToolOK, ToolPlaces
<1>2. /\ tool' \in ToolRecords /\ tool'.at = p /\ tool'.attempt = tool.attempt
      /\ tool'.req = tool.req /\ tool'.sends = n
  BY <1>1 DEF ToolRecords
<1> QED
  BY <1>1, <1>2 DEF ToolOK

\* A step of a call keeps to its request, and sends only in time.
LEMMA ToolStepKeeps ==
  ASSUME ToolOK, ClockOK, ToolStep
  PROVE  /\ ToolOK' /\ tool'.req = tool.req /\ UNCHANGED now
         /\ tool'.sends > tool.sends => ~Late
<1>0. /\ tool \in ToolRecords /\ tool.sends \in 0 .. 2 /\ tool.attempt \in 0 .. 1
      /\ tool.wake \in 0 .. Deadline /\ tool.sends <= tool.attempt + 1
      /\ tool.sends \in Int /\ UNCHANGED now
  <2>1. UNCHANGED now
    BY DEF ToolStep, Send, NoReply, Unreachable, BusyReply,
           Waited, ErrorReply, SuccessReply, Body, BodyTimesOut, BodyBreaks
  <2> QED
    BY <2>1 DEF ToolOK, ToolRecords
<1>1. ASSUME tool.at # "idle", RetryOrFail \/ \E code : Fail(code)
      PROVE  ToolOK' /\ tool'.req = tool.req /\ tool'.sends = tool.sends
  BY <1>1, RetryOrFailKeeps, FailKeeps
<1>2. ASSUME NEW p \in {"sent", "wait", "body", "broken"},
             NEW wake \in 0 .. Deadline, NEW n \in 0 .. 2,
             tool.at # "idle", n <= tool.attempt + 1,
             p = "wait" => tool.attempt = 0,
             tool' = [tool EXCEPT !.at = p, !.wake = wake, !.sends = n]
      PROVE  ToolOK' /\ tool'.req = tool.req /\ tool'.sends = n
  BY <1>2, PlaceKeeps
<1>3. CASE Send /\ ~Late
  <2>1. /\ tool.at = "send" /\ tool' = [tool EXCEPT !.at = "sent", !.sends = @ + 1]
        /\ tool.sends + 1 \in 0 .. 2 /\ tool.sends + 1 <= tool.attempt + 1
    BY <1>0, <1>3 DEF Send, ToolOK
  <2>2. tool' = [tool EXCEPT !.at = "sent", !.wake = tool.wake,
                             !.sends = tool.sends + 1]
    BY <1>0, <2>1 DEF ToolRecords
  <2> QED
    BY <1>0, <1>2, <1>3, <2>1, <2>2
<1>4. CASE (Send /\ Late) \/ NoReply \/ Unreachable \/ BodyTimesOut
  BY <1>0, <1>1, <1>4 DEF Send, NoReply, Unreachable, BodyTimesOut
<1>5. CASE BusyReply
  <2>1. PICK delay \in 0 .. RetryAfterMax :
          /\ now + delay <= Deadline
          /\ tool' = [tool EXCEPT !.at = "wait", !.wake = now + delay]
    BY <1>5 DEF BusyReply
  <2>2. /\ now + delay \in 0 .. Deadline
        /\ tool.at # "idle" /\ tool.attempt = 0
    BY <1>5, <2>1, ToolAssumption DEF ClockOK, BusyReply
  <2>3. tool' = [tool EXCEPT !.at = "wait", !.wake = now + delay,
                             !.sends = tool.sends]
    BY <1>0, <2>1 DEF ToolRecords
  <2>4. ToolOK' /\ tool'.req = tool.req /\ tool'.sends = tool.sends
    BY <1>0, <2>2, <2>3, PlaceKeeps
  <2> QED
    BY <1>0, <2>4
<1>6. CASE Waited
  <2>1. tool.at = "wait" /\ SendAgain
    BY <1>6 DEF Waited
  <2>2. tool.sends <= 1
    BY <1>0, <2>1 DEF ToolOK
  <2> QED
    BY <1>0, <2>1, <2>2, SendAgainKeeps
<1>7. CASE ErrorReply
  BY <1>0, <1>1, <1>7 DEF ErrorReply
<1>8. CASE SuccessReply
  <2>1. CASE Late
    BY <1>0, <1>1, <1>8, <2>1 DEF SuccessReply
  <2>2. CASE ~Late
    <3>1. tool.at = "sent" /\ tool' = [tool EXCEPT !.at = "body"]
      BY <1>8, <2>2 DEF SuccessReply
    <3>2. tool' = [tool EXCEPT !.at = "body", !.wake = tool.wake,
                               !.sends = tool.sends]
      BY <1>0, <3>1 DEF ToolRecords
    <3>3. ToolOK' /\ tool'.req = tool.req /\ tool'.sends = tool.sends
      BY <1>0, <3>1, <3>2, PlaceKeeps
    <3> QED
      BY <1>0, <3>3
  <2> QED
    BY <2>1, <2>2
<1>9. CASE BodyBreaks
  <2>1. tool.at = "body" /\ tool' = [tool EXCEPT !.at = "broken"]
    BY <1>9 DEF BodyBreaks
  <2>2. tool' = [tool EXCEPT !.at = "broken", !.wake = tool.wake,
                             !.sends = tool.sends]
    BY <1>0, <2>1 DEF ToolRecords
  <2>3. ToolOK' /\ tool'.req = tool.req /\ tool'.sends = tool.sends
    BY <1>0, <2>1, <2>2, PlaceKeeps
  <2> QED
    BY <1>0, <2>3
<1>10. CASE Body
  <2>1. tool.at # "idle" /\ tool.req \in Requests
    BY <1>10 DEF Body, ToolOK
  <2>2. CASE Fail("TOOL_PROTOCOL_ERROR")
    BY <1>0, <1>1, <2>1, <2>2
  <2>3. ASSUME NEW envelope \in Envelopes, Parse(envelope),
               ~Fail("TOOL_PROTOCOL_ERROR")
        PROVE  \E r \in SafeToolResults : r.req = tool.req /\ Finish(r)
    <3> DEFINE reports == tool.domain \in Reporting
               r == [outcome |-> "SUCCESS", req |-> envelope.req,
                     order |-> IF reports THEN envelope.order ELSE None,
                     status |-> IF reports THEN envelope.status ELSE None]
    <3>1. envelope.req = tool.req /\ Finish(r)
      BY <2>3 DEF Parse
    <3>2. /\ envelope.order \in Orders /\ envelope.status \in Statuses
          /\ envelope.req \in Requests
      BY <2>3 DEF Envelopes
    <3>3. r \in SafeToolResults /\ r.req = envelope.req
      BY <3>2 DEF SafeToolResults
    <3> QED
      BY <3>1, <3>3
  <2>4. Parse(Malformed) => Fail("TOOL_PROTOCOL_ERROR")
    BY DEF Parse
  <2>5. CASE ~Fail("TOOL_PROTOCOL_ERROR")
    <3>1. PICK r \in SafeToolResults : r.req = tool.req /\ Finish(r)
      BY <1>10, <2>3, <2>4, <2>5 DEF Body
    <3> QED
      BY <1>0, <2>1, <3>1, FinishKeeps
  <2> QED
    BY <2>2, <2>5
<1> QED
  BY <1>3, <1>4, <1>5, <1>6, <1>7, <1>8, <1>9, <1>10 DEF ToolStep

-----------------------------------------------------------------------------
(* A knowledge pass.                                                       *)

RagRecords ==
  [at : RagWorking \cup {"idle", "done", "raised"}, enough : BOOLEAN,
   answer : Texts \cup {None}, cited : BOOLEAN, passed : SUBSET Texts,
   repairs : 0 .. MaxRepairs, calls : 0 .. 4]

\* The model calls so far follow from the place and the repairs; what is
\* verified cites, and what is returned was verified or admits nothing.
RagOK ==
  /\ rag \in RagRecords
  /\ rag.at \in {"idle", "retrieve", "gate", "generate"} =>
       rag.calls = 0 /\ rag.repairs = 0
  /\ rag.at = "verify" =>
       /\ rag.calls = 1 + 2 * rag.repairs
       /\ rag.cited /\ rag.answer \in {"draft", "repaired"}
  /\ rag.at = "repair" => rag.calls = 2 /\ rag.repairs = 0
  /\ rag.at = "done" =>
       \/ rag.answer = "insufficient" /\ ~rag.cited
       \/ /\ rag.answer \in {"draft", "repaired"} /\ rag.answer \in rag.passed
          /\ rag.cited

LEMMA NoPassOK ==
  /\ NoPass \in RagRecords /\ NoPass.at = "idle" /\ NoPass.calls = 0
  /\ NoPass.repairs = 0
<1>1. 0 \in 0 .. 4 /\ 0 \in 0 .. MaxRepairs /\ None \in Texts \cup {None}
  BY DEF MaxRepairs
<1> QED
  BY <1>1 DEF NoPass, RagRecords

LEMMA RagStartKeeps ==
  ASSUME RagStart
  PROVE  RagOK' /\ rag'.calls = 0 /\ UNCHANGED now
<1>1. PICK p \in {"raised", "retrieve"} : rag' = [NoPass EXCEPT !.at = p]
  BY DEF RagStart
<1>2. p \in RagWorking \cup {"idle", "done", "raised"}
  BY DEF RagWorking
<1>3. /\ rag' \in RagRecords /\ rag'.at = p /\ rag'.calls = 0 /\ rag'.repairs = 0
  BY <1>1, <1>2, NoPassOK DEF RagRecords
<1> QED
  BY <1>3 DEF RagOK, RagStart

\* The calls of a pass, and the calls begun late.
LEMMA RagStepKeeps ==
  ASSUME RagOK, RagStep
  PROVE  /\ RagOK' /\ UNCHANGED now
         /\ rag'.calls > rag.calls => ~Late
<1>0. /\ rag \in RagRecords /\ rag.calls \in 0 .. 4 /\ rag.repairs \in 0 .. 1
      /\ rag.passed \in SUBSET Texts /\ UNCHANGED now
  <2>1. UNCHANGED now
    BY DEF RagStep, Retrieve, EvidenceGate, Generate, Verify, Repair,
           SafeInsufficient, RagRaise
  <2> QED
    BY <2>1 DEF RagOK, RagRecords, MaxRepairs
<1> DEFINE Places == RagWorking \cup {"idle", "done", "raised"}
<1>a. /\ RagWorking = {"retrieve", "gate", "generate", "verify", "repair", "safe"}
      /\ Texts = {"draft", "repaired", "insufficient"} /\ MaxRepairs = 1
  BY DEF RagWorking, Texts, MaxRepairs
<1>1. CASE Retrieve
  <2>1. PICK enough \in BOOLEAN : rag' = [rag EXCEPT !.at = "gate", !.enough = enough]
    BY <1>1 DEF Retrieve
  <2>2. /\ rag' \in RagRecords /\ rag'.at = "gate" /\ rag'.calls = rag.calls
        /\ rag'.repairs = rag.repairs
    BY <1>0, <1>a, <2>1 DEF RagRecords
  <2> QED
    BY <1>0, <1>1, <2>2 DEF RagOK, Retrieve, RagAt
<1>2. ASSUME RagAt("gate") \/ RagAt("safe"), Insufficient("done")
      PROVE  RagOK' /\ rag'.calls = rag.calls
  <2>1. rag' = [rag EXCEPT !.at = "done", !.answer = "insufficient",
                           !.cited = FALSE]
    BY <1>2 DEF Insufficient
  <2>2. /\ rag' \in RagRecords /\ rag'.at = "done" /\ rag'.calls = rag.calls
        /\ rag'.answer = "insufficient" /\ ~rag'.cited
    BY <1>0, <1>a, <2>1 DEF RagRecords
  <2> QED
    BY <2>2 DEF RagOK
<1>3. CASE EvidenceGate
  <2>1. CASE rag' = [rag EXCEPT !.at = "generate"]
    <3>1. /\ rag' \in RagRecords /\ rag'.at = "generate"
          /\ rag'.calls = rag.calls /\ rag'.repairs = rag.repairs
      BY <1>0, <1>a, <2>1 DEF RagRecords
    <3> QED
      BY <1>0, <1>3, <3>1 DEF RagOK, EvidenceGate, RagAt
  <2> QED
    BY <1>0, <1>2, <1>3, <2>1 DEF EvidenceGate
<1>4. CASE SafeInsufficient
  BY <1>0, <1>2, <1>4 DEF SafeInsufficient
<1>5. CASE Generate
  <2>1. /\ rag.calls = 0 /\ rag.repairs = 0 /\ ~Late
        /\ rag' = [rag EXCEPT !.at = "verify", !.answer = "draft",
                              !.cited = TRUE, !.calls = rag.calls + 1]
    BY <1>0, <1>5 DEF Generate, RagAt, RagOK
  <2>2. rag.calls + 1 \in 0 .. 4
    BY <2>1
  <2>3. /\ rag' \in RagRecords /\ rag'.at = "verify" /\ rag'.calls = rag.calls + 1
        /\ rag'.repairs = rag.repairs /\ rag'.answer = "draft" /\ rag'.cited = TRUE
    BY <1>0, <1>a, <2>1, <2>2 DEF RagRecords
  <2> QED
    BY <1>0, <2>1, <2>3 DEF RagOK
<1>6. CASE Repair
  <2>1. /\ rag.calls = 2 /\ rag.repairs = 0 /\ ~Late
        /\ rag' = [rag EXCEPT !.at = "verify", !.answer = "repaired",
             !.cited = TRUE, !.repairs = rag.repairs + 1, !.calls = rag.calls + 1]
    BY <1>0, <1>6 DEF Repair, RagAt, RagOK
  <2>2. rag.calls + 1 \in 0 .. 4 /\ rag.repairs + 1 \in 0 .. MaxRepairs
    BY <1>a, <2>1
  <2>3. /\ rag' \in RagRecords /\ rag'.at = "verify" /\ rag'.calls = rag.calls + 1
        /\ rag'.repairs = rag.repairs + 1 /\ rag'.answer = "repaired"
        /\ rag'.cited = TRUE
    BY <1>0, <1>a, <2>1, <2>2 DEF RagRecords
  <2> QED
    BY <1>0, <2>1, <2>3 DEF RagOK
<1>7. CASE Verify
  <2>1. PICK ok \in BOOLEAN :
          rag' = [rag EXCEPT !.at = RouteVerification(ok),
                    !.passed = IF ok THEN @ \cup {rag.answer} ELSE @,
                    !.calls = @ + 1]
    BY <1>7 DEF Verify
  <2>2. /\ rag.calls = 1 + 2 * rag.repairs /\ rag.cited /\ ~Late
        /\ rag.answer \in {"draft", "repaired"}
    BY <1>7 DEF Verify, RagAt, RagOK
  <2>3. rag.calls + 1 \in 0 .. 4
    BY <1>0, <2>2
  <2>4. /\ ok => RouteVerification(ok) = "done"
        /\ ~ok => \/ RouteVerification(ok) = "repair" /\ rag.repairs = 0
                 \/ RouteVerification(ok) = "safe"
    BY <1>0, <1>a DEF RouteVerification
  <2>5. (IF ok THEN rag.passed \cup {rag.answer} ELSE rag.passed) \in SUBSET Texts
    BY <1>0, <1>a, <2>2
  <2>6. RouteVerification(ok) \in Places
    BY <1>a, <2>4
  <2> HIDE DEF Places
  <2>7. /\ rag' \in RagRecords /\ rag'.at = RouteVerification(ok)
        /\ rag'.calls = rag.calls + 1 /\ rag'.repairs = rag.repairs
        /\ rag'.answer = rag.answer /\ rag'.cited = rag.cited
        /\ rag'.passed = IF ok THEN rag.passed \cup {rag.answer} ELSE rag.passed
    BY <1>0, <2>1, <2>3, <2>5, <2>6 DEF RagRecords, Places
  <2> QED
    BY <1>0, <2>2, <2>4, <2>7 DEF RagOK
<1>8. CASE RagRaise
  <2>1. rag' = [rag EXCEPT !.at = "raised"]
    BY <1>8 DEF RagRaise
  <2>2. rag' \in RagRecords /\ rag'.at = "raised" /\ rag'.calls = rag.calls
    BY <1>0, <1>a, <2>1 DEF RagRecords
  <2> QED
    BY <1>0, <2>2 DEF RagOK
<1> QED
  BY <1>1, <1>3, <1>4, <1>5, <1>6, <1>7, <1>8 DEF RagStep

-----------------------------------------------------------------------------
(* The thread.                                                             *)

\* Nodes that find the channels of earlier requests cleared, and nodes that
\* follow the answer.
Middle == Professional \cup InputTerminals \cup ClassTerminals
            \cup {"classify", "knowledge"}
After == {"output_gate", "finalize", "END"}

Cleared(t) ==
  /\ t.cites = {} /\ t.tools = {} /\ t.answer = None
  /\ t.handoff = None /\ t.escalation = None /\ ~t.unfit

\* Everything in the thread belongs to its request.
Own(t) ==
  /\ t.cites \subseteq {t.req}
  /\ \A x \in t.tools : x.req = t.req
  /\ t.answer # None => t.answer.req = t.req
  /\ t.handoff \in {None, t.req} /\ t.escalation \in {None, t.req}

Verified(t) ==
  t.answer # None =>
    /\ t.answer.kind = "knowledge" => t.answer.vetted /\ t.cites = {t.req}
    /\ t.answer.kind = "insufficient" => t.cites = {}

Gated(t) ==
  /\ ~t.unfit /\ ~t.dirty
  /\ t.answer # None =>
       t.answer.claim.status
         \in (UNION {FactsOf(x) : x \in t.tools}) \cup {None}

CheckpointOK(t) ==
  /\ t \in Checkpoints
  /\ t.next \in Middle => Cleared(t)
  /\ t.next \in After => Own(t) /\ Verified(t)
  /\ t.next \in {"finalize", "END"} => Gated(t)
  /\ t.next = "END" => Cardinality(Terminals(t)) = 1

\* What the call in progress holds was asked for the thread's request.
LocalOK ==
  /\ ClockOK /\ ToolOK /\ RagOK
  /\ found \in Seq(SafeToolResults) /\ Len(found) <= MaxAsks
  /\ \A i \in 1 .. Len(found) : found[i].req = thread.req
  /\ tool.at # "idle" => tool.req = thread.req /\ Len(found) < MaxAsks

GraphOK ==
  /\ thread = EmptyThread \/ CheckpointOK(thread)
  /\ seen \subseteq Requests
  /\ live \in BOOLEAN
  /\ live => CheckpointOK(thread) /\ thread.next # "END"
  /\ LocalOK

LEMMA NodeNames ==
  /\ Professional = {"pre_sales", "order_support", "after_sales"}
  /\ Nodes = {"context_sync", "output_gate", "finalize", "END"} \cup Middle
  /\ Middle \cap After = {} /\ "context_sync" \notin Middle \cup After
BY DEF Professional, Capability, Nodes, Middle, After, InputTerminals,
       ClassTerminals

LEMMA EntryRange ==
  ASSUME NEW d \in Dispositions
  PROVE  EntryRoute(d) \in Middle
<1>1. \/ EntryRoute(d) = "security_block" \/ EntryRoute(d) = "human_handoff"
      \/ EntryRoute(d) = "input_clarify" \/ EntryRoute(d) = "classify"
  BY DEF EntryRoute, Dispositions
<1> QED
  BY <1>1 DEF Middle, InputTerminals

LEMMA ClassificationRange ==
  ASSUME NEW d \in Decisions \cup {Failed}
  PROVE  ClassificationRoute(d) \in Middle
<1>1. CASE d = Failed
  BY <1>1 DEF ClassificationRoute, Middle, ClassTerminals
<1>2. CASE d # Failed
  <2>1. d.intent \in Intents /\ d.confidence \in {"low", "middle", "direct"}
    BY <1>2 DEF Decisions, Confidences
  <2>2. RouteTarget[d.intent] \in {"human_handoff", "after_sales",
          "order_support", "pre_sales", "knowledge", "unsupported"}
    BY <2>1 DEF Intents, RouteTarget
  <2>3. \/ ClassificationRoute(d) \in {"classification_fallback", "clarify"}
        \/ ClassificationRoute(d) = RouteTarget[d.intent]
    BY <1>2, <2>1 DEF ClassificationRoute
  <2> QED
    BY <2>2, <2>3, NodeNames DEF Middle, InputTerminals, ClassTerminals
<1> QED
  BY <1>1, <1>2

LEMMA ResetKeeps ==
  ASSUME GraphOK, Reset
  PROVE  LocalOK'
<1>1. /\ Deadline \in Nat /\ found' = <<>> /\ tool' = NoCall /\ rag' = NoPass
      /\ now' = 0 /\ MaxAsks \in Nat
  BY GraphAssumption DEF GraphOK, LocalOK, ClockOK, Reset
<1>2. ToolOK' /\ tool'.at = "idle"
  BY <1>1, NoCallOK DEF ToolOK
<1>3. RagOK'
  BY <1>1, NoPassOK DEF RagOK
<1>4. /\ found' \in Seq(SafeToolResults) /\ Len(found') <= MaxAsks
      /\ 1 .. Len(found') = {}
  BY <1>1
<1>5. ClockOK'
  BY <1>1 DEF ClockOK
<1> QED
  BY <1>2, <1>3, <1>4, <1>5 DEF LocalOK

\* A node commits a checkpoint that is in order.
LEMMA CommitKeeps ==
  ASSUME GraphOK, live, NEW t, CheckpointOK(t), Commit(t)
  PROVE  GraphOK'
<1>1. /\ thread' = t /\ live' = (t.next # "END") /\ seen' = seen
      /\ found' = <<>> /\ tool' = NoCall /\ rag' = NoPass
      /\ now' \in 0 .. Deadline /\ MaxAsks \in Nat /\ Deadline \in Nat
  BY GraphAssumption DEF GraphOK, LocalOK, ClockOK, Commit
<1>2. ToolOK' /\ tool'.at = "idle"
  BY <1>1, NoCallOK DEF ToolOK
<1>3. RagOK'
  BY <1>1, NoPassOK DEF RagOK
<1>4. /\ found' \in Seq(SafeToolResults) /\ Len(found') <= MaxAsks
      /\ 1 .. Len(found') = {}
  BY <1>1
<1>5. LocalOK'
  BY <1>1, <1>2, <1>3, <1>4 DEF LocalOK, ClockOK
<1>6. CheckpointOK(thread') /\ CheckpointOK(thread)' = CheckpointOK(thread')
  BY <1>1 DEF CheckpointOK, Own, Verified, Gated, Terminals, Cleared
<1> QED
  BY <1>1, <1>5, <1>6 DEF GraphOK

LEMMA RaiseKeeps ==
  ASSUME GraphOK, Raise \/ Crash
  PROVE  GraphOK'
<1>1. Reset /\ live' = FALSE /\ thread' = thread /\ seen' = seen
  BY DEF Raise, Crash
<1>2. LocalOK'
  BY <1>1, ResetKeeps
<1>3. CheckpointOK(thread)' <=> CheckpointOK(thread)
  BY <1>1 DEF CheckpointOK, Own, Verified, Gated, Terminals, Cleared
<1> QED
  BY <1>1, <1>2, <1>3 DEF GraphOK

\* The fields of a checkpoint that is typed.
LEMMA Fields ==
  ASSUME NEW t \in Checkpoints
  PROVE  /\ t.next \in Nodes /\ t.req \in Requests
         /\ t.disposition \in Dispositions
         /\ t.decision \in Decisions \cup {None, Failed}
         /\ t.cites \in SUBSET Requests /\ t.tools \in SUBSET SafeToolResults
         /\ t.answer \in Answers \cup {None}
         /\ t.handoff \in Requests \cup {None}
         /\ t.escalation \in Requests \cup {None}
         /\ t.unfit \in BOOLEAN /\ t.dirty \in BOOLEAN
BY DEF Checkpoints

LEMMA RunningFacts ==
  ASSUME GraphOK, live
  PROVE  /\ CheckpointOK(thread) /\ thread \in Checkpoints
         /\ thread.next # "END" /\ thread.req \in Requests
BY Fields DEF GraphOK, CheckpointOK

LEMMA ContextSyncKeeps ==
  ASSUME GraphOK, ContextSync
  PROVE  GraphOK'
<1>1. CASE Raise
  BY <1>1, RaiseKeeps
<1>2. CASE ~Raise
  <2> DEFINE n == EntryRoute(thread.disposition)
             t == [thread EXCEPT !.next = n, !.decision = None, !.cites = {},
                     !.tools = {}, !.answer = None, !.handoff = None,
                     !.escalation = None, !.unfit = FALSE]
  <2>1. live /\ Commit(t)
    BY <1>2 DEF ContextSync, Running
  <2>2. n \in Middle /\ n \in Nodes /\ thread \in Checkpoints
    BY <2>1, RunningFacts, Fields, EntryRange, NodeNames
  <2> HIDE DEF n
  <2>3. t \in Checkpoints /\ t.next = n /\ Cleared(t)
    BY <2>2 DEF Checkpoints, Cleared
  <2> HIDE DEF t
  <2>4. CheckpointOK(t)
    BY <2>2, <2>3, NodeNames DEF CheckpointOK, After
  <2> QED
    BY <2>1, <2>4, CommitKeeps
<1> QED
  BY <1>1, <1>2

LEMMA ClassifyKeeps ==
  ASSUME GraphOK, Classify
  PROVE  GraphOK'
<1>1. PICK d \in Decisions \cup {Failed} :
        Commit([thread EXCEPT !.next = ClassificationRoute(d), !.decision = d])
  BY DEF Classify
<1> DEFINE n == ClassificationRoute(d)
           t == [thread EXCEPT !.next = n, !.decision = d]
<1>2. live /\ thread.next = "classify" /\ CheckpointOK(thread)
      /\ thread \in Checkpoints /\ Commit(t)
  BY <1>1, RunningFacts DEF Classify, Running
<1>3. n \in Middle /\ n \in Nodes
  BY ClassificationRange, NodeNames
<1> HIDE DEF n
<1>4. Cleared(thread)
  BY <1>2 DEF CheckpointOK, Middle
<1>5. t \in Checkpoints /\ t.next = n /\ Cleared(t)
  BY <1>2, <1>3, <1>4 DEF Checkpoints, Cleared
<1> HIDE DEF t
<1>6. CheckpointOK(t)
  BY <1>3, <1>5, NodeNames DEF CheckpointOK, After
<1> QED
  BY <1>2, <1>6, CommitKeeps

\* A fixed answer or the handoff the input asks for.
LEMMA TerminalKeeps ==
  ASSUME GraphOK, InputTerminal \/ ClassTerminal
  PROVE  GraphOK'
<1>1. CASE Raise
  BY <1>1, RaiseKeeps
<1> DEFINE q == thread.req
           fixed == AnswerOf("fixed", q, NoClaim)
<1>2. fixed \in Answers /\ fixed.req = q /\ fixed.kind = "fixed"
      /\ fixed.claim.status = None /\ q \in Requests
  <2>1. q \in Requests
    BY RunningFacts DEF InputTerminal, ClassTerminal
  <2>2. NoClaim \in Claims /\ NoClaim.status = None
    BY DEF NoClaim, Claims
  <2> QED
    BY <2>1, <2>2 DEF Answers, AnswerOf, Kinds
<1> HIDE DEF fixed
<1>3. ASSUME NEW answer, NEW handoff,
             \/ answer = fixed /\ handoff = None
             \/ answer = None /\ handoff = q,
             Commit([thread EXCEPT !.next = "output_gate", !.handoff = handoff,
                       !.answer = answer, !.escalation = None])
      PROVE  GraphOK'
  <2> DEFINE t == [thread EXCEPT !.next = "output_gate", !.handoff = handoff,
                     !.answer = answer, !.escalation = None]
  <2>1. live /\ thread \in Checkpoints /\ CheckpointOK(thread)
        /\ thread.next \in Middle
    BY RunningFacts DEF InputTerminal, ClassTerminal, Middle
  <2>2. Cleared(thread)
    BY <2>1 DEF CheckpointOK
  <2>3. "output_gate" \in Nodes /\ "output_gate" \notin Middle
    BY NodeNames DEF After
  <2>4. t \in Checkpoints /\ t.next = "output_gate" /\ t.answer = answer
        /\ t.handoff = handoff /\ t.escalation = None /\ t.req = q
        /\ t.cites = {} /\ t.tools = {}
    BY <1>2, <1>3, <2>1, <2>2, <2>3 DEF Checkpoints, Cleared
  <2> HIDE DEF t
  <2>5. Own(t) /\ Verified(t)
    BY <1>2, <1>3, <2>4 DEF Own, Verified
  <2>6. CheckpointOK(t)
    BY <2>3, <2>4, <2>5 DEF CheckpointOK
  <2>7. Commit(t)
    BY <1>3 DEF t
  <2> QED
    BY <2>1, <2>6, <2>7, CommitKeeps
<1>4. CASE ClassTerminal
  BY <1>3, <1>4 DEF ClassTerminal, fixed
<1>5. CASE InputTerminal
  <2>1. thread.disposition \in Dispositions
    BY <1>5, RunningFacts, Fields DEF InputTerminal
  <2>2. CASE thread.disposition \in {"BLOCK", "CLARIFY"}
    BY <1>3, <1>5, <2>2 DEF InputTerminal, fixed
  <2>3. CASE thread.disposition = "HUMAN_HANDOFF"
    <3>1. Commit([thread EXCEPT !.next = "output_gate", !.answer = None,
                    !.handoff = q, !.escalation = None])
      BY <1>5, <2>3 DEF InputTerminal
    <3>2. [thread EXCEPT !.next = "output_gate", !.answer = None,
             !.handoff = q, !.escalation = None]
          = [thread EXCEPT !.next = "output_gate", !.handoff = q,
               !.answer = None, !.escalation = None]
      BY RunningFacts, <1>5 DEF Checkpoints, InputTerminal
    <3> QED
      BY <1>3, <3>1, <3>2
  <2>4. CASE thread.disposition = "ALLOW"
    BY <1>1, <1>5, <2>4 DEF InputTerminal
  <2> QED
    BY <2>1, <2>2, <2>3, <2>4 DEF Dispositions
<1> QED
  BY <1>4, <1>5

\* The local work of a branch goes on.
LEMMA WorkKeeps ==
  ASSUME GraphOK, KnowledgeStep \/ AskTool \/ ToolRuns \/ TakeResult
  PROVE  GraphOK'
<1>1. /\ UNCHANGED <<thread, seen, live>> /\ live
      /\ ClockOK /\ ToolOK /\ RagOK /\ now' = now /\ thread.req \in Requests
  <2>1. UNCHANGED <<thread, seen, live>> /\ live
    BY DEF KnowledgeStep, Running, AskTool, ToolRuns, TakeResult
  <2>2. UNCHANGED now
    BY ToolStepKeeps, RagStepKeeps, RagStartKeeps
       DEF KnowledgeStep, AskTool, Ask, ToolRuns, TakeResult, GraphOK, LocalOK
  <2> QED
    BY <2>1, <2>2, RunningFacts DEF GraphOK, LocalOK
<1>2. CheckpointOK(thread)' <=> CheckpointOK(thread)
  BY <1>1 DEF CheckpointOK, Own, Verified, Gated, Terminals, Cleared
<1>3. ClockOK'
  BY <1>1 DEF ClockOK
<1>4. CASE KnowledgeStep
  <2>1. RagOK' /\ UNCHANGED <<found, tool>>
    BY <1>1, <1>4, RagStartKeeps, RagStepKeeps DEF KnowledgeStep
  <2>2. ToolOK'
    BY <1>1, <2>1 DEF ToolOK
  <2>3. LocalOK'
    BY <1>1, <1>3, <2>1, <2>2 DEF GraphOK, LocalOK
  <2> QED
    BY <1>1, <1>2, <2>3 DEF GraphOK
<1>5. CASE AskTool
  <2>1. PICK d \in Capability[thread.next] : Ask(thread.req, d)
    BY <1>5 DEF AskTool
  <2>2. d \in Domains
    <3>1. thread.next \in {"pre_sales", "order_support", "after_sales"}
      BY <1>5, NodeNames DEF AskTool
    <3> QED
      BY <2>1, <3>1 DEF Capability, Domains
  <2>3. /\ tool' = [NoCall EXCEPT !.at = "send", !.req = thread.req, !.domain = d]
        /\ "send" \in ToolPlaces
    BY <2>1 DEF Ask, ToolPlaces
  <2>4. /\ tool' \in ToolRecords /\ tool'.at = "send" /\ tool'.req = thread.req
        /\ tool'.sends = 0 /\ tool'.attempt = 0
    BY <1>1, <2>2, <2>3, NoCallOK DEF ToolRecords, ClockOK
  <2>5. ToolOK'
    BY <1>1, <2>4 DEF ToolOK
  <2>6. RagOK' /\ found' = found /\ Len(found) < MaxAsks
    BY <1>1, <1>5 DEF AskTool, RagOK
  <2>7. LocalOK'
    BY <1>1, <1>3, <2>4, <2>5, <2>6 DEF GraphOK, LocalOK
  <2> QED
    BY <1>1, <1>2, <2>7 DEF GraphOK
<1>6. CASE ToolRuns
  <2>1. ToolOK' /\ tool'.req = tool.req /\ tool.at # "idle"
    BY <1>1, <1>6, ToolStepKeeps
       DEF ToolRuns, ToolStep, Send, NoReply, Unreachable, BusyReply, Waited,
           ErrorReply, SuccessReply, Body, BodyTimesOut, BodyBreaks
  <2>2. RagOK' /\ found' = found
    BY <1>1, <1>6 DEF ToolRuns, RagOK
  <2>3. LocalOK'
    BY <1>1, <1>3, <2>1, <2>2 DEF GraphOK, LocalOK
  <2> QED
    BY <1>1, <1>2, <2>3 DEF GraphOK
<1>7. CASE TakeResult
  <2>1. /\ tool.result \in SafeToolResults /\ tool.result.req = thread.req
        /\ found' = Append(found, tool.result) /\ tool' = NoCall
    BY <1>1, <1>7 DEF TakeResult, ToolOK, GraphOK, LocalOK
  <2>2. ToolOK' /\ tool'.at = "idle"
    BY <1>1, <2>1, NoCallOK DEF ToolOK, ClockOK
  <2>3. RagOK'
    BY <1>1, <1>7 DEF TakeResult, RagOK
  <2>4. /\ found \in Seq(SafeToolResults) /\ Len(found) < MaxAsks
        /\ \A i \in 1 .. Len(found) : found[i].req = thread.req
        /\ MaxAsks \in Nat
    BY <1>7, GraphAssumption DEF GraphOK, LocalOK, TakeResult
  <2>5. /\ found' \in Seq(SafeToolResults) /\ Len(found') = Len(found) + 1
        /\ found'[Len(found) + 1] = tool.result /\ Len(found) \in Nat
        /\ \A i \in 1 .. Len(found) : found'[i] = found[i]
    BY <2>1, <2>4
  <2>6. \A i \in 1 .. Len(found') : found'[i].req = thread'.req
    <3> SUFFICES ASSUME NEW i \in 1 .. Len(found')
        PROVE  found'[i].req = thread.req
      BY <1>1
    <3>1. CASE i \in 1 .. Len(found)
      BY <2>4, <2>5, <3>1
    <3>2. CASE i = Len(found) + 1
      BY <2>1, <2>5, <3>2
    <3> QED
      BY <2>5, <3>1, <3>2
  <2>7. Len(found') <= MaxAsks
    BY <2>4, <2>5
  <2>8. LocalOK'
    BY <1>3, <2>2, <2>3, <2>5, <2>6, <2>7 DEF LocalOK
  <2> QED
    BY <1>1, <1>2, <2>8 DEF GraphOK
<1> QED
  BY <1>4, <1>5, <1>6, <1>7

LEMMA KnowledgeReturnKeeps ==
  ASSUME GraphOK, KnowledgeReturn
  PROVE  GraphOK'
<1> DEFINE q == thread.req
           cites == IF rag.cited THEN {q} ELSE {}
           Answer(claim) ==
             [kind |-> IF rag.answer = "insufficient" THEN "insufficient"
                                                      ELSE "knowledge",
              req |-> q, claim |-> claim, vetted |-> rag.answer \in rag.passed]
<1>1. PICK claim \in Claims, unfit \in BOOLEAN :
        Commit([thread EXCEPT !.next = "output_gate", !.answer = Answer(claim),
                  !.cites = cites, !.handoff = None, !.unfit = unfit])
  BY DEF KnowledgeReturn
<1>2. /\ live /\ thread \in Checkpoints /\ CheckpointOK(thread)
      /\ thread.next \in Middle /\ q \in Requests
  BY RunningFacts DEF KnowledgeReturn, Running, Middle
<1>3. Cleared(thread)
  BY <1>2 DEF CheckpointOK
<1>4. /\ \/ rag.answer = "insufficient" /\ ~rag.cited
         \/ /\ rag.answer \in {"draft", "repaired"} /\ rag.answer \in rag.passed
            /\ rag.cited
  BY DEF KnowledgeReturn, GraphOK, LocalOK, RagOK
<1> DEFINE answer == Answer(claim)
<1>5. /\ answer \in Answers /\ answer.req = q
      /\ answer.kind = "knowledge" => answer.vetted /\ cites = {q}
      /\ answer.kind = "insufficient" => cites = {}
  <2>1. (rag.answer \in rag.passed) \in BOOLEAN
    OBVIOUS
  <2>2. (IF rag.answer = "insufficient" THEN "insufficient" ELSE "knowledge")
          \in Kinds
    BY DEF Kinds
  <2>3. answer \in Answers
    BY <1>2, <2>1, <2>2 DEF Answers
  <2> QED
    BY <1>4, <2>3
<1>6. cites \in SUBSET Requests /\ cites \subseteq {q}
  BY <1>2
<1>7. "output_gate" \in Nodes /\ "output_gate" \notin Middle
  BY NodeNames DEF After
<1> DEFINE t == [thread EXCEPT !.next = "output_gate", !.answer = answer,
                   !.cites = cites, !.handoff = None, !.unfit = unfit]
<1>8. Commit(t)
  BY <1>1
<1> HIDE DEF answer, cites, q
<1>9. t \in Checkpoints /\ t.next = "output_gate" /\ t.answer = answer
      /\ t.cites = cites /\ t.handoff = None /\ t.escalation = None
      /\ t.req = q /\ t.tools = {}
  BY <1>2, <1>3, <1>5, <1>6, <1>7 DEF Checkpoints, Cleared, q
<1> HIDE DEF t
<1>10. Own(t) /\ Verified(t)
  BY <1>5, <1>6, <1>9 DEF Own, Verified
<1>11. CheckpointOK(t)
  BY <1>7, <1>9, <1>10 DEF CheckpointOK
<1> QED
  BY <1>2, <1>8, <1>11, CommitKeeps

LEMMA BranchReturnKeeps ==
  ASSUME GraphOK, BranchReturn
  PROVE  GraphOK'
<1> DEFINE q == thread.req
           results == {found[i] : i \in DOMAIN found}
<1>1. PICK answer \in {thread.answer} \cup {AnswerOf("branch", q, c) : c \in Claims},
           handoff \in {thread.handoff, q},
           escalation \in {thread.escalation, q},
           tools \in {thread.tools, results},
           cites \in {thread.cites, {q}},
           unfit \in {thread.unfit, TRUE}, dirty \in {thread.dirty, TRUE} :
        Commit([thread EXCEPT !.next = "output_gate", !.answer = answer,
                  !.handoff = handoff, !.escalation = escalation,
                  !.tools = tools, !.cites = cites, !.unfit = unfit,
                  !.dirty = dirty])
  BY DEF BranchReturn
<1>2. /\ live /\ thread \in Checkpoints /\ CheckpointOK(thread)
      /\ thread.next \in Middle /\ q \in Requests
  BY RunningFacts DEF BranchReturn, Middle
<1>3. Cleared(thread)
  BY <1>2 DEF CheckpointOK
<1>4. /\ results \in SUBSET SafeToolResults
      /\ \A x \in results : x.req = q
  BY DEF GraphOK, LocalOK
<1>5. /\ tools \in SUBSET SafeToolResults /\ \A x \in tools : x.req = q
      /\ cites \in SUBSET Requests /\ cites \subseteq {q}
      /\ handoff \in {None, q} /\ escalation \in {None, q}
      /\ unfit \in BOOLEAN /\ dirty \in BOOLEAN
  <2> HIDE DEF results
  <2>1. thread.unfit \in BOOLEAN /\ thread.dirty \in BOOLEAN
    BY <1>2, Fields
  <2> QED
    BY <1>2, <1>3, <1>4, <2>1 DEF Cleared
<1>6. /\ answer \in Answers \cup {None}
      /\ answer # None => answer.req = q /\ answer.kind = "branch"
  <2>1. CASE answer = thread.answer
    BY <1>3, <2>1 DEF Cleared
  <2>2. CASE answer # thread.answer
    <3>1. PICK c \in Claims : answer = AnswerOf("branch", q, c)
      BY <2>2
    <3>2. "branch" \in Kinds /\ FALSE \in BOOLEAN
      BY DEF Kinds
    <3> QED
      BY <1>2, <3>1, <3>2 DEF AnswerOf, Answers
  <2> QED
    BY <2>1, <2>2
<1>7. "output_gate" \in Nodes /\ "output_gate" \notin Middle
  BY NodeNames DEF After
<1> DEFINE t == [thread EXCEPT !.next = "output_gate", !.answer = answer,
                  !.handoff = handoff, !.escalation = escalation,
                  !.tools = tools, !.cites = cites, !.unfit = unfit,
                  !.dirty = dirty]
<1>8. Commit(t)
  BY <1>1
<1> HIDE DEF q, results
<1>9. t \in Checkpoints /\ t.next = "output_gate" /\ t.answer = answer
      /\ t.cites = cites /\ t.handoff = handoff /\ t.escalation = escalation
      /\ t.req = q /\ t.tools = tools
  <2>1. /\ thread \in Checkpoints /\ "output_gate" \in Nodes
        /\ handoff \in Requests \cup {None} /\ escalation \in Requests \cup {None}
        /\ answer \in Answers \cup {None} /\ tools \in SUBSET SafeToolResults
        /\ cites \in SUBSET Requests /\ unfit \in BOOLEAN /\ dirty \in BOOLEAN
    BY <1>2, <1>5, <1>6, <1>7
  <2>2. t \in Checkpoints
    BY <2>1 DEF Checkpoints
  <2> QED
    BY <2>1, <2>2 DEF Checkpoints, q
<1> HIDE DEF t
<1>10. Own(t) /\ Verified(t)
  BY <1>5, <1>6, <1>9 DEF Own, Verified
<1>11. CheckpointOK(t)
  BY <1>7, <1>9, <1>10 DEF CheckpointOK
<1> QED
  BY <1>2, <1>8, <1>11, CommitKeeps

LEMMA GateKeeps ==
  ASSUME GraphOK, OutputGate
  PROVE  GraphOK'
<1>1. CASE Raise
  BY <1>1, RaiseKeeps
<1>2. CASE ~Raise
  <2> DEFINE t == [thread EXCEPT !.next = "finalize"]
  <2>1. /\ GateAccepts /\ Commit(t) /\ live /\ thread.next = "output_gate"
        /\ thread \in Checkpoints /\ CheckpointOK(thread)
    BY <1>2, RunningFacts DEF OutputGate, Running
  <2>2. "finalize" \in Nodes /\ "finalize" \notin Middle
    BY NodeNames DEF After
  <2>3. /\ t \in Checkpoints /\ t.next = "finalize" /\ t.req = thread.req
        /\ t.answer = thread.answer /\ t.cites = thread.cites
        /\ t.tools = thread.tools /\ t.handoff = thread.handoff
        /\ t.escalation = thread.escalation /\ t.unfit = thread.unfit
        /\ t.dirty = thread.dirty
    BY <2>1, <2>2 DEF Checkpoints
  <2> HIDE DEF t
  <2>4. Own(thread) /\ Verified(thread)
    BY <2>1 DEF CheckpointOK, After
  <2>5. Own(t) /\ Verified(t)
    BY <2>3, <2>4 DEF Own, Verified
  <2>6. Gated(t)
    BY <2>1, <2>3 DEF GateAccepts, Gated, Facts
  <2>7. CheckpointOK(t)
    BY <2>2, <2>3, <2>5, <2>6 DEF CheckpointOK
  <2> QED
    BY <2>1, <2>7, CommitKeeps
<1> QED
  BY <1>1, <1>2

LEMMA FinalizeKeeps ==
  ASSUME GraphOK, Finalize
  PROVE  GraphOK'
<1>1. CASE Raise
  BY <1>1, RaiseKeeps
<1>2. CASE ~Raise
  <2> DEFINE t == [thread EXCEPT !.next = "END"]
  <2>1. /\ Cardinality(Terminals(thread)) = 1 /\ Commit(t)
        /\ live /\ thread.next = "finalize"
        /\ thread \in Checkpoints /\ CheckpointOK(thread)
    BY <1>2, RunningFacts DEF Finalize, Running
  <2>2. "END" \in Nodes /\ "END" \notin Middle
    BY NodeNames DEF After
  <2>3. /\ t \in Checkpoints /\ t.next = "END" /\ t.req = thread.req
        /\ t.answer = thread.answer /\ t.cites = thread.cites
        /\ t.tools = thread.tools /\ t.handoff = thread.handoff
        /\ t.escalation = thread.escalation /\ t.unfit = thread.unfit
        /\ t.dirty = thread.dirty
    BY <2>1, <2>2 DEF Checkpoints
  <2> HIDE DEF t
  <2>4. Own(thread) /\ Verified(thread) /\ Gated(thread)
    BY <2>1 DEF CheckpointOK, After
  <2>5. Own(t) /\ Verified(t) /\ Gated(t)
    BY <2>3, <2>4 DEF Own, Verified, Gated
  <2>6. Terminals(t) = Terminals(thread)
    BY <2>3 DEF Terminals
  <2>7. CheckpointOK(t)
    BY <2>1, <2>2, <2>3, <2>5, <2>6 DEF CheckpointOK
  <2> QED
    BY <2>1, <2>7, CommitKeeps
<1> QED
  BY <1>1, <1>2

\* A new input reaches a thread whatever state the last call left it in.
LEMMA InvokeKeeps ==
  ASSUME GraphOK, NEW q \in Requests, Invoke(q)
  PROVE  GraphOK'
<1>1. /\ seen' = seen \cup {q} /\ Reset /\ live = FALSE
  BY DEF Invoke, GraphOK
<1>2. LocalOK' /\ seen' \subseteq Requests
  BY <1>1, ResetKeeps DEF GraphOK
<1>3. CASE UNCHANGED <<thread, live>>
  <2>1. CheckpointOK(thread)' <=> CheckpointOK(thread)
    BY <1>3 DEF CheckpointOK, Own, Verified, Gated, Terminals, Cleared
  <2> QED
    BY <1>1, <1>2, <1>3, <2>1 DEF GraphOK
<1>4. CASE live' = TRUE
  <2>1. PICK d \in Assessed :
          thread' = [thread EXCEPT !.next = "context_sync", !.req = q,
                       !.disposition = d, !.decision =
                         IF @ = Failed THEN None ELSE @]
    BY <1>1, <1>4 DEF Invoke
  <2>2. d \in Dispositions
    BY DEF Assessed
  <2>3. "context_sync" \in Nodes /\ "context_sync" \notin Middle
        /\ "context_sync" \notin After
    BY NodeNames
  <2>4. thread' \in Checkpoints /\ thread'.next = "context_sync"
    <3>1. CASE thread = EmptyThread
      <4>1. /\ {} \in SUBSET Requests /\ {} \in SUBSET SafeToolResults
            /\ None \in Answers \cup {None} /\ None \in Requests \cup {None}
            /\ None \in Decisions \cup {None, Failed} /\ FALSE \in BOOLEAN
        OBVIOUS
      <4>2. (IF EmptyThread.decision = Failed THEN None ELSE EmptyThread.decision)
              = None
        BY DEF EmptyThread
      <4> HIDE <1>1
      <4>3. thread' = [next |-> "context_sync", req |-> q, disposition |-> d,
              decision |-> None, cites |-> {}, tools |-> {}, answer |-> None,
              handoff |-> None, escalation |-> None, unfit |-> FALSE,
              dirty |-> FALSE]
        BY <2>1, <3>1, <4>2 DEF EmptyThread
      <4> QED
        BY <2>2, <2>3, <4>1, <4>3 DEF Checkpoints
    <3>2. CASE thread \in Checkpoints
      <4>1. (IF thread.decision = Failed THEN None ELSE thread.decision)
              \in Decisions \cup {None, Failed}
        BY <3>2, Fields
      <4> QED
        BY <2>1, <2>2, <2>3, <3>2, <4>1 DEF Checkpoints
    <3> QED
      BY <3>1, <3>2 DEF GraphOK, CheckpointOK
  <2>5. CheckpointOK(thread)' <=> CheckpointOK(thread')
    BY DEF CheckpointOK, Own, Verified, Gated, Terminals, Cleared
  <2>6. CheckpointOK(thread')
    BY <2>3, <2>4 DEF CheckpointOK, After
  <2> QED
    BY <1>2, <1>4, <2>3, <2>4, <2>5, <2>6 DEF GraphOK
<1> QED
  BY <1>3, <1>4 DEF Invoke

LEMMA ResumeKeeps ==
  ASSUME GraphOK, Resume
  PROVE  GraphOK'
<1>1. /\ Reset /\ live' = TRUE /\ thread' = thread /\ seen' = seen
      /\ thread.next # None /\ thread.next # "END"
  BY DEF Resume
<1>2. CheckpointOK(thread)
  BY <1>1 DEF GraphOK, EmptyThread
<1>3. CheckpointOK(thread)' <=> CheckpointOK(thread)
  BY <1>1 DEF CheckpointOK, Own, Verified, Gated, Terminals, Cleared
<1>4. LocalOK'
  BY <1>1, ResetKeeps
<1> QED
  BY <1>1, <1>2, <1>3, <1>4 DEF GraphOK

LEMMA TimeKeeps ==
  ASSUME GraphOK, Time \/ UNCHANGED graphVars
  PROVE  GraphOK'
<1>1. UNCHANGED <<thread, seen, live, found, tool, rag>>
  BY DEF Time, graphVars
<1>2. now' = now \/ (now < Deadline /\ now' = now + 1)
  BY DEF Time, Tick, graphVars
<1>3. ClockOK' /\ ToolOK' /\ RagOK'
  BY <1>1, <1>2 DEF GraphOK, LocalOK, ClockOK, ToolOK, RagOK
<1>4. CheckpointOK(thread)' <=> CheckpointOK(thread)
  BY <1>1 DEF CheckpointOK, Own, Verified, Gated, Terminals, Cleared
<1> QED
  BY <1>1, <1>3, <1>4 DEF GraphOK, LocalOK

LEMMA GraphInitOK == GraphInit => GraphOK
<1> SUFFICES ASSUME GraphInit PROVE GraphOK
  OBVIOUS
<1>1. Deadline \in Nat /\ MaxAsks \in Nat /\ 0 \in 0 .. Deadline
  BY DeadlineAssumption, GraphAssumption
<1>2. ToolOK /\ tool.at = "idle"
  BY <1>1, NoCallOK DEF GraphInit, ToolOK
<1>3. RagOK
  BY NoPassOK DEF GraphInit, RagOK
<1>4. /\ found \in Seq(SafeToolResults) /\ Len(found) <= MaxAsks
      /\ 1 .. Len(found) = {}
  BY <1>1 DEF GraphInit
<1> QED
  BY <1>1, <1>2, <1>3, <1>4 DEF GraphOK, LocalOK, ClockOK, GraphInit

LEMMA GraphStepKeeps ==
  ASSUME GraphOK, [GraphNext]_graphVars
  PROVE  GraphOK'
<1>1. CASE Node
  BY <1>1, ContextSyncKeeps, ClassifyKeeps, TerminalKeeps, WorkKeeps,
     KnowledgeReturnKeeps, BranchReturnKeeps, RaiseKeeps, GateKeeps,
     FinalizeKeeps DEF Node, BranchRaises
<1> QED
  BY <1>1, InvokeKeeps, ResumeKeeps, RaiseKeeps, TimeKeeps DEF GraphNext

LEMMA GraphInvariant == GraphSpec => []GraphOK
BY GraphInitOK, GraphStepKeeps, PTL DEF GraphSpec

-----------------------------------------------------------------------------
(* The properties.                                                         *)

\* The thread, the calls in progress and what they gathered keep their
\* types: no tool sends a third request, no pass calls a model five times.
THEOREM GraphTyped == GraphSpec => []GraphTypeOK
<1>1. GraphOK => GraphTypeOK
  BY DEF GraphOK, CheckpointOK, LocalOK, ClockOK, ToolOK, ToolRecords, RagOK,
         RagRecords, GraphTypeOK, ToolTypeOK, RagTypeOK
<1> QED
  BY <1>1, GraphInvariant, PTL

\* What is known of a finished thread.
LEMMA EndedFacts ==
  ASSUME GraphOK, Ended
  PROVE  /\ thread \in Checkpoints /\ Own(thread) /\ Verified(thread)
         /\ Gated(thread) /\ Cardinality(Terminals(thread)) = 1
<1>1. thread.next = "END" /\ "END" \in Nodes
  BY NodeNames DEF Ended
<1>2. thread # EmptyThread
  BY <1>1, NoneAssumption DEF EmptyThread
<1> QED
  BY <1>1, <1>2 DEF GraphOK, CheckpointOK, After

\* No text the gate's patterns refuse is shown, nor an answer on top of one.
THEOREM ShownIsFit == GraphSpec => []NothingUnfitShown
<1>1. GraphOK => NothingUnfitShown
  BY EndedFacts DEF NothingUnfitShown, Gated
<1> QED
  BY <1>1, GraphInvariant, PTL

\* Every knowledge answer shown is the very text that passed verification.
THEOREM ShownIsVerified == GraphSpec => []NothingUnverifiedShown
<1>1. GraphOK => NothingUnverifiedShown
  BY EndedFacts DEF NothingUnverifiedShown, Verified
<1> QED
  BY <1>1, GraphInvariant, PTL

\* Every status shown was reported to this very request.
THEOREM ShownStatusIsFresh == GraphSpec => []StatusHasFreshEvidence
<1>1. GraphOK => StatusHasFreshEvidence
  <2> SUFFICES ASSUME GraphOK, Ended, thread.answer # None,
                      thread.answer.claim.status # None
      PROVE  \E x \in thread.tools :
               /\ x.req = thread.req
               /\ thread.answer.claim.status \in FactsOf(x)
    BY DEF StatusHasFreshEvidence
  <2>1. Own(thread) /\ Gated(thread)
    BY EndedFacts
  <2>2. PICK x \in thread.tools : thread.answer.claim.status \in FactsOf(x)
    BY <2>1 DEF Gated
  <2> QED
    BY <2>1, <2>2 DEF Own
<1> QED
  BY <1>1, GraphInvariant, PTL

\* Once the deadline has passed no tool request and no call of the answering
\* models begins.
THEOREM DeadlineHolds == GraphSpec => NothingAskedLate
<1>1. GraphOK /\ [GraphNext]_graphVars
        => [tool'.sends > tool.sends \/ rag'.calls > rag.calls => ~Late]_graphVars
  <2> SUFFICES ASSUME GraphOK, GraphNext
      PROVE  tool'.sends > tool.sends \/ rag'.calls > rag.calls => ~Late
    OBVIOUS
  <2>0. /\ tool.sends \in 0 .. 2 /\ rag.calls \in 0 .. 4
        /\ ToolOK /\ ClockOK /\ RagOK
        /\ NoCall.sends = 0 /\ NoPass.calls = 0
    BY NoPassOK, NoCallOK DEF GraphOK, LocalOK, ToolOK, ToolRecords, RagOK,
       RagRecords, ClockOK
  <2>1. ASSUME tool' = tool \/ tool' = NoCall, rag' = rag \/ rag' = NoPass
        PROVE  ~(tool'.sends > tool.sends \/ rag'.calls > rag.calls)
    BY <2>0, <2>1
  <2>2. CASE Time \/ Resume \/ Crash \/ \E q \in Requests : Invoke(q)
    BY <2>1, <2>2 DEF Time, Resume, Crash, Invoke, Reset
  <2>3. CASE KnowledgeStep
    <3>1. tool' = tool /\ (RagStart \/ RagStep)
      BY <2>3 DEF KnowledgeStep
    <3>2. CASE RagStart
      BY <2>0, <3>1, <3>2, RagStartKeeps
    <3>3. CASE RagStep
      BY <2>0, <3>1, <3>3, RagStepKeeps
    <3> QED
      BY <3>1, <3>2, <3>3
  <2>4. CASE ToolRuns
    BY <2>0, <2>4, ToolStepKeeps DEF ToolRuns
  <2>5. CASE AskTool
    <3>1. PICK d \in Capability[thread.next] : Ask(thread.req, d)
      BY <2>5 DEF AskTool
    <3>2. tool'.sends = NoCall.sends /\ rag' = rag
      BY <2>5, <3>1 DEF Ask, NoCall, AskTool
    <3> QED
      BY <2>0, <3>2
  <2>6. CASE TakeResult
    BY <2>1, <2>6 DEF TakeResult
  <2>7. ASSUME Raise \/ \E t : Commit(t)
        PROVE  tool' = NoCall /\ rag' = NoPass
    BY <2>7 DEF Raise, Reset, Commit
  <2>8. CASE ContextSync \/ Classify \/ InputTerminal \/ ClassTerminal
             \/ KnowledgeReturn \/ BranchReturn \/ BranchRaises
             \/ OutputGate \/ Finalize
    <3>1. Raise \/ \E t : Commit(t)
      <4>1. CASE InputTerminal
        <5>1. thread.disposition \in Dispositions
          BY <4>1, RunningFacts, Fields DEF InputTerminal
        <5> QED
          BY <4>1, <5>1 DEF InputTerminal, Dispositions
      <4> QED
        BY <2>8, <4>1 DEF ContextSync, Classify, ClassTerminal, KnowledgeReturn,
                   BranchReturn, BranchRaises, OutputGate, Finalize
    <3> QED
      BY <2>1, <2>7, <3>1
  <2> QED
    BY <2>2, <2>3, <2>4, <2>5, <2>6, <2>8 DEF GraphNext, Node
<1> QED
  BY <1>1, GraphInvariant, PTL DEF GraphSpec, NothingAskedLate

-----------------------------------------------------------------------------
(* The graph implements GraphThread.                                       *)

StageOf(n) ==
  IF n = None THEN "none" ELSE IF n = "context_sync" THEN "input"
  ELSE IF n = "END" THEN "end" ELSE "sync"
OwnersOf(t) ==
  LET Entry(q) == IF q = None THEN <<>> ELSE <<q>>
  IN (IF t.answer = None THEN <<>> ELSE <<t.answer.req>>)
       \o Entry(t.handoff) \o Entry(t.escalation)
ShownOf(t) == IF t.next = "END" THEN OwnersOf(t) ELSE <<>>

LEMMA Mapped ==
  /\ Stage = StageOf(thread.next) /\ Stage' = StageOf(thread'.next)
  /\ (IF Ended THEN Owners ELSE <<>>) = ShownOf(thread)
  /\ (IF Ended THEN Owners ELSE <<>>)' = ShownOf(thread')
<1>1. None # "context_sync" /\ None # "END"
  BY NoneAssumption, NodeNames
<1>2. Stage = StageOf(thread.next)
  BY <1>1 DEF Stage, StageOf
<1>3. Stage' = StageOf(thread'.next)
  BY <1>1 DEF Stage, StageOf
<1> QED
  BY <1>2, <1>3 DEF Ended, Owners, ShownOf, OwnersOf

\* A single terminal has a single owner.
LEMMA OneOwner ==
  ASSUME NEW t \in Checkpoints, Own(t), Cardinality(Terminals(t)) = 1
  PROVE  OwnersOf(t) = <<t.req>>
<1> DEFINE a == t.answer # None
           h == t.handoff # None
           e == t.escalation # None
<1>1. PICK m : Terminals(t) = {m}
  <2>1. Terminals(t) \subseteq {"final_answer", "handoff", "escalation"}
    BY DEF Terminals
  <2>2. IsFiniteSet({"final_answer", "handoff", "escalation"})
    <3>1. IsFiniteSet({"final_answer"} \cup {"handoff"} \cup {"escalation"})
      BY FS_Singleton, FS_Union
    <3> QED
      BY <3>1, Zenon
  <2> QED
    BY <2>1, <2>2, FS_Subset, FS_Singleton
<1>2. /\ a <=> "final_answer" \in Terminals(t)
      /\ h <=> "handoff" \in Terminals(t)
      /\ e <=> "escalation" \in Terminals(t)
  BY DEF Terminals
<1>3. \/ (a /\ ~h /\ ~e)
      \/ (~a /\ h /\ ~e)
      \/ (~a /\ ~h /\ e)
  <2> HIDE DEF a, h, e
  <2> QED
    BY <1>1, <1>2 DEF Terminals
<1> DEFINE q == t.req
<1>4. /\ <<q>> \o <<>> = <<q>> /\ <<>> \o <<q>> = <<q>>
      /\ <<>> \o <<>> = <<>>
  <2>1. <<q>> \in Seq({q}) /\ <<>> \in Seq({q})
    OBVIOUS
  <2> QED
    BY <2>1, ConcatEmptySeq
<1> DEFINE Entry(x) == IF x = None THEN <<>> ELSE <<x>>
<1>5. OwnersOf(t) = (IF a THEN <<q>> ELSE <<>>)
                     \o (IF h THEN <<q>> ELSE <<>>) \o (IF e THEN <<q>> ELSE <<>>)
  <2>1. (IF t.answer = None THEN <<>> ELSE <<t.answer.req>>)
          = IF a THEN <<q>> ELSE <<>>
    BY DEF Own
  <2>2. Entry(t.handoff) = (IF h THEN <<q>> ELSE <<>>)
        /\ Entry(t.escalation) = (IF e THEN <<q>> ELSE <<>>)
    BY DEF Own
  <2> QED
    BY <2>1, <2>2 DEF OwnersOf
<1> HIDE DEF a, h, e, q
<1> QED
  <2>1. (IF a THEN <<q>> ELSE <<>>)
           \o (IF h THEN <<q>> ELSE <<>>) \o (IF e THEN <<q>> ELSE <<>>) = <<q>>
    <3>1. CASE a /\ ~h /\ ~e
      BY <3>1, <1>4, Zenon
    <3>2. CASE ~a /\ h /\ ~e
      BY <3>2, <1>4, Zenon
    <3>3. CASE ~a /\ ~h /\ e
      BY <3>3, <1>4, Zenon
    <3> QED
      BY <1>3, <3>1, <3>2, <3>3
  <2> QED
    BY <1>5, <2>1 DEF q

ThreadMove ==
  Thread!ThreadNext \/ UNCHANGED <<Stage, thread.req,
                                   IF Ended THEN Owners ELSE <<>> >>

\* What the mapping shows of a thread depends on these fields only.
LEMMA SameThread ==
  ASSUME StageOf(thread'.next) = StageOf(thread.next),
         thread'.req = thread.req, ShownOf(thread') = ShownOf(thread)
  PROVE  ThreadMove
BY Mapped DEF ThreadMove

\* A commit in the middle of the graph changes nothing of it.
LEMMA MiddleMove ==
  ASSUME GraphOK, live, NEW t, Commit(t), t.req = thread.req,
         thread.next \in Middle \cup {"output_gate"},
         t.next \in Middle \cup {"output_gate", "finalize"}
  PROVE  ThreadMove
<1>1. /\ None # thread.next /\ None # t.next
      /\ thread.next \notin {"context_sync", "END"}
      /\ t.next \notin {"context_sync", "END"} /\ thread' = t
  BY NodeNames, NoneAssumption DEF After, Commit
<1>2. /\ StageOf(thread'.next) = StageOf(thread.next)
      /\ ShownOf(thread') = ShownOf(thread)
  BY <1>1 DEF StageOf, ShownOf
<1> QED
  BY <1>1, <1>2, SameThread

LEMMA KeptMove ==
  ASSUME UNCHANGED thread
  PROVE  ThreadMove
BY SameThread

LEMMA InvokeMove ==
  ASSUME GraphOK, NEW q \in Requests, Invoke(q)
  PROVE  ThreadMove
<1>1. CASE UNCHANGED thread
  BY <1>1, KeptMove
<1>2. CASE ~UNCHANGED thread
  <2>1. /\ MayFollow(q, thread.req)
        /\ \E d \in Assessed :
             thread' = [thread EXCEPT !.next = "context_sync", !.req = q,
                          !.disposition = d, !.decision =
                            IF @ = Failed THEN None ELSE @]
    BY <1>2 DEF Invoke
  <2>2. thread.req \notin {None, q} => Sequence[q] > Sequence[thread.req]
    BY <2>1 DEF MayFollow
  <2>3. thread'.next = "context_sync" /\ thread'.req = q
    <3>1. CASE thread = EmptyThread
      BY <2>1, <3>1 DEF EmptyThread
    <3>2. CASE thread \in Checkpoints
      BY <2>1, <3>2 DEF Checkpoints
    <3> QED
      BY <3>1, <3>2 DEF GraphOK, CheckpointOK
  <2>4. /\ StageOf(thread'.next) = "input" /\ ShownOf(thread') = <<>>
    BY <2>3, NodeNames, NoneAssumption DEF StageOf, ShownOf
  <2>5. Thread!Input(q)
    BY <2>2, <2>3, <2>4, Mapped DEF Thread!Input
  <2> QED
    BY <2>5 DEF ThreadMove, Thread!ThreadNext
<1> QED
  BY <1>1, <1>2

LEMMA SyncMove ==
  ASSUME GraphOK, ContextSync
  PROVE  ThreadMove
<1>1. CASE Raise
  BY <1>1, KeptMove DEF Raise
<1>2. CASE ~Raise
  <2> DEFINE n == EntryRoute(thread.disposition)
  <2>1. /\ live /\ thread.next = "context_sync" /\ thread \in Checkpoints
        /\ thread' = [thread EXCEPT !.next = n, !.decision = None, !.cites = {},
                         !.tools = {}, !.answer = None, !.handoff = None,
                         !.escalation = None, !.unfit = FALSE]
    BY <1>2, RunningFacts DEF ContextSync, Running, Commit
  <2>2. n \in Middle /\ n \notin {None, "context_sync", "END"}
    BY <2>1, Fields, EntryRange, NodeNames, NoneAssumption DEF After
  <2> HIDE DEF n
  <2>3. thread'.next = n /\ thread'.req = thread.req
    BY <2>1 DEF Checkpoints
  <2>4. /\ StageOf(thread.next) = "input" /\ StageOf(thread'.next) = "sync"
        /\ ShownOf(thread) = <<>> /\ ShownOf(thread') = <<>>
    BY <2>1, <2>2, <2>3, NodeNames, NoneAssumption DEF StageOf, ShownOf
  <2>5. Thread!Sync
    BY <2>3, <2>4, Mapped DEF Thread!Sync
  <2> QED
    BY <2>5 DEF ThreadMove, Thread!ThreadNext
<1> QED
  BY <1>1, <1>2

LEMMA FinalizeMove ==
  ASSUME GraphOK, Finalize
  PROVE  ThreadMove
<1>1. CASE Raise
  BY <1>1, KeptMove DEF Raise
<1>2. CASE ~Raise
  <2> DEFINE t == [thread EXCEPT !.next = "END"]
  <2>1. /\ Cardinality(Terminals(thread)) = 1 /\ thread' = t
        /\ live /\ thread.next = "finalize"
        /\ thread \in Checkpoints /\ CheckpointOK(thread)
    BY <1>2, RunningFacts DEF Finalize, Running, Commit
  <2>2. "END" \in Nodes /\ "finalize" \in Nodes
    BY NodeNames
  <2>3. /\ t \in Checkpoints /\ t.next = "END" /\ t.req = thread.req
        /\ t.answer = thread.answer /\ t.cites = thread.cites
        /\ t.tools = thread.tools /\ t.handoff = thread.handoff
        /\ t.escalation = thread.escalation
    BY <2>1, <2>2 DEF Checkpoints
  <2> HIDE DEF t
  <2>4. Own(thread)
    BY <2>1 DEF CheckpointOK, After
  <2>5. Own(t) /\ Terminals(t) = Terminals(thread)
    BY <2>3, <2>4 DEF Own, Terminals
  <2>6. OwnersOf(t) = <<thread.req>>
    BY <2>1, <2>3, <2>5, OneOwner
  <2>7. /\ StageOf(thread.next) = "sync" /\ StageOf(thread'.next) = "end"
        /\ ShownOf(thread') = <<thread.req>>
    BY <2>1, <2>2, <2>3, <2>6, NoneAssumption DEF StageOf, ShownOf
  <2>8. Thread!Answer
    BY <2>1, <2>3, <2>7, Mapped DEF Thread!Answer
  <2> QED
    BY <2>8 DEF ThreadMove, Thread!ThreadNext
<1> QED
  BY <1>1, <1>2

LEMMA CommitMove ==
  ASSUME GraphOK, Classify \/ InputTerminal \/ ClassTerminal \/ KnowledgeReturn
                  \/ BranchReturn \/ OutputGate
  PROVE  ThreadMove
<1>1. CASE Raise
  BY <1>1, KeptMove DEF Raise
<1>2. ASSUME ~Raise
      PROVE  /\ live /\ thread.next \in Middle \cup {"output_gate"}
             /\ \E t : /\ Commit(t) /\ t.req = thread.req
                      /\ t.next \in Middle \cup {"output_gate", "finalize"}
  <2>1. live /\ thread \in Checkpoints /\ thread.disposition \in Dispositions
    BY RunningFacts, Fields DEF Classify, InputTerminal, ClassTerminal,
       KnowledgeReturn, BranchReturn, OutputGate, Running
  <2>2. thread.next \in Middle \cup {"output_gate"}
    BY DEF Classify, InputTerminal, ClassTerminal, KnowledgeReturn,
           BranchReturn, OutputGate, Running, Middle
  <2>3. CASE Classify
    <3>1. PICK d \in Decisions \cup {Failed} : Commit([thread EXCEPT
            !.next = ClassificationRoute(d), !.decision = d])
      BY <2>3 DEF Classify
    <3> DEFINE n == ClassificationRoute(d)
               t == [thread EXCEPT !.next = n, !.decision = d]
    <3>2. n \in Middle
      BY ClassificationRange
    <3> HIDE DEF n
    <3>3. t.next = n /\ t.req = thread.req
      BY <2>1 DEF Checkpoints
    <3>4. Commit(t)
      BY <3>1 DEF n
    <3> HIDE DEF t
    <3> QED
      BY <2>1, <2>2, <3>2, <3>3, <3>4
  <2>4. CASE InputTerminal \/ ClassTerminal
    <3>1. PICK answer, handoff :
            \/ Commit([thread EXCEPT !.next = "output_gate", !.handoff = handoff,
                         !.answer = answer, !.escalation = None])
            \/ Commit([thread EXCEPT !.next = "output_gate", !.answer = answer,
                         !.handoff = handoff, !.escalation = None])
      BY <1>2, <2>1, <2>4 DEF InputTerminal, ClassTerminal, Dispositions
    <3> DEFINE t == [thread EXCEPT !.next = "output_gate", !.handoff = handoff,
                       !.answer = answer, !.escalation = None]
               u == [thread EXCEPT !.next = "output_gate", !.answer = answer,
                       !.handoff = handoff, !.escalation = None]
    <3>2. /\ t.next = "output_gate" /\ t.req = thread.req
          /\ u.next = "output_gate" /\ u.req = thread.req
      BY <2>1 DEF Checkpoints
    <3>3. Commit(t) \/ Commit(u)
      BY <3>1
    <3> HIDE DEF t, u
    <3> QED
      BY <2>1, <2>2, <3>2, <3>3
  <2>5. CASE KnowledgeReturn
    <3>1. PICK answer, cites, unfit :
            Commit([thread EXCEPT !.next = "output_gate", !.answer = answer,
                      !.cites = cites, !.handoff = None, !.unfit = unfit])
      BY <2>5 DEF KnowledgeReturn
    <3> DEFINE t == [thread EXCEPT !.next = "output_gate", !.answer = answer,
                       !.cites = cites, !.handoff = None, !.unfit = unfit]
    <3>2. t.next = "output_gate" /\ t.req = thread.req
      BY <2>1 DEF Checkpoints
    <3>3. Commit(t)
      BY <3>1
    <3> HIDE DEF t
    <3> QED
      BY <2>1, <2>2, <3>2, <3>3
  <2>6. CASE BranchReturn
    <3>1. PICK answer \in {thread.answer}
                      \cup {AnswerOf("branch", thread.req, c) : c \in Claims},
               handoff \in {thread.handoff, thread.req},
               escalation \in {thread.escalation, thread.req},
               tools \in {thread.tools, {found[i] : i \in DOMAIN found}},
               cites \in {thread.cites, {thread.req}},
               unfit \in {thread.unfit, TRUE}, dirty \in {thread.dirty, TRUE} :
            Commit([thread EXCEPT !.next = "output_gate", !.answer = answer,
                      !.handoff = handoff, !.escalation = escalation,
                      !.tools = tools, !.cites = cites, !.unfit = unfit,
                      !.dirty = dirty])
      BY <2>6 DEF BranchReturn
    <3> DEFINE t == [thread EXCEPT !.next = "output_gate", !.answer = answer,
                       !.handoff = handoff, !.escalation = escalation,
                       !.tools = tools, !.cites = cites, !.unfit = unfit,
                       !.dirty = dirty]
    <3>2. t.next = "output_gate" /\ t.req = thread.req
      BY <2>1 DEF Checkpoints
    <3>3. Commit(t)
      BY <3>1
    <3> HIDE DEF t
    <3> QED
      BY <2>1, <2>2, <3>2, <3>3
  <2>7. CASE OutputGate
    <3> DEFINE t == [thread EXCEPT !.next = "finalize"]
    <3>1. Commit(t)
      BY <1>2, <2>7 DEF OutputGate
    <3>2. t.next = "finalize" /\ t.req = thread.req
      BY <2>1 DEF Checkpoints
    <3> HIDE DEF t
    <3> QED
      BY <2>1, <2>2, <3>1, <3>2
  <2> QED
    BY <2>3, <2>4, <2>5, <2>6, <2>7
<1> QED
  BY <1>1, <1>2, MiddleMove

\* The root graph, with its crashes, resumptions and failing nodes, does to a
\* conversation's thread nothing but what the rest of the system assumes.
THEOREM GraphImplementsThread == GraphSpec => ImplementsThread
<1>1. GraphInit => Thread!ThreadInit
  <2> SUFFICES ASSUME GraphInit PROVE Thread!ThreadInit
    OBVIOUS
  <2>1. thread.next = None /\ thread.req = None /\ None # "END"
    BY NoneAssumption, NodeNames DEF GraphInit, EmptyThread
  <2> QED
    BY <2>1, Mapped DEF Thread!ThreadInit, StageOf, ShownOf
<1>2. GraphOK /\ [GraphNext]_graphVars => ThreadMove
  <2> SUFFICES ASSUME GraphOK, [GraphNext]_graphVars PROVE ThreadMove
    OBVIOUS
  <2>1. CASE UNCHANGED graphVars \/ Time \/ Resume \/ Crash
    BY <2>1, KeptMove DEF graphVars, Time, Resume, Crash
  <2>2. CASE KnowledgeStep \/ AskTool \/ ToolRuns \/ TakeResult \/ BranchRaises
    BY <2>2, KeptMove DEF KnowledgeStep, AskTool, ToolRuns, TakeResult,
       BranchRaises, Raise
  <2> QED
    BY <2>1, <2>2, InvokeMove, SyncMove, CommitMove, FinalizeMove
       DEF GraphNext, Node
<1>3. ThreadMove => [Thread!ThreadNext]_(Thread!threadVars)
  BY DEF ThreadMove, Thread!threadVars
<1> QED
  BY <1>1, <1>2, <1>3, GraphInvariant, PTL
     DEF GraphSpec, ImplementsThread, Thread!ThreadSpec

=============================================================================
