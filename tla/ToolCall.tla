------------------------------ MODULE ToolCall ------------------------------
(***************************************************************************)
(* One invocation of a read-only Java tool by a branch of the root graph:  *)
(* the registered tool asks JavaToolClient.execute_tool, which sends at    *)
(* most two requests before the caller's deadline, and turns whatever      *)
(* comes back into a SafeToolResult.  Java may answer late, wrongly, for   *)
(* another call, or not at all; the clock may reach the deadline at any    *)
(* await.                                                                  *)
(***************************************************************************)
EXTENDS RequestDeadline

CONSTANTS
  Requests,        \* runs a tool may be asked for
  Orders, Statuses,\* what a tool may report of an order or entitlement
  RetryAfterMax    \* java_retry_after_max_seconds, in ticks

ASSUME ToolAssumption == RetryAfterMax \in Nat

VARIABLE tool      \* the invocation in progress

-----------------------------------------------------------------------------
(* Registry.  Only orders and entitlements have a status to report; the    *)
(* first ten tools, those of PRE_SALES, are catalogue and promotions.      *)
Domains == {"CATALOG", "PROMOTION", "CUSTOMER", "ORDER", "WALLET",
            "ENTITLEMENT"}
Reporting == {"ORDER", "ENTITLEMENT"}

Capability ==
  [pre_sales     |-> {"CATALOG", "PROMOTION"},
   order_support |-> {"ORDER", "WALLET", "ENTITLEMENT"},
   after_sales   |-> {"ORDER", "ENTITLEMENT"}]

\* A SafeToolResult, with the run it was obtained for.
SafeToolResults ==
  [outcome : {"SUCCESS", "NOT_FOUND", "REJECTED", "UNAVAILABLE"},
   req : Requests, order : Orders \cup {None}, status : Statuses \cup {None}]

\* A success envelope: the call its correlation fields name, and its data.
Envelopes == [req : Requests, order : Orders, status : Statuses]
Malformed == None      \* too large, not JSON, not the contract

ErrorStatus(code) ==
  CASE code = "TOOL_NOT_FOUND"     -> "NOT_FOUND"
    [] code = "TOOL_ACCESS_DENIED" -> "REJECTED"
    [] OTHER                       -> "UNAVAILABLE"

\* HTTP statuses by what the client does with them; "busy" is one of
\* _RETRYABLE_STATUS_CODES, "down" any other 5xx, "odd" any other non-2xx.
CodeOf == [denied  |-> "TOOL_ACCESS_DENIED", missing |-> "TOOL_NOT_FOUND",
           busy    |-> "TOOL_UNAVAILABLE",   down    |-> "TOOL_UNAVAILABLE",
           odd     |-> "TOOL_PROTOCOL_ERROR"]

-----------------------------------------------------------------------------
ToolPlaces == {"idle", "send", "sent", "wait", "body", "done", "broken"}

NoCall == [at |-> "idle", req |-> None, domain |-> None, attempt |-> 0,
           wake |-> 0, sends |-> 0, result |-> None]

Finish(result) == tool' = [tool EXCEPT !.at = "done", !.result = result]
Fail(code) ==
  Finish([outcome |-> ErrorStatus(code), req |-> tool.req,
          order |-> None, status |-> None])

SendAgain == tool' = [tool EXCEPT !.at = "send", !.attempt = 1]

\* Mutant: neither the attempt nor the time left is looked at.
RetryForever == tool' = [tool EXCEPT !.at = "send"]

\* A timeout, or a connection that failed: retried once, in time.
RetryOrFail ==
  IF tool.attempt = 0 /\ ~Late THEN SendAgain ELSE Fail("TOOL_UNAVAILABLE")

\* The tool of domain d is invoked for run q.
Ask(q, d) ==
  /\ tool.at = "idle"
  /\ tool' = [NoCall EXCEPT !.at = "send", !.req = q, !.domain = d]
  /\ UNCHANGED now

\* Mutant: the remaining time is not looked at before sending.
SendUnchecked ==
  /\ tool.at = "send"
  /\ tool' = [tool EXCEPT !.at = "sent", !.sends = @ + 1]
  /\ UNCHANGED now

Send ==
  /\ tool.at = "send"
  /\ IF Late THEN RetryOrFail
     ELSE tool' = [tool EXCEPT !.at = "sent", !.sends = @ + 1]
  /\ UNCHANGED now

\* ConnectError, ConnectTimeout, ReadTimeout, or asyncio's timeout.
NoReply == tool.at = "sent" /\ RetryOrFail /\ UNCHANGED now

\* Any other transport error.
Unreachable == tool.at = "sent" /\ Fail("TOOL_UNAVAILABLE") /\ UNCHANGED now

\* The first busy status is waited out, never past the deadline.
BusyReply ==
  /\ tool.at = "sent"
  /\ tool.attempt = 0
  /\ \E delay \in 0 .. RetryAfterMax :
       /\ now + delay <= Deadline
       /\ tool' = [tool EXCEPT !.at = "wait", !.wake = now + delay]
  /\ UNCHANGED now

Waited ==
  /\ tool.at = "wait"
  /\ now >= tool.wake
  /\ SendAgain
  /\ UNCHANGED now

ErrorReply ==
  /\ tool.at = "sent"
  /\ \E class \in DOMAIN CodeOf :
       /\ class = "busy" => tool.attempt = 1
       /\ IF Late THEN RetryOrFail ELSE Fail(CodeOf[class])
  /\ UNCHANGED now

SuccessReply ==
  /\ tool.at = "sent"
  /\ IF Late THEN RetryOrFail ELSE tool' = [tool EXCEPT !.at = "body"]
  /\ UNCHANGED now

\* Mutant: the envelope's request, call and tool are not compared.
ParseAny(envelope) ==
  IF envelope = Malformed THEN Fail("TOOL_PROTOCOL_ERROR")
  ELSE Finish([outcome |-> "SUCCESS", req |-> envelope.req,
               order |-> IF tool.domain \in Reporting THEN envelope.order
                                                      ELSE None,
               status |-> IF tool.domain \in Reporting THEN envelope.status
                                                       ELSE None])

\* _parse_response and, for a result, _project_evidence.
Parse(envelope) ==
  IF envelope = Malformed \/ envelope.req # tool.req
  THEN Fail("TOOL_PROTOCOL_ERROR")
  ELSE Finish([outcome |-> "SUCCESS", req |-> envelope.req,
               order |-> IF tool.domain \in Reporting THEN envelope.order
                                                      ELSE None,
               status |-> IF tool.domain \in Reporting THEN envelope.status
                                                       ELSE None])

Body ==
  /\ tool.at = "body"
  /\ \/ \E envelope \in Envelopes : Parse(envelope)
     \/ Parse(Malformed)
  /\ UNCHANGED now

BodyTimesOut == tool.at = "body" /\ RetryOrFail /\ UNCHANGED now

\* The connection breaks inside the body: execute_tool catches timeouts only,
\* so httpx's error reaches the branch.
BodyBreaks ==
  /\ tool.at = "body"
  /\ tool' = [tool EXCEPT !.at = "broken"]
  /\ UNCHANGED now

ToolStep ==
  \/ Send \/ NoReply \/ Unreachable \/ BusyReply \/ Waited
  \/ ErrorReply \/ SuccessReply \/ Body \/ BodyTimesOut \/ BodyBreaks

ToolTypeOK ==
  tool \in [at : ToolPlaces, req : Requests \cup {None},
            domain : Domains \cup {None}, attempt : 0 .. 1,
            wake : 0 .. Deadline, sends : 0 .. 2,
            result : SafeToolResults \cup {None}]

=============================================================================
