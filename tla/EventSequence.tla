---------------------------- MODULE EventSequence ----------------------------
(***************************************************************************)
(* AgentEventSequenceValidator of contracts/events.py: the rules one run's *)
(* event stream must obey on the wire, as an acceptor that is fed one      *)
(* event at a time and stays rejected once it rejected.                    *)
(***************************************************************************)
EXTENDS Integers, Sequences

TerminalTypes == {"FINAL_MESSAGE", "RUN_FAILED"}   \* FINAL_MESSAGE stands for
      \* the three results of a graph: answer, handoff, escalation

\* The validator before its first event.
FreshValidator == [last |-> 0, terminated |-> FALSE, rejected |-> FALSE]

\* One call of accept() by the validator of request q.
Acceptable(v, e, q) ==
  /\ ~v.rejected
  /\ e.req = q
  /\ ~v.terminated
  /\ IF v.last = 0 THEN e.type = "RUN_ACCEPTED" /\ e.index = 1
                   ELSE e.type # "RUN_ACCEPTED"
  /\ e.index > v.last

AcceptEvent(v, e, q) ==
  IF Acceptable(v, e, q)
    THEN [last |-> e.index, terminated |-> e.type \in TerminalTypes,
          rejected |-> FALSE]
    ELSE [v EXCEPT !.rejected = TRUE]

\* The validator of request q after the stream, one event at a time.
Validator(stream, q) ==
  LET after[n \in 0 .. Len(stream)] ==
        IF n = 0 THEN FreshValidator ELSE AcceptEvent(after[n - 1], stream[n], q)
  IN after[Len(stream)]

\* The stream of request q passes the validator.
Validated(stream, q) == ~Validator(stream, q).rejected
=============================================================================
