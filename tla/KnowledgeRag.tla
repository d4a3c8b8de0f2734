---------------------------- MODULE KnowledgeRag ----------------------------
(***************************************************************************)
(* KnowledgeRagSubgraph: one pass of retrieve, generate, verify, and at    *)
(* most one repair, under the request's deadline.  The subgraph has no     *)
(* checkpointer: what happens here is lost with the task, and only the     *)
(* answer and its citations reach the root graph.                          *)
(*                                                                         *)
(* An answer is abstracted to which of the texts it is: the generated      *)
(* "draft", its "repaired" form, or the fixed "insufficient" text.  What   *)
(* the models say is free, within the contracts the code checks.           *)
(***************************************************************************)
EXTENDS RequestDeadline

MaxRepairs == 1      \* _MAX_REPAIR_COUNT

VARIABLE rag      \* the pass in progress

-----------------------------------------------------------------------------
Texts == {"draft", "repaired", "insufficient"}
RagWorking == {"retrieve", "gate", "generate", "verify", "repair", "safe"}
RagAwaiting == {"retrieve", "generate", "verify", "repair"}

NoPass == [at |-> "idle", enough |-> FALSE, answer |-> None, cited |-> FALSE,
           passed |-> {}, repairs |-> 0, calls |-> 0]

RagAt(p) == rag.at = p

\* ainvoke: the remaining time is checked, then bounds the whole pass.
\* (A missing retriever and an empty query raise here too: see RagRaise.)
RagStart ==
  /\ RagAt("idle")
  /\ rag' = [NoPass EXCEPT !.at = IF Late THEN "raised" ELSE "retrieve"]
  /\ UNCHANGED now

\* The hybrid retriever's verdict; RetrievalResult refuses a sufficient
\* result without chunks.
Retrieve ==
  /\ RagAt("retrieve")
  /\ \E enough \in BOOLEAN :
       rag' = [rag EXCEPT !.at = "gate", !.enough = enough]
  /\ UNCHANGED now

Insufficient(p) ==
  rag' = [rag EXCEPT !.at = p, !.answer = "insufficient", !.cited = FALSE]

EvidenceGate ==
  /\ RagAt("gate")
  /\ IF rag.enough THEN rag' = [rag EXCEPT !.at = "generate"]
                   ELSE Insufficient("done")
  /\ UNCHANGED now

\* The answer generator: markers that exist and are used, so it cites.
Generate ==
  /\ RagAt("generate")
  /\ ~Late
  /\ rag' = [rag EXCEPT !.at = "verify", !.answer = "draft", !.cited = TRUE,
                        !.calls = @ + 1]
  /\ UNCHANGED now

\* Mutant: a second refusal ends the pass with the refused text.
RouteVerificationLax(ok) ==
  IF ok \/ rag.repairs >= MaxRepairs THEN "done" ELSE "repair"

RouteVerification(ok) ==
  CASE ok -> "done"
    [] ~ok /\ rag.repairs < MaxRepairs -> "repair"
    [] OTHER -> "safe"

Verify ==
  /\ RagAt("verify")
  /\ ~Late
  /\ \E ok \in BOOLEAN :
       rag' = [rag EXCEPT !.at = RouteVerification(ok),
                          !.passed = IF ok THEN @ \cup {rag.answer} ELSE @,
                          !.calls = @ + 1]
  /\ UNCHANGED now

\* Mutant: the repaired text is not verified again.
RepairUnverified ==
  /\ RagAt("repair")
  /\ ~Late
  /\ rag' = [rag EXCEPT !.at = "done", !.answer = "repaired", !.cited = TRUE,
                        !.repairs = @ + 1, !.calls = @ + 1]
  /\ UNCHANGED now

\* Mutant: the repair is not counted (calls are bounded to keep it finite).
RepairUncounted ==
  /\ RagAt("repair")
  /\ ~Late
  /\ rag.calls < 6
  /\ rag' = [rag EXCEPT !.at = "verify", !.answer = "repaired", !.cited = TRUE,
                        !.calls = @ + 1]
  /\ UNCHANGED now

Repair ==
  /\ RagAt("repair")
  /\ ~Late
  /\ rag' = [rag EXCEPT !.at = "verify", !.answer = "repaired", !.cited = TRUE,
                        !.repairs = @ + 1, !.calls = @ + 1]
  /\ UNCHANGED now

\* Mutant: the refused answer's citations stay.
SafeKeepsCitations ==
  /\ RagAt("safe")
  /\ rag' = [rag EXCEPT !.at = "done", !.answer = "insufficient"]
  /\ UNCHANGED now

SafeInsufficient == RagAt("safe") /\ Insufficient("done") /\ UNCHANGED now

\* A RagError of retrieval, generation or verification, or the deadline.
RagRaise ==
  /\ rag.at \in RagAwaiting \/ (rag.at \in RagWorking /\ Late)
  /\ rag' = [rag EXCEPT !.at = "raised"]
  /\ UNCHANGED now

RagStep ==
  \/ Retrieve \/ EvidenceGate \/ Generate \/ Verify \/ Repair
  \/ SafeInsufficient \/ RagRaise

RagTypeOK ==
  rag \in [at : RagWorking \cup {"idle", "done", "raised"}, enough : BOOLEAN,
           answer : Texts \cup {None}, cited : BOOLEAN, passed : SUBSET Texts,
           repairs : 0 .. MaxRepairs, calls : 0 .. 4]

=============================================================================
