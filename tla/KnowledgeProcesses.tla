------------------------- MODULE KnowledgeProcesses -------------------------
(***************************************************************************)
(* The two processes that run the knowledge code: the agent service, which *)
(* starts, retrieves and stops, and a worker (not in the repository) that  *)
(* chunks a section of a document before it is embedded and indexed.       *)
(***************************************************************************)
EXTENDS AgentProcess, Chunking

KnowledgeInit ==
  /\ ProcessInit
  /\ \/ NoSection
     \/ ChunkInit /\ settings = {}      \* in a worker nothing is started

\* What a service process does; a worker's process does not.
InService(A) == chunking = "idle" /\ A /\ UNCHANGED chunkVars

Serve == InService(ProcessNext)
Chunk == ChunkStep /\ UNCHANGED processVars

knowledgeVars == <<processVars, chunkVars>>

\* Timers fire and the start-up and the shutdown go on; no model, search or
\* thread need ever answer.
KnowledgeFairness ==
  /\ WF_knowledgeVars(InService(Lifespan))
  /\ \A r \in Retrievals :
       /\ WF_knowledgeVars(InService(DeadlinePasses(r) /\ UNCHANGED lifespan))
       /\ WF_knowledgeVars(InService(TimesOut(r) /\ UNCHANGED lifespan))

KnowledgeSpec ==
  KnowledgeInit /\ [][Serve \/ Chunk]_knowledgeVars /\ KnowledgeFairness

-----------------------------------------------------------------------------
(* Properties.                                                             *)

\* Types; a retrieval keeps no more candidates than the reranker takes.
KnowledgeTypeOK ==
  /\ closed \in BOOLEAN /\ warmed \in BOOLEAN
  /\ job \in [Callers -> Jobs]
  /\ orphans \in Nat
  /\ late \subseteq Retrievals
  /\ \A r \in Retrievals :
       /\ rv[r].at \in RetrievalPlaces
       /\ rv[r].sparse \in SparseStates /\ rv[r].dense \in DenseStates
       /\ rv[r].outcome \in Errors \cup Verdicts \cup {"none"}
       /\ rv[r].chunks \in 0 .. ResultLimit
       /\ rv[r].scored \in 0 .. FusionLimit
  /\ phase \in Phases
  /\ held \in Seq(Resources) /\ leaked \subseteq Resources

\* Neither timeouts nor retries let the work outgrow the pool: no more
\* callers hold a slot than it has threads, and no more threads work,
\* counting those whose callers have given up.
InferenceBounded ==
  /\ Cardinality(Holders) <= MaxConcurrency
  /\ Working <= MaxConcurrency

\* Once the models are released no thread begins an inference, whoever was
\* queued for one or waiting for a slot when they were.
NoInferenceAfterClose ==
  [][closed => \A c \in Callers : job'[c] = "running" => job[c] = "running"]_knowledgeVars

\* What a retrieval returns is explained by its channels: the index is
\* unavailable only when both failed, whereas a verdict, or the reranker's
\* failure, needs one that found something to judge, even nothing; and
\* evidence that is enough is some.
OutcomesExplained ==
  \A r \in Retrievals :
    LET both == rv[r].sparse = "failed" /\ rv[r].dense = "failed"
    IN /\ rv[r].outcome = "INDEX_UNAVAILABLE" => both
       /\ rv[r].outcome \in Verdicts \cup {"MODEL_UNAVAILABLE"} => ~both
       /\ rv[r].outcome = "sufficient" => rv[r].chunks > 0

\* a is met in the list before b is.
Ahead(a, b, list) ==
  \E i \in DOMAIN list : list[i] = a /\ \A k \in 1 .. i : list[k] # b

\* Fusion respects what the channels agree on: of two chunks, one that every
\* channel which found the other met first comes before it, also when only
\* the first few are kept; each chunk comes once and was found.
FusionRespectsRanks ==
  \A r \in Retrievals : Settled(r) =>
    LET channels == {rv[r].bySparse, rv[r].byDense}
        found == Ranked(rv[r].bySparse) \cup Ranked(rv[r].byDense)
    IN /\ IsInjective(Fused(r)) /\ Range(Fused(r)) \subseteq found
       /\ \A a \in found, b \in Range(Fused(r)) :
            a # b /\ (\A list \in channels :
               b \in Ranked(list) => Ahead(a, b, list))
              => Ahead(a, b, Fused(r))

\* Resources outlive what uses them: the models never lose their index
\* client, traffic meets models that both answered, and a runtime is ready
\* only while something will close it, or nothing ever will.
ResourcesInOrder ==
  /\ Holds("models") => Holds("elasticsearch")
  /\ phase = "serving" /\ Holds("models") => warmed /\ ~closed
  /\ warmed => ~closed /\ (Holds("models") \/ "models" \in leaked)

\* Every retrieval ends by its deadline's timer, though the threads it waits
\* for may be busy for ever with work nobody wants.
RetrievalsEnd == \A r \in Retrievals : Active(r) ~> ~Active(r)

\* A process that stops closes everything it holds without waiting for an
\* inference that does not end.
ShutdownEnds == phase = "stopping" ~> phase = "stopped" /\ held = <<>>

=============================================================================
