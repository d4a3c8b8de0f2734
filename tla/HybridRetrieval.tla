-------------------------- MODULE HybridRetrieval --------------------------
(***************************************************************************)
(* HybridKnowledgeRetriever.retrieve, for several callers at once over one *)
(* ModelRuntime: rewrite the query, search by words and by vector side by  *)
(* side with one retry each, fuse what was found, rerank it in batches,    *)
(* and judge the evidence, all under one deadline.                         *)
(*                                                                         *)
(* Time is abstracted to the callers whose deadline has passed.  The       *)
(* models and Elasticsearch answer what they like; a chunk's score is      *)
(* abstracted to whether it reaches the evidence threshold.                *)
(***************************************************************************)
EXTENDS ModelRuntime, RankFusion

CONSTANTS
  Retrievals,   \* calls of retrieve, by the caller of the runtime they are
  Finds,        \* the lists a channel may find for a retrieval
  BatchSize,    \* rag_reranker_batch_size
  ResultLimit   \* result_limit of a query

ASSUME RetrievalAssumption ==
  /\ Retrievals \subseteq Callers
  /\ BatchSize \in Nat \ {0}
  /\ ResultLimit \in 1 .. 6
  /\ \A r \in Retrievals : Finds[r] \subseteq Seq(Nat)   \* chunks are numbers

VARIABLES
  rv,      \* retrieval -> its local state
  late     \* retrievals whose deadline has passed

retrieval == <<rv, late>>

-----------------------------------------------------------------------------
\* The vector search of either attempt follows an embedding.
SparseStates == {"off", "search", "search again", "found", "failed"}
DenseStates ==
  {"off", "embed", "search", "embed again", "search again", "found", "failed"}
RetrievalPlaces == {"idle", "rewrite", "search", "rerank", "done"}
\* RagErrorCode; "cancelled" is CancelledError.
Errors == {"INDEX_UNAVAILABLE", "MODEL_UNAVAILABLE", "RETRIEVAL_TIMEOUT",
           "cancelled"}
Verdicts == {"sufficient", "insufficient"}

NoRetrieval ==
  [at |-> "idle", sparse |-> "off", dense |-> "off",
   bySparse |-> <<>>, byDense |-> <<>>,      \* what the channels found
   fused |-> <<>>, scored |-> 0,
   outcome |-> "none", chunks |-> 0]         \* the number of chunks returned

RetrievalInit == rv = [r \in Retrievals |-> NoRetrieval] /\ late = {}

At(r, p) == rv[r].at = p
Active(r) == rv[r].at \in {"rewrite", "search", "rerank"}

\* The local state and the timer are gone with the call; what it returns
\* stays, and (for the properties) how the channels it judged had ended.
Return(r, outcome, chunks) ==
  /\ rv' = [rv EXCEPT ![r] =
             [NoRetrieval EXCEPT !.at = "done", !.sparse = rv[r].sparse,
                !.dense = rv[r].dense, !.outcome = outcome, !.chunks = chunks]]
  /\ late' = late \ {r}

\* It is ended from outside, wherever it is.
Interrupted(r, outcome) ==
  /\ rv' = [rv EXCEPT ![r] =
             [NoRetrieval EXCEPT !.at = "done", !.outcome = outcome]]
  /\ late' = late \ {r}

-----------------------------------------------------------------------------
Retrieve(r) ==
  /\ At(r, "idle")
  /\ rv' = [rv EXCEPT ![r].at = "rewrite"]
  /\ UNCHANGED <<late, runtime>>

\* A model that fails, or is not sure, leaves the redacted question.
Rewritten(r) ==
  /\ At(r, "rewrite")
  /\ rv' = [rv EXCEPT ![r].at = "search", ![r].sparse = "search",
                      ![r].dense = "embed"]
  /\ UNCHANGED <<late, runtime>>

\* _retry_transient, when the index is unavailable.
Retry(r, tried, first, second) ==
  IF tried = first /\ r \notin late THEN second ELSE "failed"

SparseAnswer(r) ==
  /\ At(r, "search")
  /\ rv[r].sparse \in {"search", "search again"}
  /\ \/ \E found \in Finds[r] :
          rv' = [rv EXCEPT ![r].sparse = "found", ![r].bySparse = found]
     \/ rv' = [rv EXCEPT ![r].sparse =
                 Retry(r, rv[r].sparse, "search", "search again")]
     \/ rv' = [rv EXCEPT ![r].sparse = "failed"]     \* another error
  /\ UNCHANGED <<late, runtime>>

Embed(r) ==
  /\ At(r, "search")
  /\ rv[r].dense \in {"embed", "embed again"}
  /\ Run(r)
  /\ UNCHANGED <<rv, late>>

\* Errors of the model, its refusal and its lateness are not retried;
\* gather keeps even a cancellation as the channel's result.
Embedded(r) ==
  /\ At(r, "search")
  /\ rv[r].dense \in {"embed", "embed again"}
  /\ job[r] \in Outcomes
  /\ \/ /\ job[r] = "ok"
        /\ rv' = [rv EXCEPT ![r].dense =
                    IF @ = "embed" THEN "search" ELSE "search again"]
     \/ rv' = [rv EXCEPT ![r].dense = "failed"]
  /\ Becomes(r, "none")
  /\ UNCHANGED <<closed, orphans, late>>

DenseAnswer(r) ==
  /\ At(r, "search")
  /\ rv[r].dense \in {"search", "search again"}
  /\ \/ \E found \in Finds[r] :
          rv' = [rv EXCEPT ![r].dense = "found", ![r].byDense = found]
     \/ rv' = [rv EXCEPT ![r].dense =
                 Retry(r, rv[r].dense, "search", "embed again")]
     \/ rv' = [rv EXCEPT ![r].dense = "failed"]
  /\ UNCHANGED <<late, runtime>>

Settled(r) ==
  /\ At(r, "search")
  /\ rv[r].sparse \in {"found", "failed"}
  /\ rv[r].dense \in {"found", "failed"}

Fused(r) == Fuse(rv[r].bySparse, rv[r].byDense)

GoToRerank(r) ==
  /\ rv' = [rv EXCEPT ![r].at = "rerank", ![r].fused = Fused(r),
                      ![r].bySparse = <<>>, ![r].byDense = <<>>]
  /\ UNCHANGED late

\* Mutant: one failed channel is enough to give up.
GatherAll(r) ==
  /\ Settled(r)
  /\ IF rv[r].sparse = "failed" \/ rv[r].dense = "failed"
     THEN Return(r, "INDEX_UNAVAILABLE", 0)
     ELSE IF Fused(r) = <<>> THEN Return(r, "insufficient", 0)
     ELSE GoToRerank(r)
  /\ UNCHANGED runtime

\* Only when both channels failed is the index unavailable.
Gather(r) ==
  /\ Settled(r)
  /\ IF rv[r].sparse = "failed" /\ rv[r].dense = "failed"
     THEN Return(r, "INDEX_UNAVAILABLE", 0)
     ELSE IF Fused(r) = <<>> THEN Return(r, "insufficient", 0)
     ELSE GoToRerank(r)
  /\ UNCHANGED runtime

\* The next batch is given to the reranker.
Rerank(r) == At(r, "rerank") /\ Run(r) /\ UNCHANGED <<rv, late>>

\* Mutant: every candidate is returned.
JudgeAll(r, good) ==
  Return(r, IF good = {} THEN "insufficient" ELSE "sufficient",
         Len(rv[r].fused))

\* The candidates in the order of their scores, ties as they were; the
\* evidence is enough when the first one reaches the threshold.  (That every
\* one has a version, a document, a title and a source is what parsing the
\* index's answer, in SparseAnswer and DenseAnswer, has checked before.)
Judge(r, good) ==
  LET list == rv[r].fused
      Better(a, b) ==
        \/ a \in good /\ b \notin good
        \/ (a \in good <=> b \in good) /\ RankIn(a, list) < RankIn(b, list)
      ranked == InOrder(Ranked(list), {p \in Ranked(list) \X Ranked(list) :
                                         Better(p[1], p[2])})
  IN Return(r, IF ranked[1] \in good THEN "sufficient" ELSE "insufficient",
            Min({ResultLimit, Len(ranked)}))

\* A batch is done.  Bad scores count as a model failure.
Scored(r) ==
  /\ At(r, "rerank")
  /\ job[r] \in Outcomes
  /\ CASE job[r] = "ok" ->
            \/ /\ rv[r].scored + BatchSize < Len(rv[r].fused)
               /\ rv' = [rv EXCEPT ![r].scored = @ + BatchSize]
               /\ UNCHANGED late
            \/ /\ rv[r].scored + BatchSize >= Len(rv[r].fused)
               /\ \E good \in SUBSET Ranked(rv[r].fused) : Judge(r, good)
            \/ Return(r, "MODEL_UNAVAILABLE", 0)
       [] job[r] \in {"failed", "refused"} -> Return(r, "MODEL_UNAVAILABLE", 0)
       [] job[r] = "late"      -> Return(r, "RETRIEVAL_TIMEOUT", 0)
       [] job[r] = "cancelled" -> Interrupted(r, "cancelled")
  /\ Becomes(r, "none")
  /\ UNCHANGED <<closed, orphans>>

-----------------------------------------------------------------------------
DeadlinePasses(r) ==
  /\ Active(r) /\ r \notin late
  /\ late' = late \cup {r}
  /\ UNCHANGED <<rv, runtime>>

\* run's own timeout, at the deadline retrieve gave it.
InferenceTimesOut(r) ==
  /\ r \in late
  /\ job[r] \in Pending
  /\ GiveUp(r, "late")
  /\ UNCHANGED retrieval

\* Mutant: the deadline bounds the searches only.
TimesOutSearching(r) ==
  /\ r \in late
  /\ At(r, "rewrite") \/ At(r, "search")
  /\ Interrupted(r, "RETRIEVAL_TIMEOUT")
  /\ GiveUp(r, "none")

\* The timeout around the whole of retrieve.
TimesOut(r) ==
  /\ r \in late
  /\ Active(r)
  /\ Interrupted(r, "RETRIEVAL_TIMEOUT")
  /\ GiveUp(r, "none")

\* The request's own deadline, or its cancellation, ends the call from
\* outside.
CallerGone(r) ==
  /\ Active(r)
  /\ Interrupted(r, "cancelled")
  /\ GiveUp(r, "none")

RetrievalStep(r) ==
  \/ Rewritten(r) \/ SparseAnswer(r) \/ Embed(r) \/ Embedded(r)
  \/ DenseAnswer(r) \/ Gather(r) \/ Rerank(r) \/ Scored(r)
  \/ DeadlinePasses(r) \/ InferenceTimesOut(r) \/ TimesOut(r) \/ CallerGone(r)

=============================================================================
