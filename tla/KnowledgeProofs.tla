--------------------------- MODULE KnowledgeProofs ---------------------------
(***************************************************************************)
(* The model runtime stays within its bounds, the resources of the service *)
(* outlive what uses them, fusion respects what the channels agree on, and *)
(* what a retrieval returns is explained by them: for any number of        *)
(* callers, threads, retrievals and chunks.                                *)
(***************************************************************************)
EXTENDS KnowledgeProcesses, DataInduction

-----------------------------------------------------------------------------
(* Whatever a process does, to the runtime it is one of these moves.       *)
Leave(c, j) ==
  /\ c \in Callers /\ j \in {"late", "none"}
  /\ GiveUp(c, j)

Take(c) ==
  /\ c \in Callers /\ job[c] \in Outcomes
  /\ Becomes(c, "none")
  /\ UNCHANGED <<closed, orphans>>

Move ==
  \/ UNCHANGED runtime
  \/ \E c \in Callers : Run(c) \/ Admit(c) \/ Begin(c) \/ Complete(c) \/ Take(c)
  \/ \E c \in Callers, j \in {"late", "none"} : Leave(c, j)
  \/ OrphanEnds
  \/ Close

LEMMA RetrievalMoves ==
  ASSUME NEW r \in Retrievals, Retrieve(r) \/ RetrievalStep(r)
  PROVE  Move
<1>1. r \in Callers
  BY RetrievalAssumption
<1>3. CASE Retrieve(r) \/ Rewritten(r) \/ SparseAnswer(r) \/ DenseAnswer(r)
           \/ DeadlinePasses(r) \/ Gather(r)
  BY <1>3 DEF Retrieve, Rewritten, SparseAnswer, DenseAnswer, DeadlinePasses,
              Gather, Move
<1>4. CASE Embed(r) \/ Rerank(r)
  BY <1>1, <1>4 DEF Embed, Rerank, Move
<1>5. CASE Embedded(r) \/ Scored(r)
  BY <1>1, <1>5 DEF Embedded, Scored, Take, Move
<1>6. CASE InferenceTimesOut(r)
  BY <1>1, <1>6 DEF InferenceTimesOut, Leave, Move
<1>7. CASE TimesOut(r) \/ CallerGone(r)
  BY <1>1, <1>7 DEF TimesOut, CallerGone, Leave, Move
<1> QED
  BY <1>3, <1>4, <1>5, <1>6, <1>7 DEF RetrievalStep

LEMMA LifespanMoves ==
  ASSUME Lifespan
  PROVE  Move
<1>1. WarmUp \in Callers
  BY ProcessAssumption
<1>3. CASE OpenCheckpointer \/ OpenRedis \/ AuditRedis \/ VerifyArtifacts
           \/ Ping \/ LoadModels \/ Assemble \/ OpenJava
  BY <1>3 DEF OpenCheckpointer, OpenRedis, AuditRedis, VerifyArtifacts, Ping,
              LoadModels, Assemble, OpenJava, Move
<1>4. CASE StartWarmUp
  BY <1>1, <1>4 DEF StartWarmUp, Move
<1>5. CASE WarmUpTimesOut
  BY <1>1, <1>5 DEF WarmUpTimesOut, Leave, Move
<1>6. CASE WarmedUp
  BY <1>1, <1>6 DEF WarmedUp, Take, Move
<1>7. CASE CloseLast \/ ModelsCloseRaises
  BY <1>7 DEF CloseLast, ModelsCloseRaises, Move, runtime
<1> QED
  BY <1>3, <1>4, <1>5, <1>6, <1>7 DEF Lifespan

LEMMA StepsMove ==
  ASSUME [Serve \/ Chunk]_knowledgeVars
  PROVE  Move
<1>1. CASE UNCHANGED knowledgeVars \/ Chunk
  BY <1>1 DEF knowledgeVars, processVars, Chunk, Move
<1>2. CASE ProcessNext
  <2>1. CASE Lifespan
    BY <2>1, LifespanMoves
  <2>2. CASE BeginStop
    BY <2>2 DEF BeginStop, Move
  <2>3. CASE Threads
    BY <2>3 DEF Threads, Move
  <2>4. ASSUME NEW c \in Others, OtherCall(c) \/ OtherEnds(c)
        PROVE  Move
    <3>1. c \in Callers
      BY DEF Others
    <3> QED
      BY <2>4, <3>1 DEF OtherCall, OtherEnds, Leave, Take, Move
  <2>5. ASSUME NEW r \in Retrievals, AcceptRetrieval(r) \/ RetrievalGoesOn(r)
        PROVE  Move
    BY <2>5, RetrievalMoves DEF AcceptRetrieval, RetrievalGoesOn
  <2> QED
    BY <1>2, <2>1, <2>2, <2>3, <2>4, <2>5 DEF ProcessNext
<1> QED
  BY <1>1, <1>2 DEF Serve, InService

-----------------------------------------------------------------------------
(* The bounds of the runtime.                                              *)
Busy == {c \in Callers : job[c] = "running"}

RuntimeTyped ==
  /\ closed \in BOOLEAN
  /\ job \in [Callers -> Jobs]
  /\ orphans \in Nat

\* Whoever is queued at a closed runtime would still begin.
QueueClosed == closed => \A c \in Callers : job[c] # "queued"

RuntimeOK == RuntimeTyped /\ InferenceBounded /\ QueueClosed

LEMMA Finite ==
  ASSUME NEW T, T \subseteq Callers
  PROVE  IsFiniteSet(T) /\ Cardinality(T) \in Nat
BY RuntimeAssumption, FS_Subset, FS_CardinalityType

\* One caller comes to hold j, whose job was k.
LEMMA OneJob ==
  ASSUME RuntimeTyped, NEW c \in Callers, NEW j \in Jobs, Becomes(c, j)
  PROVE  /\ job' \in [Callers -> Jobs] /\ job'[c] = j
         /\ \A d \in Callers : d # c => job'[d] = job[d]
         /\ Holders' = IF j \in {"queued", "running"} THEN Holders \cup {c}
                                                     ELSE Holders \ {c}
         /\ Busy' = IF j = "running" THEN Busy \cup {c} ELSE Busy \ {c}
<1>1. job \in [Callers -> Jobs] /\ job' = [job EXCEPT ![c] = j]
  BY DEF RuntimeTyped, Becomes
<1>2. /\ job' \in [Callers -> Jobs] /\ job'[c] = j
      /\ \A d \in Callers : d # c => job'[d] = job[d]
  BY <1>1
<1>3. Holders' = IF j \in {"queued", "running"} THEN Holders \cup {c}
                                               ELSE Holders \ {c}
  <2>1. ASSUME NEW d \in Callers
        PROVE  d \in Holders' <=> IF d = c THEN j \in {"queued", "running"}
                                           ELSE d \in Holders
    BY <1>2 DEF Holders
  <2>2. Holders \subseteq Callers /\ Holders' \subseteq Callers
    BY DEF Holders
  <2> QED
    BY <2>1, <2>2
<1>4. Busy' = IF j = "running" THEN Busy \cup {c} ELSE Busy \ {c}
  <2>1. ASSUME NEW d \in Callers
        PROVE  d \in Busy' <=> IF d = c THEN j = "running" ELSE d \in Busy
    BY <1>2 DEF Busy
  <2>2. Busy \subseteq Callers /\ Busy' \subseteq Callers
    BY DEF Busy
  <2> QED
    BY <2>1, <2>2
<1> QED
  BY <1>2, <1>3, <1>4

\* Sizes after one caller was added or taken out.
LEMMA Added ==
  ASSUME NEW T, T \subseteq Callers, NEW c \in Callers
  PROVE  Cardinality(T \cup {c})
           = IF c \in T THEN Cardinality(T) ELSE Cardinality(T) + 1
BY Finite, FS_AddElement

LEMMA Removed ==
  ASSUME NEW T, T \subseteq Callers, NEW c \in Callers
  PROVE  /\ Cardinality(T \ {c})
              = IF c \in T THEN Cardinality(T) - 1 ELSE Cardinality(T)
         /\ c \in T => Cardinality(T) > 0
<1>1. IsFiniteSet(T) /\ Cardinality(T) \in Nat
  BY Finite
<1>2. c \in T => Cardinality(T) # 0
  BY <1>1, FS_EmptySet
<1>3. Cardinality(T \ {c})
        = IF c \in T THEN Cardinality(T) - 1 ELSE Cardinality(T)
  BY <1>1, FS_RemoveElement
<1>4. c \in T => Cardinality(T) > 0
  BY <1>1, <1>2
<1> QED
  BY <1>3, <1>4

LEMMA BoundedSizes ==
  /\ Holders \subseteq Callers /\ Busy \subseteq Holders
  /\ Cardinality(Holders) \in Nat /\ Cardinality(Busy) \in Nat
  /\ Working = Cardinality(Busy) + orphans
<1>1. Holders \subseteq Callers /\ Busy \subseteq Callers /\ Busy \subseteq Holders
  BY DEF Holders, Busy
<1> QED
  BY <1>1, Finite DEF Working, Busy

LEMMA BoundedSizesNext ==
  /\ Cardinality(Holders)' = Cardinality(Holders')
  /\ Working' = Cardinality(Busy') + orphans'
BY DEF Working, Busy, Holders

LEMMA MoveKeeps ==
  ASSUME RuntimeOK, Move
  PROVE  RuntimeOK' /\ (closed => \A c \in Callers :
                                    job'[c] = "running" => job[c] = "running")
<1>0. /\ RuntimeTyped /\ InferenceBounded /\ QueueClosed
      /\ MaxConcurrency \in Nat \ {0} /\ orphans \in Nat
      /\ Cardinality(Holders) <= MaxConcurrency
      /\ Cardinality(Busy) + orphans <= MaxConcurrency
  BY RuntimeAssumption, BoundedSizes DEF RuntimeOK, RuntimeTyped, InferenceBounded
<1>1. CASE UNCHANGED runtime
  BY <1>0, <1>1 DEF runtime, RuntimeOK, RuntimeTyped, InferenceBounded, QueueClosed,
                  Holders, Working
<1>2. ASSUME NEW c \in Callers, Run(c) \/ Admit(c)
      PROVE  RuntimeOK' /\ (closed => \A d \in Callers :
                                        job'[d] = "running" => job[d] = "running")
  <2>1. /\ closed' = closed /\ orphans' = orphans /\ job[c] \in {"none", "waiting"}
        /\ \/ Becomes(c, "refused") \/ Becomes(c, "waiting")
           \/ ~closed /\ SlotFree /\ Becomes(c, "queued")
    BY <1>2 DEF Run, Admit
  <2>2. PICK j \in {"refused", "waiting", "queued"} :
          Becomes(c, j) /\ (j = "queued" => ~closed /\ SlotFree)
    BY <2>1
  <2>3. j \in Jobs /\ j # "running"
    BY DEF Jobs, Pending, Outcomes
  <2>4. /\ job' \in [Callers -> Jobs] /\ job'[c] = j
        /\ \A d \in Callers : d # c => job'[d] = job[d]
        /\ Holders' = IF j \in {"queued", "running"} THEN Holders \cup {c}
                                                    ELSE Holders \ {c}
        /\ Busy' = IF j = "running" THEN Busy \cup {c} ELSE Busy \ {c}
    BY <1>0, <2>2, <2>3, OneJob
  <2>5. c \notin Holders /\ c \notin Busy
    BY <2>1 DEF Holders, Busy
  <2>6. Busy' = Busy /\ Holders' = IF j = "queued" THEN Holders \cup {c} ELSE Holders
    BY <2>2, <2>3, <2>4, <2>5
  <2>7. Cardinality(Holders') <= MaxConcurrency
    <3>1. CASE j = "queued"
      BY <1>0, <2>2, <2>5, <2>6, <3>1, Added, BoundedSizes DEF SlotFree
    <3>2. CASE j # "queued"
      BY <1>0, <2>6, <3>2
    <3> QED
      BY <3>1, <3>2
  <2>8. InferenceBounded'
    BY <1>0, <2>1, <2>6, <2>7, BoundedSizesNext DEF InferenceBounded
  <2>9. RuntimeTyped' /\ QueueClosed'
    BY <1>0, <2>1, <2>2, <2>4 DEF RuntimeTyped, QueueClosed
  <2> QED
    BY <2>3, <2>4, <2>8, <2>9 DEF RuntimeOK
<1>3. ASSUME NEW c \in Callers, Begin(c)
      PROVE  RuntimeOK' /\ (closed => \A d \in Callers :
                                        job'[d] = "running" => job[d] = "running")
  <2>1. /\ closed' = closed /\ orphans' = orphans /\ job[c] = "queued"
        /\ Working < MaxConcurrency /\ Becomes(c, "running") /\ ~closed
    BY <1>0, <1>3 DEF Begin, QueueClosed
  <2>2. "running" \in Jobs
    BY DEF Jobs, Pending
  <2>3. /\ job' \in [Callers -> Jobs] /\ job'[c] = "running"
        /\ \A d \in Callers : d # c => job'[d] = job[d]
        /\ Holders' = Holders \cup {c} /\ Busy' = Busy \cup {c}
    BY <1>0, <2>1, <2>2, OneJob
  <2>4. c \in Holders /\ c \notin Busy
    BY <2>1 DEF Holders, Busy
  <2>5. Holders' = Holders /\ Cardinality(Busy') = Cardinality(Busy) + 1
    BY <2>3, <2>4, Added, BoundedSizes
  <2>6. InferenceBounded'
    BY <1>0, <2>1, <2>5, BoundedSizes, BoundedSizesNext DEF InferenceBounded
  <2> QED
    BY <1>0, <2>1, <2>3, <2>6 DEF RuntimeOK, RuntimeTyped, QueueClosed
<1>4. ASSUME NEW c \in Callers, NEW j \in Jobs, Becomes(c, j),
             j \notin {"queued", "running"}, closed' = closed,
             orphans' = IF job[c] = "running" /\ j \notin {"ok", "failed"}
                        THEN orphans + 1 ELSE orphans
      PROVE  RuntimeOK' /\ (closed => \A d \in Callers :
                                        job'[d] = "running" => job[d] = "running")
  <2>1. /\ job' \in [Callers -> Jobs] /\ job'[c] = j
        /\ \A d \in Callers : d # c => job'[d] = job[d]
        /\ Holders' = Holders \ {c} /\ Busy' = Busy \ {c}
    BY <1>0, <1>4, OneJob
  <2>2. Cardinality(Holders') <= Cardinality(Holders)
    BY <2>1, Removed, BoundedSizes
  <2>3. /\ Cardinality(Busy') = IF job[c] = "running" THEN Cardinality(Busy) - 1
                                                    ELSE Cardinality(Busy)
    BY <2>1, Removed, BoundedSizes DEF Busy
  <2>4. Cardinality(Busy') + orphans' <= Cardinality(Busy) + orphans
    BY <1>0, <1>4, <2>3, BoundedSizes
  <2>5. Cardinality(Holders') <= MaxConcurrency
        /\ Cardinality(Busy') + orphans' <= MaxConcurrency
    <3>1. Cardinality(Holders') \in Int /\ Cardinality(Busy') \in Int
          /\ orphans' \in Int
      BY <1>0, <1>4, <2>1, <2>3, Finite, BoundedSizes
    <3> QED
      BY <1>0, <2>2, <2>4, <3>1, BoundedSizes
  <2>6. InferenceBounded'
    BY <2>5, BoundedSizesNext DEF InferenceBounded
  <2> QED
    BY <1>0, <1>4, <2>1, <2>6 DEF RuntimeOK, RuntimeTyped, QueueClosed
<1>5. ASSUME NEW c \in Callers, Complete(c) \/ Take(c)
      PROVE  RuntimeOK' /\ (closed => \A d \in Callers :
                                        job'[d] = "running" => job[d] = "running")
  <2>1. CASE Complete(c)
    BY <1>4, <2>1 DEF Complete, Jobs, Outcomes, Pending
  <2>2. CASE Take(c)
    BY <1>4, <2>2 DEF Take, Jobs, Outcomes, Pending
  <2> QED
    BY <1>5, <2>1, <2>2
<1>6. ASSUME NEW c \in Callers, NEW j \in {"late", "none"}, Leave(c, j)
      PROVE  RuntimeOK' /\ (closed => \A d \in Callers :
                                        job'[d] = "running" => job[d] = "running")
  <2>1. j \in Jobs /\ j \notin {"queued", "running", "ok", "failed"}
    BY DEF Jobs, Outcomes
  <2> QED
    BY <1>4, <1>6, <2>1 DEF Leave, GiveUp
<1>7. CASE OrphanEnds
  <2>1. /\ Holders' = Holders /\ Busy' = Busy /\ job' = job /\ closed' = closed
        /\ orphans' = orphans - 1 /\ orphans' \in Nat
    BY <1>0, <1>7 DEF OrphanEnds, Holders, Busy
  <2>2. InferenceBounded'
    BY <1>0, <2>1, BoundedSizes, BoundedSizesNext DEF InferenceBounded
  <2> QED
    BY <1>0, <2>1, <2>2 DEF RuntimeOK, RuntimeTyped, QueueClosed
<1>8. CASE Close
  <2>1. /\ closed' = TRUE /\ orphans' = orphans
        /\ job' = [c \in Callers |-> IF job[c] = "queued" THEN "cancelled"
                                                         ELSE job[c]]
    BY <1>8 DEF Close
  <2>2. job \in [Callers -> Jobs] /\ "cancelled" \in Jobs
    BY <1>0 DEF RuntimeTyped, Jobs, Outcomes
  <2>3. /\ job' \in [Callers -> Jobs]
        /\ \A c \in Callers : job'[c] # "queued"
        /\ \A c \in Callers : job'[c] = "running" <=> job[c] = "running"
    BY <2>1, <2>2
  <2>4. Busy' = Busy /\ Holders' \subseteq Holders
    BY <2>3 DEF Busy, Holders
  <2>5. Cardinality(Holders') <= Cardinality(Holders)
    BY <2>4, BoundedSizes, Finite, FS_Subset
  <2>6. Cardinality(Holders') \in Nat
    BY <2>4, BoundedSizes, Finite
  <2>7. InferenceBounded'
    BY <1>0, <2>1, <2>4, <2>5, <2>6, BoundedSizes, BoundedSizesNext
       DEF InferenceBounded
  <2> QED
    BY <1>0, <2>1, <2>3, <2>7 DEF RuntimeOK, RuntimeTyped, QueueClosed
<1> QED
  BY <1>1, <1>2, <1>3, <1>5, <1>6, <1>7, <1>8 DEF Move

LEMMA RuntimeInvariant == KnowledgeSpec => []RuntimeOK
<1>1. KnowledgeInit => RuntimeOK
  <2> SUFFICES ASSUME KnowledgeInit PROVE RuntimeOK
    OBVIOUS
  <2>1. closed = FALSE /\ job = [c \in Callers |-> "none"] /\ orphans = 0
    BY DEF KnowledgeInit, ProcessInit, RuntimeInit
  <2>2. Holders = {} /\ Busy = {}
    BY <2>1 DEF Holders, Busy
  <2>3. InferenceBounded
    BY <2>1, <2>2, BoundedSizes, FS_EmptySet, RuntimeAssumption DEF InferenceBounded
  <2> QED
    BY <2>1, <2>3 DEF RuntimeOK, RuntimeTyped, QueueClosed, Jobs
<1>2. RuntimeOK /\ [Serve \/ Chunk]_knowledgeVars => RuntimeOK'
  BY StepsMove, MoveKeeps
<1> QED
  BY <1>1, <1>2, PTL DEF KnowledgeSpec

\* However many callers time out, retry or are cancelled, no more of them
\* hold a slot, and no more threads work, than the pool was made for.
THEOREM PoolBounded == KnowledgeSpec => []InferenceBounded
<1>1. RuntimeOK => InferenceBounded
  BY DEF RuntimeOK
<1> QED
  BY <1>1, RuntimeInvariant, PTL

\* No thread begins an inference with models that were released.
THEOREM ClosedRuntimeStaysIdle == KnowledgeSpec => NoInferenceAfterClose
<1>1. RuntimeOK /\ [Serve \/ Chunk]_knowledgeVars
        => [closed => \A c \in Callers :
                        job'[c] = "running" => job[c] = "running"]_knowledgeVars
  BY StepsMove, MoveKeeps
<1> QED
  BY <1>1, RuntimeInvariant, PTL DEF KnowledgeSpec, NoInferenceAfterClose

-----------------------------------------------------------------------------
(* The resources of the service.                                           *)

\* The place of a resource in the order of opening, and how far that order
\* a phase has come.
Place(x) ==
  IF x = "checkpointer" THEN 1 ELSE IF x = "redis" THEN 2
  ELSE IF x = "elasticsearch" THEN 3 ELSE IF x = "models" THEN 4 ELSE 5

Reached(p) ==
  IF p = "checkpointer" THEN 0 ELSE IF p = "redis" THEN 1
  ELSE IF p \in {"audit", "artifacts"} THEN 2 ELSE IF p \in {"ping", "load"} THEN 3
  ELSE IF p \in {"embedding", "reranker", "assembly", "java"} THEN 4 ELSE 5

HeldInOrder ==
  /\ held \in Seq(Resources)
  /\ \A i, j \in 1 .. Len(held) : i < j => Place(held[i]) < Place(held[j])
  /\ \A i \in 1 .. Len(held) : Place(held[i]) <= Reached(phase)
  /\ Holds("models") => Holds("elasticsearch")

PhaseOK ==
  /\ phase \in Phases /\ closed \in BOOLEAN /\ warmed \in BOOLEAN
  /\ phase \in {"ping", "load"} => Holds("elasticsearch")
  /\ phase \in {"embedding", "reranker", "assembly"} => Holds("models")
  /\ phase \in {"assembly", "java", "serving"} /\ Holds("models") => warmed
  /\ phase \notin {"stopping", "stopped"} => ~closed
  /\ warmed => ~closed /\ (Holds("models") \/ "models" \in leaked)
  /\ warmed => phase \in {"assembly", "java", "serving", "stopping", "stopped"}

LifespanOK == HeldInOrder /\ PhaseOK

LEMMA HoldsIsIn ==
  ASSUME NEW x, held \in Seq(Resources)
  PROVE  Holds(x) <=> \E i \in 1 .. Len(held) : held[i] = x
BY DEF Holds, Range

LEMMA HoldsIsInNext ==
  ASSUME NEW x, held' \in Seq(Resources)
  PROVE  Holds(x)' <=> \E i \in 1 .. Len(held') : held'[i] = x
BY DEF Holds, Range

\* A resource is opened by the step that has come to its place.
LEMMA OpenKeeps ==
  ASSUME HeldInOrder, NEW x \in Resources, Open(x),
         Reached(phase) < Place(x), Place(x) <= Reached(phase'),
         x = "models" => Holds("elasticsearch")
  PROVE  /\ HeldInOrder' /\ Holds(x)'
         /\ \A y \in Resources : y # x => (Holds(y)' <=> Holds(y))
<1>1. held \in Seq(Resources) /\ held' = Append(held, x)
  BY DEF HeldInOrder, Open
<1>2. /\ held' \in Seq(Resources) /\ Len(held') = Len(held) + 1
      /\ held'[Len(held) + 1] = x /\ Len(held) \in Nat
      /\ \A i \in 1 .. Len(held) : held'[i] = held[i]
  BY <1>1
<1>3. Holds(x)' /\ \A y \in Resources : y # x => (Holds(y)' <=> Holds(y))
  BY <1>1, <1>2, HoldsIsIn, HoldsIsInNext
<1>4. \A y \in Resources : Place(y) \in 1 .. 5
  BY DEF Place
<1>5. Reached(phase) \in 0 .. 5 /\ Reached(phase') \in 0 .. 5
  BY DEF Reached
<1>6. \A i \in 1 .. Len(held) :
        held[i] \in Resources /\ Place(held[i]) <= Reached(phase)
  BY <1>1 DEF HeldInOrder
<1>7. \A i \in 1 .. Len(held') : Place(held'[i]) <= Reached(phase')
  BY <1>2, <1>4, <1>5, <1>6
<1>8. \A i, j \in 1 .. Len(held') : i < j => Place(held'[i]) < Place(held'[j])
  <2> SUFFICES ASSUME NEW i \in 1 .. Len(held'), NEW j \in 1 .. Len(held'), i < j
      PROVE  Place(held'[i]) < Place(held'[j])
    OBVIOUS
  <2>1. i \in 1 .. Len(held) /\ held'[i] = held[i]
    BY <1>2
  <2>2. CASE j \in 1 .. Len(held)
    BY <1>2, <2>1, <2>2 DEF HeldInOrder
  <2>3. CASE j = Len(held) + 1
    BY <1>2, <1>4, <1>5, <1>6, <2>1, <2>3
  <2> QED
    BY <1>2, <2>2, <2>3
<1>9. Holds("models")' => Holds("elasticsearch")'
  BY <1>3 DEF HeldInOrder, Resources
<1> QED
  BY <1>2, <1>3, <1>7, <1>8, <1>9 DEF HeldInOrder

\* The last resource is taken away.
LEMMA FrontKeeps ==
  ASSUME HeldInOrder, held # <<>>, NEW x, x = Last(held), held' = Front(held),
         Reached(phase) <= Reached(phase')
  PROVE  /\ HeldInOrder' /\ ~Holds(x)'
         /\ \A y : Holds(y)' => Holds(y)
         /\ \A y : Holds(y) /\ y # x => Holds(y)'
<1>1. held \in Seq(Resources) /\ Len(held) \in Nat \ {0}
  BY DEF HeldInOrder
<1>2. /\ held' \in Seq(Resources) /\ Len(held') = Len(held) - 1
      /\ \A i \in 1 .. Len(held') : held'[i] = held[i]
      /\ x = held[Len(held)] /\ x \in Resources
  <2> DEFINE n == Len(held) - 1
  <2>1. n \in Nat /\ n <= Len(held) /\ held' = SubSeq(held, 1, n)
    BY <1>1 DEF Front
  <2>2. \A i \in 1 .. n : held[i] \in Resources
    BY <1>1, <2>1
  <2> HIDE DEF n
  <2>3. Len(held') = n /\ \A i \in 1 .. n : held'[i] = held[i]
    BY <1>1, <2>1
  <2>4. held' \in Seq(Resources)
    BY <1>1, <2>1
  <2>5. x = held[Len(held)] /\ x \in Resources
    BY <1>1 DEF Last
  <2> QED
    BY <2>3, <2>4, <2>5 DEF n
<1>3. \A y : Holds(y)' <=> \E i \in 1 .. (Len(held) - 1) : held[i] = y
  <2> TAKE y
  <2>1. 1 .. Len(held') = 1 .. (Len(held) - 1)
    BY <1>2
  <2>2. Holds(y)' <=> \E i \in 1 .. Len(held') : held'[i] = y
    BY <1>2, HoldsIsInNext
  <2> QED
    BY <1>2, <2>1, <2>2
<1>4. \A y : Holds(y) <=> \E i \in 1 .. Len(held) : held[i] = y
  BY <1>1, HoldsIsIn
<1>5. \A y \in Resources : Place(y) \in 1 .. 5
  BY DEF Place
<1>6. \A i \in 1 .. (Len(held) - 1) :
        held[i] \in Resources /\ Place(held[i]) < Place(x)
  <2> SUFFICES ASSUME NEW i \in 1 .. (Len(held) - 1)
      PROVE  held[i] \in Resources /\ Place(held[i]) < Place(x)
    OBVIOUS
  <2>1. i \in 1 .. Len(held) /\ Len(held) \in 1 .. Len(held) /\ i < Len(held)
    BY <1>1
  <2> QED
    BY <1>1, <1>2, <2>1 DEF HeldInOrder
<1>7. ~Holds(x)'
  <2> SUFFICES ASSUME Holds(x)' PROVE FALSE
    OBVIOUS
  <2>1. PICK i \in 1 .. (Len(held) - 1) : held[i] = x
    BY <1>3
  <2>2. Place(held[i]) \in Int /\ Place(held[i]) < Place(x)
    BY <1>5, <1>6
  <2> QED
    BY <2>1, <2>2
<1>8. \A y : Holds(y)' => Holds(y)
  <2> SUFFICES ASSUME NEW y, Holds(y)' PROVE Holds(y)
    OBVIOUS
  <2>1. PICK i \in 1 .. (Len(held) - 1) : held[i] = y
    BY <1>3
  <2>2. i \in 1 .. Len(held)
    BY <1>1
  <2> QED
    BY <1>4, <2>1, <2>2
<1>9. \A y : Holds(y) /\ y # x => Holds(y)'
  <2> SUFFICES ASSUME NEW y, Holds(y), y # x PROVE Holds(y)'
    OBVIOUS
  <2>1. PICK i \in 1 .. Len(held) : held[i] = y
    BY <1>4
  <2>2. i \in 1 .. (Len(held) - 1)
    BY <1>1, <1>2, <2>1
  <2> QED
    BY <1>3, <2>1, <2>2
<1>10. \A i, j \in 1 .. Len(held') : i < j => Place(held'[i]) < Place(held'[j])
  <2> SUFFICES ASSUME NEW i \in 1 .. Len(held'), NEW j \in 1 .. Len(held'), i < j
      PROVE  Place(held'[i]) < Place(held'[j])
    OBVIOUS
  <2>1. /\ i \in 1 .. Len(held) /\ j \in 1 .. Len(held)
        /\ held'[i] = held[i] /\ held'[j] = held[j]
    BY <1>1, <1>2
  <2> QED
    BY <2>1 DEF HeldInOrder
<1>11. \A i \in 1 .. Len(held') : Place(held'[i]) <= Reached(phase')
  <2>1. \A i \in 1 .. Len(held') :
          held[i] \in Resources /\ Place(held[i]) <= Reached(phase)
    BY <1>1, <1>2 DEF HeldInOrder
  <2>2. Reached(phase) \in 0 .. 5 /\ Reached(phase') \in 0 .. 5
    BY DEF Reached
  <2> QED
    BY <1>2, <1>5, <2>1, <2>2
<1>12. Holds("models")' => Holds("elasticsearch")'
  <2> SUFFICES ASSUME Holds("models")' PROVE Holds("elasticsearch")'
    OBVIOUS
  <2>1. Holds("models") /\ Holds("elasticsearch")
    BY <1>8 DEF HeldInOrder
  <2>2. PICK i \in 1 .. (Len(held) - 1) : held[i] = "models"
    BY <1>3
  <2>3. x # "elasticsearch"
    BY <1>6, <2>2 DEF Place
  <2> QED
    BY <1>9, <2>1, <2>3
<1> QED
  BY <1>2, <1>7, <1>8, <1>9, <1>10, <1>11, <1>12 DEF HeldInOrder

\* Nothing is opened or closed.
LEMMA HeldKept ==
  ASSUME HeldInOrder, UNCHANGED held, Reached(phase) <= Reached(phase')
  PROVE  HeldInOrder' /\ \A y : Holds(y)' <=> Holds(y)
<1>1. held' = held /\ held \in Seq(Resources)
  BY DEF HeldInOrder
<1>2. \A y : Holds(y)' <=> Holds(y)
  BY <1>1 DEF Holds
<1>3. \A i \in 1 .. Len(held') : Place(held'[i]) <= Reached(phase')
  <2>1. \A i \in 1 .. Len(held) :
          held[i] \in Resources /\ Place(held[i]) <= Reached(phase)
    BY <1>1 DEF HeldInOrder
  <2>2. Reached(phase) \in 0 .. 5 /\ Reached(phase') \in 0 .. 5
        /\ \A y \in Resources : Place(y) \in 1 .. 5
    BY DEF Reached, Place
  <2> QED
    BY <1>1, <2>1, <2>2
<1> QED
  BY <1>1, <1>2, <1>3 DEF HeldInOrder

\* Every other step leaves the resources and the runtime's flag alone.
LEMMA OthersQuiet ==
  ASSUME [Serve \/ Chunk]_knowledgeVars
  PROVE  Lifespan \/ BeginStop \/ UNCHANGED <<closed, lifespan>>
<1>1. CASE UNCHANGED knowledgeVars \/ Chunk
  BY <1>1 DEF knowledgeVars, processVars, Chunk, runtime
<1>2. CASE Threads
  BY <1>2 DEF Threads, Admit, Begin, Complete, OrphanEnds
<1>3. ASSUME NEW c \in Others, OtherCall(c) \/ OtherEnds(c)
      PROVE  UNCHANGED <<closed, lifespan>>
  BY <1>3 DEF OtherCall, OtherEnds, Run, GiveUp
<1>4. ASSUME NEW r \in Retrievals, AcceptRetrieval(r) \/ RetrievalGoesOn(r)
      PROVE  UNCHANGED <<closed, lifespan>>
  <2>1. CASE AcceptRetrieval(r)
    BY <2>1 DEF AcceptRetrieval, Retrieve, runtime
  <2>2. CASE RetrievalGoesOn(r)
    <3>1. UNCHANGED lifespan /\ RetrievalStep(r)
      BY <2>2 DEF RetrievalGoesOn
    <3>2. CASE Rewritten(r) \/ SparseAnswer(r) \/ DenseAnswer(r)
               \/ DeadlinePasses(r) \/ Gather(r)
      BY <3>1, <3>2 DEF Rewritten, SparseAnswer, DenseAnswer, DeadlinePasses,
                        Gather, runtime
    <3>3. CASE Embed(r) \/ Rerank(r) \/ Embedded(r) \/ Scored(r)
      BY <3>1, <3>3 DEF Embed, Rerank, Run, Embedded, Scored
    <3>4. CASE InferenceTimesOut(r) \/ TimesOut(r) \/ CallerGone(r)
      BY <3>1, <3>4 DEF InferenceTimesOut, TimesOut, CallerGone, GiveUp
    <3> QED
      BY <3>1, <3>2, <3>3, <3>4 DEF RetrievalStep
  <2> QED
    BY <1>4, <2>1, <2>2
<1> QED
  BY <1>1, <1>2, <1>3, <1>4 DEF Serve, InService, ProcessNext

\* A resource is opened on the way up.
LEMMA OpeningKeeps ==
  ASSUME LifespanOK,
         OpenCheckpointer \/ OpenRedis \/ VerifyArtifacts \/ LoadModels \/ OpenJava
  PROVE  LifespanOK'
<1>0. HeldInOrder /\ PhaseOK /\ UNCHANGED <<closed, warmed, leaked>>
  BY DEF LifespanOK, OpenCheckpointer, OpenRedis, VerifyArtifacts, LoadModels,
         OpenJava, runtime
<1>1. ASSUME UNCHANGED held,
             phase' \in {"artifacts", "java", "serving", "stopping"},
             Reached(phase) <= Reached(phase'),
             phase' = "artifacts" => phase = "redis",
             phase' = "java" => ~Holds("models"),
             phase' = "serving" => phase = "java",
             phase' \notin {"stopping", "stopped"} => ~closed
      PROVE  LifespanOK'
  <2>1. HeldInOrder' /\ \A y : Holds(y)' <=> Holds(y)
    BY <1>0, <1>1, HeldKept
  <2>2. PhaseOK'
    BY <1>0, <1>1, <2>1 DEF PhaseOK, Phases, StartUp
  <2> QED
    BY <2>1, <2>2 DEF LifespanOK
<1>2. ASSUME NEW x \in Resources, Open(x), x # "models",
             phase' \in {"redis", "audit", "ping", "serving", "stopping"},
             Reached(phase) < Place(x), Place(x) <= Reached(phase'),
             phase' \notin {"serving", "stopping"} =>
               phase \in {"checkpointer", "redis", "artifacts"},
             phase' = "ping" => x = "elasticsearch",
             phase' = "serving" => phase = "java", ~closed
      PROVE  LifespanOK'
  <2>1. HeldInOrder' /\ Holds(x)'
        /\ \A y \in Resources : y # x => (Holds(y)' <=> Holds(y))
    BY <1>0, <1>2, OpenKeeps
  <2>2. Holds("models")' <=> Holds("models")
    BY <1>2, <2>1 DEF Resources
  <2>3. phase' = "ping" => Holds("elasticsearch")'
    BY <1>2, <2>1
  <2>4. PhaseOK'
    BY <1>0, <1>2, <2>2, <2>3 DEF PhaseOK, Phases, StartUp
  <2> QED
    BY <2>1, <2>4 DEF LifespanOK
<1>3. CASE OpenCheckpointer
  BY <1>0, <1>1, <1>2, <1>3 DEF OpenCheckpointer, Goto, Raise, Place, Reached,
                                Resources, PhaseOK
<1>4. CASE OpenRedis
  BY <1>0, <1>1, <1>2, <1>4 DEF OpenRedis, Goto, Raise, Place, Reached,
                                Resources, PhaseOK
<1> DEFINE Early == phase \in {"artifacts", "load"}
<1>5. Early => ~Holds("models")
  <2> SUFFICES ASSUME Early, Holds("models") PROVE FALSE
    OBVIOUS
  <2>1. PICK i \in 1 .. Len(held) : held[i] = "models"
    BY <1>0, HoldsIsIn DEF HeldInOrder
  <2> QED
    BY <1>0, <2>1 DEF HeldInOrder, Place, Reached
<1>6. CASE VerifyArtifacts
  BY <1>0, <1>1, <1>2, <1>5, <1>6 DEF VerifyArtifacts, Goto, Raise, Place,
                                      Reached, Resources, PhaseOK
<1>7. CASE OpenJava
  BY <1>0, <1>1, <1>2, <1>7 DEF OpenJava, Goto, Raise, Place, Reached,
                                Resources, PhaseOK
<1>8. CASE LoadModels
  <2>1. CASE Raise /\ UNCHANGED held
    BY <1>0, <1>1, <1>8, <2>1 DEF LoadModels, Goto, Raise, Reached, PhaseOK
  <2>2. CASE Open("models") /\ Goto("embedding")
    <3>1. /\ phase = "load" /\ phase' = "embedding" /\ ~closed
          /\ Holds("elasticsearch")
      BY <1>0, <1>8, <2>2 DEF LoadModels, Goto, PhaseOK
    <3>2. HeldInOrder' /\ Holds("models")'
      BY <1>0, <2>2, <3>1, OpenKeeps DEF Resources, Place, Reached
    <3>3. ~warmed
      BY <1>0, <1>5, <3>1 DEF PhaseOK
    <3>4. PhaseOK'
      BY <1>0, <3>1, <3>2, <3>3 DEF PhaseOK, Phases, StartUp
    <3> QED
      BY <3>2, <3>4 DEF LifespanOK
  <2> QED
    BY <1>8, <2>1, <2>2 DEF LoadModels
<1> QED
  BY <1>3, <1>4, <1>6, <1>7, <1>8

\* The audit, the ping, the warm-up and the beginning of the stop open and
\* close nothing.
LEMMA WaitingKeeps ==
  ASSUME LifespanOK,
         AuditRedis \/ Ping \/ StartWarmUp \/ WarmUpTimesOut \/ WarmedUp \/ BeginStop
  PROVE  LifespanOK'
<1>0. HeldInOrder /\ PhaseOK /\ UNCHANGED <<closed, held, leaked>>
  BY DEF LifespanOK, AuditRedis, Ping, StartWarmUp, WarmUpTimesOut, WarmedUp,
         BeginStop, Run, GiveUp, runtime, lifespan
<1>1. /\ Reached(phase) <= Reached(phase')
      /\ phase' \in {phase, "artifacts", "load", "embedding", "reranker",
                    "assembly", "stopping"}
  BY DEF AuditRedis, Ping, StartWarmUp, WarmUpTimesOut, WarmedUp, BeginStop,
         Goto, Raise, lifespan, Reached
<1>2. HeldInOrder' /\ \A y : Holds(y)' <=> Holds(y)
  BY <1>0, <1>1, HeldKept
<1>3. CASE AuditRedis \/ Ping \/ BeginStop
  <2>1. PhaseOK'
    BY <1>0, <1>2, <1>3 DEF AuditRedis, Ping, BeginStop, Goto, Raise, PhaseOK,
                            Phases, StartUp
  <2> QED
    BY <1>2, <2>1 DEF LifespanOK
<1>4. CASE StartWarmUp \/ WarmUpTimesOut
  <2>1. UNCHANGED <<phase, warmed>>
    BY <1>4 DEF StartWarmUp, WarmUpTimesOut, lifespan
  <2>2. PhaseOK'
    BY <1>0, <1>2, <2>1 DEF PhaseOK
  <2> QED
    BY <1>2, <2>2 DEF LifespanOK
<1>5. CASE WarmedUp
  <2>1. PhaseOK'
    BY <1>0, <1>2, <1>5 DEF WarmedUp, Goto, Raise, PhaseOK, Phases, StartUp
  <2> QED
    BY <1>2, <2>1 DEF LifespanOK
<1> QED
  BY <1>3, <1>4, <1>5

\* The models are opened right after the index client.
LEMMA ClientBelowModels ==
  ASSUME HeldInOrder, held # <<>>, Last(held) = "models"
  PROVE  /\ Len(held) \in Nat /\ Len(held) > 1
         /\ held[Len(held) - 1] = "elasticsearch"
<1>1. /\ held \in Seq(Resources) /\ Len(held) \in Nat \ {0}
      /\ \A i, j \in 1 .. Len(held) : i < j => Place(held[i]) < Place(held[j])
  BY DEF HeldInOrder
<1>2. held[Len(held)] = "models" /\ Len(held) \in 1 .. Len(held)
  BY <1>1 DEF Last
<1>3. PICK e \in 1 .. Len(held) : held[e] = "elasticsearch"
  BY <1>1, <1>2, HoldsIsIn DEF HeldInOrder
<1>4. Place(held[Len(held)]) = 4 /\ Place(held[e]) = 3
  BY <1>2, <1>3 DEF Place
<1>5. \A i \in 1 .. Len(held) : Place(held[i]) \in Int
  BY DEF Place
<1>6. e # Len(held)
  BY <1>4
<1>7. e = Len(held) - 1
  <2> SUFFICES ASSUME e < Len(held) - 1 PROVE FALSE
    BY <1>1, <1>6
  <2>1. e + 1 \in 1 .. Len(held) /\ e < e + 1 /\ e + 1 < Len(held)
    BY <1>1
  <2>2. Place(held[e]) < Place(held[e + 1])
        /\ Place(held[e + 1]) < Place(held[Len(held)])
    BY <1>1, <1>2, <2>1
  <2>3. Place(held[e + 1]) \in Int
    BY <1>5, <2>1
  <2> QED
    BY <1>4, <2>2, <2>3
<1> QED
  BY <1>1, <1>3, <1>7

\* In the assembly the models are the last resource held.
LEMMA ModelsLast ==
  ASSUME HeldInOrder, Reached(phase) = 4, Holds("models")
  PROVE  held # <<>> /\ Last(held) = "models"
<1>1. /\ held \in Seq(Resources) /\ Len(held) \in Nat
      /\ \A i, j \in 1 .. Len(held) : i < j => Place(held[i]) < Place(held[j])
      /\ \A i \in 1 .. Len(held) : Place(held[i]) <= 4
  BY DEF HeldInOrder
<1>2. PICK m \in 1 .. Len(held) : held[m] = "models"
  BY <1>1, HoldsIsIn
<1>3. Place(held[m]) = 4 /\ \A i \in 1 .. Len(held) : Place(held[i]) \in 1 .. 5
  BY <1>2 DEF Place
<1>4. m = Len(held)
  <2>1. Len(held) \in 1 .. Len(held)
    BY <1>1
  <2>2. ~(m < Len(held))
    BY <1>1, <1>3, <2>1
  <2> QED
    BY <1>1, <2>1, <2>2
<1>5. held # <<>>
  BY <1>1, <1>2
<1> QED
  BY <1>2, <1>4, <1>5 DEF Last

\* The models and their client are no longer held.
LEMMA TwoGo ==
  ASSUME HeldInOrder, held # <<>>, Last(held) = "models",
         held' = Front(Front(held)), phase' = "stopping"
  PROVE  HeldInOrder' /\ ~Holds("models")'
<1>1. /\ Len(held) \in Nat /\ Len(held) > 1
      /\ held[Len(held) - 1] = "elasticsearch"
  BY ClientBelowModels
<1>2. /\ held \in Seq(Resources)
      /\ \A i, j \in 1 .. Len(held) : i < j => Place(held[i]) < Place(held[j])
      /\ \A i \in 1 .. Len(held) : held[i] \in Resources
  BY DEF HeldInOrder
<1> DEFINE n == Len(held) - 1
           f == SubSeq(held, 1, n)
<1>3. /\ n \in Nat \ {0} /\ n <= Len(held) /\ n < Len(held)
      /\ n \in 1 .. Len(held)
  <2>1. ASSUME NEW l \in Nat, l > 1
        PROVE  /\ l - 1 \in Nat \ {0} /\ l - 1 <= l /\ l - 1 < l
               /\ l - 1 \in 1 .. l
    BY <2>1
  <2> QED
    BY <1>1, <2>1, Zenon
<1>4. held[n] = "elasticsearch"
  BY <1>1
<1> HIDE DEF n
<1>5. Front(held) = f
  BY DEF Front, n
<1>6. /\ f \in Seq(Resources) /\ Len(f) = n
      /\ \A i \in 1 .. n : f[i] = held[i]
  BY <1>2, <1>3
<1> HIDE DEF f
<1>7. n - 1 \in Nat /\ n - 1 <= Len(f) /\ held' = SubSeq(f, 1, n - 1)
  BY <1>3, <1>5, <1>6 DEF Front
<1>8. /\ held' \in Seq(Resources) /\ Len(held') = n - 1
      /\ \A i \in 1 .. (n - 1) : held'[i] = f[i]
  BY <1>6, <1>7
<1>9. \A i \in 1 .. Len(held') :
        held'[i] = held[i] /\ i \in 1 .. Len(held) /\ i < n
  BY <1>3, <1>6, <1>8
<1>10. \A i \in 1 .. Len(held') : held'[i] # "models"
  <2> SUFFICES ASSUME NEW i \in 1 .. Len(held'), held'[i] = "models"
      PROVE  FALSE
    OBVIOUS
  <2>1. i \in 1 .. Len(held) /\ n \in 1 .. Len(held) /\ i < n
        /\ held[i] = "models"
    BY <1>3, <1>9
  <2>2. Place(held[i]) < Place(held[n])
    BY <1>2, <2>1
  <2> QED
    BY <1>4, <2>1, <2>2 DEF Place
<1>11. ~Holds("models")'
  BY <1>8, <1>10, HoldsIsInNext
<1>12. \A i \in 1 .. Len(held') : Place(held'[i]) <= Reached(phase')
  BY <1>2, <1>8 DEF Place, Reached
<1>13. \A i, j \in 1 .. Len(held') : i < j => Place(held'[i]) < Place(held'[j])
  BY <1>2, <1>9
<1> QED
  BY <1>8, <1>11, <1>12, <1>13 DEF HeldInOrder

\* Whether the adapters are made or refused.
LEMMA AssembleKeeps ==
  ASSUME LifespanOK, Assemble
  PROVE  LifespanOK'
<1>0. /\ HeldInOrder /\ PhaseOK /\ phase = "assembly" /\ Holds("models")
      /\ UNCHANGED <<closed, warmed>>
  BY DEF LifespanOK, PhaseOK, Assemble, runtime
<1>1. CASE Goto("java") /\ UNCHANGED <<held, leaked>>
  <2>1. HeldInOrder' /\ \A y : Holds(y)' <=> Holds(y)
    BY <1>0, <1>1, HeldKept DEF Goto, Reached
  <2>2. PhaseOK'
    BY <1>0, <1>1, <2>1 DEF PhaseOK, Goto, Phases, StartUp
  <2> QED
    BY <2>1, <2>2 DEF LifespanOK
<1>2. CASE Raise /\ leaked' = {"elasticsearch", "models"}
           /\ held' = Front(Front(held))
  <2>1. held # <<>> /\ Last(held) = "models"
    BY <1>0, ModelsLast DEF Reached
  <2>2. HeldInOrder' /\ ~Holds("models")'
    BY <1>0, <1>2, <2>1, TwoGo DEF Raise, Goto
  <2>3. PhaseOK'
    BY <1>0, <1>2, <2>2 DEF PhaseOK, Raise, Goto, Phases, StartUp
  <2> QED
    BY <2>2, <2>3 DEF LifespanOK
<1> QED
  BY <1>1, <1>2 DEF Assemble

\* On the way down the models go before their index client, which is not
\* closed when theirs raises.
LEMMA RaisingKeeps ==
  ASSUME LifespanOK, ModelsCloseRaises
  PROVE  LifespanOK'
<1>1. /\ HeldInOrder /\ PhaseOK /\ held # <<>> /\ Last(held) = "models"
      /\ held' = Front(Front(held)) /\ phase' = "stopping"
      /\ closed' = TRUE /\ warmed' = FALSE
  BY DEF LifespanOK, ModelsCloseRaises, Close
<1>2. HeldInOrder' /\ ~Holds("models")'
  BY <1>1, TwoGo
<1>3. PhaseOK'
  BY <1>1, <1>2 DEF PhaseOK, Phases
<1> QED
  BY <1>2, <1>3 DEF LifespanOK

\* The last resource is closed.
LEMMA ClosingKeeps ==
  ASSUME LifespanOK, CloseLast
  PROVE  LifespanOK'
<1>0. HeldInOrder /\ PhaseOK /\ phase = "stopping" /\ UNCHANGED leaked
  BY DEF LifespanOK, CloseLast
<1>1. CASE held = <<>>
  <2>1. phase' = "stopped" /\ UNCHANGED <<closed, warmed, held>>
    BY <1>1 DEF CloseLast, Goto, runtime
  <2>2. HeldInOrder' /\ \A y : Holds(y)' <=> Holds(y)
    BY <1>0, <2>1, HeldKept DEF Reached
  <2>3. PhaseOK'
    BY <1>0, <2>1, <2>2 DEF PhaseOK, Phases
  <2> QED
    BY <2>2, <2>3 DEF LifespanOK
<1>2. CASE held # <<>>
  <2>1. PICK x : x = Last(held)
    OBVIOUS
  <2>2. /\ held' = Front(held) /\ phase' = phase
        /\ IF x = "models" THEN closed' = TRUE /\ warmed' = FALSE
                           ELSE UNCHANGED <<closed, warmed>>
    BY <1>2, <2>1 DEF CloseLast, Close, runtime
  <2>3. Reached(phase) <= Reached(phase')
    BY <1>0, <2>2 DEF Reached
  <2>4. /\ HeldInOrder' /\ ~Holds(x)'
        /\ \A y : Holds(y)' => Holds(y)
        /\ \A y : Holds(y) /\ y # x => Holds(y)'
    BY <1>0, <1>2, <2>1, <2>2, <2>3, FrontKeeps
  <2>5. PhaseOK'
    BY <1>0, <2>2, <2>4 DEF PhaseOK
  <2> QED
    BY <2>4, <2>5 DEF LifespanOK
<1> QED
  BY <1>1, <1>2

LEMMA LifespanInvariant == KnowledgeSpec => []LifespanOK
<1>1. KnowledgeInit => LifespanOK
  <2> SUFFICES ASSUME KnowledgeInit PROVE LifespanOK
    OBVIOUS
  <2>1. held = <<>> /\ phase = "checkpointer" /\ closed = FALSE /\ warmed = FALSE
    BY DEF KnowledgeInit, ProcessInit, RuntimeInit
  <2>2. held \in Seq(Resources) /\ 1 .. Len(held) = {}
    BY <2>1
  <2>3. ~Holds("models")
    BY <2>2, HoldsIsIn
  <2>4. HeldInOrder
    BY <2>2, <2>3 DEF HeldInOrder
  <2>5. PhaseOK
    BY <2>1, <2>3 DEF PhaseOK, Phases, StartUp
  <2> QED
    BY <2>4, <2>5 DEF LifespanOK
<1>2. LifespanOK /\ [Serve \/ Chunk]_knowledgeVars => LifespanOK'
  <2> SUFFICES ASSUME LifespanOK, [Serve \/ Chunk]_knowledgeVars
      PROVE  LifespanOK'
    OBVIOUS
  <2>1. CASE Lifespan
    BY <2>1, OpeningKeeps, WaitingKeeps, AssembleKeeps, ClosingKeeps,
       RaisingKeeps DEF Lifespan
  <2>2. CASE BeginStop
    BY <2>2, WaitingKeeps
  <2>3. CASE UNCHANGED <<closed, lifespan>>
    BY <2>3 DEF lifespan, LifespanOK, HeldInOrder, PhaseOK, Holds
  <2> QED
    BY <2>1, <2>2, <2>3, OthersQuiet
<1> QED
  BY <1>1, <1>2, PTL DEF KnowledgeSpec

\* Through every failed start-up and every shutdown the index client is
\* closed after the models, and traffic meets models that both answered.
THEOREM ResourcesOutliveUses == KnowledgeSpec => []ResourcesInOrder
<1>1. LifespanOK => ResourcesInOrder
  BY DEF LifespanOK, HeldInOrder, PhaseOK, ResourcesInOrder
<1> QED
  BY <1>1, LifespanInvariant, PTL

-----------------------------------------------------------------------------
(* Rank fusion.  Sums of reciprocal ranks are compared as fractions.       *)

\* Products of the naturals above 0.
LEMMA Products ==
  ASSUME NEW a \in Nat \ {0}, NEW b \in Nat \ {0}
  PROVE  a * b \in Nat \ {0}
  BY SMT

LEMMA ProductGrows ==
  ASSUME NEW a \in Nat, NEW b \in Nat, NEW c \in Nat \ {0}
  PROVE  /\ a < b <=> a * c < b * c
         /\ a = b <=> a * c = b * c
  BY SMT

\* The order of three fractions is transitive, and strict where one step is.
LEMMA FractionOrder ==
  ASSUME NEW a \in Nat \ {0}, NEW p \in Nat \ {0},
         NEW b \in Nat \ {0}, NEW q \in Nat \ {0},
         NEW c \in Nat \ {0}, NEW r \in Nat \ {0},
         a * q >= b * p, b * r >= c * q
  PROVE  /\ a * r >= c * p
         /\ a * q > b * p \/ b * r > c * q => a * r > c * p
<1>1. /\ a * q \in Nat /\ b * p \in Nat /\ b * r \in Nat /\ c * q \in Nat
      /\ a * r \in Nat /\ c * p \in Nat
  BY Products
<1>2. (a * r) * q = (a * q) * r /\ (b * p) * r = (b * r) * p
      /\ (c * q) * p = (c * p) * q
  BY SMT
<1>3. (a * q) * r >= (b * p) * r /\ (b * r) * p >= (c * q) * p
      /\ (a * q > b * p => (a * q) * r > (b * p) * r)
      /\ (b * r > c * q => (b * r) * p > (c * q) * p)
  <2>1. \A x, y \in Nat, z \in Nat \ {0} :
          (x >= y => x * z >= y * z) /\ (x > y => x * z > y * z)
    BY SMT
  <2>2. QED
    BY <1>1, <2>1
<1>4. (a * r) * q >= (c * p) * q
      /\ (a * q > b * p \/ b * r > c * q => (a * r) * q > (c * p) * q)
  <2>1. /\ (a * q) * r \in Nat /\ (b * p) * r \in Nat
        /\ (b * r) * p \in Nat /\ (c * q) * p \in Nat
    BY Products
  <2> DEFINE u == (a * q) * r
             v == (b * p) * r
             w == (c * q) * p
  <2>2. u >= v /\ v >= w /\ (a * q > b * p => u > v) /\ (b * r > c * q => v > w)
    BY <1>2, <1>3
  <2>3. u \in Nat /\ v \in Nat /\ w \in Nat
    BY <2>1
  <2>4. (a * r) * q = u /\ (c * p) * q = w
    BY <1>2
  <2> HIDE DEF u, v, w
  <2>5. u >= w /\ (a * q > b * p \/ b * r > c * q => u > w)
    BY <2>2, <2>3
  <2>6. QED
    BY <2>4, <2>5
<1>5. \A x, y \in Nat, z \in Nat \ {0} :
        (x * z >= y * z => x >= y) /\ (x * z > y * z => x > y)
  BY SMT
<1>6. QED
  BY <1>1, <1>4, <1>5

LEMMA RankFacts ==
  ASSUME NEW list \in Seq(Nat), NEW c \in Ranked(list)
  PROVE  /\ RankIn(c, list) \in 1 .. Len(list)
         /\ list[RankIn(c, list)] = c
         /\ \A i \in 1 .. Len(list) : list[i] = c => RankIn(c, list) <= i
<1> DEFINE T == {i \in DOMAIN list : list[i] = c}
<1>1. DOMAIN list = 1 .. Len(list) /\ Len(list) \in Nat
  OBVIOUS
<1>2. T # {}
  BY DEF Ranked, Range
<1>3. T \in SUBSET Nat
  BY <1>1
<1>4. \A i : i \in T <=> i \in 1 .. Len(list) /\ list[i] = c
  BY <1>1
<1>5. RankIn(c, list) = Min(T)
  BY DEF RankIn
<1> HIDE DEF T
<1>6. Min(T) \in T /\ \A i \in T : Min(T) <= i
  BY <1>2, <1>3, MinOfNaturals
<1>7. QED
  BY <1>4, <1>5, <1>6

LEMMA RankedAre ==
  ASSUME NEW list \in Seq(Nat)
  PROVE  /\ Ranked(list) \subseteq Nat /\ IsFiniteSet(Ranked(list))
         /\ \A i \in 1 .. Len(list) : list[i] \in Ranked(list)
<1>1. DOMAIN list = 1 .. Len(list) /\ Len(list) \in Nat
      /\ list \in [1 .. Len(list) -> Nat]
  OBVIOUS
<1>2. IsFiniteSet(1 .. Len(list))
  BY <1>1, FS_Interval
<1>3. list \in Surjection(1 .. Len(list), Ranked(list))
  BY <1>1 DEF Surjection, Ranked, Range
<1>4. IsFiniteSet(Ranked(list))
  BY <1>2, <1>3, FS_Surjection
<1>5. QED
  BY <1>1, <1>4 DEF Ranked, Range

\* The term a channel adds for a chunk it found, as its denominator.
Term(c, list) == RankConstant + RankIn(c, list)

LEMMA TermFacts ==
  ASSUME NEW list \in Seq(Nat), NEW c \in Ranked(list)
  PROVE  Term(c, list) \in Nat \ {0}
<1>1. RankIn(c, list) \in Nat \ {0}
  BY RankFacts
<1>2. QED
  BY <1>1, FusionAssumption DEF Term

Found(sparse, dense) == Ranked(sparse) \cup Ranked(dense)

LEMMA ScoreIs ==
  ASSUME NEW sparse, NEW dense, NEW c \in Found(sparse, dense)
  PROVE  LET s == Term(c, sparse)
             d == Term(c, dense)
             score == FusedScore(c, sparse, dense)
         IN  /\ c \in Ranked(sparse) /\ c \in Ranked(dense) =>
                  score[1] = s + d /\ score[2] = s * d
             /\ c \in Ranked(sparse) /\ c \notin Ranked(dense) =>
                  score[1] = 1 /\ score[2] = s
             /\ c \notin Ranked(sparse) /\ c \in Ranked(dense) =>
                  score[1] = 1 /\ score[2] = d
  BY DEF Found, FusedScore, Term

LEMMA ScoreFacts ==
  ASSUME NEW sparse \in Seq(Nat), NEW dense \in Seq(Nat),
         NEW c \in Found(sparse, dense)
  PROVE  /\ FusedScore(c, sparse, dense)[1] \in Nat \ {0}
         /\ FusedScore(c, sparse, dense)[2] \in Nat \ {0}
<1> DEFINE s == Term(c, sparse)
           d == Term(c, dense)
<1>1. CASE c \in Ranked(sparse) /\ c \in Ranked(dense)
  <2>1. s \in Nat \ {0} /\ d \in Nat \ {0}
    BY <1>1, TermFacts
  <2>2. /\ FusedScore(c, sparse, dense)[1] = s + d
        /\ FusedScore(c, sparse, dense)[2] = s * d
    BY <1>1, ScoreIs
  <2> HIDE DEF s, d
  <2>3. s * d \in Nat \ {0} /\ s + d \in Nat \ {0}
    BY <2>1, Products
  <2>4. QED
    BY <2>2, <2>3
<1>2. CASE c \in Ranked(sparse) /\ c \notin Ranked(dense)
  BY <1>2, TermFacts, ScoreIs
<1>3. CASE c \notin Ranked(sparse) /\ c \in Ranked(dense)
  BY <1>3, TermFacts, ScoreIs
<1>4. QED
  BY <1>1, <1>2, <1>3 DEF Found

Outranking(sparse, dense) ==
  {p \in Found(sparse, dense) \X Found(sparse, dense) :
     Outranks(p[1], p[2], sparse, dense)}

\* The key of sorted() leaves no two chunks undecided.
LEMMA OutrankingOrders ==
  ASSUME NEW sparse \in Seq(Nat), NEW dense \in Seq(Nat)
  PROVE  Orders(Outranking(sparse, dense), Found(sparse, dense))
<1> DEFINE N(c) == FusedScore(c, sparse, dense)[1]
           D(c) == FusedScore(c, sparse, dense)[2]
           U == Found(sparse, dense)
           Less(a, b) == \/ N(a) * D(b) > N(b) * D(a)
                         \/ N(a) * D(b) = N(b) * D(a) /\ a < b
<1>1. \A a, b \in U : <<a, b>> \in Outranking(sparse, dense) <=> Less(a, b)
  BY DEF Outranking, Outranks
<1>2. \A c \in U : N(c) \in Nat \ {0} /\ D(c) \in Nat \ {0} /\ c \in Nat
  BY ScoreFacts, RankedAre DEF Found
<1> HIDE DEF N, D, U
<1>3. \A a, b \in U : N(a) * D(b) \in Nat
  BY <1>2, Products
<1>4. \A a \in U : ~Less(a, a)
  BY <1>2, <1>3
<1>5. \A a, b \in U : a # b => Less(a, b) \/ Less(b, a)
  BY <1>2, <1>3
<1>6. ASSUME NEW a \in U, NEW b \in U, NEW c \in U, Less(a, b), Less(b, c)
      PROVE  Less(a, c)
  <2>1. N(a) * D(b) >= N(b) * D(a) /\ N(b) * D(c) >= N(c) * D(b)
    BY <1>3, <1>6
  <2>2. /\ N(a) * D(c) >= N(c) * D(a)
        /\ N(a) * D(b) > N(b) * D(a) \/ N(b) * D(c) > N(c) * D(b)
             => N(a) * D(c) > N(c) * D(a)
    <3>1. /\ N(a) \in Nat \ {0} /\ D(a) \in Nat \ {0} /\ N(b) \in Nat \ {0}
          /\ D(b) \in Nat \ {0} /\ N(c) \in Nat \ {0} /\ D(c) \in Nat \ {0}
      BY <1>2
    <3>2. QED
      BY ONLY <2>1, <3>1, FractionOrder
  <2>3. a \in Nat /\ b \in Nat /\ c \in Nat
    BY <1>2
  <2>4. QED
    BY <1>3, <1>6, <2>2, <2>3
<1> HIDE DEF Less
<1>7. QED
  BY <1>1, <1>4, <1>5, <1>6 DEF Orders, U

-----------------------------------------------------------------------------
(* sorted(), for any order: what InOrder chooses is there.                 *)
LEMMA SortedFacts ==
  ASSUME NEW R, NEW U, Orders(R, U), IsFiniteSet(U)
  PROVE  /\ InOrder(U, R) \in [1 .. Cardinality(U) -> U]
         /\ Cardinality(U) \in Nat
         /\ \A i, j \in 1 .. Cardinality(U) :
              i < j <=> <<InOrder(U, R)[i], InOrder(U, R)[j]>> \in R
         /\ \A i, j \in 1 .. Cardinality(U) :
              InOrder(U, R)[i] = InOrder(U, R)[j] => i = j
         /\ \A x \in U : \E i \in 1 .. Cardinality(U) : InOrder(U, R)[i] = x
<1> DEFINE o == InOrder(U, R)
<1>1. /\ o \in [1 .. Cardinality(U) -> U]
      /\ \A i, j \in 1 .. Cardinality(U) : i < j => <<o[i], o[j]>> \in R
  BY Enumerates DEF InOrder
<1>2. Cardinality(U) \in Nat
  BY FS_CardinalityType
<1> HIDE DEF o
<1>3. /\ \A i, j \in 1 .. Cardinality(U) : o[i] = o[j] => i = j
      /\ \A x \in U : \E i \in 1 .. Cardinality(U) : o[i] = x
      /\ \A i, j \in 1 .. Cardinality(U) : <<o[i], o[j]>> \in R => i < j
  BY <1>1, InOrderIsBijective
<1>4. QED
  BY <1>1, <1>2, <1>3 DEF o

-----------------------------------------------------------------------------
(* The fused list: the first few of the found chunks, in their order.      *)
LEMMA FuseFacts ==
  ASSUME NEW sparse \in Seq(Nat), NEW dense \in Seq(Nat)
  PROVE  LET f == Fuse(sparse, dense)
             U == Found(sparse, dense)
         IN  /\ f \in Seq(U) /\ Len(f) \in Nat
             /\ Len(f) <= FusionLimit
             /\ f = <<>> => U = {}
             /\ \A i, j \in 1 .. Len(f) : f[i] = f[j] => i = j
             /\ \A i \in 1 .. Len(f), a \in U :
                  Outranks(a, f[i], sparse, dense) =>
                    \E k \in 1 .. Len(f) : k < i /\ f[k] = a
<1> DEFINE U == Found(sparse, dense)
           R == Outranking(sparse, dense)
           o == InOrder(U, R)
           n == Cardinality(U)
           m == Min({FusionLimit, n})
           f == Fuse(sparse, dense)
<1>1. Orders(R, U) /\ IsFiniteSet(U)
  BY OutrankingOrders, RankedAre, FS_Union DEF Found
<1>2. \A a, b \in U : <<a, b>> \in R <=> Outranks(a, b, sparse, dense)
  BY DEF Outranking
<1>3. f = SubSeq(o, 1, Min({FusionLimit, Len(o)}))
  BY DEF Fuse, Found, Outranking
<1> HIDE DEF U, R, f
<1>4. /\ o \in [1 .. n -> U] /\ n \in Nat
      /\ \A i, j \in 1 .. n : i < j <=> <<o[i], o[j]>> \in R
      /\ \A i, j \in 1 .. n : o[i] = o[j] => i = j
      /\ \A x \in U : \E i \in 1 .. n : o[i] = x
  BY <1>1, SortedFacts
<1>5. n = 0 => U = {}
  BY <1>1, FS_EmptySet
<1> HIDE DEF o, n
<1>6. o \in Seq(U) /\ Len(o) = n
  BY <1>4
<1>7. /\ FusionLimit \in Nat \ {0} /\ m \in Nat /\ m <= n /\ m <= FusionLimit
      /\ m = 0 => n = 0
  BY <1>4, FusionAssumption, MinOfTwo
<1>8. f = SubSeq(o, 1, m)
  BY <1>3, <1>6
<1> HIDE DEF m
<1>9. /\ f \in Seq(U) /\ Len(f) = m
       /\ \A i \in 1 .. m : f[i] = o[i] /\ i \in 1 .. n
  <2>1. \A i \in 1 .. m : i \in 1 .. n
    BY <1>4, <1>7
  <2>2. /\ SubSeq(o, 1, m) \in Seq(U) /\ Len(SubSeq(o, 1, m)) = m
        /\ \A i \in 1 .. m : SubSeq(o, 1, m)[i] = o[i]
    BY <1>4, <1>6, <1>7
  <2>3. QED
    BY <1>8, <2>1, <2>2
<1>10. ASSUME NEW i \in 1 .. m, NEW a \in U, Outranks(a, f[i], sparse, dense)
      PROVE  \E k \in 1 .. m : k < i /\ f[k] = a
  <2>1. PICK k \in 1 .. n : o[k] = a
    BY <1>4
  <2>2. f[i] = o[i] /\ i \in 1 .. n /\ f[i] \in U
    BY <1>4, <1>9
  <2>3. k < i
    BY <1>2, <1>4, <1>10, <2>1, <2>2
  <2>4. k \in 1 .. m /\ f[k] = a
    BY <1>4, <1>7, <1>9, <2>1, <2>3
  <2>5. QED
    BY <2>3, <2>4
<1>11. \A i, j \in 1 .. m : f[i] = f[j] => i = j
  BY <1>4, <1>9
<1>12. f = <<>> => U = {}
  BY <1>5, <1>7, <1>9
<1>13. QED
  BY <1>7, <1>9, <1>10, <1>11, <1>12 DEF f, U

\* A chunk met before another has the better rank.
LEMMA AheadRank ==
  ASSUME NEW list \in Seq(Nat), NEW a, NEW b \in Ranked(list),
         Ahead(a, b, list)
  PROVE  a \in Ranked(list) /\ Term(a, list) < Term(b, list)
<1>1. PICK i \in 1 .. Len(list) : list[i] = a /\ \A k \in 1 .. i : list[k] # b
  BY DEF Ahead
<1>2. a \in Ranked(list)
  BY <1>1, RankedAre
<1>3. RankIn(a, list) <= i /\ RankIn(a, list) \in Nat
  BY <1>1, <1>2, RankFacts
<1>4. RankIn(b, list) \in Nat \ {0} /\ list[RankIn(b, list)] = b
  BY RankFacts
<1>5. RankIn(b, list) > i
  BY <1>1, <1>4
<1>6. QED
  BY <1>2, <1>3, <1>4, <1>5, FusionAssumption DEF Term

\* Better ranks make the larger sum.
LEMMA BetterRanksOutrank ==
  ASSUME NEW sparse \in Seq(Nat), NEW dense \in Seq(Nat),
         NEW a \in Found(sparse, dense), NEW b \in Found(sparse, dense),
         \A list \in {sparse, dense} : b \in Ranked(list) => Ahead(a, b, list)
  PROVE  Outranks(a, b, sparse, dense)
<1> DEFINE s == Term(a, sparse)
           d == Term(a, dense)
           x == Term(b, sparse)
           y == Term(b, dense)
           N(c) == FusedScore(c, sparse, dense)[1]
           D(c) == FusedScore(c, sparse, dense)[2]
<1>1. N(a) * D(b) > N(b) * D(a) => Outranks(a, b, sparse, dense)
  BY DEF Outranks
<1>2. b \in Ranked(sparse) =>
        a \in Ranked(sparse) /\ s \in Nat \ {0} /\ x \in Nat \ {0} /\ s < x
  BY AheadRank, TermFacts
<1>3. b \in Ranked(dense) =>
        a \in Ranked(dense) /\ d \in Nat \ {0} /\ y \in Nat \ {0} /\ d < y
  BY AheadRank, TermFacts
<1>4. a \in Ranked(dense) => d \in Nat \ {0}
  BY TermFacts
<1>5. a \in Ranked(sparse) => s \in Nat \ {0}
  BY TermFacts
<1>6. CASE b \in Ranked(sparse) /\ b \in Ranked(dense)
  <2>1. N(a) = s + d /\ D(a) = s * d /\ N(b) = x + y /\ D(b) = x * y
    BY <1>2, <1>3, <1>6, ScoreIs
  <2>2. /\ s \in Nat \ {0} /\ x \in Nat \ {0} /\ s < x
        /\ d \in Nat \ {0} /\ y \in Nat \ {0} /\ d < y
    BY <1>2, <1>3, <1>6
  <2> HIDE DEF s, d, x, y, N, D
  <2>3. (s + d) * (x * y) > (x + y) * (s * d)
    <3>1. (s + d) * (x * y) = (s * x) * y + (d * y) * x
          /\ (x + y) * (s * d) = (s * x) * d + (d * y) * s
      BY <2>2, SMT
    <3>2. s * x \in Nat \ {0} /\ d * y \in Nat \ {0}
      BY <2>2, Products
    <3>3. \A p \in Nat \ {0}, i, j \in Nat : i < j => p * i < p * j
      BY SMT
    <3>4. (s * x) * d < (s * x) * y /\ (d * y) * s < (d * y) * x
      BY <2>2, <3>2, <3>3
    <3>5. /\ (s * x) * d \in Nat /\ (s * x) * y \in Nat
          /\ (d * y) * s \in Nat /\ (d * y) * x \in Nat
      BY <2>2, <3>2, Products
    <3> DEFINE e == (s * x) * d
               g == (s * x) * y
               h == (d * y) * s
               k == (d * y) * x
    <3>6. e \in Nat /\ g \in Nat /\ h \in Nat /\ k \in Nat /\ e < g /\ h < k
      BY <3>4, <3>5
    <3>7. (s + d) * (x * y) = g + k /\ (x + y) * (s * d) = e + h
      BY <3>1
    <3> HIDE DEF e, g, h, k
    <3>8. QED
      BY <3>6, <3>7
  <2>4. QED
    BY <1>1, <2>1, <2>3
<1>7. ASSUME NEW u \in Nat \ {0}, NEW v \in Nat \ {0}, NEW w \in Nat \ {0},
             u < v
      PROVE  (u + w) * v > 1 * (u * w) /\ 1 * v > 1 * u
  <2>1. (u + w) * v = u * v + w * v /\ 1 * (u * w) = w * u
    BY SMT
  <2>2. w * u < w * v /\ u * v \in Nat \ {0}
    BY <1>7, SMT
  <2>3. w * u \in Nat /\ w * v \in Nat
    BY Products
  <2>4. 1 * v > 1 * u
    BY <1>7
  <2>5. QED
    BY <2>1, <2>2, <2>3, <2>4
<1>8. CASE b \in Ranked(sparse) /\ b \notin Ranked(dense)
  <2>1. N(b) = 1 /\ D(b) = x
    BY <1>8, ScoreIs
  <2>2. CASE a \in Ranked(dense)
    <3>1. N(a) = s + d /\ D(a) = s * d
      BY <1>2, <1>8, <2>2, ScoreIs
    <3>2. (s + d) * x > 1 * (s * d)
      BY <1>2, <1>4, <1>7, <1>8, <2>2
    <3>3. QED
      BY <1>1, <2>1, <3>1, <3>2
  <2>3. CASE a \notin Ranked(dense)
    <3>1. N(a) = 1 /\ D(a) = s
      BY <1>2, <1>8, <2>3, ScoreIs
    <3>2. 1 * x > 1 * s
      BY <1>2, <1>7, <1>8
    <3>3. QED
      BY <1>1, <2>1, <3>1, <3>2
  <2>4. QED
    BY <2>2, <2>3
<1>9. CASE b \notin Ranked(sparse) /\ b \in Ranked(dense)
  <2>1. N(b) = 1 /\ D(b) = y
    BY <1>9, ScoreIs
  <2>2. CASE a \in Ranked(sparse)
    <3>1. N(a) = d + s /\ D(a) = d * s
      <4>1. N(a) = s + d /\ D(a) = s * d
        BY <1>3, <1>9, <2>2, ScoreIs
      <4>2. s \in Nat /\ d \in Nat
        BY <1>3, <1>5, <1>9, <2>2
      <4> HIDE DEF s, d, N, D
      <4>3. s + d = d + s /\ s * d = d * s
        BY <4>2, SMT
      <4>4. QED
        BY <4>1, <4>3
    <3>2. (d + s) * y > 1 * (d * s)
      BY <1>3, <1>5, <1>7, <1>9, <2>2
    <3>3. QED
      BY <1>1, <2>1, <3>1, <3>2
  <2>3. CASE a \notin Ranked(sparse)
    <3>1. N(a) = 1 /\ D(a) = d
      BY <1>3, <1>9, <2>3, ScoreIs
    <3>2. 1 * y > 1 * d
      BY <1>3, <1>7, <1>9
    <3>3. QED
      BY <1>1, <2>1, <3>1, <3>2
  <2>4. QED
    BY <2>2, <2>3
<1>10. QED
  BY <1>6, <1>8, <1>9 DEF Found

-----------------------------------------------------------------------------
(* The retrievals.                                                         *)
Outcome == Errors \cup Verdicts \cup {"none"}

RetrievalRecords ==
  [at : RetrievalPlaces, sparse : SparseStates, dense : DenseStates,
   bySparse : Seq(Nat), byDense : Seq(Nat), fused : Seq(Nat), scored : Nat,
   outcome : Outcome, chunks : 0 .. ResultLimit]

\* What a retrieval knows: while it reranks it has candidates, few enough,
\* some not scored yet, and a channel that found them; what it returns is
\* explained by the channels.
Sound(q) ==
  LET both == q.sparse = "failed" /\ q.dense = "failed"
  IN  /\ q.at = "rerank" => ~both /\ q.fused # <<>>
                              /\ Len(q.fused) <= FusionLimit
                              /\ q.scored < Len(q.fused)
      /\ q.at # "rerank" => q.scored = 0
      /\ q.at # "done" => q.outcome = "none"
      /\ q.outcome = "INDEX_UNAVAILABLE" => both
      /\ q.outcome \in Verdicts \cup {"MODEL_UNAVAILABLE"} => ~both
      /\ q.outcome = "sufficient" => q.chunks > 0

RetrievalOK(q) == q \in RetrievalRecords /\ Sound(q)

RetrievalsOK ==
  /\ rv \in [Retrievals -> RetrievalRecords]
  /\ \A r \in Retrievals : RetrievalOK(rv[r])
  /\ late \subseteq Retrievals

LEMMA OneRetrieval ==
  ASSUME RetrievalsOK, NEW r \in Retrievals, NEW q, RetrievalOK(q),
         rv' = [rv EXCEPT ![r] = q], late' \subseteq Retrievals
  PROVE  RetrievalsOK'
<1>1. rv' \in [Retrievals -> RetrievalRecords]
  BY DEF RetrievalsOK, RetrievalOK
<1>2. ASSUME NEW u \in Retrievals
      PROVE  RetrievalOK(rv'[u])
  BY DEF RetrievalsOK
<1>3. QED
  BY <1>1, <1>2 DEF RetrievalsOK, RetrievalOK, Sound

LEMMA NoRetrievalOK ==
  /\ RetrievalOK(NoRetrieval)
  /\ NoRetrieval \in RetrievalRecords
<1>1. <<>> \in Seq(Nat) /\ 0 \in 0 .. ResultLimit
  BY RetrievalAssumption
<1>2. NoRetrieval \in RetrievalRecords
  BY <1>1 DEF NoRetrieval, RetrievalRecords, RetrievalPlaces, SparseStates,
              DenseStates, Outcome
<1>3. Sound(NoRetrieval)
  BY DEF NoRetrieval, Sound, Verdicts
<1>4. QED
  BY <1>2, <1>3 DEF RetrievalOK

\* What a retrieval returns has to be explained by how its channels ended.
LEMMA ReturnKeeps ==
  ASSUME RetrievalsOK, NEW r \in Retrievals, NEW outcome \in Outcome,
         NEW chunks \in 0 .. ResultLimit, Return(r, outcome, chunks),
         LET both == rv[r].sparse = "failed" /\ rv[r].dense = "failed"
         IN  /\ outcome = "INDEX_UNAVAILABLE" => both
             /\ outcome \in Verdicts \cup {"MODEL_UNAVAILABLE"} => ~both
             /\ outcome = "sufficient" => chunks > 0
  PROVE  RetrievalsOK'
<1> DEFINE q == [NoRetrieval EXCEPT !.at = "done", !.sparse = rv[r].sparse,
                   !.dense = rv[r].dense, !.outcome = outcome,
                   !.chunks = chunks]
<1>1. rv[r].sparse \in SparseStates /\ rv[r].dense \in DenseStates
  BY DEF RetrievalsOK, RetrievalRecords
<1>2. /\ q \in RetrievalRecords /\ q.at = "done" /\ q.scored = 0
      /\ q.sparse = rv[r].sparse /\ q.dense = rv[r].dense
      /\ q.outcome = outcome /\ q.chunks = chunks
  <2>1. "done" \in RetrievalPlaces
    BY DEF RetrievalPlaces
  <2>2. q \in RetrievalRecords
    BY <1>1, <2>1, NoRetrievalOK DEF RetrievalRecords
  <2>3. QED
    BY <2>2 DEF NoRetrieval
<1>3. rv' = [rv EXCEPT ![r] = q] /\ late' \subseteq Retrievals
  BY DEF Return, RetrievalsOK
<1> HIDE DEF q
<1>4. RetrievalOK(q)
  BY <1>2 DEF RetrievalOK, Sound
<1>5. QED
  BY <1>3, <1>4, OneRetrieval

LEMMA InterruptKeeps ==
  ASSUME RetrievalsOK, NEW r \in Retrievals,
         NEW outcome \in {"RETRIEVAL_TIMEOUT", "cancelled"},
         Interrupted(r, outcome)
  PROVE  RetrievalsOK'
<1> DEFINE q == [NoRetrieval EXCEPT !.at = "done", !.outcome = outcome]
<1>1. /\ q \in RetrievalRecords /\ q.at = "done" /\ q.scored = 0
      /\ q.outcome = outcome
  <2>1. "done" \in RetrievalPlaces /\ outcome \in Outcome
    BY DEF RetrievalPlaces, Outcome, Errors
  <2>2. q \in RetrievalRecords
    BY <2>1, NoRetrievalOK DEF RetrievalRecords
  <2>3. QED
    BY <2>2 DEF NoRetrieval
<1>2. rv' = [rv EXCEPT ![r] = q] /\ late' \subseteq Retrievals
  BY DEF Interrupted, RetrievalsOK
<1> HIDE DEF q
<1>3. outcome \notin Verdicts \cup {"MODEL_UNAVAILABLE"}
      /\ outcome # "INDEX_UNAVAILABLE" /\ outcome # "sufficient"
  BY DEF Verdicts
<1>4. RetrievalOK(q)
  BY <1>1, <1>3 DEF RetrievalOK, Sound
<1>5. QED
  BY <1>2, <1>4, OneRetrieval

\* The channels go on; nothing is returned yet.
LEMMA ChannelKeeps ==
  ASSUME RetrievalsOK, NEW r \in Retrievals, late' \subseteq Retrievals,
         rv[r].at \in {"idle", "rewrite", "search"},
         NEW q \in RetrievalRecords, q.at \in {"rewrite", "search"},
         q.outcome = rv[r].outcome, q.scored = rv[r].scored,
         rv' = [rv EXCEPT ![r] = q]
  PROVE  RetrievalsOK'
<1>1. Sound(rv[r])
  BY DEF RetrievalsOK, RetrievalOK
<1>2. Sound(q)
  BY <1>1 DEF Sound, Verdicts
<1>3. QED
  BY <1>2, OneRetrieval DEF RetrievalOK

LEMMA SearchKeeps ==
  ASSUME RetrievalsOK, NEW r \in Retrievals,
         \/ Retrieve(r) \/ Rewritten(r) \/ SparseAnswer(r) \/ Embedded(r)
         \/ DenseAnswer(r)
  PROVE  RetrievalsOK'
<1>1. /\ rv[r] \in RetrievalRecords
      /\ late' \subseteq Retrievals
  BY DEF RetrievalsOK, Retrieve, Rewritten, SparseAnswer, Embedded, DenseAnswer
<1>2. CASE Retrieve(r)
  <2> DEFINE p == [rv[r] EXCEPT !.at = "rewrite"]
  <2>1. rv' = [rv EXCEPT ![r] = p] /\ rv[r].at = "idle"
    BY <1>2 DEF Retrieve, At
  <2>2. /\ p \in RetrievalRecords /\ p.at = "rewrite"
        /\ p.outcome = rv[r].outcome /\ p.scored = rv[r].scored
    BY <1>1 DEF RetrievalRecords, RetrievalPlaces
  <2> HIDE DEF p
  <2>3. QED
    BY <1>1, <2>1, <2>2, ChannelKeeps
<1>3. CASE Rewritten(r)
  <2> DEFINE p == [rv[r] EXCEPT !.at = "search", !.sparse = "search",
                                !.dense = "embed"]
  <2>1. rv' = [rv EXCEPT ![r] = p] /\ rv[r].at = "rewrite"
    BY <1>3 DEF Rewritten, At
  <2>2. /\ p \in RetrievalRecords /\ p.at = "search"
        /\ p.outcome = rv[r].outcome /\ p.scored = rv[r].scored
    BY <1>1 DEF RetrievalRecords, RetrievalPlaces, SparseStates, DenseStates
  <2> HIDE DEF p
  <2>3. QED
    BY <1>1, <2>1, <2>2, ChannelKeeps
\* A channel's state, with what it found or without.
<1>4. ASSUME NEW s \in SparseStates, NEW found \in Seq(Nat), At(r, "search"),
             \/ rv' = [rv EXCEPT ![r].sparse = s]
             \/ rv' = [rv EXCEPT ![r].sparse = s, ![r].bySparse = found]
      PROVE  RetrievalsOK'
  <2> DEFINE p == [rv[r] EXCEPT !.sparse = s]
             q == [rv[r] EXCEPT !.sparse = s, !.bySparse = found]
  <2>1. /\ p \in RetrievalRecords /\ p.at = "search"
        /\ p.outcome = rv[r].outcome /\ p.scored = rv[r].scored
        /\ q \in RetrievalRecords /\ q.at = "search"
        /\ q.outcome = rv[r].outcome /\ q.scored = rv[r].scored
    BY <1>1, <1>4 DEF RetrievalRecords, At
  <2>2. rv' = [rv EXCEPT ![r] = p] \/ rv' = [rv EXCEPT ![r] = q]
    BY <1>4
  <2>3. rv[r].at = "search"
    BY <1>4 DEF At
  <2> HIDE DEF p, q
  <2>4. QED
    BY <1>1, <2>1, <2>2, <2>3, ChannelKeeps
<1>5. ASSUME NEW d \in DenseStates, NEW found \in Seq(Nat), At(r, "search"),
             \/ rv' = [rv EXCEPT ![r].dense = d]
             \/ rv' = [rv EXCEPT ![r].dense = d, ![r].byDense = found]
      PROVE  RetrievalsOK'
  <2> DEFINE p == [rv[r] EXCEPT !.dense = d]
             q == [rv[r] EXCEPT !.dense = d, !.byDense = found]
  <2>1. /\ p \in RetrievalRecords /\ p.at = "search"
        /\ p.outcome = rv[r].outcome /\ p.scored = rv[r].scored
        /\ q \in RetrievalRecords /\ q.at = "search"
        /\ q.outcome = rv[r].outcome /\ q.scored = rv[r].scored
    BY <1>1, <1>5 DEF RetrievalRecords, At
  <2>2. rv' = [rv EXCEPT ![r] = p] \/ rv' = [rv EXCEPT ![r] = q]
    BY <1>5
  <2>3. rv[r].at = "search"
    BY <1>5 DEF At
  <2> HIDE DEF p, q
  <2>4. QED
    BY <1>1, <2>1, <2>2, <2>3, ChannelKeeps
<1>6. \A found \in Finds[r] : found \in Seq(Nat)
  BY RetrievalAssumption
<1>7. <<>> \in Seq(Nat)
  OBVIOUS
<1>8. CASE SparseAnswer(r)
  <2>1. /\ "failed" \in SparseStates /\ "found" \in SparseStates
        /\ Retry(r, rv[r].sparse, "search", "search again") \in SparseStates
    BY DEF SparseStates, Retry
  <2>2. \/ \E found \in Finds[r] :
             rv' = [rv EXCEPT ![r].sparse = "found", ![r].bySparse = found]
        \/ \E s \in SparseStates : rv' = [rv EXCEPT ![r].sparse = s]
    BY <1>8, <2>1 DEF SparseAnswer
  <2>3. QED
    BY <1>4, <1>6, <1>7, <1>8, <2>1, <2>2 DEF SparseAnswer
<1>9. CASE DenseAnswer(r)
  <2>1. /\ "failed" \in DenseStates /\ "found" \in DenseStates
        /\ Retry(r, rv[r].dense, "search", "embed again") \in DenseStates
    BY DEF DenseStates, Retry
  <2>2. \/ \E found \in Finds[r] :
             rv' = [rv EXCEPT ![r].dense = "found", ![r].byDense = found]
        \/ \E d \in DenseStates : rv' = [rv EXCEPT ![r].dense = d]
    BY <1>9, <2>1 DEF DenseAnswer
  <2>3. QED
    BY <1>5, <1>6, <1>7, <1>9, <2>1, <2>2 DEF DenseAnswer
<1>10. CASE Embedded(r)
  <2>1. \E d \in {"search", "search again", "failed"} :
          rv' = [rv EXCEPT ![r].dense = d]
    BY <1>10 DEF Embedded
  <2>2. {"search", "search again", "failed"} \subseteq DenseStates
    BY DEF DenseStates
  <2>3. QED
    BY <1>5, <1>7, <1>10, <2>1, <2>2 DEF Embedded
<1>11. QED
  BY <1>2, <1>3, <1>8, <1>9, <1>10

\* Reranking starts with something to rerank.
LEMMA GatherKeeps ==
  ASSUME RetrievalsOK, NEW r \in Retrievals, Gather(r)
  PROVE  RetrievalsOK'
<1> DEFINE both == rv[r].sparse = "failed" /\ rv[r].dense = "failed"
<1>1. /\ rv[r] \in RetrievalRecords /\ Sound(rv[r]) /\ rv[r].at = "search"
      /\ 0 \in 0 .. ResultLimit
  BY RetrievalAssumption DEF RetrievalsOK, RetrievalOK, Gather, Settled, At
<1>2. CASE both
  <2>1. Return(r, "INDEX_UNAVAILABLE", 0)
    BY <1>2 DEF Gather
  <2>2. QED
    BY <1>1, <1>2, <2>1, ReturnKeeps DEF Outcome, Errors, Verdicts
<1>3. CASE ~both /\ Fused(r) = <<>>
  <2>1. Return(r, "insufficient", 0)
    BY <1>3 DEF Gather
  <2>2. QED
    BY <1>1, <1>3, <2>1, ReturnKeeps DEF Outcome, Verdicts
<1>4. CASE ~both /\ Fused(r) # <<>>
  <2> DEFINE f == Fused(r)
             q == [rv[r] EXCEPT !.at = "rerank", !.fused = f,
                                !.bySparse = <<>>, !.byDense = <<>>]
  <2>1. rv[r].bySparse \in Seq(Nat) /\ rv[r].byDense \in Seq(Nat)
    BY <1>1 DEF RetrievalRecords
  <2>2. f \in Seq(Nat) /\ Len(f) <= FusionLimit
    <3>1. /\ f \in Seq(Found(rv[r].bySparse, rv[r].byDense))
          /\ Len(f) <= FusionLimit
      BY <2>1, FuseFacts DEF Fused
    <3>2. Found(rv[r].bySparse, rv[r].byDense) \subseteq Nat
      BY <2>1, RankedAre DEF Found
    <3>3. QED
      BY <3>1, <3>2
  <2>3. f # <<>>
    BY <1>4
  <2>4. GoToRerank(r)
    BY <1>4 DEF Gather
  <2>5. rv' = [rv EXCEPT ![r] = q] /\ late' \subseteq Retrievals
    BY <2>4 DEF GoToRerank, RetrievalsOK
  <2> HIDE DEF f
  <2>6. /\ q \in RetrievalRecords /\ q.at = "rerank" /\ q.fused = f
        /\ q.scored = rv[r].scored /\ q.outcome = rv[r].outcome
        /\ q.sparse = rv[r].sparse /\ q.dense = rv[r].dense
    <3>1. "rerank" \in RetrievalPlaces /\ <<>> \in Seq(Nat)
      BY DEF RetrievalPlaces
    <3>2. QED
      BY <1>1, <2>2, <3>1 DEF RetrievalRecords
  <2> HIDE DEF q
  <2>7. rv[r].scored = 0 /\ rv[r].outcome = "none"
    BY <1>1 DEF Sound
  <2>8. Len(f) > 0
    BY <2>2, <2>3
  <2>9. Sound(q)
    BY <1>4, <2>2, <2>3, <2>6, <2>7, <2>8 DEF Sound, Verdicts
  <2>10. QED
    BY <2>5, <2>6, <2>9, OneRetrieval DEF RetrievalOK
<1>5. QED
  BY <1>2, <1>3, <1>4

-----------------------------------------------------------------------------
(* The verdict.                                                            *)

\* The order of the candidates by their scores.
Scoring(list, good) ==
  {p \in Ranked(list) \X Ranked(list) :
     \/ p[1] \in good /\ p[2] \notin good
     \/ /\ p[1] \in good <=> p[2] \in good
        /\ RankIn(p[1], list) < RankIn(p[2], list)}

LEMMA ScoringOrders ==
  ASSUME NEW list \in Seq(Nat), NEW good
  PROVE  Orders(Scoring(list, good), Ranked(list))
<1> DEFINE S == Ranked(list)
           K(c) == RankIn(c, list)
           B(a, b) == \/ a \in good /\ b \notin good
                      \/ (a \in good <=> b \in good) /\ K(a) < K(b)
<1>1. \A a, b \in S : <<a, b>> \in Scoring(list, good) <=> B(a, b)
  BY DEF Scoring
<1>2. \A c \in S : K(c) \in Nat /\ list[K(c)] = c
  BY RankFacts
<1>3. \A a, b \in S : a # b => K(a) # K(b)
  BY <1>2
<1> HIDE DEF S, K
<1>4. \A a \in S : ~(K(a) < K(a))
  BY <1>2
<1>5. \A a, b \in S : a # b => K(a) < K(b) \/ K(b) < K(a)
  BY <1>2, <1>3
<1>6. \A a, b, c \in S : K(a) < K(b) /\ K(b) < K(c) => K(a) < K(c)
  BY <1>2
<1>7. /\ \A a \in S : ~B(a, a)
      /\ \A a, b \in S : a # b => B(a, b) \/ B(b, a)
      /\ \A a, b, c \in S : B(a, b) /\ B(b, c) => B(a, c)
  BY <1>4, <1>5, <1>6, Zenon
<1> HIDE DEF B
<1>8. QED
  BY <1>1, <1>7 DEF Orders, S

\* The verdict keeps its promise: evidence that is enough is some, and not
\* more than was asked for.
LEMMA JudgeKeeps ==
  ASSUME RetrievalsOK, NEW r \in Retrievals, At(r, "rerank"), NEW good,
         Judge(r, good)
  PROVE  RetrievalsOK'
<1> DEFINE list == rv[r].fused
           S == Ranked(list)
           n == Cardinality(S)
           ranked == InOrder(S, Scoring(list, good))
           verdict == IF ranked[1] \in good THEN "sufficient"
                                            ELSE "insufficient"
<1>1. /\ rv[r] \in RetrievalRecords /\ Sound(rv[r]) /\ rv[r].at = "rerank"
  BY DEF RetrievalsOK, RetrievalOK, At
<1>2. /\ list \in Seq(Nat) /\ list # <<>>
      /\ ~(rv[r].sparse = "failed" /\ rv[r].dense = "failed")
  BY <1>1 DEF RetrievalRecords, Sound
<1>3. Return(r, verdict, Min({ResultLimit, Len(ranked)}))
  BY DEF Judge, Scoring
<1> HIDE DEF list, ranked
<1>4. IsFiniteSet(S) /\ \A i \in 1 .. Len(list) : list[i] \in S
  BY <1>2, RankedAre
<1>5. S # {}
  <2>1. 1 \in 1 .. Len(list)
    BY <1>2
  <2>2. QED
    BY <1>4, <2>1
<1>6. ranked \in [1 .. n -> S] /\ n \in Nat
  BY <1>2, <1>4, ScoringOrders, SortedFacts DEF ranked
<1>7. n # 0
  BY <1>4, <1>5, FS_EmptySet
<1> HIDE DEF S, n
<1>8. Len(ranked) = n
  BY <1>6
<1>9. /\ Min({ResultLimit, n}) \in 0 .. ResultLimit
      /\ Min({ResultLimit, n}) > 0
  BY <1>6, <1>7, RetrievalAssumption, MinOfTwo
<1>10. verdict \in Verdicts
  BY DEF Verdicts
<1> HIDE DEF verdict
<1>11. verdict \in Outcome /\ verdict # "INDEX_UNAVAILABLE"
  BY <1>10 DEF Outcome, Verdicts
<1>12. QED
  BY <1>2, <1>3, <1>8, <1>9, <1>11, ReturnKeeps

LEMMA ScoredKeeps ==
  ASSUME RetrievalsOK, NEW r \in Retrievals, Scored(r)
  PROVE  RetrievalsOK'
<1>1. /\ rv[r] \in RetrievalRecords /\ Sound(rv[r]) /\ rv[r].at = "rerank"
      /\ 0 \in 0 .. ResultLimit /\ late \subseteq Retrievals
  BY RetrievalAssumption DEF RetrievalsOK, RetrievalOK, Scored, At
<1>2. CASE Return(r, "MODEL_UNAVAILABLE", 0)
  <2>1. /\ "MODEL_UNAVAILABLE" \in Outcome
        /\ ~(rv[r].sparse = "failed" /\ rv[r].dense = "failed")
    BY <1>1 DEF Outcome, Errors, Sound
  <2>2. QED
    BY <1>1, <1>2, <2>1, ReturnKeeps
<1>3. CASE Return(r, "RETRIEVAL_TIMEOUT", 0)
  <2>1. "RETRIEVAL_TIMEOUT" \in Outcome
    BY DEF Outcome, Errors
  <2>2. QED
    BY <1>1, <1>3, <2>1, ReturnKeeps DEF Verdicts
<1>4. CASE Interrupted(r, "cancelled")
  BY <1>4, InterruptKeeps
<1>5. ASSUME NEW good, Judge(r, good)
      PROVE  RetrievalsOK'
  BY <1>5, JudgeKeeps DEF Scored
<1>6. CASE /\ rv[r].scored + BatchSize < Len(rv[r].fused)
           /\ rv' = [rv EXCEPT ![r].scored = @ + BatchSize]
           /\ UNCHANGED late
  <2> DEFINE k == rv[r].scored + BatchSize
             q == [rv[r] EXCEPT !.scored = k]
  <2>1. rv' = [rv EXCEPT ![r] = q]
    BY <1>6
  <2>2. k \in Nat
    <3>1. rv[r].scored \in Nat /\ BatchSize \in Nat
      BY <1>1, RetrievalAssumption DEF RetrievalRecords
    <3>2. QED
      BY <3>1
  <2>3. k < Len(rv[r].fused)
    BY <1>6
  <2> HIDE DEF k
  <2>4. /\ q \in RetrievalRecords /\ q.at = "rerank" /\ q.fused = rv[r].fused
        /\ q.scored = k /\ q.outcome = rv[r].outcome
        /\ q.sparse = rv[r].sparse /\ q.dense = rv[r].dense
    BY <1>1, <2>2 DEF RetrievalRecords
  <2> HIDE DEF q
  <2>5. Sound(q)
    BY <1>1, <2>3, <2>4 DEF Sound, Verdicts
  <2>6. QED
    BY <1>1, <1>6, <2>1, <2>4, <2>5, OneRetrieval DEF RetrievalOK
<1>7. job[r] \in {"ok", "failed", "refused", "late", "cancelled"}
  BY DEF Scored, Outcomes
<1>8. CASE job[r] = "ok"
  <2>1. \/ /\ rv[r].scored + BatchSize < Len(rv[r].fused)
           /\ rv' = [rv EXCEPT ![r].scored = @ + BatchSize]
           /\ UNCHANGED late
        \/ \E good \in SUBSET Ranked(rv[r].fused) : Judge(r, good)
        \/ Return(r, "MODEL_UNAVAILABLE", 0)
    BY <1>8 DEF Scored
  <2>2. QED
    BY <1>2, <1>5, <1>6, <2>1
<1>9. CASE job[r] # "ok"
  <2>1. \/ Return(r, "MODEL_UNAVAILABLE", 0) \/ Return(r, "RETRIEVAL_TIMEOUT", 0)
        \/ Interrupted(r, "cancelled")
    BY <1>7, <1>9 DEF Scored
  <2>2. QED
    BY <1>2, <1>3, <1>4, <2>1
<1>10. QED
  BY <1>8, <1>9

\* Whatever a process does, to the retrievals it is a step of one of them.
LEMMA RetrievalsMove ==
  ASSUME [Serve \/ Chunk]_knowledgeVars
  PROVE  \/ UNCHANGED retrieval
         \/ \E r \in Retrievals : Retrieve(r) \/ RetrievalStep(r)
<1>1. CASE UNCHANGED knowledgeVars \/ Chunk
  BY <1>1 DEF knowledgeVars, processVars, Chunk
<1>2. CASE Lifespan
  BY <1>2 DEF Lifespan, OpenCheckpointer, OpenRedis, AuditRedis,
              VerifyArtifacts, Ping, LoadModels, StartWarmUp, WarmUpTimesOut,
              WarmedUp, Assemble, OpenJava, CloseLast, ModelsCloseRaises
<1>3. CASE BeginStop \/ Threads
  BY <1>3 DEF BeginStop, Threads
<1>4. CASE \E c \in Others : OtherCall(c) \/ OtherEnds(c)
  BY <1>4 DEF OtherCall, OtherEnds
<1>5. CASE \E r \in Retrievals : AcceptRetrieval(r) \/ RetrievalGoesOn(r)
  BY <1>5 DEF AcceptRetrieval, RetrievalGoesOn
<1>6. QED
  BY <1>1, <1>2, <1>3, <1>4, <1>5 DEF Serve, InService, ProcessNext

LEMMA RetrievalStepKeeps ==
  ASSUME RetrievalsOK, NEW r \in Retrievals, Retrieve(r) \/ RetrievalStep(r)
  PROVE  RetrievalsOK'
<1>1. CASE \/ Retrieve(r) \/ Rewritten(r) \/ SparseAnswer(r) \/ Embedded(r)
           \/ DenseAnswer(r)
  BY <1>1, SearchKeeps
<1>2. CASE Gather(r)
  BY <1>2, GatherKeeps
<1>3. CASE Scored(r)
  BY <1>3, ScoredKeeps
<1>4. CASE TimesOut(r) \/ CallerGone(r)
  BY <1>4, InterruptKeeps DEF TimesOut, CallerGone
<1>5. CASE Embed(r) \/ Rerank(r) \/ DeadlinePasses(r) \/ InferenceTimesOut(r)
  <2>1. rv' = rv /\ late' \subseteq Retrievals
    BY <1>5 DEF RetrievalsOK, Embed, Rerank, DeadlinePasses,
                InferenceTimesOut, retrieval
  <2>2. QED
    BY <2>1 DEF RetrievalsOK, RetrievalOK, Sound
<1>6. QED
  BY <1>1, <1>2, <1>3, <1>4, <1>5 DEF RetrievalStep

LEMMA RetrievalsInvariant == KnowledgeSpec => []RetrievalsOK
<1>1. KnowledgeInit => RetrievalsOK
  <2> SUFFICES ASSUME KnowledgeInit PROVE RetrievalsOK
    OBVIOUS
  <2>1. rv = [r \in Retrievals |-> NoRetrieval] /\ late = {}
    BY DEF KnowledgeInit, ProcessInit, RetrievalInit
  <2>2. \A r \in Retrievals : rv[r] = NoRetrieval
    BY <2>1
  <2>3. QED
    BY <2>1, <2>2, NoRetrievalOK DEF RetrievalsOK
<1>2. RetrievalsOK /\ [Serve \/ Chunk]_knowledgeVars => RetrievalsOK'
  <2> SUFFICES ASSUME RetrievalsOK, [Serve \/ Chunk]_knowledgeVars
      PROVE  RetrievalsOK'
    OBVIOUS
  <2>1. CASE UNCHANGED retrieval
    BY <2>1 DEF retrieval, RetrievalsOK, RetrievalOK, Sound
  <2>2. QED
    BY <2>1, RetrievalsMove, RetrievalStepKeeps
<1>3. QED
  BY <1>1, <1>2, PTL DEF KnowledgeSpec

\* The index is called unavailable only when both channels failed, no channel
\* failing twice hides what the other found, and evidence that is called
\* sufficient is there, however retries, deadlines and cancellations fall.
THEOREM OutcomesAreExplained == KnowledgeSpec => []OutcomesExplained
<1>1. RetrievalsOK => OutcomesExplained
  BY DEF RetrievalsOK, RetrievalOK, Sound, OutcomesExplained
<1>2. QED
  BY <1>1, RetrievalsInvariant, PTL

\* The scores decide, wherever fusion had put the candidate: the evidence is
\* enough exactly when one of the candidates reaches the threshold.
BestDecides ==
  [][\A r \in Retrievals : At(r, "rerank") =>
       \A good \in SUBSET Ranked(rv[r].fused) : Judge(r, good) =>
         rv'[r].outcome = IF good = {} THEN "insufficient" ELSE "sufficient"
    ]_knowledgeVars

\* First of the candidates in the order of their scores is a good one, if
\* there is one.
LEMMA BestFirst ==
  ASSUME NEW list \in Seq(Nat), NEW good \in SUBSET Ranked(list), list # <<>>
  PROVE  InOrder(Ranked(list), Scoring(list, good))[1] \in good <=> good # {}
<1> DEFINE S == Ranked(list)
           n == Cardinality(S)
           ranked == InOrder(S, Scoring(list, good))
<1>1. IsFiniteSet(S) /\ \A i \in 1 .. Len(list) : list[i] \in S
  BY RankedAre
<1>2. S # {}
  <2>1. 1 \in 1 .. Len(list)
    OBVIOUS
  <2>2. QED
    BY <1>1, <2>1
<1>3. /\ ranked \in [1 .. n -> S] /\ n \in Nat
      /\ \A i, j \in 1 .. n :
           i < j <=> <<ranked[i], ranked[j]>> \in Scoring(list, good)
      /\ \A x \in S : \E i \in 1 .. n : ranked[i] = x
  BY <1>1, ScoringOrders, SortedFacts
<1>4. \A a, b \in S : a \in good /\ b \notin good
                       => <<a, b>> \in Scoring(list, good)
  BY DEF Scoring
<1> HIDE DEF S, n, ranked
<1>5. ASSUME good # {} PROVE ranked[1] \in good
  <2>1. PICK x \in good : x \in S
    BY <1>5 DEF S
  <2>2. PICK i \in 1 .. n : ranked[i] = x
    BY <1>3, <2>1
  <2>3. 1 \in 1 .. n /\ ranked[1] \in S
    BY <1>3, <2>2
  <2>4. ~(i < 1)
    BY <1>3, <2>2
  <2>5. QED
    BY <1>3, <1>4, <2>1, <2>2, <2>3, <2>4
<1>6. QED
  BY <1>5 DEF ranked, S

\* No candidate that reaches the threshold is lost to the order fusion, the
\* batches and sorting give them, for any lists and limits.
THEOREM BestEvidenceDecides == KnowledgeSpec => BestDecides
<1>1. ASSUME RetrievalsOK, NEW r \in Retrievals, At(r, "rerank"),
             NEW good \in SUBSET Ranked(rv[r].fused), Judge(r, good)
      PROVE  rv'[r].outcome = IF good = {} THEN "insufficient" ELSE "sufficient"
  <2> DEFINE list == rv[r].fused
             ranked == InOrder(Ranked(list), Scoring(list, good))
             verdict == IF ranked[1] \in good THEN "sufficient"
                                              ELSE "insufficient"
  <2>1. list \in Seq(Nat) /\ list # <<>> /\ rv \in [Retrievals -> RetrievalRecords]
    BY <1>1 DEF RetrievalsOK, RetrievalOK, RetrievalRecords, Sound, At
  <2>2. Return(r, verdict, Min({ResultLimit, Len(ranked)}))
    BY <1>1 DEF Judge, Scoring
  <2> HIDE DEF list, ranked
  <2>3. rv'[r].outcome = verdict
    BY <2>1, <2>2 DEF Return, NoRetrieval
  <2>4. ranked[1] \in good <=> good # {}
    BY <1>1, <2>1, BestFirst DEF list, ranked
  <2>5. QED
    BY <2>3, <2>4
<1>2. RetrievalsOK /\ [Serve \/ Chunk]_knowledgeVars =>
        [\A r \in Retrievals : At(r, "rerank") =>
           \A good \in SUBSET Ranked(rv[r].fused) : Judge(r, good) =>
             rv'[r].outcome = IF good = {} THEN "insufficient" ELSE "sufficient"
        ]_knowledgeVars
  BY <1>1
<1>3. QED
  BY <1>2, RetrievalsInvariant, PTL DEF KnowledgeSpec, BestDecides

-----------------------------------------------------------------------------
\* What fusion keeps respects every channel, for any lists and any limit.
THEOREM FusionKeepsAgreement == KnowledgeSpec => []FusionRespectsRanks
<1>1. ASSUME RetrievalsOK, NEW r \in Retrievals
      PROVE  LET channels == {rv[r].bySparse, rv[r].byDense}
                 found == Ranked(rv[r].bySparse) \cup Ranked(rv[r].byDense)
             IN /\ IsInjective(Fused(r)) /\ Range(Fused(r)) \subseteq found
                /\ \A a \in found, b \in Range(Fused(r)) :
                     a # b /\ (\A list \in channels :
                        b \in Ranked(list) => Ahead(a, b, list))
                       => Ahead(a, b, Fused(r))
  <2> DEFINE sparse == rv[r].bySparse
             dense == rv[r].byDense
             U == Found(sparse, dense)
             f == Fuse(sparse, dense)
  <2>1. sparse \in Seq(Nat) /\ dense \in Seq(Nat)
    BY <1>1 DEF RetrievalsOK, RetrievalRecords
  <2>2. Fused(r) = f /\ U = Ranked(sparse) \cup Ranked(dense)
    BY DEF Fused, Found
  <2> HIDE DEF sparse, dense, U, f
  <2>3. /\ f \in Seq(U) /\ Len(f) \in Nat
        /\ \A i, j \in 1 .. Len(f) : f[i] = f[j] => i = j
        /\ \A i \in 1 .. Len(f), a \in U :
             Outranks(a, f[i], sparse, dense) =>
               \E k \in 1 .. Len(f) : k < i /\ f[k] = a
    BY <2>1, FuseFacts DEF U, f
  <2>4. IsInjective(f) /\ Range(f) \subseteq U
    BY <2>3 DEF IsInjective, Range
  <2>5. ASSUME NEW a \in U, NEW b \in Range(f), a # b,
               \A list \in {sparse, dense} :
                 b \in Ranked(list) => Ahead(a, b, list)
        PROVE  Ahead(a, b, f)
    <3>1. PICK i \in 1 .. Len(f) : f[i] = b
      BY <2>3 DEF Range
    <3>2. b \in U
      BY <2>4
    <3>3. Outranks(a, b, sparse, dense)
      BY <2>1, <2>5, <3>2, BetterRanksOutrank DEF U
    <3>4. PICK k \in 1 .. Len(f) : k < i /\ f[k] = a
      BY <2>3, <3>1, <3>3
    <3>5. \A j \in 1 .. k : f[j] # b
      BY <2>3, <3>1, <3>4
    <3>6. QED
      BY <2>3, <3>4, <3>5 DEF Ahead
  <2>6. QED
    BY <2>2, <2>4, <2>5 DEF sparse, dense
<1>2. RetrievalsOK => FusionRespectsRanks
  BY <1>1 DEF FusionRespectsRanks
<1>3. QED
  BY <1>2, RetrievalsInvariant, PTL

-----------------------------------------------------------------------------
\* What is lost to a failed assembly or a failed close are resources.
LeakedOK == leaked \subseteq Resources

LEMMA LeakedInvariant == KnowledgeSpec => []LeakedOK
<1>1. KnowledgeInit => LeakedOK
  BY DEF LeakedOK, KnowledgeInit, ProcessInit
<1>2. LeakedOK /\ [Serve \/ Chunk]_knowledgeVars => LeakedOK'
  <2> SUFFICES ASSUME LeakedOK, [Serve \/ Chunk]_knowledgeVars
      PROVE  LeakedOK'
    OBVIOUS
  <2>1. CASE Assemble \/ ModelsCloseRaises
    BY <2>1 DEF LeakedOK, Assemble, ModelsCloseRaises, Resources
  <2>2. CASE Lifespan /\ ~Assemble /\ ~ModelsCloseRaises
    BY <2>2 DEF LeakedOK, Lifespan, OpenCheckpointer, OpenRedis, AuditRedis,
                VerifyArtifacts, Ping, LoadModels, StartWarmUp, WarmUpTimesOut,
                WarmedUp, OpenJava, CloseLast, lifespan
  <2>3. CASE BeginStop \/ UNCHANGED <<closed, lifespan>>
    BY <2>3 DEF LeakedOK, BeginStop, lifespan
  <2>4. QED
    BY <2>1, <2>2, <2>3, OthersQuiet
<1>3. QED
  BY <1>1, <1>2, PTL DEF KnowledgeSpec

\* Types, among them that no retrieval has scored more candidates than the
\* reranker takes, though batches may pass the end of the list.
THEOREM KnowledgeTyped == KnowledgeSpec => []KnowledgeTypeOK
<1>1. RuntimeOK /\ LifespanOK /\ RetrievalsOK /\ LeakedOK
        => KnowledgeTypeOK
  <2> SUFFICES ASSUME RuntimeOK, LifespanOK, RetrievalsOK, LeakedOK
      PROVE  KnowledgeTypeOK
    OBVIOUS
  <2>1. ASSUME NEW r \in Retrievals
        PROVE  /\ rv[r].at \in RetrievalPlaces
               /\ rv[r].sparse \in SparseStates /\ rv[r].dense \in DenseStates
               /\ rv[r].outcome \in Errors \cup Verdicts \cup {"none"}
               /\ rv[r].chunks \in 0 .. ResultLimit
               /\ rv[r].scored \in 0 .. FusionLimit
    <3>1. rv[r] \in RetrievalRecords /\ Sound(rv[r])
      BY DEF RetrievalsOK, RetrievalOK
    <3>2. rv[r].scored \in Nat /\ Len(rv[r].fused) \in Nat
      BY <3>1 DEF RetrievalRecords
    <3>3. rv[r].scored \in 0 .. FusionLimit
      BY <3>1, <3>2, FusionAssumption DEF Sound
    <3>4. QED
      BY <3>1, <3>3 DEF RetrievalRecords, Outcome
  <2>2. phase \in Phases /\ held \in Seq(Resources) /\ warmed \in BOOLEAN
    BY DEF LifespanOK, PhaseOK, HeldInOrder
  <2>3. /\ closed \in BOOLEAN /\ job \in [Callers -> Jobs] /\ orphans \in Nat
    BY DEF RuntimeOK, RuntimeTyped
  <2>4. QED
    BY <2>1, <2>2, <2>3 DEF KnowledgeTypeOK, RetrievalsOK, LeakedOK
<1>2. QED
  BY <1>1, RuntimeInvariant, LifespanInvariant, RetrievalsInvariant,
     LeakedInvariant, PTL

-----------------------------------------------------------------------------
(* The windows of a section: chunk_sections loses no token of it.          *)

\* A window that does not reach the end of its section ends after the
\* overlap, so that the next one advances, and by its target.
LEMMA ChosenEnd ==
  ASSUME NEW s \in Sections, NEW from \in 0 .. s.tokens,
         from + s.target < s.tokens
  PROVE  /\ ChooseEnd(s, from, from + s.target) \in Nat
         /\ from + s.overlap < ChooseEnd(s, from, from + s.target)
         /\ ChooseEnd(s, from, from + s.target) <= from + s.target
<1> DEFINE minimum == from + s.overlap + 1
           desired == from + s.target
           near(boundaries) == {p \in boundaries : minimum <= p /\ p <= desired}
<1>1. WithinLimits(s)
  BY SectionsAssumption
<1>2. /\ s.tokens \in Nat /\ s.overlap \in Nat /\ s.target \in Nat
      /\ s.max \in Nat /\ s.overlap < s.target /\ s.target <= s.max
      /\ from \in Nat /\ desired \in Nat /\ minimum \in Nat
      /\ minimum <= desired
  BY <1>1 DEF WithinLimits
<1>3. ASSUME NEW boundaries, boundaries \subseteq 1 .. s.tokens,
             near(boundaries) # {}
      PROVE  Max(near(boundaries)) \in minimum .. desired
  <2>1. near(boundaries) \subseteq minimum .. desired
        /\ minimum .. desired \subseteq 0 .. desired
    <3>1. ASSUME NEW p \in near(boundaries) PROVE p \in minimum .. desired
      <4>1. p \in 1 .. s.tokens /\ minimum <= p /\ p <= desired
        BY <1>3
      <4> QED
        BY <1>2, <4>1
    <3>2. minimum .. desired \subseteq 0 .. desired
      BY <1>2
    <3> QED
      BY <3>1, <3>2, Zenon
  <2>2. Max(near(boundaries)) \in near(boundaries)
    <3> DEFINE S == near(boundaries)
               b == desired
    <3>1. b \in Nat /\ S \subseteq 0 .. b /\ S # {}
      <4>1. b \in Nat
        BY <1>2
      <4>2. S # {}
        BY <1>3
      <4> QED
        BY <2>1, <4>1, <4>2, Zenon
    <3> HIDE DEF S, b
    <3>2. Max(S) \in S
      BY <3>1, MaxOfBounded
    <3> QED
      BY <3>2 DEF S
  <2> QED
    BY <2>1, <2>2, Zenon
<1>4. s.paragraphs \subseteq 1 .. s.tokens /\ s.sentences \subseteq 1 .. s.tokens
  BY <1>1 DEF WithinLimits
<1>5. Max({minimum, Min({desired, Min({from + s.max, s.tokens})})}) = desired
  <2>1. Min({from + s.max, s.tokens}) \in Int
        /\ desired <= Min({from + s.max, s.tokens})
    <3>1. from + s.max \in Int /\ s.tokens \in Int
          /\ desired <= from + s.max /\ desired <= s.tokens
      BY <1>2
    <3>2. Min({from + s.max, s.tokens})
            = IF from + s.max <= s.tokens THEN from + s.max ELSE s.tokens
      BY <3>1, MinOfTwo
    <3> QED
      BY <3>1, <3>2
  <2>2. Min({desired, Min({from + s.max, s.tokens})}) = desired
    <3> DEFINE hard == Min({from + s.max, s.tokens})
    <3> HIDE DEF hard
    <3>1. hard \in Int /\ desired <= hard /\ desired \in Int
      BY <1>2, <2>1 DEF hard
    <3> QED
      BY <3>1, MinOfTwo DEF hard
  <2>3. Max({minimum, desired}) = desired
    BY <1>2, MaxOfTwo
  <2> QED
    BY <2>2, <2>3, Zenon
<1>6. ChooseEnd(s, from, desired) \in minimum .. desired
  <2>1. CASE near(s.paragraphs) # {}
    <3>1. ChooseEnd(s, from, desired) = Max(near(s.paragraphs))
      BY <2>1, Zenon DEF ChooseEnd
    <3> QED
      BY <1>3, <1>4, <2>1, <3>1
  <2>2. CASE near(s.paragraphs) = {} /\ near(s.sentences) # {}
    <3>1. ChooseEnd(s, from, desired) = Max(near(s.sentences))
      BY <2>2, Zenon DEF ChooseEnd
    <3> QED
      BY <1>3, <1>4, <2>2, <3>1
  <2>3. CASE near(s.paragraphs) = {} /\ near(s.sentences) = {}
    BY <1>2, <1>5, <2>3 DEF ChooseEnd
  <2> QED
    BY <2>1, <2>2, <2>3
<1> QED
  BY <1>2, <1>6

-----------------------------------------------------------------------------
Pairs == Nat \X Nat

\* Where the loop stands: the next window starts the overlap before the end
\* of the last one, which the section goes beyond.
LoopOK ==
  /\ section \in Sections
  /\ windows \in Seq(Pairs)
  /\ chunking = "loop" =>
       /\ section.tokens > 0
       /\ start \in Nat
       /\ windows = <<>> => start = 0
       /\ windows # <<>> => /\ start = Last(windows)[2] - section.overlap
                            /\ Last(windows)[2] < section.tokens

\* The windows made so far: see ChunksCover.
WindowsOK ==
  \A i \in 1 .. Len(windows) :
    /\ windows[i][1] < windows[i][2]
    /\ windows[i][2] - windows[i][1] <= section.target
    /\ windows[i][1] = IF i = 1 THEN 0 ELSE windows[i - 1][2] - section.overlap
    /\ i > 1 => windows[i][2] > windows[i - 1][2]

DoneOK ==
  chunking = "done" /\ section.tokens > 0 =>
    windows # <<>> /\ Last(windows)[2] = section.tokens

ChunkInvariant == LoopOK /\ WindowsOK /\ DoneOK

LEMMA SectionTyped ==
  ASSUME NEW s \in Sections
  PROVE  /\ s.tokens \in Nat /\ s.overlap \in Nat /\ s.target \in Nat
         /\ s.overlap < s.target
BY SectionsAssumption DEF WithinLimits

\* Every window is within its target, goes beyond the last one, and leaves
\* more than the overlap to itself unless it is the last one.
LEMMA WindowAdvances ==
  ASSUME LoopOK, chunking = "loop"
  PROVE  /\ WindowEnd \in Nat
         /\ start < WindowEnd
         /\ WindowEnd - start <= section.target
         /\ windows # <<>> => WindowEnd > Last(windows)[2]
         /\ WindowEnd # section.tokens =>
              WindowEnd < section.tokens /\ start + section.overlap < WindowEnd
<1>1. /\ section.tokens \in Nat /\ section.overlap \in Nat
      /\ section.target \in Nat /\ section.overlap < section.target
      /\ start \in Nat /\ section.tokens > 0
  BY SectionTyped DEF LoopOK
<1>2. windows # <<>> => /\ Last(windows)[2] \in Nat
                        /\ start = Last(windows)[2] - section.overlap
                        /\ Last(windows)[2] < section.tokens
  BY DEF LoopOK, Last, Pairs
<1>3. start < section.tokens
  BY <1>1, <1>2 DEF LoopOK
<1>4. Min({start + section.target, section.tokens})
        = IF start + section.target <= section.tokens
          THEN start + section.target ELSE section.tokens
  BY <1>1, MinOfTwo
<1>5. CASE section.tokens <= start + section.target
  <2>1. WindowEnd = section.tokens
    BY <1>1, <1>4, <1>5 DEF WindowEnd
  <2> QED
    BY <1>1, <1>2, <1>3, <1>5, <2>1
<1>6. CASE start + section.target < section.tokens
  <2>1. WindowEnd = ChooseEnd(section, start, start + section.target)
    BY <1>1, <1>4, <1>6 DEF WindowEnd
  <2>2. /\ WindowEnd \in Nat
        /\ start + section.overlap < WindowEnd
        /\ WindowEnd <= start + section.target
    <3>1. section \in Sections /\ start \in 0 .. section.tokens
      BY <1>1, <1>3 DEF LoopOK
    <3> QED
      BY <1>6, <2>1, <3>1, ChosenEnd
  <2> QED
    BY <1>1, <1>2, <1>6, <2>2
<1> QED
  BY <1>1, <1>5, <1>6

LEMMA NextWindowKeeps ==
  ASSUME ChunkInvariant, NextWindow
  PROVE  ChunkInvariant'
<1> DEFINE w == <<start, WindowEnd>>
<1>1. /\ chunking = "loop" /\ LoopOK /\ WindowsOK
      /\ section' = section /\ windows' = Append(windows, w)
  BY DEF ChunkInvariant, NextWindow
<1>2. /\ WindowEnd \in Nat
      /\ start < WindowEnd
      /\ WindowEnd - start <= section.target
      /\ windows # <<>> => WindowEnd > Last(windows)[2]
      /\ WindowEnd # section.tokens =>
           WindowEnd < section.tokens /\ start + section.overlap < WindowEnd
  BY <1>1, WindowAdvances
<1>3. /\ section \in Sections /\ windows \in Seq(Pairs) /\ start \in Nat
      /\ section.tokens \in Nat /\ section.overlap \in Nat
      /\ section.target \in Nat /\ section.tokens > 0
  BY <1>1, SectionTyped DEF LoopOK
<1>4. w \in Pairs /\ w[1] = start /\ w[2] = WindowEnd
  BY <1>2, <1>3 DEF Pairs
<1> HIDE DEF w
<1>5. /\ windows' \in Seq(Pairs)
      /\ Len(windows') = Len(windows) + 1 /\ Len(windows) \in Nat
      /\ windows' # <<>>
      /\ Last(windows') = w
      /\ windows'[Len(windows) + 1] = w
      /\ \A i \in 1 .. Len(windows) : windows'[i] = windows[i]
  BY <1>1, <1>3, <1>4 DEF Last
<1>6. LoopOK'
  <2>1. CASE WindowEnd = section.tokens
    BY <1>1, <1>3, <1>5, <2>1 DEF LoopOK, NextWindow
  <2>2. CASE WindowEnd # section.tokens
    <3>1. start' = WindowEnd - section.overlap /\ start' \in Nat
      BY <1>2, <1>3, <2>2 DEF NextWindow
    <3> QED
      BY <1>1, <1>2, <1>3, <1>4, <1>5, <2>2, <3>1 DEF LoopOK
  <2> QED
    BY <2>1, <2>2
<1>7. WindowsOK'
  <2> SUFFICES ASSUME NEW i \in 1 .. Len(windows')
      PROVE  /\ windows'[i][1] < windows'[i][2]
             /\ windows'[i][2] - windows'[i][1] <= section.target
             /\ windows'[i][1] = IF i = 1 THEN 0
                                 ELSE windows'[i - 1][2] - section.overlap
             /\ i > 1 => windows'[i][2] > windows'[i - 1][2]
    BY <1>1 DEF WindowsOK
  <2>1. CASE i \in 1 .. Len(windows)
    <3>1. windows'[i] = windows[i]
          /\ (i > 1 => windows'[i - 1] = windows[i - 1])
      BY <1>5, <2>1
    <3> QED
      BY <1>1, <2>1, <3>1 DEF WindowsOK
  <2>2. CASE i = Len(windows) + 1 /\ windows = <<>>
    BY <1>1, <1>2, <1>3, <1>4, <1>5, <2>2 DEF LoopOK
  <2>3. CASE i = Len(windows) + 1 /\ windows # <<>>
    <3>1. /\ i > 1 /\ windows'[i] = w
          /\ windows'[i - 1] = Last(windows)
      BY <1>3, <1>5, <2>3 DEF Last
    <3>2. start = Last(windows)[2] - section.overlap
      BY <1>1, <2>3 DEF LoopOK
    <3> QED
      BY <1>2, <1>4, <2>3, <3>1, <3>2
  <2> QED
    BY <1>5, <2>1, <2>2, <2>3
<1>8. DoneOK'
  BY <1>1, <1>4, <1>5 DEF DoneOK, NextWindow
<1> QED
  BY <1>6, <1>7, <1>8 DEF ChunkInvariant

\* What a step of the loop keeps.
LEMMA ChunkStepKeeps ==
  ASSUME ChunkInvariant, [ChunkStep]_chunkVars
  PROVE  ChunkInvariant'
<1>1. CASE NextWindow
  BY <1>1, NextWindowKeeps
<1>2. CASE Refuse
  BY <1>2 DEF Refuse, ChunkInvariant, LoopOK, WindowsOK, DoneOK
<1>3. CASE UNCHANGED chunkVars
  BY <1>3 DEF chunkVars, ChunkInvariant, LoopOK, WindowsOK, DoneOK
<1>4. QED
  BY <1>1, <1>2, <1>3 DEF ChunkStep

LEMMA ChunkStart ==
  ASSUME ChunkInit
  PROVE  ChunkInvariant
<1>1. section \in Sections /\ windows = <<>> /\ start = 0
  BY DEF ChunkInit
<1>2. section.tokens \in Nat
  BY <1>1, SectionTyped
<1>3. QED
  BY <1>1, <1>2 DEF ChunkInit, ChunkInvariant, LoopOK, WindowsOK, DoneOK

LEMMA ChunksCovered ==
  ASSUME ChunkInvariant
  PROVE  ChunksCover
<1>1. DOMAIN windows = 1 .. Len(windows)
  BY DEF ChunkInvariant, LoopOK
<1>2. QED
  BY <1>1 DEF ChunkInvariant, WindowsOK, DoneOK, ChunksCover

\* A service process has no section to chunk.
ChunkingOK == (chunking = "idle" /\ windows = <<>>) \/ ChunkInvariant

\* The chunks of every section overlap as asked for, advance, keep to the
\* target and hold every token of it (ChunksCover), whatever the boundaries.
THEOREM SectionCovered == KnowledgeSpec => []ChunksCover
<1>1. KnowledgeInit => ChunkingOK
  BY ChunkStart DEF KnowledgeInit, NoSection, ChunkingOK
<1>2. ChunkingOK /\ [Serve \/ Chunk]_knowledgeVars => ChunkingOK'
  <2> SUFFICES ASSUME ChunkingOK, [Serve \/ Chunk]_knowledgeVars
               PROVE  ChunkingOK'
    OBVIOUS
  <2>1. [ChunkStep]_chunkVars
    BY DEF Serve, InService, Chunk, knowledgeVars
  <2>2. CASE chunking = "idle" /\ windows = <<>>
    BY <2>1, <2>2 DEF ChunkStep, NextWindow, Refuse, chunkVars, ChunkingOK
  <2>3. CASE ChunkInvariant
    BY <2>1, <2>3, ChunkStepKeeps DEF ChunkingOK
  <2>4. QED
    BY <2>2, <2>3 DEF ChunkingOK
<1>3. ChunkingOK => ChunksCover
  <2>1. ASSUME chunking = "idle", windows = <<>>
        PROVE  ChunksCover
    BY <2>1 DEF ChunksCover
  <2>2. QED
    BY <2>1, ChunksCovered DEF ChunkingOK
<1>4. QED
  BY <1>1, <1>2, <1>3, PTL DEF KnowledgeSpec

=============================================================================
