------------------------ MODULE KnowledgeIndexProofs ------------------------
(***************************************************************************)
(* Machine-checked proofs about KnowledgeIndex, for any number of workers, *)
(* events and chunks, and attempts that fail at any steps.                 *)
(***************************************************************************)
EXTENDS KnowledgeIndex, TLAPS

\* The invariants have one part per step of the argument.
StepsTyped ==
  \A w \in Workers :
    /\ step[w] # "idle" => doing[w] \in Events
    /\ step[w] \in {"claim", "bulk", "publish", "takeback"}
         => doing[w] \in Replaces
    /\ step[w] = "bury" => doing[w] \in Deletes

\* The marker is as new as anything that took effect.
MarkerLeads == \A e \in took : Version[e] <= MarkerVersion

TypedIndex == IndexTypeOK /\ StepsTyped
Ordered == TypedIndex /\ MarkerLeads

LEMMA VersionFacts ==
  /\ \A e \in Events : Version[e] \in Nat /\ Version[e] > 0
  /\ IndexTypeOK => MarkerVersion \in Nat
  /\ \A e \in Replaces : ChunksOf[e] \subseteq Chunks
  /\ None \notin Events
<1>1. /\ \A e \in Events : Version[e] \in Nat /\ Version[e] > 0
      /\ \A e \in Replaces : ChunksOf[e] \subseteq Chunks
      /\ None \notin Events
  BY IndexAssumption
<1>2. ASSUME IndexTypeOK PROVE MarkerVersion \in Nat
  <2>1. CASE marker = None
    BY <2>1 DEF MarkerVersion
  <2>2. CASE marker # None
    BY <1>1, <1>2, <2>2 DEF MarkerVersion, IndexTypeOK, Markers
  <2>3. QED
    BY <2>1, <2>2
<1>3. QED
  BY <1>1, <1>2

-----------------------------------------------------------------------------
(* Types.                                                                  *)

\* What a step of one attempt does to where the attempts are.
LEMMA GotoTyped ==
  ASSUME step \in [Workers -> Steps], NEW w \in Workers, NEW s \in Steps,
         Goto(w, s)
  PROVE  /\ step' \in [Workers -> Steps] /\ step'[w] = s
         /\ \A u \in Workers \ {w} : step'[u] = step[u]
  BY DEF Goto

LEMMA SettleTyped ==
  ASSUME TypedIndex, NEW w \in Workers, step[w] # "idle", Settle(w)
  PROVE  /\ step' \in [Workers -> Steps] /\ step'[w] = "idle"
         /\ \A u \in Workers \ {w} : step'[u] = step[u] /\ doing'[u] = doing[u]
         /\ doing' \in [Workers -> Events \cup {None}] /\ doing'[w] = None
         /\ settled' \in SUBSET Events
  BY DEF TypedIndex, IndexTypeOK, StepsTyped, Settle, Goto, Steps

LEMMA MarkTyped ==
  ASSUME TypedIndex, NEW w \in Workers, doing[w] \in Events,
         NEW s \in {"INDEXING", "PUBLISHED", "DELETED"}, Mark(w, s)
  PROVE  /\ marker' \in Markers \cup {None} /\ marker' # None
         /\ marker'.event = doing[w] /\ marker'.status = s
         /\ refreshed' = refreshed \ {w}
<1>1. marker' \in Markers /\ marker' = [event |-> doing[w], status |-> s]
  BY DEF Mark, Markers
<1>2. QED
  BY <1>1, MarkerNoneAssumption DEF Mark

LEMMA TypeRead ==
  ASSUME TypedIndex, NEW w \in Workers, Read(w)
  PROVE  TypedIndex'
<1>1. step[w] # "idle" /\ doing[w] \in Events
  BY DEF Read, TypedIndex, StepsTyped
<1>2. CASE Skips(doing[w])
  BY <1>1, <1>2, SettleTyped
     DEF Read, TypedIndex, IndexTypeOK, StepsTyped, index, history
<1>3. CASE ~Skips(doing[w])
  <2>1. CASE doing[w] \in Replaces
    BY <1>1, <1>3, <2>1 DEF Read, TypedIndex, IndexTypeOK, StepsTyped, Goto,
                            Steps, index, history
  <2>2. CASE doing[w] \notin Replaces
    BY <1>1, <1>3, <2>2 DEF Read, TypedIndex, IndexTypeOK, StepsTyped, Goto,
                            Steps, index, history, Events
  <2>3. QED
    BY <2>1, <2>2
<1>4. QED
  BY <1>2, <1>3

LEMMA TypeMarked ==
  ASSUME TypedIndex, NEW w \in Workers, Claim(w) \/ Publish(w) \/ Bury(w)
  PROVE  TypedIndex'
<1>1. /\ step[w] \in {"claim", "publish", "bury"} /\ doing[w] \in Events
      /\ step[w] # "bury" => doing[w] \in Replaces
  BY DEF Claim, Publish, Bury, TypedIndex, StepsTyped
<1>2. CASE Claim(w)
  <2>1. /\ marker' \in Markers \cup {None} /\ refreshed' = refreshed \ {w}
        /\ doing[w] \in Replaces /\ ChunksOf[doing[w]] \subseteq Chunks
    BY <1>1, <1>2, MarkTyped, VersionFacts DEF Claim
  <2>2. QED
    BY <1>2, <2>1
       DEF Claim, Goto, TypedIndex, IndexTypeOK, StepsTyped, Steps, history
<1>3. CASE Publish(w)
  <2>1. marker' \in Markers \cup {None} /\ refreshed' = refreshed \ {w}
    BY <1>1, <1>3, MarkTyped DEF Publish
  <2>2. QED
    BY <1>1, <1>3, <2>1
       DEF Publish, Goto, TypedIndex, IndexTypeOK, StepsTyped, Steps
<1>4. CASE Bury(w)
  <2>1. marker' \in Markers \cup {None} /\ refreshed' = refreshed \ {w}
    BY <1>1, <1>4, MarkTyped DEF Bury
  <2>2. QED
    BY <1>1, <1>4, <2>1
       DEF Bury, Goto, TypedIndex, IndexTypeOK, StepsTyped, Steps
<1>5. QED
  BY <1>2, <1>3, <1>4

LEMMA TypeChunks ==
  ASSUME TypedIndex, NEW w \in Workers, NEW c \in Chunks,
         WriteChunk(w, c) \/ Purge(w, c)
  PROVE  TypedIndex'
<1>1. CASE WriteChunk(w, c)
  <2>1. hits' \in [Workers -> SUBSET Chunks]
    BY <1>1 DEF WriteChunk, TypedIndex, IndexTypeOK
  <2>2. QED
    BY <1>1, <2>1
       DEF WriteChunk, TypedIndex, IndexTypeOK, StepsTyped, history
<1>2. CASE Purge(w, c)
  BY <1>2 DEF Purge, TypedIndex, IndexTypeOK, StepsTyped, history
<1>3. QED
  BY <1>1, <1>2

LEMMA TypeSettles ==
  ASSUME TypedIndex, NEW w \in Workers, Refuse(w) \/ PurgeDone(w)
  PROVE  TypedIndex'
<1>1. step[w] # "idle" /\ Settle(w)
  BY DEF Refuse, PurgeDone
<1>2. CASE Refuse(w)
  BY <1>1, <1>2, SettleTyped
     DEF Refuse, TypedIndex, IndexTypeOK, StepsTyped, index
<1>3. CASE PurgeDone(w)
  BY <1>1, <1>3, SettleTyped
     DEF PurgeDone, AllVisible, TypedIndex, IndexTypeOK, StepsTyped
<1>4. QED
  BY <1>2, <1>3

LEMMA TypeMoves ==
  ASSUME TypedIndex, NEW w \in Workers,
         BulkDone(w) \/ Lose(w) \/ Search(w) \/ \E e \in Events : Take(w, e)
  PROVE  TypedIndex'
<1>1. CASE BulkDone(w)
  BY <1>1 DEF BulkDone, Goto, TypedIndex, IndexTypeOK, StepsTyped, Steps,
              index, history
<1>2. CASE Lose(w)
  BY <1>2 DEF Lose, Goto, TypedIndex, IndexTypeOK, StepsTyped, Steps,
              index, history
<1>3. CASE Search(w)
  <2>1. hits' \in [Workers -> SUBSET Chunks]
    BY <1>3 DEF Search, TypedIndex, IndexTypeOK
  <2>2. QED
    BY <1>3, <2>1 DEF Search, Goto, TypedIndex, IndexTypeOK, StepsTyped,
                      Steps, index, history
<1>4. CASE \E e \in Events : Take(w, e)
  BY <1>4 DEF Take, Goto, TypedIndex, IndexTypeOK, StepsTyped, Steps,
              index, history
<1>5. QED
  BY <1>1, <1>2, <1>3, <1>4

LEMMA TypeFail ==
  ASSUME TypedIndex, NEW w \in Workers, Fail(w)
  PROVE  TypedIndex'
  BY DEF Fail, Goto, TypedIndex, IndexTypeOK, StepsTyped, Steps, index

LEMMA TypeIndexNext == TypedIndex /\ [IndexNext]_indexVars => TypedIndex'
<1> SUFFICES ASSUME TypedIndex, [IndexNext]_indexVars PROVE TypedIndex'
  OBVIOUS
<1>1. CASE Refresh
  BY <1>1 DEF Refresh, AllVisible, TypedIndex, IndexTypeOK, StepsTyped,
              attempts, history
<1>2. ASSUME NEW w \in Workers, Attempt(w) PROVE TypedIndex'
  BY <1>2, TypeRead, TypeMarked, TypeChunks, TypeSettles, TypeMoves, TypeFail
     DEF Attempt
<1>3. CASE UNCHANGED indexVars
  BY <1>3 DEF indexVars, index, attempts, history, TypedIndex, IndexTypeOK,
              StepsTyped
<1>4. QED
  BY <1>1, <1>2, <1>3 DEF IndexNext

(* Every variable keeps its type.                                          *)
THEOREM IndexTypeCorrect == IndexSpec => []IndexTypeOK
<1>1. IndexInit => TypedIndex
  BY DEF IndexInit, TypedIndex, IndexTypeOK, StepsTyped, Steps
<1>2. QED
  BY <1>1, TypeIndexNext, PTL DEF IndexSpec, TypedIndex

-----------------------------------------------------------------------------
(* The marker.  Its version never falls, and no event takes effect that is *)
(* older than one that did.                                                *)

\* What each step does to the marker and to the events that took effect.
LEMMA MarkerMoves ==
  ASSUME TypedIndex, [IndexNext]_indexVars
  PROVE  \/ UNCHANGED <<marker, took>>
         \/ \E w \in Workers :
              /\ Claim(w) \/ Publish(w) \/ Bury(w)
              /\ doing[w] \in Events /\ ~Superseded(doing[w])
              /\ marker' # None /\ marker'.event = doing[w]
              /\ marker'.status = IF Claim(w) THEN "INDEXING"
                                  ELSE IF Publish(w) THEN "PUBLISHED"
                                  ELSE "DELETED"
              /\ took' = IF Claim(w) THEN took ELSE took \cup {doing[w]}
<1>1. ASSUME NEW w \in Workers, Claim(w) \/ Publish(w) \/ Bury(w)
      PROVE  /\ doing[w] \in Events /\ ~Superseded(doing[w])
             /\ marker' # None /\ marker'.event = doing[w]
             /\ marker'.status = IF Claim(w) THEN "INDEXING"
                                 ELSE IF Publish(w) THEN "PUBLISHED"
                                 ELSE "DELETED"
             /\ took' = IF Claim(w) THEN took ELSE took \cup {doing[w]}
  <2>1. doing[w] \in Events /\ ~Superseded(doing[w])
    BY <1>1 DEF Claim, Publish, Bury, Refused, TypedIndex, StepsTyped
  <2>2. CASE Claim(w)
    BY <2>1, <2>2, MarkTyped DEF Claim, history
  <2>3. CASE Publish(w)
    <3>1. ~Claim(w)
      BY <2>3 DEF Claim, Publish
    <3>2. QED
      BY <2>1, <2>3, <3>1, MarkTyped DEF Publish
  <2>4. CASE Bury(w)
    <3>1. ~Claim(w) /\ ~Publish(w)
      BY <2>4 DEF Claim, Publish, Bury
    <3>2. QED
      BY <2>1, <2>4, <3>1, MarkTyped DEF Bury
  <2>5. QED
    BY <1>1, <2>2, <2>3, <2>4
<1>2. ASSUME NEW w \in Workers, Attempt(w),
             ~(Claim(w) \/ Publish(w) \/ Bury(w))
      PROVE  UNCHANGED <<marker, took>>
  BY <1>2 DEF Attempt, Take, Read, Refuse, WriteChunk, Purge, BulkDone, Lose,
              Search, PurgeDone, Fail, history
<1>3. CASE Refresh
  BY <1>3 DEF Refresh, history
<1>4. CASE UNCHANGED indexVars
  BY <1>4 DEF indexVars, history
<1>5. QED
  BY <1>1, <1>2, <1>3, <1>4 DEF IndexNext

LEMMA MarkerRises ==
  ASSUME TypedIndex, [IndexNext]_indexVars
  PROVE  /\ MarkerVersion' >= MarkerVersion
         /\ took \subseteq took'
         /\ \A e \in took' \ took :
              /\ e \in Events /\ Version[e] = MarkerVersion'
              /\ ~Superseded(e)
<1>1. CASE UNCHANGED <<marker, took>>
  BY <1>1, VersionFacts DEF MarkerVersion, TypedIndex
<1>2. CASE \E w \in Workers :
             /\ doing[w] \in Events /\ ~Superseded(doing[w])
             /\ marker' # None /\ marker'.event = doing[w]
             /\ took' = took \/ took' = took \cup {doing[w]}
  <2>1. PICK w \in Workers :
             /\ doing[w] \in Events /\ ~Superseded(doing[w])
             /\ marker' # None /\ marker'.event = doing[w]
             /\ took' = took \/ took' = took \cup {doing[w]}
    BY <1>2
  <2>2. MarkerVersion' = Version[doing[w]]
    BY <2>1 DEF MarkerVersion
  <2>3. QED
    BY <2>1, <2>2, VersionFacts DEF Superseded, TypedIndex
<1>3. QED
  BY <1>1, <1>2, MarkerMoves

LEMMA OrderedNext == Ordered /\ [IndexNext]_indexVars => Ordered'
<1> SUFFICES ASSUME Ordered, [IndexNext]_indexVars PROVE Ordered'
  OBVIOUS
<1>1. TypedIndex'
  BY TypeIndexNext DEF Ordered
<1>2. /\ MarkerVersion \in Nat /\ MarkerVersion' \in Nat
      /\ took' \subseteq Events
  <2>1. marker' = None \/ marker'.event \in Events
    BY <1>1 DEF TypedIndex, IndexTypeOK, Markers
  <2>2. MarkerVersion' \in Nat
    BY <2>1, VersionFacts DEF MarkerVersion
  <2>3. QED
    BY <1>1, <2>2, VersionFacts DEF Ordered, TypedIndex, IndexTypeOK
<1>3. \A e \in took' : Version[e] <= MarkerVersion'
  BY <1>2, MarkerRises, VersionFacts DEF Ordered, MarkerLeads
<1>4. QED
  BY <1>1, <1>3 DEF Ordered, MarkerLeads

THEOREM OrderedAlways == IndexSpec => []Ordered
<1>1. IndexInit => Ordered
  BY DEF IndexInit, Ordered, TypedIndex, IndexTypeOK, StepsTyped, Steps,
         MarkerLeads
<1>2. QED
  BY <1>1, OrderedNext, PTL DEF IndexSpec

(* Whatever the order in which events come and attempts interleave, an     *)
(* event takes effect only if it is newer than all that took effect.       *)
THEOREM LateEventsIgnoredHolds == IndexSpec => LateEventsIgnored
<1>1. Ordered /\ [IndexNext]_indexVars =>
        [\A e \in took' \ took : \A f \in took : Version[f] < Version[e]]_indexVars
  <2> SUFFICES ASSUME Ordered, [IndexNext]_indexVars,
                      NEW e \in took' \ took, NEW f \in took
               PROVE  Version[f] < Version[e]
    OBVIOUS
  <2>1. /\ e \in Events /\ f \in Events /\ e # f
        /\ Version[f] <= MarkerVersion /\ ~Superseded(e)
    BY MarkerRises DEF Ordered, MarkerLeads, TypedIndex, IndexTypeOK
  <2>2. Version[e] # Version[f]
    BY <2>1, VersionsDiffer
  <2>3. QED
    BY <2>1, <2>2, VersionFacts DEF Superseded, Ordered, TypedIndex
<1>2. QED
  BY <1>1, OrderedAlways, PTL DEF IndexSpec, LateEventsIgnored

-----------------------------------------------------------------------------
(* What is served.                                                         *)

\* No search has to find version e any more: something newer took effect, or
\* e never took effect and cannot any more.
Doomed(e) ==
  \/ \E f \in took : Version[e] < Version[f]
  \/ e \notin took /\ Superseded(e)

\* Without overlap an event that took effect is not attempted again; only
\* doomed chunks are deleted; what a worker is about to publish is there.
Exclusive == \A u, w \in Workers :
  doing[u] = doing[w] /\ doing[u] # None => u = w
Once ==
  /\ \A w \in Workers : step[w] \in {"claim", "bulk", "publish", "takeback"}
                           => doing[w] \notin took
  /\ marker # None /\ marker.status = "INDEXING" => marker.event \notin took
Cleaning == \A w \in Workers :
  /\ step[w] = "clean" => doing[w] \in took
  /\ step[w] = "takeback" => Superseded(doing[w])
HitsDoomed == \A w \in Workers : \A c \in hits[w] : \A e \in Replaces :
  c \in ChunksOf[e] => Doomed(e)
Written == \A w \in Workers :
  /\ step[w] = "bulk" /\ ~Superseded(doing[w]) =>
       \A c \in ChunksOf[doing[w]] \ todo[w] :
         c \in stored /\ (w \in refreshed => c \in visible)
  /\ step[w] = "publish" /\ ~Superseded(doing[w]) =>
       ChunksOf[doing[w]] \subseteq visible \cap stored

Attended == Ordered /\ Exclusive /\ Once /\ Cleaning
Serving == Attended /\ HitsDoomed /\ Written /\ NewestServed

LEMMA SupersededStays ==
  ASSUME Ordered, [IndexNext]_indexVars, NEW e \in Events, Superseded(e)
  PROVE  Superseded(e)'
<1>1. MarkerVersion' >= MarkerVersion
  BY MarkerRises DEF Ordered
<1>2. MarkerVersion \in Nat /\ Version[e] \in Nat /\ MarkerVersion' \in Nat
  <2>1. marker' = None \/ marker'.event \in Events
    BY TypeIndexNext DEF Ordered, TypedIndex, IndexTypeOK, Markers
  <2>2. QED
    BY <2>1, VersionFacts DEF MarkerVersion, Ordered, TypedIndex
<1>3. QED
  BY <1>1, <1>2 DEF Superseded

LEMMA DoomedStays ==
  ASSUME Ordered, [IndexNext]_indexVars, NEW e \in Events, Doomed(e)
  PROVE  Doomed(e)'
<1>1. /\ took \subseteq took'
      /\ \A f \in took' \ took : ~Superseded(f)
  BY MarkerRises DEF Ordered
<1>2. CASE \E f \in took : Version[e] < Version[f]
  BY <1>1, <1>2 DEF Doomed
<1>3. CASE e \notin took /\ Superseded(e)
  BY <1>1, <1>3, SupersededStays DEF Doomed
<1>4. QED
  BY <1>2, <1>3 DEF Doomed

\* A doomed event is superseded.
LEMMA DoomedSuperseded ==
  ASSUME Ordered, NEW e \in Events, Doomed(e)
  PROVE  Superseded(e)
<1>1. CASE \E f \in took : Version[e] < Version[f]
  <2>1. PICK f \in took : Version[e] < Version[f]
    BY <1>1
  <2>2. /\ f \in Events /\ Version[f] <= MarkerVersion
        /\ MarkerVersion \in Nat /\ Version[e] \in Nat /\ Version[f] \in Nat
    BY VersionFacts DEF Ordered, MarkerLeads, TypedIndex, IndexTypeOK
  <2>3. QED
    BY <2>1, <2>2 DEF Superseded
<1>2. QED
  BY <1>1 DEF Doomed

\* The steps of an attempt that leave marker and effects alone.
QuietStep(w) ==
  \/ \E e \in Events : Take(w, e)
  \/ Read(w) \/ Refuse(w) \/ BulkDone(w) \/ Lose(w) \/ Search(w)
  \/ \E c \in Chunks : WriteChunk(w, c) \/ Purge(w, c)
  \/ PurgeDone(w) \/ Fail(w)

\* An attempt of w moves no other worker.
LEMMA OthersStay ==
  ASSUME TypedIndex, NEW w \in Workers, Attempt(w)
  PROVE  \A u \in Workers \ {w} :
           /\ step'[u] = step[u] /\ doing'[u] = doing[u]
           /\ todo'[u] = todo[u] /\ hits'[u] \subseteq hits[u]
<1>1. CASE \E e \in Events : Take(w, e)
  BY <1>1 DEF Take, Goto, TypedIndex, IndexTypeOK
<1>2. CASE Read(w)
  BY <1>2 DEF Read, Goto, Settle, TypedIndex, IndexTypeOK
<1>3. CASE Claim(w)
  BY <1>3 DEF Claim, Goto, TypedIndex, IndexTypeOK
<1>4. CASE Refuse(w)
  BY <1>4 DEF Refuse, Goto, Settle, TypedIndex, IndexTypeOK
<1>5. CASE \E c \in Chunks : WriteChunk(w, c) \/ Purge(w, c)
  BY <1>5 DEF WriteChunk, Purge, TypedIndex, IndexTypeOK
<1>6. CASE BulkDone(w) \/ Lose(w) \/ Search(w)
  BY <1>6 DEF BulkDone, Lose, Search, Goto, TypedIndex, IndexTypeOK
<1>7. CASE Publish(w) \/ Bury(w)
  BY <1>7 DEF Publish, Bury, Goto, TypedIndex, IndexTypeOK
<1>8. CASE PurgeDone(w)
  BY <1>8 DEF PurgeDone, Goto, Settle, TypedIndex, IndexTypeOK
<1>9. CASE Fail(w)
  BY <1>9 DEF Fail, Goto, TypedIndex, IndexTypeOK
<1>10. QED
  BY <1>1, <1>2, <1>3, <1>4, <1>5, <1>6, <1>7, <1>8, <1>9 DEF Attempt

LEMMA ExclusiveNext ==
  ASSUME ~Overlap, TypedIndex, Exclusive, NEW w \in Workers, Attempt(w)
  PROVE  Exclusive'
<1>1. \/ doing'[w] \in {doing[w], None}
      \/ \A u \in Workers : doing[u] # doing'[w]
  BY DEF Attempt, Take, Read, Claim, Refuse, WriteChunk, Purge, BulkDone,
         Publish, Lose, Bury, Search, PurgeDone, Fail, Settle, TypedIndex,
         IndexTypeOK
<1>2. QED
  BY <1>1, OthersStay DEF Exclusive

\* Where the worker that moves gets to, apart from its marker writes.
LEMMA QuietMoves ==
  ASSUME TypedIndex, NEW w \in Workers, QuietStep(w)
  PROVE  /\ step'[w] \in {"bulk", "publish", "takeback"} =>
              /\ step[w] \in {"bulk", "publish"} /\ doing'[w] = doing[w]
              /\ step'[w] = "takeback" => Superseded(doing[w])
         /\ step'[w] = "claim" => /\ doing'[w] = doing[w]
                                  /\ ~Skips(doing[w])
                                  /\ doing[w] \in Replaces
         /\ step'[w] # "clean"
         /\ UNCHANGED <<marker, took>>
<1>1. CASE \E e \in Events : Take(w, e)
  BY <1>1 DEF Take, Goto, TypedIndex, IndexTypeOK, history
<1>2. CASE Read(w)
  BY <1>2 DEF Read, Goto, Settle, TypedIndex, IndexTypeOK
<1>3. CASE Refuse(w) \/ PurgeDone(w)
  BY <1>3 DEF Refuse, PurgeDone, Settle, Goto, TypedIndex, IndexTypeOK
<1>4. CASE BulkDone(w) \/ Lose(w) \/ Search(w)
  BY <1>4 DEF BulkDone, Lose, Search, Refused, Goto, TypedIndex, IndexTypeOK,
              history
<1>5. CASE \E c \in Chunks : WriteChunk(w, c) \/ Purge(w, c)
  BY <1>5 DEF WriteChunk, Purge, TypedIndex, IndexTypeOK, history
<1>6. CASE Fail(w)
  BY <1>6 DEF Fail, Goto, TypedIndex, IndexTypeOK
<1>7. QED
  BY <1>1, <1>2, <1>3, <1>4, <1>5, <1>6 DEF QuietStep

\* An event that took effect is skipped, whatever came after it.
LEMMA TookSkips ==
  ASSUME Ordered, Once, NEW e \in took, e \in Replaces
  PROVE  Skips(e)
<1>1. /\ e \in Events /\ Version[e] <= MarkerVersion
      /\ Version[e] \in Nat /\ Version[e] > 0 /\ MarkerVersion \in Nat
  BY VersionFacts DEF Ordered, MarkerLeads, TypedIndex, IndexTypeOK
<1>2. CASE Version[e] < MarkerVersion
  BY <1>1, <1>2 DEF Skips, Superseded
<1>3. CASE Version[e] = MarkerVersion
  <2>1. marker # None /\ MarkerVersion = Version[marker.event]
    BY <1>1, <1>3 DEF MarkerVersion
  <2>2. /\ marker \in Markers /\ marker.event \in Events
        /\ marker = [event |-> marker.event, status |-> marker.status]
    BY <2>1 DEF Ordered, TypedIndex, IndexTypeOK, Markers
  <2>3. marker.event = e
    BY <1>1, <1>3, <2>1, <2>2, VersionsDiffer
  <2>4. marker.status \in {"PUBLISHED", "DELETED"}
    BY <2>1, <2>2, <2>3 DEF Once, Markers
  <2>5. QED
    BY <1>3, <2>1, <2>2, <2>3, <2>4 DEF Skips
<1>4. QED
  BY <1>1, <1>2, <1>3

LEMMA OnceNext ==
  ASSUME Attended, NEW w \in Workers, Attempt(w), [IndexNext]_indexVars
  PROVE  Once'
<1>1. \A u \in Workers \ {w} : step'[u] = step[u] /\ doing'[u] = doing[u]
  BY OthersStay DEF Attended, Ordered
<1>2. CASE QuietStep(w)
  <2>1. step'[w] \in {"claim", "bulk", "publish", "takeback"}
          => doing'[w] \notin took
    BY <1>2, QuietMoves, TookSkips DEF Attended, Ordered, Once
  <2>2. UNCHANGED <<marker, took>>
    BY <1>2, QuietMoves DEF Attended, Ordered
  <2>3. QED
    BY <1>1, <2>1, <2>2 DEF Attended, Once
<1>3. CASE Claim(w)
  <2>1. /\ doing[w] \notin took /\ took' = took /\ doing' = doing
        /\ marker' = [event |-> doing[w], status |-> "INDEXING"]
    BY <1>3 DEF Claim, Mark, history, Attended, Once
  <2>2. QED
    BY <1>1, <2>1 DEF Attended, Once
<1>4. CASE Publish(w) \/ Bury(w)
  <2>1. /\ took' = took \cup {doing[w]} /\ step'[w] = "clean"
        /\ doing' = doing /\ doing[w] # None
        /\ marker'.status # "INDEXING"
    BY <1>4, VersionFacts
       DEF Publish, Bury, Mark, Goto, Attended, Ordered, TypedIndex,
           StepsTyped, IndexTypeOK
  <2>2. \A u \in Workers \ {w} : doing[u] # doing[w]
    BY <2>1 DEF Attended, Exclusive
  <2>3. QED
    BY <1>1, <2>1, <2>2 DEF Attended, Once
<1>5. QED
  BY <1>2, <1>3, <1>4 DEF Attempt, QuietStep

LEMMA CleaningNext ==
  ASSUME Attended, NEW w \in Workers, Attempt(w), [IndexNext]_indexVars
  PROVE  Cleaning'
<1>1. ASSUME NEW u \in Workers \ {w}
      PROVE  /\ step'[u] = "clean" => doing'[u] \in took'
             /\ step'[u] = "takeback" => MarkerVersion' > Version[doing'[u]]
  <2>1. step'[u] = step[u] /\ doing'[u] = doing[u]
    BY OthersStay DEF Attended, Ordered
  <2>2. took \subseteq took'
    BY MarkerRises DEF Attended, Ordered
  <2>3. step[u] = "takeback" => doing[u] \in Events /\ Superseded(doing[u])
    BY DEF Attended, Ordered, TypedIndex, StepsTyped, Cleaning
  <2>4. step[u] = "takeback" => MarkerVersion' > Version[doing[u]]
    BY <2>3, SupersededStays DEF Attended, Superseded
  <2>5. QED
    BY <2>1, <2>2, <2>4 DEF Attended, Cleaning
<1>2. /\ step'[w] = "clean" => doing'[w] \in took'
      /\ step'[w] = "takeback" => MarkerVersion' > Version[doing'[w]]
  <2>1. CASE QuietStep(w)
    BY <2>1, QuietMoves
       DEF Superseded, MarkerVersion, Attended, Ordered
  <2>2. CASE Claim(w)
    BY <2>2 DEF Claim, Goto, Attended, Ordered, TypedIndex, IndexTypeOK
  <2>3. CASE Publish(w) \/ Bury(w)
    BY <2>3 DEF Publish, Bury, Goto, Attended, Ordered, TypedIndex,
                IndexTypeOK
  <2>4. QED
    BY <2>1, <2>2, <2>3 DEF Attempt, QuietStep
<1>3. QED
  BY <1>1, <1>2 DEF Cleaning, Superseded

LEMMA AttendedNext ==
  ASSUME ~Overlap, Attended, [IndexNext]_indexVars
  PROVE  Attended'
<1>1. Ordered'
  BY OrderedNext DEF Attended
<1>2. CASE Refresh \/ UNCHANGED indexVars
  BY <1>1, <1>2
     DEF Refresh, indexVars, attempts, history, Attended, Exclusive, Once,
         Cleaning, Superseded, MarkerVersion
<1>3. ASSUME NEW w \in Workers, Attempt(w) PROVE Attended'
  BY <1>1, <1>3, ExclusiveNext, OnceNext, CleaningNext DEF Attended, Ordered
<1>4. QED
  BY <1>2, <1>3 DEF IndexNext

\* What delete_by_query finds is doomed.
LEMMA SearchDoomed ==
  ASSUME Attended, NEW w \in Workers, Search(w), NEW c \in hits'[w],
         NEW e \in Replaces, c \in ChunksOf[e]
  PROVE  Doomed(e)
<1> DEFINE d == doing[w]
<1>1. /\ step[w] \in {"clean", "takeback"} /\ d \in Events /\ e \in Events
      /\ InRange(w, ChunkVersion[c]) /\ ChunkVersion[c] = Version[e]
      /\ Version[e] \in Nat /\ Version[d] \in Nat
  BY VersionFacts, IndexAssumption
     DEF Search, Attended, Ordered, TypedIndex, StepsTyped, IndexTypeOK, Events
<1>2. CASE step[w] = "takeback"
  <2>1. e = d
    <3>1. Version[e] = Version[d]
      BY <1>1, <1>2 DEF InRange
    <3>2. QED
      BY <1>1, <3>1, VersionsDiffer
  <2>2. QED
    BY <1>2, <2>1 DEF Doomed, Attended, Once, Cleaning
<1>3. CASE step[w] = "clean"
  <2>1. d \in took
    BY <1>3 DEF Attended, Cleaning
  <2>2. Version[e] < Version[d]
    <3>1. CASE d \in Deletes
      <4>1. Version[e] <= Version[d]
        BY <1>1, <1>3, <3>1 DEF InRange
      <4>2. e # d
        BY <3>1, VersionsDiffer
      <4>3. QED
        BY <1>1, <4>1, <4>2, VersionsDiffer
    <3>2. CASE d \notin Deletes
      BY <1>1, <1>3, <3>2 DEF InRange
    <3>3. QED
      BY <3>1, <3>2
  <2>3. QED
    BY <2>1, <2>2 DEF Doomed
<1>4. QED
  BY <1>1, <1>2, <1>3

LEMMA HitsNext ==
  ASSUME Attended, HitsDoomed, [IndexNext]_indexVars
  PROVE  HitsDoomed'
<1>1. \A e \in Replaces : Doomed(e) => Doomed(e)'
  BY DoomedStays DEF Attended, Events
<1>2. ASSUME NEW w \in Workers, NEW c \in hits'[w]
      PROVE  \A e \in Replaces : c \in ChunksOf[e] => Doomed(e)
  <2>1. CASE c \in hits[w]
    BY <2>1 DEF HitsDoomed
  <2>2. CASE c \notin hits[w]
    <3>1. Search(w)
      <4>1. CASE Refresh \/ UNCHANGED indexVars
        BY <1>2, <2>2, <4>1 DEF Refresh, indexVars, attempts
      <4>2. ASSUME NEW u \in Workers, Attempt(u) PROVE Search(w)
        <5>1. u = w
          BY <1>2, <2>2, <4>2, OthersStay DEF Attended, Ordered
        <5>2. QED
          BY <1>2, <2>2, <4>2, <5>1
             DEF Attempt, Take, Read, Claim, Refuse, WriteChunk, Purge,
                 BulkDone, Publish, Lose, Bury, PurgeDone, Fail, Attended,
                 Ordered, TypedIndex, IndexTypeOK
      <4>3. QED
        BY <4>1, <4>2 DEF IndexNext
    <3>2. QED
      BY <3>1, SearchDoomed
  <2>3. QED
    BY <2>1, <2>2
<1>3. QED
  BY <1>1, <1>2 DEF HitsDoomed

\* Chunks of a version that is not doomed are not deleted; a chunk that is
\* stored and visible stays visible; a refresh shows what is stored.
LEMMA StoredStays ==
  ASSUME Attended, HitsDoomed, [IndexNext]_indexVars, NEW e \in Replaces,
         ~Doomed(e), NEW c \in ChunksOf[e], c \in stored
  PROVE  c \in stored'
<1>1. CASE Refresh \/ UNCHANGED indexVars
  BY <1>1 DEF Refresh, indexVars, index
<1>2. ASSUME NEW w \in Workers, Attempt(w) PROVE c \in stored'
  <2>1. CASE \E d \in Chunks : Purge(w, d)
    <3>1. PICK d \in Chunks : Purge(w, d)
      BY <2>1
    <3>2. c # d
      BY <3>1 DEF Purge, HitsDoomed
    <3>3. QED
      BY <3>1, <3>2 DEF Purge
  <2>2. CASE ~(\E d \in Chunks : Purge(w, d))
    BY <1>2, <2>2 DEF Attempt, Take, Read, Claim, Refuse, WriteChunk,
       BulkDone, Publish, Lose, Bury, Search, PurgeDone, Fail, index
  <2>3. QED
    BY <2>1, <2>2
<1>3. QED
  BY <1>1, <1>2 DEF IndexNext

LEMMA VisibleStays ==
  ASSUME [IndexNext]_indexVars
  PROVE  /\ visible \cap stored \subseteq visible'
         /\ \A u \in refreshed' : u \in refreshed \/ visible' = stored
<1>1. CASE Refresh \/ UNCHANGED indexVars
  BY <1>1 DEF Refresh, AllVisible, indexVars, index
<1>2. ASSUME NEW w \in Workers, Attempt(w)
      PROVE  \/ visible' = visible /\ refreshed' \subseteq refreshed
             \/ visible' = stored
  BY <1>2 DEF Attempt, Take, Read, Claim, Refuse, WriteChunk, Purge, BulkDone,
     Publish, Lose, Bury, Search, PurgeDone, Fail, Mark, AllVisible, index
<1>3. QED
  BY <1>1, <1>2 DEF IndexNext

\* Where a worker in a bulk, or about to publish, comes from.
LEMMA BulkMoves ==
  ASSUME TypedIndex, [IndexNext]_indexVars, NEW u \in Workers
  PROVE  /\ step'[u] = "bulk" =>
              \/ step[u] = "claim" /\ todo'[u] = ChunksOf[doing'[u]]
              \/ /\ step[u] = "bulk" /\ doing'[u] = doing[u]
                 /\ \/ todo'[u] = todo[u]
                    \/ \E c \in Chunks : /\ todo'[u] = todo[u] \ {c}
                                         /\ c \in stored'
                                         /\ u \notin refreshed'
         /\ step'[u] = "publish" =>
              /\ doing'[u] = doing[u]
              /\ \/ step[u] = "publish"
                 \/ /\ step[u] = "bulk" /\ todo[u] = {} /\ u \in refreshed
                    /\ UNCHANGED <<stored, visible>>
<1>1. CASE Refresh \/ UNCHANGED indexVars
  BY <1>1 DEF Refresh, indexVars, attempts
<1>2. ASSUME NEW w \in Workers, Attempt(w), w # u
      PROVE  step'[u] = step[u] /\ doing'[u] = doing[u] /\ todo'[u] = todo[u]
  BY <1>2, OthersStay
<1>3. CASE \E c \in Chunks : WriteChunk(u, c)
  BY <1>3 DEF WriteChunk, TypedIndex, IndexTypeOK
<1>4. CASE Claim(u)
  BY <1>4 DEF Claim, Goto, TypedIndex, IndexTypeOK
<1>5. CASE BulkDone(u)
  BY <1>5 DEF BulkDone, Goto, TypedIndex, IndexTypeOK, index
<1>6. CASE Read(u)
  BY <1>6 DEF Read, Settle, Goto, TypedIndex, IndexTypeOK
<1>7. CASE Refuse(u) \/ PurgeDone(u)
  BY <1>7 DEF Refuse, PurgeDone, Settle, Goto, TypedIndex, IndexTypeOK
<1>8. CASE \/ \E e \in Events : Take(u, e)
           \/ Publish(u) \/ Lose(u) \/ Bury(u) \/ Search(u) \/ Fail(u)
           \/ \E c \in Chunks : Purge(u, c)
  BY <1>8 DEF Take, Publish, Lose, Bury, Search, Fail, Purge, Goto, TypedIndex,
              IndexTypeOK
<1>9. QED
  BY <1>1, <1>2, <1>3, <1>4, <1>5, <1>6, <1>7, <1>8 DEF IndexNext, Attempt

LEMMA WrittenNext ==
  ASSUME Attended, HitsDoomed, Written, [IndexNext]_indexVars
  PROVE  Written'
<1> SUFFICES ASSUME NEW u \in Workers, step'[u] \in {"bulk", "publish"},
                    ~(MarkerVersion' > Version[doing'[u]])
             PROVE  /\ step'[u] = "bulk" =>
                         \A c \in ChunksOf[doing'[u]] \ todo'[u] :
                           c \in stored' /\ (u \in refreshed' => c \in visible')
                    /\ step'[u] = "publish" =>
                         ChunksOf[doing'[u]] \subseteq visible' \cap stored'
  BY DEF Written, Superseded
<1> DEFINE e == doing[u]
<1>1. CASE step[u] = "claim" /\ step'[u] = "bulk"
  BY <1>1, BulkMoves DEF Attended, Ordered
<1>2. CASE step[u] \in {"bulk", "publish"}
  <2>1. doing'[u] = e /\ e \in Replaces /\ e \in Events
    BY <1>2, BulkMoves DEF Attended, Ordered, TypedIndex, StepsTyped, Events
  <2>2. ~Superseded(e) /\ ~Doomed(e)
    BY <2>1, SupersededStays, DoomedSuperseded DEF Attended, Superseded
  <2>3. \A c \in ChunksOf[e] : c \in stored => c \in stored'
    BY <2>1, <2>2, StoredStays
  <2>4. CASE step'[u] = "bulk"
    <3>1. /\ step[u] = "bulk"
          /\ \A c \in ChunksOf[e] \ todo'[u] :
               \/ c \notin todo[u]
               \/ c \in stored' /\ u \notin refreshed'
      BY <1>2, <2>4, BulkMoves DEF Attended, Ordered
    <3>2. \A c \in ChunksOf[e] \ todo[u] :
            c \in stored /\ (u \in refreshed => c \in visible)
      BY <2>2, <3>1 DEF Written
    <3>3. QED
      BY <2>1, <2>3, <2>4, <3>1, <3>2, VisibleStays
  <2>5. CASE step'[u] = "publish"
    <3>1. ChunksOf[e] \subseteq visible \cap stored
      BY <2>2, <2>5, BulkMoves DEF Written, Attended, Ordered
    <3>2. QED
      BY <2>1, <2>3, <2>5, <3>1, VisibleStays
  <2>6. QED
    BY <2>4, <2>5
<1>3. QED
  BY <1>1, <1>2, BulkMoves DEF Attended, Ordered

LEMMA ServedNext ==
  ASSUME Serving, [IndexNext]_indexVars
  PROVE  NewestServed'
<1> SUFFICES ASSUME NEW e \in Replaces, Newest(e)'
             PROVE  ChunksOf[e] \subseteq visible' \cap stored'
  BY DEF NewestServed, Searchable
<1>1. /\ e \in took' /\ took \subseteq took'
      /\ \A f \in took' : Version[f] <= Version[e]
  BY MarkerRises DEF Newest, Serving, Attended, Ordered
<1>2. CASE e \in took
  <2>1. Newest(e)
    BY <1>1, <1>2 DEF Newest
  <2>2. ~Doomed(e)
    <3>1. \A f \in took : Version[f] \in Nat /\ Version[e] \in Nat
      BY VersionFacts
         DEF Serving, Attended, Ordered, TypedIndex, IndexTypeOK, Events
    <3>2. QED
      BY <1>2, <2>1, <3>1 DEF Newest, Doomed
  <2>3. QED
    BY <2>1, <2>2, StoredStays, VisibleStays DEF Serving, NewestServed, Searchable
<1>3. CASE e \notin took
  <2>1. PICK w \in Workers : /\ Publish(w) \/ Bury(w) \/ Claim(w)
                             /\ took' = IF Claim(w) THEN took
                                        ELSE took \cup {doing[w]}
    BY <1>1, <1>3, MarkerMoves DEF Serving, Attended, Ordered
  <2>2. e = doing[w] /\ ~Claim(w)
    BY <1>1, <1>3, <2>1
  <2>3. Publish(w)
    BY <2>1, <2>2, VersionsDiffer
       DEF Bury, Serving, Attended, Ordered, TypedIndex, StepsTyped
  <2>4. QED
    BY <2>2, <2>3 DEF Publish, Refused, Serving, Written
<1>4. QED
  BY <1>2, <1>3

(* While no event is attempted twice at once, the newest version that was  *)
(* published is completely searchable, whatever attempts race or fail.     *)
THEOREM NewestServedHolds ==
  ASSUME ~Overlap
  PROVE  IndexSpec => []NewestServed
<1>1. IndexInit => Serving
  BY DEF IndexInit, Serving, Attended, Ordered, TypedIndex, IndexTypeOK,
         StepsTyped, Steps, MarkerLeads, Exclusive, Once, Cleaning, HitsDoomed,
         Written, NewestServed, Newest
<1>2. Serving /\ [IndexNext]_indexVars => Serving'
  BY AttendedNext, HitsNext, WrittenNext, ServedNext DEF Serving
<1>3. Serving => NewestServed
  BY DEF Serving
<1>4. QED
  BY <1>1, <1>2, <1>3, PTL DEF IndexSpec

-----------------------------------------------------------------------------
(* What is left behind.  A stored chunk is served, or has an attempt that  *)
(* owns it or is about to delete it, or was left by a failure.             *)

Served(c) == \E e \in Replaces : Newest(e) /\ c \in ChunksOf[e]
LeftBy(c, e) == \/ e \in Replaces /\ c \in ChunksOf[e]
                \/ e \in took /\ ChunkVersion[c] < Version[e]
Left(c) == \E e \in failed : LeftBy(c, e)
Owns(w, c) ==
  step[w] \in {"bulk", "publish", "takeback"} /\ c \in ChunksOf[doing[w]]
Chases(w, c) == \/ step[w] = "clean" /\ InRange(w, ChunkVersion[c])
                \/ step[w] = "purge" /\ c \in hits[w]

Accounted == \A c \in stored :
  Served(c) \/ Left(c) \/ \E w \in Workers : Owns(w, c) \/ Chases(w, c)

\* Chunks are those of a version; what no query finds yet is still being
\* written, or its bulk failed; a chunk found is one the event may leave.
Derived == \A c \in stored : \E e \in Replaces : c \in ChunksOf[e]
Findable == stored \subseteq visible \cup unrefreshed
Pending == \A c \in unrefreshed :
  \/ \E w \in Workers : Owns(w, c) /\ step[w] = "bulk" /\ w \notin refreshed
  \/ \E e \in failed \cap Replaces : c \in ChunksOf[e]
Bulks == \A w \in Workers :
  step[w] = "bulk" => todo[w] \subseteq ChunksOf[doing[w]]
Deleting == \A w \in Workers :
  /\ step[w] = "clean" => doing[w] \in took
  /\ step[w] = "purge" => \A c \in hits[w] : LeftBy(c, doing[w])

Traced ==
  Ordered /\ Derived /\ Findable /\ Pending /\ Bulks /\ Deleting /\ Accounted

\* What stays: events that took effect or failed, and so what they left.
LEMMA LeftStays ==
  ASSUME TypedIndex, [IndexNext]_indexVars
  PROVE  /\ failed \subseteq failed'
         /\ \A c, e : LeftBy(c, e) => LeftBy(c, e)'
         /\ \A c : Left(c) => Left(c)'
<1>1. took \subseteq took'
  BY MarkerRises
<1>2. failed \subseteq failed'
  <2>1. CASE Refresh \/ UNCHANGED indexVars
    BY <2>1 DEF Refresh, indexVars, history
  <2>2. ASSUME NEW w \in Workers, Attempt(w) PROVE failed \subseteq failed'
    BY <2>2 DEF Attempt, Take, Read, Claim, Refuse, WriteChunk, Purge,
       BulkDone, Publish, Lose, Bury, Search, PurgeDone, Fail, history
  <2>3. QED
    BY <2>1, <2>2 DEF IndexNext
<1>3. \A c, e : LeftBy(c, e) => LeftBy(c, e)'
  BY <1>1 DEF LeftBy
<1>4. QED
  BY <1>2, <1>3 DEF Left

\* The chunks of a version are only written by a bulk of that version.
LEMMA WriteOwned ==
  ASSUME TypedIndex, Bulks, NEW w \in Workers, NEW c \in Chunks,
         WriteChunk(w, c)
  PROVE  doing[w] \in Replaces /\ c \in ChunksOf[doing[w]]
  BY DEF WriteChunk, Bulks, TypedIndex, StepsTyped

LEMMA NewChunkWritten ==
  ASSUME [IndexNext]_indexVars, NEW c \in stored', c \notin stored
  PROVE  \E w \in Workers : WriteChunk(w, c)
<1>1. ASSUME NEW w \in Workers, Attempt(w),
             ~(\E d \in Chunks : WriteChunk(w, d))
      PROVE  stored' \subseteq stored
  BY <1>1 DEF Attempt, Take, Read, Claim, Refuse, Purge, BulkDone, Publish,
     Lose, Bury, Search, PurgeDone, Fail, index
<1>2. PICK w \in Workers, d \in Chunks : WriteChunk(w, d)
  BY <1>1 DEF IndexNext, Refresh, indexVars, index
<1>3. c = d
  BY <1>2 DEF WriteChunk
<1>4. QED
  BY <1>2, <1>3

LEMMA DerivedNext ==
  ASSUME TypedIndex, Bulks, Derived, [IndexNext]_indexVars
  PROVE  Derived'
<1> SUFFICES ASSUME NEW c \in stored'
             PROVE  \E e \in Replaces : c \in ChunksOf[e]
  BY DEF Derived
<1>1. CASE c \in stored
  BY <1>1 DEF Derived
<1>2. CASE c \notin stored
  <2>1. PICK w \in Workers : WriteChunk(w, c)
    BY <1>2, NewChunkWritten
  <2>2. c \in Chunks
    BY <2>1 DEF WriteChunk, TypedIndex, IndexTypeOK
  <2>3. QED
    BY <2>1, <2>2, WriteOwned
<1>3. QED
  BY <1>1, <1>2

LEMMA FindableNext ==
  ASSUME Findable, [IndexNext]_indexVars
  PROVE  Findable'
<1>1. CASE Refresh \/ UNCHANGED indexVars
  BY <1>1 DEF Refresh, AllVisible, indexVars, index, Findable
<1>2. ASSUME NEW w \in Workers, Attempt(w) PROVE Findable'
  BY <1>2 DEF Attempt, Take, Read, Claim, Refuse, WriteChunk, Purge, BulkDone,
     Publish, Lose, Bury, Search, PurgeDone, Fail, Mark, AllVisible, index,
     Findable
<1>3. QED
  BY <1>1, <1>2 DEF IndexNext

LEMMA BulksNext ==
  ASSUME TypedIndex, Bulks, [IndexNext]_indexVars
  PROVE  Bulks'
  BY BulkMoves DEF Bulks

\* An attempt that owns a chunk keeps it until it publishes, chases it or
\* fails.
LEMMA OwnerMoves ==
  ASSUME TypedIndex, NEW w \in Workers, NEW c, Owns(w, c),
         [IndexNext]_indexVars
  PROVE  \/ Owns(w, c)'
         \/ Publish(w)
         \/ Search(w) /\ step[w] = "takeback"
         \/ Fail(w)
<1>1. CASE Refresh \/ UNCHANGED indexVars
  BY <1>1 DEF Refresh, indexVars, attempts, Owns
<1>2. ASSUME NEW u \in Workers, Attempt(u), u # w PROVE Owns(w, c)'
  BY <1>2, OthersStay DEF Owns
<1>3. CASE Attempt(w)
  <2>1. CASE \E d \in Chunks : WriteChunk(w, d) \/ Purge(w, d)
    BY <2>1 DEF WriteChunk, Purge, Owns
  <2>2. CASE BulkDone(w) \/ Lose(w)
    BY <2>2 DEF BulkDone, Lose, Goto, TypedIndex, IndexTypeOK, Owns
  <2>3. CASE Search(w)
    BY <2>3 DEF Search, Owns
  <2>4. QED
    BY <1>3, <2>1, <2>2, <2>3
       DEF Attempt, Take, Read, Claim, Refuse, Bury, PurgeDone, Owns
<1>4. QED
  BY <1>1, <1>2, <1>3 DEF IndexNext

LEMMA PendingNext ==
  ASSUME TypedIndex, Bulks, Pending, [IndexNext]_indexVars
  PROVE  Pending'
<1> SUFFICES ASSUME NEW c \in unrefreshed'
             PROVE  \/ \E w \in Workers :
                         Owns(w, c)' /\ step'[w] = "bulk" /\ w \notin refreshed'
                    \/ \E e \in failed' \cap Replaces : c \in ChunksOf[e]
  BY DEF Pending
<1>1. CASE c \notin unrefreshed
  <2>1. PICK w \in Workers : WriteChunk(w, c)
    <3>1. ASSUME NEW w \in Workers, Attempt(w),
                 ~(\E d \in Chunks : WriteChunk(w, d))
          PROVE  unrefreshed' \subseteq unrefreshed
      BY <3>1 DEF Attempt, Take, Read, Claim, Refuse, Purge, BulkDone,
         Publish, Lose, Bury, Search, PurgeDone, Fail, AllVisible, index
    <3>2. ~Refresh /\ ~(UNCHANGED indexVars)
      BY <1>1 DEF Refresh, AllVisible, indexVars, index
    <3>3. PICK w \in Workers, d \in Chunks : WriteChunk(w, d)
      BY <1>1, <3>1, <3>2 DEF IndexNext
    <3>4. c = d
      BY <1>1, <3>3 DEF WriteChunk
    <3>5. QED
      BY <3>3, <3>4
  <2>2. c \in Chunks
    BY <2>1 DEF WriteChunk, TypedIndex, IndexTypeOK
  <2>3. c \in ChunksOf[doing[w]]
    BY <2>1, <2>2, WriteOwned
  <2>4. QED
    BY <2>1, <2>3 DEF WriteChunk, Owns
<1>2. CASE \E e \in failed \cap Replaces : c \in ChunksOf[e]
  BY <1>2, LeftStays
<1>3. CASE \E w \in Workers :
             Owns(w, c) /\ step[w] = "bulk" /\ w \notin refreshed
  <2>1. PICK w \in Workers :
               Owns(w, c) /\ step[w] = "bulk" /\ w \notin refreshed
    BY <1>3
  <2>2. w \notin refreshed'
    <3>1. ASSUME NEW u \in Workers, Attempt(u)
          PROVE  refreshed' \subseteq refreshed \/ unrefreshed' = {}
      BY <3>1 DEF Attempt, Take, Read, Claim, Refuse, WriteChunk, Purge,
         BulkDone, Publish, Lose, Bury, Search, PurgeDone, Fail, Mark,
         AllVisible, index
    <3>2. refreshed' \subseteq refreshed
      BY <3>1 DEF IndexNext, Refresh, AllVisible, indexVars, index
    <3>3. QED
      BY <2>1, <3>2
  <2>3. CASE Fail(w)
    <3>1. doing[w] \in failed' \cap Replaces
      BY <2>1, <2>3 DEF Fail, TypedIndex, StepsTyped
    <3>2. QED
      BY <2>1, <3>1 DEF Owns
  <2>4. CASE ~Fail(w)
    <3>1. Owns(w, c)' /\ ~BulkDone(w)
      BY <2>1, <2>4, OwnerMoves DEF Publish, BulkDone
    <3>2. step'[w] = "bulk"
      <4>1. CASE Refresh \/ UNCHANGED indexVars
        BY <2>1, <4>1 DEF Refresh, indexVars, attempts
      <4>2. ASSUME NEW u \in Workers, Attempt(u), u # w
            PROVE  step'[w] = "bulk"
        BY <2>1, <4>2, OthersStay
      <4>3. CASE Attempt(w)
        BY <2>1, <2>4, <3>1, <4>3
           DEF Attempt, Take, Read, Claim, Refuse, WriteChunk, Purge, Publish,
               Lose, Bury, Search, PurgeDone
      <4>4. QED
        BY <4>1, <4>2, <4>3 DEF IndexNext
    <3>3. QED
      BY <2>2, <3>1, <3>2
  <2>5. QED
    BY <2>3, <2>4
<1>4. QED
  BY <1>1, <1>2, <1>3 DEF Pending

\* A deletion finds only what its event may leave when it fails.
LEMMA SearchLeft ==
  ASSUME TypedIndex, Derived, Deleting, NEW w \in Workers, NEW c \in stored,
         step[w] \in {"clean", "takeback"}, InRange(w, ChunkVersion[c])
  PROVE  LeftBy(c, doing[w])
<1> DEFINE d == doing[w]
<1>1. PICK e \in Replaces : c \in ChunksOf[e]
  BY DEF Derived
<1>2. /\ d \in Events /\ e \in Events /\ ChunkVersion[c] = Version[e]
      /\ Version[e] \in Nat /\ Version[d] \in Nat
  BY <1>1, VersionFacts, IndexAssumption DEF TypedIndex, StepsTyped, Events
<1>3. CASE step[w] = "takeback"
  <2>1. Version[e] = Version[d]
    BY <1>2, <1>3 DEF InRange
  <2>2. e = d
    BY <1>2, <2>1, VersionsDiffer
  <2>3. QED
    BY <1>1, <2>2 DEF LeftBy
<1>4. CASE step[w] = "clean"
  <2>1. d \in took
    BY <1>4 DEF Deleting
  <2>2. Version[e] < Version[d]
    <3>1. CASE d \in Replaces
      BY <1>2, <1>4, <3>1, VersionsDiffer DEF InRange
    <3>2. CASE d \in Deletes
      <4>1. Version[e] <= Version[d] /\ e # d
        BY <1>2, <1>4, <3>2, VersionsDiffer DEF InRange
      <4>2. Version[e] # Version[d]
        BY <1>2, <4>1, VersionsDiffer
      <4>3. QED
        BY <1>2, <4>1, <4>2
    <3>3. QED
      BY <1>2, <3>1, <3>2 DEF Events
  <2>3. QED
    BY <1>2, <2>1, <2>2 DEF LeftBy
<1>5. QED
  BY <1>3, <1>4

\* Where an attempt that deletes comes from.
LEMMA CleanMoves ==
  ASSUME TypedIndex, NEW w \in Workers, [IndexNext]_indexVars
  PROVE  /\ step'[w] = "clean" =>
              /\ doing'[w] = doing[w]
              /\ step[w] = "clean" \/ Publish(w) \/ Bury(w)
         /\ step'[w] = "purge" =>
              /\ doing'[w] = doing[w]
              /\ \/ Search(w)
                 \/ step[w] = "purge" /\ hits'[w] \subseteq hits[w]
<1>1. CASE Refresh \/ UNCHANGED indexVars
  BY <1>1 DEF Refresh, indexVars, attempts
<1>2. ASSUME NEW u \in Workers, Attempt(u), u # w
      PROVE  /\ step'[w] = step[w] /\ doing'[w] = doing[w]
             /\ hits'[w] \subseteq hits[w]
  BY <1>2, OthersStay
<1>3. CASE \E c \in Chunks : WriteChunk(w, c) \/ Purge(w, c)
  BY <1>3 DEF WriteChunk, Purge, TypedIndex, IndexTypeOK
<1>4. CASE Publish(w) \/ Bury(w) \/ Search(w)
  <2>1. CASE Publish(w) \/ Bury(w)
    BY <2>1 DEF Publish, Bury, Goto, TypedIndex, IndexTypeOK
  <2>2. CASE Search(w)
    <3>1. step'[w] = "purge" /\ doing'[w] = doing[w]
      BY <2>2 DEF Search, Goto, TypedIndex, IndexTypeOK
    <3>2. QED
      BY <2>2, <3>1
  <2>3. QED
    BY <1>4, <2>1, <2>2
<1>5. CASE \/ \E e \in Events : Take(w, e)
           \/ Read(w) \/ Claim(w) \/ Refuse(w) \/ BulkDone(w) \/ Lose(w)
           \/ PurgeDone(w) \/ Fail(w)
  BY <1>5 DEF Take, Read, Claim, Refuse, BulkDone, Lose, PurgeDone, Fail,
              Settle, Goto, TypedIndex, IndexTypeOK
<1>6. QED
  BY <1>1, <1>2, <1>3, <1>4, <1>5 DEF IndexNext, Attempt

LEMMA DeletingNext ==
  ASSUME TypedIndex, Derived, Deleting, [IndexNext]_indexVars
  PROVE  Deleting'
<1> SUFFICES ASSUME NEW w \in Workers
             PROVE  /\ step'[w] = "clean" => doing'[w] \in took'
                    /\ step'[w] = "purge" =>
                         \A c \in hits'[w] : LeftBy(c, doing[w])'
  BY DEF Deleting
<1>1. step'[w] = "clean" => doing'[w] \in took'
  <2>1. took \subseteq took'
    BY MarkerRises
  <2>2. Publish(w) \/ Bury(w) => doing[w] \in took'
    BY DEF Publish, Bury
  <2>3. QED
    BY <2>1, <2>2, CleanMoves DEF Deleting
<1>2. ASSUME step'[w] = "purge", NEW c \in hits'[w]
      PROVE  LeftBy(c, doing[w])'
  <2>1. LeftBy(c, doing[w])
    <3>1. CASE Search(w)
      <4>1. /\ c \in stored /\ InRange(w, ChunkVersion[c])
            /\ step[w] \in {"clean", "takeback"}
        BY <1>2, <3>1 DEF Search, TypedIndex, IndexTypeOK
      <4>2. QED
        BY <4>1, SearchLeft
    <3>2. CASE ~Search(w)
      BY <1>2, <3>2, CleanMoves DEF Deleting
    <3>3. QED
      BY <3>1, <3>2
  <2>2. doing'[w] = doing[w]
    BY <1>2, CleanMoves
  <2>3. took \subseteq took'
    BY MarkerRises
  <2>4. QED
    BY <2>1, <2>2, <2>3 DEF LeftBy
<1>3. QED
  BY <1>1, <1>2

\* An event that takes effect is the newest, and chases all older chunks.
LEMMA TakesOver ==
  ASSUME Ordered, NEW w \in Workers, Publish(w) \/ Bury(w)
  PROVE  /\ Newest(doing[w])' /\ took' = took \cup {doing[w]}
         /\ step'[w] = "clean" /\ doing' = doing
<1>1. /\ took' = took \cup {doing[w]} /\ doing' = doing
      /\ doing[w] \in Events /\ MarkerVersion <= Version[doing[w]]
  BY VersionFacts DEF Publish, Bury, Refused, Superseded, Ordered, TypedIndex,
                      StepsTyped
<1>2. step'[w] = "clean"
  BY DEF Publish, Bury, Goto, Ordered, TypedIndex, IndexTypeOK
<1>3. \A f \in took' : Version[f] <= Version[doing[w]]
  <2>1. ASSUME NEW f \in took PROVE Version[f] <= Version[doing[w]]
    <3>1. /\ f \in Events /\ Version[f] <= MarkerVersion
          /\ MarkerVersion \in Nat /\ Version[f] \in Nat
          /\ Version[doing[w]] \in Nat
      BY <1>1, VersionFacts DEF Ordered, MarkerLeads, TypedIndex, IndexTypeOK
    <3>2. QED
      BY <1>1, <3>1
  <2>2. Version[doing[w]] <= Version[doing[w]]
    BY <1>1, VersionFacts
  <2>3. QED
    BY <1>1, <2>1, <2>2
<1>4. QED
  BY <1>1, <1>2, <1>3 DEF Newest

LEMMA ServedMoves ==
  ASSUME Ordered, NEW c, Served(c), [IndexNext]_indexVars
  PROVE  Served(c)' \/ \E w \in Workers : Chases(w, c)'
<1>1. PICK e \in Replaces : Newest(e) /\ c \in ChunksOf[e]
  BY DEF Served
<1>2. /\ e \in Events /\ e \in took' /\ c \in Chunks
      /\ ChunkVersion[c] = Version[e] /\ Version[e] \in Nat
  BY <1>1, VersionFacts, IndexAssumption, MarkerRises
     DEF Newest, Ordered, Events
<1>3. CASE \A f \in took' : Version[f] <= Version[e]
  BY <1>1, <1>2, <1>3 DEF Served, Newest
<1>4. ASSUME NEW f \in took', ~(Version[f] <= Version[e])
      PROVE  \E w \in Workers : Chases(w, c)'
  <2>1. f \notin took
    BY <1>1, <1>4 DEF Newest
  <2>2. PICK w \in Workers : (Publish(w) \/ Bury(w)) /\ f = doing[w]
    BY <1>4, <2>1, MarkerMoves DEF Ordered
  <2>3. /\ step'[w] = "clean" /\ doing'[w] = f /\ f \in Events
        /\ Version[f] \in Nat
    BY <2>2, TakesOver, VersionFacts
       DEF Publish, Bury, Ordered, TypedIndex, StepsTyped
  <2>4. ChunkVersion[c] < Version[f]
    BY <1>2, <1>4, <2>3
  <2>5. Chases(w, c)'
    BY <1>2, <2>3, <2>4 DEF Chases, InRange, Events
  <2>6. QED
    BY <2>5
<1>5. QED
  BY <1>3, <1>4

\* A search finds a stored chunk unless a bulk is still writing it, or one
\* that failed has written it.
LEMMA SearchAccounts ==
  ASSUME TypedIndex, Findable, Pending, NEW w \in Workers, Search(w),
         NEW c \in stored, InRange(w, ChunkVersion[c])
  PROVE  Chases(w, c)' \/ Left(c) \/ \E u \in Workers : Owns(u, c)'
<1>1. CASE c \notin unrefreshed
  <2>1. c \in visible
    BY <1>1 DEF Findable
  <2>2. step'[w] = "purge" /\ c \in hits'[w]
    BY <1>1, <2>1 DEF Search, Goto, TypedIndex, IndexTypeOK
  <2>3. QED
    BY <2>2 DEF Chases
<1>2. CASE \E e \in failed \cap Replaces : c \in ChunksOf[e]
  BY <1>2 DEF Left, LeftBy
<1>3. CASE \E u \in Workers : Owns(u, c) /\ step[u] = "bulk"
  <2>1. PICK u \in Workers : Owns(u, c) /\ step[u] = "bulk"
    BY <1>3
  <2>2. u # w
    BY <2>1 DEF Search
  <2>3. Owns(u, c)'
    BY <2>1, <2>2, OthersStay DEF Attempt, Owns
  <2>4. QED
    BY <2>3
<1>4. QED
  BY <1>1, <1>2, <1>3 DEF Pending

LEMMA OwnedAccounted ==
  ASSUME Traced, [IndexNext]_indexVars, NEW w \in Workers, NEW c \in stored,
         Owns(w, c)
  PROVE  \/ Served(c)' \/ Left(c)'
         \/ \E u \in Workers : Owns(u, c)' \/ Chases(u, c)'
<1>1. doing[w] \in Replaces /\ c \in ChunksOf[doing[w]]
  BY DEF Owns, Traced, Ordered, TypedIndex, StepsTyped
<1>2. CASE Publish(w)
  BY <1>1, <1>2, TakesOver DEF Served, Traced
<1>3. CASE Search(w) /\ step[w] = "takeback"
  <2>1. ChunkVersion[c] = Version[doing[w]]
    BY <1>1, IndexAssumption
  <2>2. InRange(w, ChunkVersion[c])
    BY <1>3, <2>1 DEF InRange
  <2>3. QED
    BY <1>3, <2>2, SearchAccounts, LeftStays DEF Traced, Ordered
<1>4. CASE Fail(w)
  BY <1>1, <1>4 DEF Fail, Left, LeftBy
<1>5. QED
  BY <1>2, <1>3, <1>4, OwnerMoves DEF Traced, Ordered

LEMMA ChasedAccounted ==
  ASSUME Traced, [IndexNext]_indexVars, NEW w \in Workers, NEW c \in stored,
         Chases(w, c), c \in stored'
  PROVE  Left(c)' \/ \E u \in Workers : Owns(u, c)' \/ Chases(u, c)'
<1> USE DEF Traced, Ordered
<1>1. CASE Refresh \/ UNCHANGED indexVars
  BY <1>1 DEF Refresh, indexVars, attempts, Chases, InRange
<1>2. CASE \E u \in Workers : WriteChunk(u, c)
  <2>1. PICK u \in Workers : WriteChunk(u, c)
    BY <1>2
  <2>2. c \in ChunksOf[doing[u]]
    BY <2>1, WriteOwned DEF WriteChunk, TypedIndex, IndexTypeOK
  <2>3. Owns(u, c)'
    BY <2>1, <2>2 DEF WriteChunk, Owns
  <2>4. QED
    BY <2>3
<1>3. ASSUME NEW u \in Workers, Attempt(u), u # w,
             ~(\E v \in Workers : WriteChunk(v, c))
      PROVE  Chases(w, c)'
  <2>1. step'[w] = step[w] /\ doing'[w] = doing[w]
    BY <1>3, OthersStay
  <2>2. c \in hits[w] => c \in hits'[w]
    BY <1>3 DEF Attempt, Take, Read, Claim, Refuse, WriteChunk, Purge,
       BulkDone, Publish, Lose, Bury, Search, PurgeDone, Fail, TypedIndex,
       IndexTypeOK
  <2>3. QED
    BY <2>1, <2>2 DEF Chases, InRange
<1>4. CASE Fail(w)
  <2>1. LeftBy(c, doing[w])
    BY SearchLeft DEF Chases, Deleting
  <2>2. took' = took /\ failed' = failed \cup {doing[w]}
    BY <1>4 DEF Fail
  <2>3. QED
    BY <2>1, <2>2 DEF Left, LeftBy
<1>5. CASE Search(w)
  BY <1>5, SearchAccounts, LeftStays DEF Chases, Search
<1>6. CASE \E d \in Chunks : d # c /\ (WriteChunk(w, d) \/ Purge(w, d))
  BY <1>6 DEF WriteChunk, Purge, Chases, TypedIndex, IndexTypeOK
<1>7. ~Purge(w, c) /\ ~PurgeDone(w)
  BY DEF Purge, PurgeDone, Chases
<1>8. ASSUME Attempt(w)
      PROVE  \/ Fail(w) \/ Search(w)
             \/ \E d \in Chunks : WriteChunk(w, d) \/ Purge(w, d)
  BY <1>7, <1>8
     DEF Attempt, Take, Read, Claim, Refuse, BulkDone, Publish, Lose, Bury,
         Chases
<1>9. QED
  BY <1>1, <1>2, <1>3, <1>4, <1>5, <1>6, <1>7, <1>8 DEF IndexNext

LEMMA AccountedNext ==
  ASSUME Traced, [IndexNext]_indexVars
  PROVE  Accounted'
<1> SUFFICES ASSUME NEW c \in stored'
             PROVE  Served(c)' \/ Left(c)'
                      \/ \E w \in Workers : Owns(w, c)' \/ Chases(w, c)'
  BY DEF Accounted
<1>1. CASE c \notin stored
  <2>1. PICK w \in Workers : WriteChunk(w, c)
    BY <1>1, NewChunkWritten
  <2>2. c \in ChunksOf[doing[w]]
    BY <2>1, WriteOwned
       DEF WriteChunk, Traced, Ordered, TypedIndex, IndexTypeOK
  <2>3. Owns(w, c)'
    BY <2>1, <2>2 DEF WriteChunk, Owns
  <2>4. QED
    BY <2>3
<1>2. CASE c \in stored /\ Served(c)
  BY <1>2, ServedMoves DEF Traced
<1>3. CASE c \in stored /\ Left(c)
  BY <1>3, LeftStays DEF Traced, Ordered
<1>4. CASE c \in stored /\ \E w \in Workers : Owns(w, c)
  BY <1>4, OwnedAccounted
<1>5. CASE c \in stored /\ \E w \in Workers : Chases(w, c)
  BY <1>5, ChasedAccounted
<1>6. QED
  BY <1>1, <1>2, <1>3, <1>4, <1>5 DEF Traced, Accounted

(* Whatever attempts race, a chunk that no search should find is left over *)
(* only by an attempt that failed, having written it or being to delete it.*)
THEOREM StraysComeFromFailuresHolds == IndexSpec => []StraysComeFromFailures
<1>1. IndexInit => Traced
  BY DEF IndexInit, Traced, Ordered, TypedIndex, IndexTypeOK, StepsTyped,
         Steps, MarkerLeads, Derived, Findable, Pending, Bulks, Deleting,
         Accounted
<1>2. Traced /\ [IndexNext]_indexVars => Traced'
  BY OrderedNext, DerivedNext, FindableNext, PendingNext, BulksNext,
     DeletingNext, AccountedNext DEF Traced, Ordered
<1>3. Traced => StraysComeFromFailures
  BY DEF Traced, Accounted, Owns, Chases, Served, Left, LeftBy,
         StraysComeFromFailures
<1>4. QED
  BY <1>1, <1>2, <1>3, PTL DEF IndexSpec

-----------------------------------------------------------------------------
(* What the document is to searches.                                       *)

\* Beside what is accounted for: a deleted chunk is found until the deletion
\* refreshes or fails, and who rests has no event.
Fading == \A c \in visible \ stored :
  Left(c) \/ \E w \in Workers : step[w] = "purge" /\ LeftBy(c, doing[w])
Resting == \A w \in Workers : step[w] = "idle" => doing[w] = None

LEMMA RestingNext ==
  ASSUME TypedIndex, Resting, [IndexNext]_indexVars
  PROVE  Resting'
<1>1. CASE Refresh \/ UNCHANGED indexVars
  BY <1>1 DEF Refresh, indexVars, attempts, Resting
<1>2. ASSUME NEW w \in Workers, Attempt(w) PROVE Resting'
  <2>1. \A u \in Workers \ {w} : step'[u] = step[u] /\ doing'[u] = doing[u]
    BY <1>2, OthersStay
  <2>2. step'[w] = "idle" => doing'[w] = None
    <3>1. CASE Read(w) \/ Refuse(w) \/ PurgeDone(w) \/ Fail(w)
      BY <3>1 DEF Read, Refuse, PurgeDone, Fail, Settle, Goto, TypedIndex,
                  IndexTypeOK
    <3>2. CASE \/ \E e \in Events : Take(w, e)
               \/ \E c \in Chunks : WriteChunk(w, c) \/ Purge(w, c)
               \/ Claim(w) \/ BulkDone(w) \/ Publish(w) \/ Lose(w) \/ Bury(w)
               \/ Search(w)
      BY <3>2 DEF Take, WriteChunk, Purge, Claim, BulkDone, Publish, Lose,
         Bury, Search, Goto, TypedIndex, IndexTypeOK
    <3>3. QED
      BY <1>2, <3>1, <3>2 DEF Attempt
  <2>3. QED
    BY <2>1, <2>2 DEF Resting
<1>3. QED
  BY <1>1, <1>2 DEF IndexNext

LEMMA FadingNext ==
  ASSUME TypedIndex, Deleting, Fading, [IndexNext]_indexVars
  PROVE  Fading'
<1> SUFFICES ASSUME NEW c \in visible', c \notin stored'
             PROVE  Left(c)' \/ \E w \in Workers :
                      step'[w] = "purge" /\ LeftBy(c, doing[w])'
  BY DEF Fading
<1>1. ~(AllVisible /\ stored' = stored)
  BY DEF AllVisible
<1>2. CASE UNCHANGED indexVars
  BY <1>2, LeftStays DEF indexVars, index, attempts, Fading
<1>3. ASSUME NEW u \in Workers, Attempt(u)
      PROVE  Left(c)' \/ \E w \in Workers :
               step'[w] = "purge" /\ LeftBy(c, doing[w])'
  <2>1. visible' = visible /\ ~PurgeDone(u)
    BY <1>1, <1>3 DEF Attempt, Take, Read, Claim, Refuse, WriteChunk, Purge,
       BulkDone, Publish, Lose, Bury, Search, PurgeDone, Fail, index
  <2>2. CASE c \in stored
    <3>1. Purge(u, c)
      BY <1>3, <2>1, <2>2 DEF Attempt, Take, Read, Claim, Refuse, WriteChunk,
         Purge, BulkDone, Publish, Lose, Bury, Search, Fail, index
    <3>2. step'[u] = "purge" /\ doing'[u] = doing[u] /\ LeftBy(c, doing[u])
      BY <3>1 DEF Purge, Deleting
    <3>3. QED
      BY <3>2, LeftStays
  <2>3. CASE Left(c)
    BY <2>3, LeftStays
  <2>4. ASSUME NEW w \in Workers, step[w] = "purge", LeftBy(c, doing[w])
        PROVE  Left(c)' \/ (step'[w] = "purge" /\ LeftBy(c, doing[w])')
    <3>1. CASE Fail(w)
      BY <2>4, <3>1, LeftStays DEF Fail, Left
    <3>2. CASE u # w
      BY <1>3, <2>4, <3>2, OthersStay, LeftStays
    <3>3. CASE u = w /\ ~Fail(w)
      <4>1. \E d \in Chunks : Purge(w, d)
        BY <1>3, <2>1, <2>4, <3>3 DEF Attempt, Take, Read, Claim, Refuse,
           WriteChunk, BulkDone, Publish, Lose, Bury, Search
      <4>2. step' = step /\ doing' = doing
        BY <4>1 DEF Purge
      <4>3. QED
        BY <2>4, <4>2, LeftStays
    <3>4. QED
      BY <3>1, <3>2, <3>3
  <2>5. QED
    BY <2>1, <2>2, <2>3, <2>4 DEF Fading
<1>4. QED
  BY <1>1, <1>2, <1>3 DEF IndexNext, Refresh

\* What an attempt or a failure accounts for is a trace of an open event.
LEMMA Presents ==
  ASSUME Traced, Fading, NewestServed
  PROVE  Document!Presentable
<1> USE DEF Traced, Ordered
<1>1. \A c, e : LeftBy(c, e) <=> Document!TraceOf(c, e)
  BY DEF LeftBy, Document!TraceOf
<1>2. \A e : Newest(e) <=> Document!Newest(e)
  BY DEF Newest, Document!Newest
<1>3. \A c : Left(c) => \E e \in Unsettled : LeftBy(c, e)
  BY DEF Left, Unsettled
<1>4. \A w \in Workers : step[w] # "idle" => doing[w] \in Unsettled
  BY VersionFacts DEF TypedIndex, StepsTyped, Unsettled
<1>5. ASSUME NEW c \in stored, NEW w \in Workers, Owns(w, c) \/ Chases(w, c)
      PROVE  \E e \in Unsettled : LeftBy(c, e)
  <2>1. step[w] # "idle"
    BY <1>5 DEF Owns, Chases
  <2>2. LeftBy(c, doing[w])
    <3>1. CASE Owns(w, c)
      BY <3>1 DEF Owns, LeftBy, TypedIndex, StepsTyped
    <3>2. CASE step[w] = "clean" /\ InRange(w, ChunkVersion[c])
      BY <3>2, SearchLeft
    <3>3. CASE step[w] = "purge" /\ c \in hits[w]
      BY <3>3 DEF Deleting
    <3>4. QED
      BY <1>5, <3>1, <3>2, <3>3 DEF Chases
  <2>3. QED
    BY <1>4, <2>1, <2>2
<1>6. ASSUME NEW c \in visible
      PROVE  Served(c) \/ \E e \in Unsettled : LeftBy(c, e)
  <2>1. CASE c \in stored
    BY <1>3, <1>5, <2>1 DEF Accounted
  <2>2. CASE c \notin stored
    BY <1>3, <1>4, <2>2 DEF Fading
  <2>3. QED
    BY <2>1, <2>2
<1>7. QED
  BY <1>1, <1>2, <1>6 DEF Document!Presentable, NewestServed, Served, Searchable

LEMMA UnsettledMoves ==
  ASSUME TypedIndex, Resting, [IndexNext]_indexVars
  PROVE  \/ Unsettled' \subseteq Unsettled
         \/ \E e \in Events : /\ Unsettled' = Unsettled \cup {e}
                             /\ UNCHANGED <<took, visible>>
<1>1. CASE Refresh \/ UNCHANGED indexVars
  BY <1>1 DEF Refresh, indexVars, attempts, history, Unsettled
<1>2. ASSUME NEW w \in Workers, NEW e \in Events, Take(w, e)
      PROVE  Unsettled' = Unsettled \cup {e} /\ UNCHANGED <<took, visible>>
  <2>1. /\ doing[w] = None /\ doing'[w] = e /\ failed' = failed
        /\ \A u \in Workers \ {w} : doing'[u] = doing[u]
        /\ UNCHANGED <<took, visible>>
    BY <1>2 DEF Take, Resting, TypedIndex, IndexTypeOK, history, index
  <2>2. QED
    BY <2>1, VersionFacts DEF Unsettled
<1>3. ASSUME NEW w \in Workers, Attempt(w), ~\E e \in Events : Take(w, e)
      PROVE  Unsettled' \subseteq Unsettled
  <2>1. \A u \in Workers \ {w} : doing'[u] = doing[u]
    BY <1>3, OthersStay
  <2>2. doing'[w] \in {doing[w], None}
    BY <1>3 DEF Attempt, Read, Claim, Refuse, WriteChunk, Purge, BulkDone,
       Publish, Lose, Bury, Search, PurgeDone, Fail, Settle, TypedIndex,
       IndexTypeOK
  <2>3. /\ failed' \subseteq failed \cup {doing[w]}
        /\ failed' # failed => doing[w] # None
    BY <1>3, VersionFacts DEF Attempt, Read, Claim, Refuse, WriteChunk, Purge,
       BulkDone, Publish, Lose, Bury, Search, PurgeDone, Fail, history,
       TypedIndex, StepsTyped
  <2>4. QED
    BY <2>1, <2>2, <2>3 DEF Unsettled
<1>4. QED
  BY <1>1, <1>2, <1>3 DEF IndexNext, Attempt

Presenting == Serving /\ Traced /\ Fading /\ Resting

\* An event that takes effect anew finds its version in place.
LEMMA EffectMapped ==
  ASSUME Presenting, NEW w \in Workers, Publish(w) \/ Bury(w),
         doing[w] \notin took
  PROVE  Document!TakeEffect(doing[w])
<1> DEFINE e == doing[w]
<1> USE DEF Presenting, Serving, Attended, Ordered, TypedIndex
<1>1. /\ e \in Events /\ ~Superseded(e) /\ e \in Unsettled
      /\ took' = took \cup {e} /\ UNCHANGED <<failed, doing, visible>>
  BY VersionFacts DEF Publish, Bury, Refused, StepsTyped, Unsettled
<1>2. ASSUME NEW f \in took PROVE Version[f] < Version[e]
  <2>1. f \in Events /\ Version[f] <= MarkerVersion
    BY DEF MarkerLeads, IndexTypeOK
  <2>2. Version[f] # Version[e]
    BY <1>1, <2>1, VersionsDiffer
  <2>3. QED
    BY <1>1, <2>1, <2>2, VersionFacts DEF Superseded
<1>3. e \in Replaces => ChunksOf[e] \subseteq visible
  <2>1. CASE Publish(w)
    BY <1>1, <2>1 DEF Publish, Written
  <2>2. CASE Bury(w)
    BY <2>2, VersionsDiffer DEF Bury, StepsTyped
  <2>3. QED
    BY <2>1, <2>2
<1>4. Unsettled' = Unsettled
  BY <1>1 DEF Unsettled
<1>5. QED
  BY <1>1, <1>2, <1>3, <1>4 DEF Document!TakeEffect, Searchable

LEMMA DocumentStep ==
  ASSUME Presenting, Document!Presentable', [IndexNext]_indexVars
  PROVE  [Document!DocumentNext]_(Document!documentVars)
<1> USE DEF Presenting, Serving, Attended, Ordered
<1>1. CASE took' = took /\ Unsettled' \subseteq Unsettled
  BY <1>1 DEF Document!DocumentNext, Document!Change
<1>2. ASSUME NEW e \in Events, Unsettled' = Unsettled \cup {e},
             UNCHANGED <<took, visible>>
      PROVE  Document!DocumentNext
  BY <1>2 DEF Document!DocumentNext, Document!Open, Searchable, Events
<1>3. CASE took' # took
  <2>1. PICK w \in Workers :
               /\ Claim(w) \/ Publish(w) \/ Bury(w)
               /\ took' = IF Claim(w) THEN took ELSE took \cup {doing[w]}
    BY <1>3, MarkerMoves
  <2>2. /\ Publish(w) \/ Bury(w)
        /\ doing[w] \notin took
    BY <1>3, <2>1
  <2>3. Document!TakeEffect(doing[w]) /\ doing[w] \in Events
    BY <2>2, EffectMapped DEF TypedIndex, StepsTyped, Publish, Bury
  <2>4. QED
    BY <2>3 DEF Document!DocumentNext, Events
<1>4. QED
  BY <1>1, <1>2, <1>3, UnsettledMoves

(* While no event is attempted twice at once, the attempts of any number of *)
(* workers, with their markers, bulks, refreshes, queries and failures,     *)
(* implement the document that searches are promised.                       *)
THEOREM DocumentServed ==
  ASSUME ~Overlap
  PROVE  IndexSpec => ServesDocument
<1>1. IndexInit => Presenting /\ Document!DocumentInit
  <2>1. ASSUME IndexInit PROVE Serving /\ Traced /\ Fading /\ Resting
    BY <2>1
       DEF IndexInit, Serving, Attended, Ordered, TypedIndex, IndexTypeOK,
           StepsTyped, Steps, MarkerLeads, Exclusive, Once, Cleaning,
           HitsDoomed, Written, NewestServed, Newest, Traced, Derived,
           Findable, Pending, Bulks, Deleting, Accounted, Fading, Resting
  <2>2. ASSUME IndexInit PROVE Document!DocumentInit
    BY <2>2 DEF IndexInit, Document!DocumentInit, Unsettled, Searchable
  <2>3. QED
    BY <2>1, <2>2 DEF Presenting
<1>2. Presenting /\ [IndexNext]_indexVars => Presenting'
  <2>1. Serving /\ [IndexNext]_indexVars => Serving'
    BY AttendedNext, HitsNext, WrittenNext, ServedNext DEF Serving
  <2>2. Traced /\ [IndexNext]_indexVars => Traced'
    BY OrderedNext, DerivedNext, FindableNext, PendingNext, BulksNext,
       DeletingNext, AccountedNext DEF Traced, Ordered
  <2>3. Traced /\ Fading /\ Resting /\ [IndexNext]_indexVars
          => Fading' /\ Resting'
    BY FadingNext, RestingNext DEF Traced, Ordered
  <2>4. QED
    BY <2>1, <2>2, <2>3 DEF Presenting
<1>3. Presenting => Document!Presentable
  BY Presents DEF Presenting, Serving
<1>4. Presenting /\ Document!Presentable' /\ [IndexNext]_indexVars
        => [Document!DocumentNext]_(Document!documentVars)
  BY DocumentStep
<1>5. QED
  BY <1>1, <1>2, <1>3, <1>4, PTL
     DEF IndexSpec, ServesDocument, Document!DocumentSpec
=============================================================================
