--------------------------- MODULE KnowledgeIndex ---------------------------
(***************************************************************************)
(* One document of a tenant in Elasticsearch: replace_document and         *)
(* delete_document as attempts of concurrent workers.  The events of the   *)
(* document (a version to publish, or a deletion) reach workers late, in   *)
(* any order, and again after an attempt failed.  A version marker decides *)
(* which event wins; chunks are written by bulk and deleted by query, and  *)
(* searches look at chunks only.                                           *)
(* Elasticsearch is modelled as the code relies on it: reads by id are     *)
(* real-time, versions are external_gte, queries (delete_by_query's own    *)
(* too) see the last refresh, and a chunk written again after a query      *)
(* found it is a version conflict that the deletion proceeds over.         *)
(***************************************************************************)
EXTENDS Naturals, FiniteSets

CONSTANTS
  Workers,        \* where attempts run
  Replaces,       \* events that publish a version
  Deletes,        \* events that delete the document
  Chunks,         \* chunk ids
  Version,        \* version of an event
  ChunksOf,       \* chunks of a version to publish
  ChunkVersion,   \* the version a chunk id is derived from
  Overlap,        \* whether two workers may have the same event at once
  FailAt,         \* the steps at which attempts may fail
  None

Events == Replaces \cup Deletes

\* _chunk_id hashes the version: chunks of different versions differ.
ASSUME IndexAssumption ==
  /\ Version \in [Events -> Nat \ {0}]
  /\ ChunksOf \in [Replaces -> SUBSET Chunks]
  /\ ChunkVersion \in [Chunks -> Nat]
  /\ \A e \in Replaces : \A c \in ChunksOf[e] : ChunkVersion[c] = Version[e]
  /\ None \notin Events
  /\ Overlap \in BOOLEAN

\* A version names one content or one deletion.
ASSUME VersionsDiffer ==
  /\ Replaces \cap Deletes = {}
  /\ \A e, f \in Events : Version[e] = Version[f] => e = f

VARIABLES
  marker,        \* the version marker: None or whose it is and its status
  stored,        \* chunks in the index
  visible,       \* chunks that queries find
  unrefreshed,   \* chunks written since the last refresh
  refreshed,     \* workers whose last write a refresh has made visible
  step,          \* where a worker's attempt is
  doing,         \* its event
  todo,          \* chunks its bulk has still to write
  hits,          \* chunks its delete_by_query found and has not deleted yet
  took,          \* events that took effect (PUBLISHED or DELETED)    (history)
  failed,        \* events an attempt of which failed                 (history)
  settled        \* events whose last attempt did not fail            (history)

index == <<stored, visible, unrefreshed, refreshed>>
attempts == <<step, doing, todo, hits>>
history == <<took, failed, settled>>
indexVars == <<marker, index, attempts, history>>

Steps == {"idle", "read", "claim", "bulk", "publish", "bury", "clean",
          "takeback", "purge"}
Markers == [event : Events, status : {"INDEXING", "PUBLISHED", "DELETED"}]

ASSUME MarkerNoneAssumption == None \notin Markers

IndexInit ==
  /\ marker = None
  /\ stored = {} /\ visible = {} /\ unrefreshed = {} /\ refreshed = Workers
  /\ step = [w \in Workers |-> "idle"]
  /\ doing = [w \in Workers |-> None]
  /\ todo = [w \in Workers |-> {}]
  /\ hits = [w \in Workers |-> {}]
  /\ took = {} /\ failed = {} /\ settled = {}

-----------------------------------------------------------------------------
(* The marker.                                                             *)

MarkerVersion == IF marker = None THEN 0 ELSE Version[marker.event]

Superseded(e) == MarkerVersion > Version[e]

\* Mutant: the marker is written without a version.
NeverRefused(e) == FALSE

\* external_gte refuses a write below the marker's version.
Refused(e) == Superseded(e)

\* What the early returns of both operations look at.
Skips(e) ==
  \/ Superseded(e)
  \/ /\ marker # None
     /\ MarkerVersion = Version[e]
     /\ \/ marker.status = "DELETED"
        \/ e \in Replaces /\ marker = [event |-> e, status |-> "PUBLISHED"]

Goto(w, s) == step' = [step EXCEPT ![w] = s]

\* The attempt returns INDEXED, DELETED or SKIPPED.
Settle(w) ==
  /\ Goto(w, "idle")
  /\ doing' = [doing EXCEPT ![w] = None]
  /\ settled' = settled \cup {doing[w]}

\* A marker write, which a refresh has still to follow.
Mark(w, status) ==
  /\ marker' = [event |-> doing[w], status |-> status]
  /\ refreshed' = refreshed \ {w}

-----------------------------------------------------------------------------
(* Attempts.                                                               *)

Take(w, e) ==
  /\ step[w] = "idle"
  /\ Overlap \/ \A u \in Workers : doing[u] # e
  /\ doing' = [doing EXCEPT ![w] = e]
  /\ Goto(w, "read")
  /\ UNCHANGED <<marker, index, todo, hits, history>>

\* _read_marker and the early returns.
Read(w) ==
  /\ step[w] = "read"
  /\ IF Skips(doing[w])
     THEN Settle(w)
     ELSE /\ Goto(w, IF doing[w] \in Replaces THEN "claim" ELSE "bury")
          /\ UNCHANGED <<doing, settled>>
  /\ UNCHANGED <<marker, index, todo, hits, took, failed>>

\* replace_document: the INDEXING marker.
Claim(w) ==
  /\ step[w] = "claim"
  /\ ~Refused(doing[w])
  /\ Mark(w, "INDEXING")
  /\ Goto(w, "bulk")
  /\ todo' = [todo EXCEPT ![w] = ChunksOf[doing[w]]]
  /\ UNCHANGED <<stored, visible, unrefreshed, doing, hits, history>>

\* A conflict at the INDEXING marker or the tombstone.
Refuse(w) ==
  /\ step[w] \in {"claim", "bury"}
  /\ Refused(doing[w])
  /\ Settle(w)
  /\ UNCHANGED <<marker, index, todo, hits, took, failed>>

\* One item of the bulk.  It conflicts with deletions that found the chunk.
WriteChunk(w, c) ==
  /\ step[w] = "bulk"
  /\ c \in todo[w]
  /\ stored' = stored \cup {c}
  /\ unrefreshed' = unrefreshed \cup {c}
  /\ refreshed' = refreshed \ {w}
  /\ todo' = [todo EXCEPT ![w] = @ \ {c}]
  /\ hits' = [u \in Workers |-> hits[u] \ {c}]
  /\ UNCHANGED <<marker, visible, step, doing, history>>

\* Mutant: the bulk does not wait for a refresh.
BulkUnrefreshed(w) ==
  /\ step[w] = "bulk"
  /\ todo[w] = {}
  /\ Goto(w, "publish")
  /\ UNCHANGED <<marker, index, doing, todo, hits, history>>

\* The bulk returns without a failed item, after a refresh (wait_for).
BulkDone(w) ==
  /\ step[w] = "bulk"
  /\ todo[w] = {}
  /\ w \in refreshed
  /\ Goto(w, "publish")
  /\ UNCHANGED <<marker, index, doing, todo, hits, history>>

\* The PUBLISHED marker.
Publish(w) ==
  /\ step[w] = "publish"
  /\ ~Refused(doing[w])
  /\ Mark(w, "PUBLISHED")
  /\ took' = took \cup {doing[w]}
  /\ Goto(w, "clean")
  /\ UNCHANGED <<stored, visible, unrefreshed, doing, todo, hits, failed,
                 settled>>

\* Mutants: the loser leaves its chunks; the conflict is not handled.
LeaveChunks(w) ==
  /\ step[w] = "publish"
  /\ Refused(doing[w])
  /\ Settle(w)
  /\ UNCHANGED <<marker, index, todo, hits, took, failed>>

RaiseConflict(w) ==
  /\ step[w] = "publish"
  /\ Refused(doing[w])
  /\ Goto(w, "raised")
  /\ UNCHANGED <<marker, index, doing, todo, hits, history>>

\* A newer event has taken the marker: the attempt takes its chunks back.
Lose(w) ==
  /\ step[w] = "publish"
  /\ Refused(doing[w])
  /\ Goto(w, "takeback")
  /\ UNCHANGED <<marker, index, doing, todo, hits, history>>

\* delete_document: the tombstone.
Bury(w) ==
  /\ step[w] = "bury"
  /\ ~Refused(doing[w])
  /\ Mark(w, "DELETED")
  /\ took' = took \cup {doing[w]}
  /\ Goto(w, "clean")
  /\ UNCHANGED <<stored, visible, unrefreshed, doing, todo, hits, failed,
                 settled>>

\* The versions that _delete_chunk_versions is called for.
InRange(w, v) ==
  \/ step[w] = "takeback" /\ v = Version[doing[w]]
  \/ step[w] = "clean" /\ doing[w] \in Replaces /\ v < Version[doing[w]]
  \/ step[w] = "clean" /\ doing[w] \in Deletes /\ v <= Version[doing[w]]

\* delete_by_query: the query ...
Search(w) ==
  /\ step[w] \in {"clean", "takeback"}
  /\ w \in refreshed
  /\ hits' = [hits EXCEPT ![w] = {c \in (visible \cap stored) \ unrefreshed :
                                    InRange(w, ChunkVersion[c])}]
  /\ Goto(w, "purge")
  /\ UNCHANGED <<marker, index, doing, todo, history>>

\* ... a deletion ...
Purge(w, c) ==
  /\ step[w] = "purge"
  /\ c \in hits[w]
  /\ stored' = stored \ {c}
  /\ hits' = [hits EXCEPT ![w] = @ \ {c}]
  /\ UNCHANGED <<marker, visible, unrefreshed, refreshed, step, doing, todo,
                 history>>

AllVisible ==
  /\ visible' = stored
  /\ unrefreshed' = {}
  /\ refreshed' = Workers

\* ... and the refresh at its end.
PurgeDone(w) ==
  /\ step[w] = "purge"
  /\ hits[w] = {}
  /\ AllVisible
  /\ Settle(w)
  /\ UNCHANGED <<marker, stored, todo, hits, took, failed>>

\* An attempt returns FAILED, raises or dies with its process, having done
\* what it did: a bulk with some items written, a deletion half way.
Fail(w) ==
  /\ step[w] \in FailAt \ {"idle"}
  /\ Goto(w, "idle")
  /\ doing' = [doing EXCEPT ![w] = None]
  /\ todo' = [todo EXCEPT ![w] = {}]
  /\ hits' = [hits EXCEPT ![w] = {}]
  /\ failed' = failed \cup {doing[w]}
  /\ settled' = settled \ {doing[w]}
  /\ UNCHANGED <<marker, index, took>>

\* Elasticsearch refreshes now and then.
Refresh ==
  /\ AllVisible
  /\ UNCHANGED <<marker, stored, attempts, history>>

\* What sparse_search and dense_search can return: their filters look at the
\* chunks, never at the marker.
Searchable == visible

Attempt(w) ==
  \/ \E e \in Events : Take(w, e)
  \/ Read(w) \/ Claim(w) \/ Refuse(w)
  \/ \E c \in Chunks : WriteChunk(w, c) \/ Purge(w, c)
  \/ BulkDone(w) \/ Publish(w) \/ Lose(w) \/ Bury(w)
  \/ Search(w) \/ PurgeDone(w) \/ Fail(w)

IndexNext == Refresh \/ \E w \in Workers : Attempt(w)

IndexSpec == IndexInit /\ [][IndexNext]_indexVars

-----------------------------------------------------------------------------
(* Properties.                                                             *)

\* Types of all variables.
IndexTypeOK ==
  /\ marker \in Markers \cup {None}
  /\ stored \in SUBSET Chunks /\ visible \in SUBSET Chunks
  /\ unrefreshed \in SUBSET Chunks /\ refreshed \in SUBSET Workers
  /\ step \in [Workers -> Steps]
  /\ doing \in [Workers -> Events \cup {None}]
  /\ todo \in [Workers -> SUBSET Chunks]
  /\ hits \in [Workers -> SUBSET Chunks]
  /\ took \in SUBSET Events /\ failed \in SUBSET Events
  /\ settled \in SUBSET Events

\* e took effect, and nothing newer did.
Newest(e) == e \in took /\ \A f \in took : Version[f] <= Version[e]

\* The newest version that was published is completely searchable until
\* something newer takes effect: late events, losers that take their chunks
\* back and failing attempts do not touch it, and the old version goes only
\* when the new one is there.
NewestServed ==
  \A e \in Replaces : Newest(e) => ChunksOf[e] \subseteq Searchable \cap stored

\* An event takes effect only if it is newer than all that did: no late
\* replace comes back over a newer version or a tombstone, no late delete
\* buries a newer version.
LateEventsIgnored ==
  [][\A e \in took' \ took : \A f \in took : Version[f] < Version[e]]_indexVars

\* Events being attempted, or with a failed attempt.
Unsettled == failed \cup {doing[w] : w \in {u \in Workers : doing[u] # None}}

\* What the document is to searches.
Document == INSTANCE ServedDocument WITH open <- Unsettled, found <- Searchable

\* All attempts together, whatever order events come in, however they race
\* and fail, serve the document as ServedDocument promises: no event takes
\* effect over a newer one, the version in effect is found completely, what
\* is deleted stays found only while its deletion is under way or failed.
ServesDocument == Document!DocumentSpec

\* A chunk that no search should find is left behind only by a failure: the
\* attempt that wrote it failed, or one that should have deleted it did.
StraysComeFromFailures ==
  (\A w \in Workers : step[w] = "idle") =>
    \A c \in stored :
      \/ \E e \in Replaces : Newest(e) /\ c \in ChunksOf[e]
      \/ \E e \in failed :
           \/ e \in Replaces /\ c \in ChunksOf[e]
           \/ e \in took /\ ChunkVersion[c] < Version[e]

\* A failed attempt can be repeated safely: when every event was retried until
\* it did not fail, searches find the newest version and nothing else.
RetriesConverge ==
  (/\ \A w \in Workers : step[w] = "idle"
   /\ failed \subseteq settled
   /\ Searchable = stored)
  => \A c \in Searchable : \E e \in Replaces : Newest(e) /\ c \in ChunksOf[e]
=============================================================================
