--------------------------- MODULE ServedDocument ---------------------------
(***************************************************************************)
(* What the index promises searches about one document, with no markers,   *)
(* bulks or refreshes: which events took effect, which may still change    *)
(* what is found, and which chunks searches find.  An event takes effect   *)
(* at once and only over older ones; from then on its version is found     *)
(* completely.  What else is found is a trace of an event that is being    *)
(* attempted or failed.  KnowledgeIndex implements it.                     *)
(***************************************************************************)
EXTENDS Naturals

CONSTANTS
  Replaces,       \* events that publish a version
  Deletes,        \* events that delete the document
  Version,        \* version of an event
  ChunksOf,       \* chunks of a version to publish
  ChunkVersion    \* the version a chunk id is derived from

VARIABLES
  took,           \* events that took effect
  open,           \* events being attempted, or with a failed attempt
  found           \* chunks that searches find

documentVars == <<took, open, found>>

Newest(e) == e \in took /\ \A f \in took : Version[f] <= Version[e]

\* A chunk an attempt of e may have written or, once e took effect, may have
\* still to delete.
TraceOf(c, e) ==
  \/ e \in Replaces /\ c \in ChunksOf[e]
  \/ e \in took /\ ChunkVersion[c] < Version[e]

\* The version in effect is found, and nothing but it and traces.
Presentable ==
  /\ \A e \in Replaces : Newest(e) => ChunksOf[e] \subseteq found
  /\ \A c \in found :
       \/ \E e \in Replaces : Newest(e) /\ c \in ChunksOf[e]
       \/ \E e \in open : TraceOf(c, e)

DocumentInit == took = {} /\ open = {} /\ found = {}

\* An attempt begins.
Open(e) ==
  /\ open' = open \cup {e}
  /\ UNCHANGED <<took, found>>

\* An event takes effect: all that did are older, and its version is there.
TakeEffect(e) ==
  /\ e \in open
  /\ \A f \in took : Version[f] < Version[e]
  /\ e \in Replaces => ChunksOf[e] \subseteq found
  /\ took' = took \cup {e}
  /\ UNCHANGED <<open, found>>

\* Chunks come and go, and attempts end, all traces removed.
Change ==
  /\ open' \in SUBSET open
  /\ Presentable'
  /\ UNCHANGED took

DocumentNext ==
  \/ \E e \in Replaces \cup Deletes : Open(e) \/ TakeEffect(e)
  \/ Change

DocumentSpec == DocumentInit /\ [][DocumentNext]_documentVars
=============================================================================
