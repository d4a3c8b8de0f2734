------------------------------ MODULE Chunking ------------------------------
(***************************************************************************)
(* chunk_sections on the tokens of one section: windows that end at a      *)
(* paragraph, else at a sentence, else at the target, and overlap.  The    *)
(* state is that of the loop; a window is the pair of its first token and  *)
(* the one after its last.  The limits are those of the body, what the     *)
(* context prefix leaves of the configured ones.                           *)
(***************************************************************************)
EXTENDS Integers, SequencesExt

CONSTANTS
  Sections,    \* section to chunk, or None
  None

\* ChunkingLimits.__post_init__, and the check that follows the prefix.
WithinLimits(s) ==
  /\ s.tokens \in Nat
  /\ s.overlap \in Nat
  /\ s.target \in Nat /\ s.overlap < s.target
  /\ s.max \in Nat /\ s.target <= s.max
  /\ s.paragraphs \subseteq 1 .. s.tokens
  /\ s.sentences \subseteq 1 .. s.tokens

ASSUME SectionsAssumption == \A s \in Sections : WithinLimits(s)

VARIABLES
  section,    \* the section being chunked
  start,      \* first token of the next window
  windows,    \* the chunks made so far
  chunking    \* "idle", "loop", "done" or "refused"

chunkVars == <<section, start, windows, chunking>>

-----------------------------------------------------------------------------
NoSection == section = None /\ start = 0 /\ windows = <<>> /\ chunking = "idle"

\* A section without tokens is skipped.
ChunkInit ==
  /\ section \in Sections
  /\ start = 0
  /\ windows = <<>>
  /\ chunking = IF section.tokens = 0 THEN "done" ELSE "loop"

\* Mutant: a boundary inside the overlap is as good as another.
ChooseAnyEnd(s, from, desired) ==
  LET near(boundaries) == {p \in boundaries : from < p /\ p <= desired}
  IN IF near(s.paragraphs) # {} THEN Max(near(s.paragraphs))
     ELSE IF near(s.sentences) # {} THEN Max(near(s.sentences))
     ELSE desired

\* _choose_end
ChooseEnd(s, from, desired) ==
  LET minimum == from + s.overlap + 1
      hard == Min({from + s.max, s.tokens})
      near(boundaries) == {p \in boundaries : minimum <= p /\ p <= desired}
  IN IF near(s.paragraphs) # {} THEN Max(near(s.paragraphs))
     ELSE IF near(s.sentences) # {} THEN Max(near(s.sentences))
     ELSE Max({minimum, Min({desired, hard})})

WindowEnd ==
  LET desired == Min({start + section.target, section.tokens})
  IN IF desired = section.tokens THEN section.tokens
     ELSE ChooseEnd(section, start, desired)

\* Mutant: the next window begins after this one.
NextWindowApart ==
  /\ chunking = "loop"
  /\ windows' = Append(windows, <<start, WindowEnd>>)
  /\ IF WindowEnd = section.tokens
     THEN chunking' = "done" /\ UNCHANGED start
     ELSE start' = WindowEnd /\ UNCHANGED chunking
  /\ UNCHANGED section

NextWindow ==
  /\ chunking = "loop"
  /\ windows' = Append(windows, <<start, WindowEnd>>)
  /\ IF WindowEnd = section.tokens
     THEN chunking' = "done" /\ UNCHANGED start
     ELSE start' = WindowEnd - section.overlap /\ UNCHANGED chunking
  /\ UNCHANGED section

\* Counted again with its prefix, a window may have more tokens than the
\* sum, because text at its edges is split differently.
Refuse ==
  /\ chunking = "loop"
  /\ chunking' = "refused"
  /\ UNCHANGED <<section, start, windows>>

ChunkStep == NextWindow \/ Refuse

-----------------------------------------------------------------------------
\* The chunks of a section hold every one of its tokens: the first window
\* starts at the first token, each starts exactly the overlap before its
\* predecessor's end and goes beyond it, none exceeds the target, and when
\* the loop is done the last window ends with the section.
ChunksCover ==
  /\ \A i \in DOMAIN windows :
       /\ windows[i][1] < windows[i][2]
       /\ windows[i][2] - windows[i][1] <= section.target
       /\ windows[i][1] = IF i = 1 THEN 0
                          ELSE windows[i - 1][2] - section.overlap
       /\ i > 1 => windows[i][2] > windows[i - 1][2]
  /\ chunking = "done" /\ section.tokens > 0 =>
       windows # <<>> /\ Last(windows)[2] = section.tokens

=============================================================================
