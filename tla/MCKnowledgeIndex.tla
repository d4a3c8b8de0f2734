-------------------------- MODULE MCKnowledgeIndex --------------------------
(* Two versions of a document with a deletion between them.                 *)
EXTENDS KnowledgeIndex, TLC

CONSTANTS p1, d2, p3, a1, a3, b3

MCVersion == [e \in Events |-> CASE e = p1 -> 1 [] e = d2 -> 2 [] OTHER -> 3]
MCChunksOf == [e \in Replaces |-> IF e = p1 THEN {a1} ELSE {a3, b3}]
MCChunkVersion == [c \in Chunks |-> IF c = a1 THEN 1 ELSE 3]

Symmetry == Permutations(Workers)
=============================================================================
