---------------------------- MODULE MCKnowledge ----------------------------
(***************************************************************************)
(* KnowledgeProcesses for TLC: one retrieval followed in full, another     *)
(* caller and the warm-up over one thread; channels that find nothing, or  *)
(* up to three chunks in different orders, one of them twice, of which two *)
(* are kept and reranked one by one; everything configured or nothing.     *)
(* Or one section of at most five tokens with any boundaries and small     *)
(* limits.                                                                 *)
(***************************************************************************)
EXTENDS KnowledgeProcesses

CONSTANTS q1, c1, w

MCFinds ==
  [r \in {q1} |-> {<<>>, <<1>>, <<2, 1>>, <<1, 2, 1>>, <<3, 1, 2>>}]

MCConfigurations == {{"redis", "rag", "java"}, {}}

MCSections ==
  LET Of(n) == [tokens : {n}, target : 1 .. 3, max : 1 .. 4, overlap : 0 .. 2,
                paragraphs : SUBSET (1 .. n), sentences : SUBSET (1 .. n)]
  IN {s \in UNION {Of(n) : n \in 0 .. 5} :
        s.overlap < s.target /\ s.target <= s.max}

=============================================================================
