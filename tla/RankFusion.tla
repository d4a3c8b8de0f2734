----------------------------- MODULE RankFusion -----------------------------
(***************************************************************************)
(* reciprocal_rank_fusion: the chunks two search channels ranked, ordered  *)
(* by the sum of 1 / (k + rank) over the channels.  A chunk is the number  *)
(* its id has in the order of ids.  The sums are compared as fractions.    *)
(* Floating-point sums of so few and so small terms compare alike, but for *)
(* equal sums of different ranks: there a rounding error may go before the *)
(* id, which no property distinguishes.                                    *)
(***************************************************************************)
EXTENDS Integers, SequencesExt

CONSTANTS
  RankConstant,   \* k
  FusionLimit     \* candidates kept for the reranker

ASSUME FusionAssumption ==
  RankConstant \in Nat \ {0} /\ FusionLimit \in 1 .. 30

-----------------------------------------------------------------------------
Ranked(list) == Range(list)

\* Mutant: the last place of a chunk that a channel repeats counts.
LastRank(c, list) == Max({i \in DOMAIN list : list[i] = c})

\* The rank of a chunk in a channel: its first place.
RankIn(c, list) == Min({i \in DOMAIN list : list[i] = c})

\* The sum as a numerator and a denominator.
FusedScore(c, sparse, dense) ==
  LET s == RankConstant + RankIn(c, sparse)
      d == RankConstant + RankIn(c, dense)
  IN CASE c \in Ranked(sparse) \cap Ranked(dense) -> <<s + d, s * d>>
       [] c \in Ranked(sparse) \ Ranked(dense)    -> <<1, s>>
       [] c \in Ranked(dense) \ Ranked(sparse)    -> <<1, d>>

\* The key of sorted(): the higher sum first, of equal sums the smaller id.
Outranks(a, b, sparse, dense) ==
  LET s == FusedScore(a, sparse, dense)
      t == FusedScore(b, sparse, dense)
  IN  \/ s[1] * t[2] > t[1] * s[2]
      \/ s[1] * t[2] = t[1] * s[2] /\ a < b

\* sorted(): the members of S one after the other, as the pairs of before say.
InOrder(S, before) ==
  CHOOSE o \in [1 .. Cardinality(S) -> S] :
    \A i, j \in 1 .. Cardinality(S) : i < j => <<o[i], o[j]>> \in before

Fuse(sparse, dense) ==
  LET found == Ranked(sparse) \cup Ranked(dense)
      ordered == InOrder(found, {p \in found \X found :
                                   Outranks(p[1], p[2], sparse, dense)})
  IN SubSeq(ordered, 1, Min({FusionLimit, Len(ordered)}))

=============================================================================
