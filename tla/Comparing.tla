------------------------------- MODULE Comparing -------------------------------
(***************************************************************************)
(* Two values compared, by any of the comparators (Comparator::compare of  *)
(* crates/rm-resolve/src/compare.rs).                                      *)
(***************************************************************************)
EXTENDS Similarity

CONSTANTS
  Tokens,    \* letters and words
  Spellings, \* names that may be mistyped, by their letters
  Phrases,   \* values whose words come in any order, by their words
  ProseNames \* names in prose, by the letters of their owner and of the rest

ASSUME ComparingAssumption ==
  /\ \A spelling \in Spellings : spelling \in Seq(Tokens)
  /\ \A phrase \in Phrases : phrase \in Seq(Tokens)
  /\ \A name \in ProseNames :
       /\ name.head \in Seq(Tokens)
       /\ \A owner, other \in name.owner : owner \in Seq(Tokens) /\ owner = other

VARIABLE compared \* two values and what they are compared by, or none yet

Apart == [how |-> "none"]
Pairs(how, values) == [how : {how}, a : values, b : values]

ComparingInit == compared = Apart

CompareTwo ==
  /\ compared = Apart
  /\ compared' \in Pairs("exact", Phrases) \cup Pairs("jaro_winkler", Spellings)
                     \cup Pairs("token_jaccard", Phrases) \cup Pairs("possessive_aware", ProseNames)

ComparingSpec == ComparingInit /\ [][CompareTwo]_compared

-----------------------------------------------------------------------------
SaysOnce(phrase) == \A i, j \in DOMAIN phrase : phrase[i] = phrase[j] => i = j

Plausible(two, s, back) ==
  /\ s.den > 0 /\ AtMostAs(Zero, s)
  /\ SameFraction(s, Zero) <=> SameFraction(back, Zero)
  /\ two.a = two.b => SameFraction(s, One)

Fair(s, back) == AtMostAs(s, One) /\ SameFraction(s, back)

SimilarityOf(two) == Compare(two.how, two.a, two.b)
TurnedRound(two) == Compare(two.how, two.b, two.a)

(* A similarity is nothing or more, nothing one way only if it is nothing  *)
(* the other, and everything of a value and itself; and under every        *)
(* comparator it is no more than everything and the same both ways, except *)
(* that token_jaccard has to be given phrases that say each word once: it  *)
(* counts the words of one side only (see AlwaysFair).                     *)
SimilarityIsFair ==
  compared # Apart =>
    /\ Plausible(compared, SimilarityOf(compared), TurnedRound(compared))
    /\ \/ compared.how = "token_jaccard" /\ ~(SaysOnce(compared.a) /\ SaysOnce(compared.b))
       \/ Fair(SimilarityOf(compared), TurnedRound(compared))

(* As compare.rs and its tests say it, of every comparator and any input:  *)
(* "on a 0.0-1.0 scale", and symmetric.                                    *)
AlwaysFair == compared # Apart => Fair(SimilarityOf(compared), TurnedRound(compared))
=============================================================================
