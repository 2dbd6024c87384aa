------------------------------ MODULE Similarity ------------------------------
(***************************************************************************)
(* How alike two values are (crates/rm-resolve/src/compare.rs). A value is *)
(* what is left of it once normalised: its letters for a name that may be  *)
(* mistyped, its words for one whose order varies, and for a name in prose *)
(* the letters of its owner, if it names by one, and those of the rest. A  *)
(* similarity is a fraction, exact where the code has an f64.              *)
(*                                                                         *)
(* Abstracted: normalisation, articles and possessives, which is to say    *)
(* how a string comes apart into these.                                    *)
(***************************************************************************)
EXTENDS Integers, Sequences, FiniteSets

Fraction(num, den) == [num |-> num, den |-> den]
Zero == Fraction(0, 1)
One == Fraction(1, 1)

SameFraction(s, t) == s.num * t.den = t.num * s.den
AtMostAs(s, t) == s.num * t.den <= t.num * s.den
Lesser(s, t) == IF AtMostAs(s, t) THEN s ELSE t
Exactly(agrees) == IF agrees THEN One ELSE Zero

Longer(a, b) == IF Len(a) >= Len(b) THEN Len(a) ELSE Len(b)
Least(S) == CHOOSE i \in S : \A j \in S : i <= j

-----------------------------------------------------------------------------
(* jaro: each letter of a, in order, with the first letter of b that is    *)
(* the same, still unmatched and not too far off.                          *)
Window(a, b) == IF Longer(a, b) < 4 THEN 0 ELSE Longer(a, b) \div 2 - 1

(* Mutant: the window ends one letter early.                               *)
NearShort(a, b, i) == {j \in DOMAIN b : i - Window(a, b) <= j /\ j < i + Window(a, b)}

Near(a, b, i) == {j \in DOMAIN b : i - Window(a, b) <= j /\ j <= i + Window(a, b)}

(* The letter at i is matched with the first that it can be, of those that *)
(* no letter before it is matched with.                                    *)
MatchLetter(a, b, before, i) ==
  LET free == {j \in Near(a, b, i) : b[j] = a[i] /\ \A m \in before : m[2] # j}
  IN IF free = {} THEN before ELSE before \cup {<<i, Least(free)>>}

MatchedPairs(a, b) ==
  LET upTo[i \in 0..Len(a)] == IF i = 0 THEN {} ELSE MatchLetter(a, b, upTo[i - 1], i)
  IN upTo[Len(a)]

(* The place in b of each letter of a that has one.                        *)
Matched(a, b) ==
  LET pairs == MatchedPairs(a, b)
  IN [i \in {m[1] : m \in pairs} |-> (CHOOSE m \in pairs : m[1] = i)[2]]

(* Matched letters that do not stand opposite each other, matched letters  *)
(* of both sides taken in their own order.                                 *)
Rank(S, i) == Cardinality({j \in S : j <= i})
Opposite(S, T, i) == CHOOSE j \in T : Rank(T, j) = Rank(S, i)
Crossed(a, b, S, T) == {i \in S : a[i] # b[Opposite(S, T, i)]}
Transpositions(a, b, matched) ==
  Cardinality(Crossed(a, b, DOMAIN matched, {matched[i] : i \in DOMAIN matched}))

(* m letters matched, t of them not opposite each other.                   *)
JaroOf(a, b, m, t) ==
  IF m = 0 THEN Zero
  ELSE Fraction(2 * m * m * (Len(a) + Len(b)) + (2 * m - t) * Len(a) * Len(b),
                6 * m * Len(a) * Len(b))

Jaro(a, b) ==
  IF a = <<>> /\ b = <<>> THEN One
  ELSE LET matched == Matched(a, b)
       IN JaroOf(a, b, Cardinality(DOMAIN matched), Transpositions(a, b, matched))

(* The letters in common at the start, of the first four.                  *)
SharedStart(a, b) ==
  Cardinality({i \in 1..4 : \A j \in 1..i : j \in DOMAIN a \cap DOMAIN b /\ a[j] = b[j]})

(* jaro_winkler: a start in common counts for what is not a poor match.    *)
Boosted(base, start) ==
  IF 10 * base.num < 7 * base.den THEN base
  ELSE Fraction(10 * base.num + start * (base.den - base.num), 10 * base.den)
JaroWinkler(a, b) == Boosted(Jaro(a, b), SharedStart(a, b))

(* possessive_aware: owner against owner, the rest against the rest, and   *)
(* the weaker half; what names by an owner is nothing that does not.       *)
PossessiveAware(a, b) ==
  IF (a.owner = {}) # (b.owner = {}) THEN Zero
  ELSE LET head == JaroWinkler(a.head, b.head) IN
       IF a.owner = {} THEN head
       ELSE Lesser(JaroWinkler(CHOOSE x \in a.owner : TRUE, CHOOSE y \in b.owner : TRUE), head)

(* token_jaccard: the words of a found in b, by the code's own count, in   *)
(* which a word said twice is two.                                         *)
TokenJaccard(a, b) ==
  LET shared == Cardinality({i \in DOMAIN a : \E j \in DOMAIN b : b[j] = a[i]}) IN
  IF a = <<>> /\ b = <<>> THEN One
  ELSE IF a = <<>> \/ b = <<>> THEN Zero
  ELSE Fraction(shared, Len(a) + Len(b) - shared)

Compare(how, a, b) ==
  CASE how = "exact" -> Exactly(a = b)
    [] how = "jaro_winkler" -> JaroWinkler(a, b)
    [] how = "possessive_aware" -> PossessiveAware(a, b)
    [] how = "token_jaccard" -> TokenJaccard(a, b)
=============================================================================
