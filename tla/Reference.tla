------------------------------- MODULE Reference -------------------------------
(***************************************************************************)
(* The oracle that rm-conform scores survivorship by (crates/rm-conform/   *)
(* src/reference.rs), written from the documented rule of each strategy    *)
(* and not from the code of rm-survivor: loops where that one ranks and    *)
(* groups. It answers, with a value or none, or it refuses. Claims c are   *)
(* at their places among the n candidates, and a loop over them passes the *)
(* places of what is silent by.                                            *)
(*                                                                         *)
(* Abstracted: lengths, which the oracle takes in bytes and the code in    *)
(* characters, are those of values that have as many of either.            *)
(***************************************************************************)
EXTENDS Survivor

CONSTANTS
  Histories, \* lists of candidates
  ReadAt     \* the instants a timeline is read at

Members(list) == {list[i] : i \in DOMAIN list}

ASSUME ReferenceAssumption ==
  /\ \A history \in Histories :
       /\ history \in Seq(Members(history))
       /\ \A x \in Members(history) :
            /\ x.from \in Nat /\ x.at \in Nat
            /\ x.value \notin {Absent, Silent} => Size[x.value] \in Nat
  /\ \A strategy \in DOMAIN Orders : Orders[strategy] \in Seq(Members(Orders[strategy]))
  /\ ReadAt \subseteq Nat

VARIABLE heard \* candidates, in the order they were heard, or none yet

ReferenceInit == heard = <<>>
Hear == heard = <<>> /\ heard' \in Histories
ReferenceSpec == ReferenceInit /\ [][Hear]_heard

-----------------------------------------------------------------------------
Refuses == [answers |-> FALSE, held |-> {}]
Answers(held) == [answers |-> TRUE, held |-> held]
Only(values) == IF Cardinality(values) > 1 THEN Refuses ELSE Answers(values)

(* most_recent.                                                            *)
LastHeard(c) == {c[i].value : i \in {j \in DOMAIN c : \A k \in DOMAIN c : c[k].at <= c[j].at}}

(* most_complete: a later value has to be longer.                          *)
LengthOf(value) == IF value = Absent THEN 0 ELSE Size[value]
Longest(c, best, i) ==
  IF i \in DOMAIN c /\ \A b \in best : LengthOf(b) < LengthOf(c[i].value)
  THEN {c[i].value} ELSE best
MostComplete(c, n) ==
  LET best[i \in 0..n] == IF i = 0 THEN {} ELSE Longest(c, best[i - 1], i) IN best[n]

(* majority: counts in the order of first appearance, and of those the     *)
(* first that no later one exceeds.                                        *)
Counted(counts, value) ==
  IF \E i \in DOMAIN counts : counts[i].value = value
  THEN [i \in DOMAIN counts |->
          IF counts[i].value = value THEN [counts[i] EXCEPT !.n = @ + 1] ELSE counts[i]]
  ELSE Append(counts, [value |-> value, n |-> 1])
CountAt(c, counts, i) == IF i \in DOMAIN c THEN Counted(counts, c[i].value) ELSE counts
Counts(c, n) ==
  LET upTo[i \in 0..n] == IF i = 0 THEN <<>> ELSE CountAt(c, upTo[i - 1], i) IN upTo[n]

Exceeds(counts, best, i) == IF \A b \in best : b.n < counts[i].n THEN {counts[i]} ELSE best
Leading(counts) ==
  LET best[i \in 0..Len(counts)] == IF i = 0 THEN {} ELSE Exceeds(counts, best[i - 1], i)
  IN best[Len(counts)]
Majority(c, n) == {b.value : b \in Leading(Counts(c, n))}

(* source_priority: the claims of the first source that made any.          *)
FromSource(c, tier, source) == IF tier = {} THEN {i \in DOMAIN c : c[i].source = source} ELSE tier
Tier(c, order) ==
  LET upTo[i \in 0..Len(order)] == IF i = 0 THEN {} ELSE FromSource(c, upTo[i - 1], order[i])
  IN upTo[Len(order)]
PreferredSource(c, order) ==
  IF \E i \in DOMAIN c : c[i].source \notin Members(order) THEN Refuses
  ELSE Only(LastHeard(Restrict(c, Tier(c, order))))

ReferenceMerge(c, n, strategy) ==
  CASE strategy = "most_recent" -> Only(LastHeard(c))
    [] strategy = "longest_value" -> Answers(MostComplete(c, n))
    [] strategy = "majority_vote" -> Answers(Majority(c, n))
    [] strategy = "first_non_null" ->
         Answers({c[i].value : i \in {j \in DOMAIN c : \A k \in DOMAIN c : j <= k}})
    [] strategy = "unanimous_or_null" ->
         Answers({c[i].value : i \in {j \in DOMAIN c : \A k \in DOMAIN c : c[k].value = c[j].value}})
    [] strategy \in DOMAIN Orders -> PreferredSource(c, Orders[strategy])

(* valid_interval: one moment after another, each closing what is open     *)
(* unless it restates it.                                                  *)
Opened(facts, from, values) ==
  LET before == Len(facts)
      closed == [i \in DOMAIN facts |-> IF i = before THEN [facts[i] EXCEPT !.to = from] ELSE facts[i]]
  IN IF before > 0 /\ Cardinality(values) = 1 /\ facts[before].values = values THEN facts
     ELSE Append(closed, [from |-> from, to |-> Forever, values |-> values])

NextMoment(c, sofar) ==
  LET from == Min(sofar.left)
  IN [facts |-> Opened(sofar.facts, from, LastHeard(Restrict(c, {i \in DOMAIN c : c[i].from = from}))),
      left |-> sofar.left \ {from}]
ReferenceTimeline(c) ==
  LET moments == {c[i].from : i \in DOMAIN c}
      upTo[k \in 0..Cardinality(moments)] ==
        IF k = 0 THEN [facts |-> <<>>, left |-> moments] ELSE NextMoment(c, upTo[k - 1])
  IN upTo[Cardinality(moments)].facts

(* held_at: the first fact that covers the instant, if there is one.       *)
ReferenceHeldAt(facts, t) ==
  LET covering == {i \in DOMAIN facts : /\ facts[i].from <= t
                                        /\ facts[i].to = Forever \/ t < facts[i].to}
  IN IF covering = {} THEN Answers({}) ELSE Only(facts[Min(covering)].values)

-----------------------------------------------------------------------------
(* Refusals compare as refusals.                                           *)
Agree(values, reference) ==
  IF reference.answers THEN values = reference.held ELSE Cardinality(values) > 1

(* Where the two are known to differ: claims that agree are answered by    *)
(* merge before any source is ranked, also when one of them is not listed. *)
Unlisted(c, strategy) ==
  /\ strategy \in DOMAIN Orders /\ Cardinality(ValuesOf(c)) = 1
  /\ \E i \in DOMAIN c : c[i].source \notin Members(Orders[strategy])

(* The answers of every strategy are those of the oracle, the spans of a   *)
(* timeline and each instant of it included.                               *)
AsTheOracle(candidates) ==
  LET c == Claimed(candidates)
      facts == ReferenceTimeline(c)
  IN /\ \A strategy \in Strategies \ {"valid_interval"} :
          \/ Agree(Survivors(candidates, strategy), ReferenceMerge(c, Len(candidates), strategy))
          \/ Unlisted(c, strategy)
     /\ Timeline(candidates) = Members(facts)
     /\ \A t \in ReadAt :
          Agree(Resolve(candidates, "valid_interval", t), ReferenceHeldAt(facts, t))

(* Every strategy answers as the independent oracle does, at each instant  *)
(* and on either side of it; and the two that read provenance, in whatever *)
(* order things were heard, as the rule their documentation states, gaps   *)
(* and refusals included.                                                  *)
AnswersFollowTheRule ==
  heard # <<>> =>
    /\ AsTheOracle(heard)
    /\ \A t \in ReadAt, strategy \in {"most_recent", "valid_interval"} :
         Resolve(heard, strategy, t) = Rule(Claimed(heard), strategy, t)
=============================================================================
