------------------------------- MODULE Survivor -------------------------------
(***************************************************************************)
(* Survivorship (crates/rm-survivor/src/lib.rs): what a slot holds when    *)
(* several assertions about it compete. Candidates stand at places, in the *)
(* caller's order; one has a value, the instant it is valid from, the time *)
(* it was observed at and, where a strategy ranks sources, its source.     *)
(*                                                                         *)
(* An answer is the set of values nothing chooses between: none when no    *)
(* answer exists, one for a survivor, more for a refusal. Abstracted: the  *)
(* wording of refusals, and a value's text down to its length.             *)
(***************************************************************************)
EXTENDS Naturals, Sequences, FiniteSets, FiniteSetsExt, Functions

CONSTANTS
  Absent,  \* the claim that there is no value
  Silent,  \* no claim
  Forever, \* the end of an open interval
  Size,    \* the length of each value's text, in characters
  Orders   \* the sources in order of rank, under each strategy that ranks them

Unordered == {"longest_value", "majority_vote", "first_non_null", "unanimous_or_null",
              "most_recent", "valid_interval"}

ASSUME SurvivorAssumption == Forever \notin Nat /\ DOMAIN Orders \cap Unordered = {}

Strategies == Unordered \cup DOMAIN Orders

(* Silence is not a claim, and competes with none.                         *)
Claimed(candidates) ==
  Restrict(candidates, {i \in DOMAIN candidates : candidates[i].value # Silent})

ValuesOf(c) == {c[i].value : i \in DOMAIN c}
Latest(c) == Max({c[i].at : i \in DOMAIN c})

(* The value of the first candidate whose value ranks highest.             *)
FirstBest(c, rank) ==
  LET best == Max({rank[c[i].value] : i \in DOMAIN c})
  IN {c[Min({i \in DOMAIN c : rank[c[i].value] = best})].value}

Votes(c, v) == Cardinality({i \in DOMAIN c : c[i].value = v})

(* most_recent: several values at the latest time are a refusal.           *)
MostRecent(c) ==
  LET latest == Latest(c)
  IN {c[i].value : i \in {j \in DOMAIN c : c[j].at = latest}}

(* by_source_priority: no order, or a source that is not on it, is a       *)
(* refusal; within the first source that claims something, most_recent.    *)
BySourcePriority(c, order) ==
  LET sources == {c[i].source : i \in DOMAIN c}
      ranked == {i \in DOMAIN order : order[i] \in sources}
  IN IF \E s \in sources : \A i \in ranked : order[i] # s THEN ValuesOf(c)
     ELSE MostRecent(Restrict(c, {i \in DOMAIN c : c[i].source = order[Min(ranked)]}))

(* One winner out of claims that differ.                                   *)
Winner(c, strategy) ==
  CASE strategy = "longest_value" ->
         FirstBest(c, [v \in ValuesOf(c) |-> IF v = Absent THEN 0 ELSE Size[v]])
    [] strategy = "majority_vote" -> FirstBest(c, [v \in ValuesOf(c) |-> Votes(c, v)])
    [] strategy = "first_non_null" -> {c[Min(DOMAIN c)].value}
    [] strategy = "unanimous_or_null" -> {}
    [] strategy = "most_recent" -> MostRecent(c)
    [] strategy \in DOMAIN Orders -> BySourcePriority(c, Orders[strategy])

(* merge, for a strategy that picks one winner. Claims that agree are the  *)
(* answer, whatever the strategy.                                          *)
Chosen(c, strategy) ==
  IF Cardinality(ValuesOf(c)) <= 1 THEN ValuesOf(c) ELSE Winner(c, strategy)
Survivors(candidates, strategy) == Chosen(Claimed(candidates), strategy)

(* Mutant: what was heard earlier about the same moment still competes.    *)
OpensAny(c, from) == ValuesOf(Restrict(c, {i \in DOMAIN c : c[i].from = from}))

(* What opens at an instant: the values last heard for it.                 *)
Opens(c, from) == MostRecent(Restrict(c, {i \in DOMAIN c : c[i].from = from}))

(* A restatement of the one value standing opens no span of its own. What  *)
(* stands is what opened last, a restatement of it included.               *)
Restates(c, from) ==
  LET earlier == {c[i].from : i \in DOMAIN c} \cap 0..(from - 1)
      here == Opens(c, from)
  IN earlier # {} /\ Cardinality(here) = 1 /\ Opens(c, Max(earlier)) = here

(* timeline: a span per instant at which something opens, each closing     *)
(* where the next one opens.                                               *)
SpansOf(c) ==
  LET opening == {f \in {c[i].from : i \in DOMAIN c} : ~Restates(c, f)}
      closing(f) == {g \in opening : g > f}
  IN {[from |-> f, values |-> Opens(c, f),
       to |-> IF closing(f) = {} THEN Forever ELSE Min(closing(f))] : f \in opening}
Timeline(candidates) == SpansOf(Claimed(candidates))

Covers(x, t) == x.from <= t /\ (x.to = Forever \/ t < x.to)

(* held_at of what merge returns.                                          *)
Resolve(c, strategy, t) ==
  IF strategy # "valid_interval" THEN Survivors(c, strategy)
  ELSE LET facts == Timeline(c)
       IN UNION {f.values : f \in {g \in facts : Covers(g, t)}}

(* The rules as the strategies state them, of no order: at an instant, the *)
(* last heard of the last to open; and the last heard of all.              *)
Rule(c, strategy, t) ==
  LET all == {c[i] : i \in DOMAIN c}
      opened == {x \in all : strategy = "valid_interval" => x.from <= t}
      standing == {x \in opened : strategy = "valid_interval" =>
                     \A y \in opened : y.from <= x.from}
      heard == {x \in standing : \A y \in standing : y.at <= x.at}
  IN {x.value : x \in heard}
=============================================================================
