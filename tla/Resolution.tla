------------------------------ MODULE Resolution ------------------------------
(***************************************************************************)
(* resolve, of crates/rm-resolve/src/lib.rs: every pair of records that    *)
(* share a block is scored, in order; a match unites, a pair in the middle *)
(* band is a question, and what is left is told apart by what was united.  *)
(* One step is one turn of a loop: a pair, or one halving of a path in the *)
(* union-find, whose roots are asked for throughout. What a pair is decided*)
(* to be follows from its records, and is worked out with the first of     *)
(* them.                                                                   *)
(*                                                                         *)
(* A record is a function from the fields it has. Weights and thresholds   *)
(* are whole bits. The order of the clusters is left out.                  *)
(***************************************************************************)
EXTENDS Similarity

CONSTANTS
  N,         \* bound: records resolved together
  Rules,     \* fields compared, each with how and what it is worth
  Blocks(_), \* the blocking keys of a record, or none at all
  Blocking,  \* whether there are blocking rules
  ReviewAt, MatchAt,
  Given      \* bound: the lists of records resolved

(* FieldRule::validate: m > u, and so a field that agrees is evidence for. *)
ASSUME ResolutionAssumption ==
  /\ N \in Nat /\ ReviewAt \in Int /\ MatchAt \in Int /\ ReviewAt <= MatchAt
  /\ Blocking \in BOOLEAN

Indices == 1..N
PairsOf == {p \in Indices \X Indices : p[1] < p[2]}

-----------------------------------------------------------------------------
(* Ruleset::score, over the fields both records have.                      *)
Plus(s, t) == Fraction(s.num * t.den + t.num * s.den, s.den * t.den)

Evidence(rule, s) ==
  Fraction(s.num * rule.agree + (s.den - s.num) * rule.disagree, s.den)

Score(a, b) ==
  LET upTo[i \in 0..Len(Rules)] ==
        IF i = 0 THEN Zero
        ELSE LET rule == Rules[i]
             IN IF rule.field \in DOMAIN a \cap DOMAIN b
                THEN Plus(upTo[i - 1],
                          Evidence(rule, Compare(rule.how, a[rule.field], b[rule.field])))
                ELSE upTo[i - 1]
  IN upTo[Len(Rules)]

Reaches(s, bits) == s.num >= bits * s.den

Decide(score) ==
  IF Reaches(score, MatchAt) THEN "match"
  ELSE IF Reaches(score, ReviewAt) THEN "review" ELSE "nonmatch"

(* candidate_pairs: those that share any key, each once.                   *)
CandidatePairs(records) ==
  {p \in PairsOf : Blocking => Blocks(records[p[1]]) \cap Blocks(records[p[2]]) # {}}

Before(p, q) == p[1] < q[1] \/ (p[1] = q[1] /\ p[2] < q[2])
First(S) == CHOOSE p \in S : \A q \in S \ {p} : Before(p, q)
-----------------------------------------------------------------------------
VARIABLES
  phase,         \* the loop of resolve that is running
  records,
  todo,          \* the pairs that loop has still to look at
  left,          \* the records not yet put in a cluster
  parent, size,  \* UnionFind
  pair,          \* what the roots are asked for
  side, cur, one,\* find: whose root is sought, where it is, the first one's
  review,
  clusters,      \* by_root
  verdict,       \* what each candidate pair is decided to be
  label          \* history: alike for what has been united

forest == <<parent, size>>
search == <<pair, side, cur, one>>
resolution == <<phase, records, todo, left, forest, search, review, clusters, verdict, label>>

Nothing == [i \in Indices |-> {}]
Empty == [i \in Indices |-> [f \in {} |-> 0]]

ResolutionInit ==
  /\ phase = "idle" /\ records = Empty /\ todo = {} /\ left = {}
  /\ parent = [i \in Indices |-> i] /\ size = [i \in Indices |-> 1]
  /\ pair = <<1, 1>> /\ side = 0 /\ cur = 1 /\ one = 1
  /\ review = {} /\ clusters = Nothing
  /\ verdict = [p \in PairsOf |-> "none"] /\ label = [i \in Indices |-> i]

Begin ==
  /\ phase = "idle" /\ phase' = "pairs"
  /\ records' \in Given
  /\ verdict' = [p \in PairsOf |->
       IF p \in CandidatePairs(records') THEN Decide(Score(records'[p[1]], records'[p[2]])) ELSE "none"]
  /\ todo' = CandidatePairs(records')
  /\ UNCHANGED <<left, forest, search, review, clusters, label>>

(* find, for both of a pair: from where it is to the root, halving the     *)
(* path it takes.                                                          *)
Seek(p) == pair' = p /\ side' = 1 /\ cur' = p[1] /\ UNCHANGED one

Halve ==
  /\ side \in {1, 2} /\ parent[cur] # cur
  /\ parent' = [parent EXCEPT ![cur] = parent[parent[cur]]]
  /\ cur' = parent[parent[cur]]
  /\ UNCHANGED <<phase, records, todo, left, size, pair, side, one, review, clusters, verdict, label>>

Arrive ==
  /\ side \in {1, 2} /\ parent[cur] = cur
  /\ side' = side + 1
  /\ one' = IF side = 1 THEN cur ELSE one
  /\ cur' = IF side = 1 THEN pair[2] ELSE cur
  /\ UNCHANGED <<phase, records, todo, left, forest, pair, review, clusters, verdict, label>>

Foremost(p) == p \in todo /\ \A q \in todo \ {p} : Before(p, q)

(* The loop over the candidates: a match unites, a question is kept.       *)
Scored(p) ==
  \/ verdict[p] = "match" /\ Seek(p) /\ UNCHANGED review
  \/ verdict[p] = "review" /\ review' = review \cup {p} /\ UNCHANGED search
  \/ verdict[p] = "nonmatch" /\ UNCHANGED <<review, search>>

Compared ==
  /\ phase = "pairs" /\ side = 0
  /\ \E p \in todo : Foremost(p) /\ todo' = todo \ {p} /\ Scored(p)
  /\ UNCHANGED <<phase, records, left, forest, clusters, verdict, label>>

(* union: the smaller tree goes under the larger.                          *)
Under(child, root) ==
  /\ parent' = [parent EXCEPT ![child] = root]
  /\ size' = [size EXCEPT ![root] = @ + size[child]]

(* Mutant: a record is hung under a record, wherever their roots are.      *)
UnionOfRecords ==
  /\ phase = "pairs" /\ side = 3 /\ side' = 0
  /\ \/ one = cur /\ UNCHANGED <<forest, label>>
     \/ /\ one # cur /\ Under(pair[2], pair[1])
        /\ label' = [i \in Indices |-> IF label[i] = label[cur] THEN label[one] ELSE label[i]]
  /\ UNCHANGED <<phase, records, todo, left, pair, cur, one, review, clusters, verdict>>

Union ==
  /\ phase = "pairs" /\ side = 3 /\ side' = 0
  /\ \/ one = cur /\ UNCHANGED <<forest, label>>
     \/ /\ one # cur
        /\ IF size[one] < size[cur] THEN Under(one, cur) ELSE Under(cur, one)
        /\ label' = [i \in Indices |-> IF label[i] = label[cur] THEN label[one] ELSE label[i]]
  /\ UNCHANGED <<phase, records, todo, left, pair, cur, one, review, clusters, verdict>>

AllCompared ==
  /\ phase = "pairs" /\ side = 0 /\ todo = {}
  /\ phase' = "gather" /\ left' = Indices
  /\ UNCHANGED <<records, todo, forest, search, review, clusters, verdict, label>>

(* Every record to the cluster of its root.                                *)
Gather ==
  /\ phase = "gather" /\ side = 0
  /\ \E i \in left :
       /\ \A j \in left : i <= j
       /\ left' = left \ {i}
       /\ pair' = <<i, i>> /\ side' = 2 /\ cur' = i /\ one' = i
  /\ UNCHANGED <<phase, records, todo, forest, review, clusters, verdict, label>>

Gathered ==
  /\ phase = "gather" /\ side = 3 /\ side' = 0
  /\ clusters' = [clusters EXCEPT ![cur] = @ \cup {pair[2]}]
  /\ UNCHANGED <<phase, records, todo, left, forest, pair, cur, one, review, verdict, label>>

AllGathered ==
  /\ phase = "gather" /\ side = 0 /\ left = {}
  /\ phase' = "retain" /\ todo' = review /\ review' = {}
  /\ UNCHANGED <<records, left, forest, search, clusters, verdict, label>>

(* A pair that something else has united is a question no longer.          *)
Recheck ==
  /\ phase = "retain" /\ side = 0
  /\ \E p \in todo : Foremost(p) /\ todo' = todo \ {p} /\ Seek(p)
  /\ UNCHANGED <<phase, records, left, forest, review, clusters, verdict, label>>

Retained ==
  /\ phase = "retain" /\ side = 3 /\ side' = 0
  /\ review' = IF one # cur THEN review \cup {pair} ELSE review
  /\ UNCHANGED <<phase, records, todo, left, forest, pair, cur, one, clusters, verdict, label>>

Resolved ==
  /\ phase = "retain" /\ side = 0 /\ todo = {} /\ phase' = "done"
  /\ UNCHANGED <<records, todo, left, forest, search, review, clusters, verdict, label>>

ResolutionStep ==
  \/ Halve \/ Arrive \/ Compared \/ Union \/ AllCompared
  \/ Gather \/ Gathered \/ AllGathered \/ Recheck \/ Retained \/ Resolved

ResolutionSpec ==
  ResolutionInit /\ [][Begin \/ ResolutionStep]_resolution

-----------------------------------------------------------------------------
Decided(v) == {p \in PairsOf : verdict[p] = v}

(* What a chain of matches leads to: whatever no set of records that no    *)
(* match leaves can keep out.                                              *)
Unsplit(S) == \A p \in Decided("match") : p[1] \in S <=> p[2] \in S
Chained(i, j) == \A S \in SUBSET Indices : Unsplit(S) /\ i \in S => j \in S

Together(i, j) == \E r \in Indices : {i, j} \subseteq clusters[r]

(* Two records are one entity exactly when a chain of matches joins them.  *)
ClustersAreTheClosure ==
  phase = "done" => \A i, j \in Indices : Together(i, j) <=> Chained(i, j)

(* What is asked is what was in the middle band and nothing else settled:  *)
(* no question is lost, and none is about one entity.                      *)
QuestionsAreOpen ==
  phase = "done" => review = {p \in Decided("review") : ~Chained(p[1], p[2])}

(* Whatever was compared with what, and in which order it was united: the  *)
(* clusters are what the matches say and the questions what they leave.    *)
ResolvesExactly == ClustersAreTheClosure /\ QuestionsAreOpen
=============================================================================
