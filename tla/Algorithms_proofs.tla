-------------------------- MODULE Algorithms_proofs --------------------------
(***************************************************************************)
(* The algorithms, for every input they can be given.                      *)
(*                                                                         *)
(* Resolution: the clusters of resolve are the closure of its matches, and *)
(* it asks what is still open. What has been united has one label, and no  *)
(* set that the matches leave whole parts two of a label; a tree is of one *)
(* label, a label has one root, and a tree grows towards its root, so a    *)
(* halved path never closes on itself. So finding two roots equal is       *)
(* finding two labels equal.                                               *)
(*                                                                         *)
(* Arity: each name asked about ends in what is known or in what is        *)
(* unanswered, batch by batch and pass by pass.                            *)
(*                                                                         *)
(* Calendar: the date of a day, by eras of 400 years, and the day of a     *)
(* date undo one another in every year, and the days follow one another as *)
(* the months' lengths say.                                                *)
(*                                                                         *)
(* Survivor and Belief: what a slot holds by recency, and at each instant  *)
(* of its timeline, is what was heard last of what counts; and the reads   *)
(* of a slot's version log keep the past, agree where nothing tells them   *)
(* apart, and answer the same once a timeline is written down.             *)
(*                                                                         *)
(* Comparing: no letter is matched twice, and two letters that could be    *)
(* matched are not only if one of them is matched with the other or with a *)
(* letter before it (Stable). Of two spellings there is one such matching, *)
(* and turned round it is still such a one: so the letters that the loop   *)
(* over the first claims are those the loop over the second would claim.   *)
(*                                                                         *)
(* Reference: each loop of the oracle is followed turn by turn. One that   *)
(* keeps what scores higher ends with the first of the highest (FirstKept),*)
(* which is what ranking finds; the counts stand in the order their values *)
(* first appear (Tallies); and the facts of a timeline are, at every       *)
(* moment, the spans that have begun by then (Followed).                   *)
(***************************************************************************)
EXTENDS Resolution, Comparing, Arity, Calendar, Belief, Reference, FiniteSetTheorems, WellFoundedInduction, TLAPS

Phases == {"idle", "pairs", "gather", "retain", "done"}
Verdicts == {"match", "review", "nonmatch", "none"}

Typed ==
  /\ phase \in Phases /\ side \in 0..3
  /\ parent \in [Indices -> Indices] /\ label \in [Indices -> Indices]
  /\ size \in [Indices -> Nat]
  /\ verdict \in [PairsOf -> Verdicts]
  /\ todo \subseteq PairsOf /\ review \subseteq PairsOf
  /\ left \subseteq Indices /\ clusters \in [Indices -> SUBSET Indices]
  /\ side # 0 => pair \in Indices \X Indices /\ cur \in Indices
  /\ side \in {2, 3} => one \in Indices

(* Before anything is resolved.                                            *)
Untouched ==
  phase = "idle" =>
    /\ label = [i \in Indices |-> i] /\ side = 0 /\ review = {}
    /\ \A p \in PairsOf : verdict[p] = "none"

(* A tree grows towards its root and has one label, and a label one root.  *)
Rooted ==
  /\ \A x \in Indices : size[x] > 0
  /\ \A x \in Indices : parent[x] # x => size[x] < size[parent[x]]
  /\ \A x \in Indices : label[parent[x]] = label[x]
  /\ \A x, y \in Indices : parent[x] = x /\ parent[y] = y /\ label[x] = label[y] => x = y

(* Only what a chain of matches joins has one label.                       *)
Sound ==
  \A S \in SUBSET Indices : Unsplit(S) =>
    \A x, y \in Indices : label[x] = label[y] => (x \in S <=> y \in S)

(* What is decided to match has one label once it has been united.         *)
InHand(p) == phase = "pairs" /\ (p \in todo \/ (side # 0 /\ p = pair))
United ==
  /\ \A p \in PairsOf : verdict[p] = "match" /\ ~InHand(p) => label[p[1]] = label[p[2]]
  /\ phase = "pairs" /\ side # 0 => pair \in PairsOf /\ verdict[pair] = "match"

(* Where the search of a root is.                                          *)
Searching ==
  /\ side = 1 => phase # "gather" /\ label[cur] = label[pair[1]]
  /\ side \in {2, 3} => label[cur] = label[pair[2]]
  /\ side \in {2, 3} /\ phase # "gather" => parent[one] = one /\ label[one] = label[pair[1]]
  /\ side = 3 => parent[cur] = cur
  /\ side # 0 => phase \in {"pairs", "gather", "retain"}

(* A record is in the cluster of a root of its label, once it is in one.   *)
Placed(i) ==
  \/ phase \in {"retain", "done"}
  \/ phase = "gather" /\ i \notin left /\ ~(side # 0 /\ pair[2] = i)
Clustered ==
  /\ phase \in {"idle", "pairs"} => clusters = Nothing
  /\ \A r, i \in Indices : i \in clusters[r] => parent[r] = r /\ label[r] = label[i]
  /\ \A i \in Indices : Placed(i) => \E r \in Indices : i \in clusters[r]

(* What is kept to be asked.                                               *)
Open(p) == verdict[p] = "review" /\ label[p[1]] # label[p[2]]
Asking ==
  /\ phase = "pairs" => \A p \in PairsOf : p \in review <=> verdict[p] = "review" /\ p \notin todo
  /\ phase = "gather" => \A p \in PairsOf : p \in review <=> verdict[p] = "review"
  /\ phase = "retain" =>
       /\ \A p \in todo : verdict[p] = "review"
       /\ side # 0 => pair \in PairsOf /\ verdict[pair] = "review"
       /\ \A p \in PairsOf :
            p \in review \/ (p \in todo /\ Open(p)) \/ (side # 0 /\ p = pair /\ Open(p)) <=> Open(p)
  /\ phase = "done" => \A p \in PairsOf : p \in review <=> Open(p)

IInv ==
  Typed /\ Untouched /\ Rooted /\ Sound /\ United /\ Searching /\ Clustered /\ Asking

-----------------------------------------------------------------------------
LEMMA InitHolds == ResolutionInit => IInv
  <1> SUFFICES ASSUME ResolutionInit PROVE IInv OBVIOUS
  <1> USE DEF ResolutionInit
  <1>1. Typed BY DEF Typed, Phases, Verdicts, Nothing, PairsOf
  <1>2. Untouched /\ Rooted BY DEF Untouched, Rooted
  <1>3. Sound BY DEF Sound
  <1>4. United BY DEF United, InHand
  <1>5. Searching BY DEF Searching
  <1>6. Clustered BY DEF Clustered, Placed, Nothing
  <1>7. Asking BY DEF Asking
  <1> QED BY <1>1, <1>2, <1>3, <1>4, <1>5, <1>6, <1>7 DEF IInv

(* A pair is of two records.                                               *)
LEMMA OfRecords == \A p \in PairsOf : p[1] \in Indices /\ p[2] \in Indices /\ p \in Indices \X Indices
  BY DEF PairsOf

(* Steps that neither unite nor decide leave the trees and labels alone.   *)
LEMMA ForestKept ==
  ASSUME Rooted, Sound, UNCHANGED <<forest, label, verdict>>
  PROVE  Rooted' /\ Sound'
  BY DEF Rooted, Sound, Unsplit, Decided, forest

LEMMA BeginHolds == IInv /\ Begin => IInv'
  <1> SUFFICES ASSUME IInv, Begin PROVE IInv' OBVIOUS
  <1> USE DEF Begin, forest, search
  <1>1. Typed'
    <2>1. \A p \in PairsOf : verdict'[p] \in Verdicts
      BY DEF Decide, Verdicts
    <2>2. verdict' \in [PairsOf -> Verdicts]
      BY <2>1
    <2>3. todo' \subseteq PairsOf
      BY DEF CandidatePairs
    <2> QED BY <2>2, <2>3 DEF IInv, Typed, Phases
  <1>2. Untouched'
    BY DEF Untouched
  <1>3. Rooted'
    BY DEF IInv, Rooted
  <1>4. Sound'
    <2>1. label' = [i \in Indices |-> i]
      BY DEF IInv, Untouched
    <2> QED BY <2>1 DEF Sound
  <1>5. United'
    <2>1. \A p \in PairsOf : verdict'[p] = "match" => p \in todo'
      OBVIOUS
    <2>2. side' = 0
      BY DEF IInv, Untouched
    <2> QED BY <2>1, <2>2 DEF United, InHand
  <1>6. Searching'
    BY DEF IInv, Searching, Untouched
  <1>7. Clustered'
    BY DEF IInv, Clustered, Placed
  <1>8. Asking'
    <2>1. \A p \in PairsOf : verdict'[p] = "review" => p \in todo'
      OBVIOUS
    <2> QED BY <2>1 DEF IInv, Untouched, Asking
  <1> QED BY <1>1, <1>2, <1>3, <1>4, <1>5, <1>6, <1>7, <1>8 DEF IInv

(* Halving: the new parent is further up the same tree, so it is neither   *)
(* the record itself nor of another label.                                 *)
LEMMA HalveHolds == IInv /\ Halve => IInv'
  <1> SUFFICES ASSUME IInv, Halve PROVE IInv' OBVIOUS
  <1> USE DEF Halve
  <1> DEFINE up == parent[cur]
             over == parent[up]
  <1>1. /\ cur \in Indices /\ up \in Indices /\ over \in Indices
        /\ parent \in [Indices -> Indices] /\ size \in [Indices -> Nat]
    BY DEF IInv, Typed
  <1>2. /\ parent' = [parent EXCEPT ![cur] = over] /\ cur' = over
        /\ size' = size /\ label' = label
    OBVIOUS
  <1>3. size[cur] < size[over] /\ label[over] = label[cur]
    BY <1>1 DEF IInv, Rooted
  <1>4. over # cur
    BY <1>1, <1>3
  <1> HIDE DEF up, over
  <1>5. Typed'
    BY <1>1, <1>2 DEF IInv, Typed
  <1>6. Untouched'
    BY DEF IInv, Untouched
  <1>7. \A x \in Indices : parent'[x] = x <=> parent[x] = x
    BY <1>1, <1>2, <1>4
  <1>8. Rooted'
    BY <1>1, <1>2, <1>3, <1>7 DEF IInv, Rooted
  <1>9. Sound'
    BY DEF IInv, Sound, Unsplit, Decided
  <1>10. United'
    BY DEF IInv, United, InHand
  <1>11. Searching'
    BY <1>1, <1>2, <1>3, <1>7 DEF IInv, Typed, Searching
  <1>12. Clustered'
    BY <1>2, <1>7 DEF IInv, Clustered, Placed
  <1>13. Asking'
    BY DEF IInv, Asking, Open
  <1> QED BY <1>5, <1>6, <1>8, <1>9, <1>10, <1>11, <1>12, <1>13 DEF IInv

LEMMA ArriveHolds == IInv /\ Arrive => IInv'
  <1> SUFFICES ASSUME IInv, Arrive PROVE IInv' OBVIOUS
  <1> USE DEF Arrive
  <1>1. Typed'
    BY DEF IInv, Typed, forest
  <1>2. Untouched'
    BY DEF IInv, Untouched
  <1>3. Rooted' /\ Sound'
    BY ForestKept DEF IInv
  <1>4. United'
    BY DEF IInv, United, InHand
  <1>5. Searching'
    <2>1. CASE side = 1
      BY <2>1 DEF IInv, Searching, Typed, forest
    <2>2. CASE side = 2
      BY <2>2 DEF IInv, Searching, Typed, forest
    <2> QED BY <2>1, <2>2
  <1>6. Clustered'
    BY DEF IInv, Clustered, Placed, forest, Searching
  <1>7. Asking'
    BY DEF IInv, Asking, Open
  <1> QED BY <1>1, <1>2, <1>3, <1>4, <1>5, <1>6, <1>7 DEF IInv

LEMMA ComparedHolds == IInv /\ Compared => IInv'
  <1> SUFFICES ASSUME IInv, Compared PROVE IInv' OBVIOUS
  <1>1. PICK p \in todo : todo' = todo \ {p} /\ Scored(p)
    BY DEF Compared
  <1>2. p \in PairsOf /\ p[1] \in Indices /\ p[2] \in Indices /\ p \in Indices \X Indices
    BY OfRecords DEF IInv, Typed
  <1>3. /\ phase = "pairs" /\ phase' = phase /\ side = 0
        /\ UNCHANGED <<parent, size, label, verdict, left, clusters>>
    BY DEF Compared, forest
  <1>4. \/ verdict[p] = "match" /\ pair' = p /\ side' = 1 /\ cur' = p[1] /\ review' = review
        \/ verdict[p] = "review" /\ review' = review \cup {p} /\ side' = 0
        \/ verdict[p] = "nonmatch" /\ review' = review /\ side' = 0
    BY <1>1, <1>3 DEF Scored, Seek, search
  <1>5. Typed'
    BY <1>1, <1>2, <1>3, <1>4 DEF IInv, Typed
  <1>6. Untouched'
    BY <1>3 DEF Untouched
  <1>7. Rooted' /\ Sound'
    BY <1>3, ForestKept DEF IInv, forest
  <1>8. United'
    BY <1>1, <1>2, <1>3, <1>4 DEF IInv, United, InHand
  <1>9. Searching'
    BY <1>3, <1>4 DEF Searching
  <1>10. Clustered'
    BY <1>3 DEF IInv, Clustered, Placed
  <1>11. Asking'
    BY <1>1, <1>2, <1>3, <1>4 DEF IInv, Asking
  <1> QED BY <1>5, <1>6, <1>7, <1>8, <1>9, <1>10, <1>11 DEF IInv

(* Two roots of two labels become one: the tree that is hung is the lesser *)
(* of the two, and both labels are now the one.                            *)
LEMMA UnionHolds == IInv /\ Union => IInv'
  <1> SUFFICES ASSUME IInv, Union PROVE IInv' OBVIOUS
  <1>1. /\ phase = "pairs" /\ phase' = phase /\ side = 3 /\ side' = 0
        /\ UNCHANGED <<todo, left, pair, review, clusters, verdict>>
    BY DEF Union
  <1>2. /\ pair \in PairsOf /\ pair[1] \in Indices /\ pair[2] \in Indices
        /\ cur \in Indices /\ one \in Indices /\ verdict[pair] = "match"
    BY <1>1, OfRecords DEF IInv, Typed, United
  <1>3. /\ parent[one] = one /\ parent[cur] = cur
        /\ label[one] = label[pair[1]] /\ label[cur] = label[pair[2]]
    BY <1>1 DEF IInv, Searching
  <1>4. /\ parent \in [Indices -> Indices] /\ label \in [Indices -> Indices]
        /\ size \in [Indices -> Nat]
    BY DEF IInv, Typed
  <1>5. Untouched' /\ Searching'
    BY <1>1 DEF Untouched, Searching
  <1>6. Clustered'
    BY <1>1 DEF IInv, Clustered, Placed, Nothing
  <1>7. Asking'
    BY <1>1 DEF IInv, Asking
  <1>8. \A x, y \in Indices : label[x] = label[y] => label'[x] = label'[y]
    BY <1>4 DEF Union
  <1>9. label'[pair[1]] = label'[pair[2]]
    BY <1>2, <1>3, <1>4 DEF Union
  <1>10. United'
    BY <1>1, <1>2, <1>8, <1>9, OfRecords DEF IInv, United, InHand
  <1>11. Sound'
    <2> SUFFICES ASSUME NEW S \in SUBSET Indices, Unsplit(S)', NEW x \in Indices, NEW y \in Indices,
                        label'[x] = label'[y]
                 PROVE  x \in S <=> y \in S
      BY DEF Sound
    <2>1. Unsplit(S)
      BY <1>1 DEF Unsplit, Decided
    <2>2. \A v, w \in Indices : label[v] = label[w] => (v \in S <=> w \in S)
      BY <2>1 DEF IInv, Sound
    <2>3. pair[1] \in S <=> pair[2] \in S
      BY <1>2, <2>1 DEF Unsplit, Decided
    <2>4. one \in S <=> cur \in S
      BY <1>2, <1>3, <2>2, <2>3
    <2>5. \/ label[x] = label[y]
          \/ label[x] = label[cur] /\ label[y] = label[one]
          \/ label[x] = label[one] /\ label[y] = label[cur]
      BY <1>2, <1>4 DEF Union
    <2> QED BY <1>2, <2>2, <2>4, <2>5
  <1>12. CASE one = cur
    <2>1. Typed'
      BY <1>1, <1>12 DEF IInv, Typed, Union, forest
    <2>2. Rooted'
      BY <1>12 DEF IInv, Rooted, Union, forest
    <2> QED BY <1>5, <1>6, <1>7, <1>10, <1>11, <2>1, <2>2 DEF IInv
  <1>13. CASE one # cur
    <2>1. PICK child \in {one, cur}, root \in {one, cur} :
            child # root /\ Under(child, root) /\ size[child] <= size[root]
      BY <1>2, <1>4, <1>13 DEF Union
    <2>2. /\ child \in Indices /\ root \in Indices /\ parent[child] = child /\ parent[root] = root
          /\ parent' = [parent EXCEPT ![child] = root]
          /\ size' = [size EXCEPT ![root] = size[root] + size[child]]
      BY <1>2, <1>3, <2>1 DEF Under
    <2>3. label' = [i \in Indices |-> IF label[i] = label[cur] THEN label[one] ELSE label[i]]
      BY <1>13 DEF Union
    <2>4. label'[child] = label[one] /\ label'[root] = label[one]
      BY <1>2, <1>4, <2>1, <2>3
    <2>5. Typed'
      BY <1>1, <1>2, <1>4, <2>2, <2>3 DEF IInv, Typed
    <2>6. Rooted'
      <3>1. \A x \in Indices : size'[x] > 0
        BY <1>4, <2>2 DEF IInv, Rooted
      <3>2. \A x \in Indices : parent'[x] # x => size'[x] < size'[parent'[x]]
        <4> TAKE x \in Indices
        <4> HAVE parent'[x] # x
        <4>1. x # root
          BY <1>4, <2>1, <2>2
        <4>2. CASE x = child
          BY <1>4, <2>1, <2>2, <4>2 DEF IInv, Rooted
        <4>3. CASE x # child
          <5>1. /\ parent'[x] = parent[x] /\ size'[x] = size[x] /\ size[x] < size[parent[x]]
                /\ parent[x] \in Indices
            BY <1>4, <2>2, <4>1, <4>3 DEF IInv, Rooted
          <5>2. size[parent[x]] <= size'[parent[x]]
            BY <1>4, <2>2, <5>1
          <5> QED BY <1>4, <2>2, <5>1, <5>2
        <4> QED BY <4>2, <4>3
      <3>3. \A x \in Indices : label'[parent'[x]] = label'[x]
        BY <1>4, <1>8, <2>2, <2>4 DEF IInv, Rooted
      <3>4. ASSUME NEW x \in Indices, NEW y \in Indices,
                   parent'[x] = x, parent'[y] = y, label'[x] = label'[y]
            PROVE  x = y
        <4>1. parent[x] = x /\ parent[y] = y /\ x # child /\ y # child
          BY <1>4, <2>1, <2>2, <3>4
        <4>2. \/ label[x] = label[y]
              \/ label[x] \in {label[one], label[cur]} /\ label[y] \in {label[one], label[cur]}
          BY <2>3, <3>4
        <4>3. CASE label[x] = label[y]
          BY <4>1, <4>3 DEF IInv, Rooted
        <4>4. CASE label[x] \in {label[one], label[cur]} /\ label[y] \in {label[one], label[cur]}
          BY <1>2, <1>3, <2>1, <4>1, <4>4 DEF IInv, Rooted
        <4> QED BY <4>2, <4>3, <4>4
      <3> QED BY <3>1, <3>2, <3>3, <3>4 DEF Rooted
    <2> QED BY <1>5, <1>6, <1>7, <1>10, <1>11, <2>5, <2>6 DEF IInv
  <1> QED BY <1>12, <1>13

LEMMA AllComparedHolds == IInv /\ AllCompared => IInv'
  <1> SUFFICES ASSUME IInv, AllCompared PROVE IInv' OBVIOUS
  <1> USE DEF AllCompared
  <1>1. Typed'
    BY DEF IInv, Typed, Phases, forest, search
  <1>2. Rooted' /\ Sound'
    BY ForestKept DEF IInv
  <1>3. Untouched' /\ Searching' /\ United'
    BY DEF IInv, Untouched, Searching, United, InHand, forest, search
  <1>4. Clustered'
    BY DEF IInv, Clustered, Placed, Nothing, forest
  <1>5. Asking'
    BY DEF IInv, Asking
  <1> QED BY <1>1, <1>2, <1>3, <1>4, <1>5 DEF IInv

LEMMA GatherHolds == IInv /\ Gather => IInv'
  <1> SUFFICES ASSUME IInv, Gather PROVE IInv' OBVIOUS
  <1>1. PICK i \in left : left' = left \ {i} /\ pair' = <<i, i>> /\ side' = 2 /\ cur' = i /\ one' = i
    BY DEF Gather
  <1>2. /\ phase = "gather" /\ phase' = phase /\ side = 0 /\ i \in Indices
        /\ UNCHANGED <<todo, parent, size, review, clusters, verdict, label>>
    BY DEF Gather, IInv, Typed, forest
  <1>3. Typed'
    BY <1>1, <1>2 DEF IInv, Typed
  <1>4. Rooted' /\ Sound'
    BY <1>2, ForestKept DEF IInv, forest
  <1>5. Untouched' /\ Searching' /\ United'
    BY <1>1, <1>2 DEF IInv, Untouched, Searching, United, InHand
  <1>6. Clustered'
    BY <1>1, <1>2 DEF IInv, Clustered, Placed
  <1>7. Asking'
    BY <1>2 DEF IInv, Asking
  <1> QED BY <1>3, <1>4, <1>5, <1>6, <1>7 DEF IInv

LEMMA GatheredHolds == IInv /\ Gathered => IInv'
  <1> SUFFICES ASSUME IInv, Gathered PROVE IInv' OBVIOUS
  <1>1. /\ phase = "gather" /\ phase' = phase /\ side = 3 /\ side' = 0
        /\ clusters' = [clusters EXCEPT ![cur] = @ \cup {pair[2]}]
        /\ UNCHANGED <<todo, left, parent, size, pair, review, verdict, label>>
    BY DEF Gathered, forest
  <1>2. /\ cur \in Indices /\ pair[2] \in Indices /\ clusters \in [Indices -> SUBSET Indices]
        /\ parent[cur] = cur /\ label[cur] = label[pair[2]]
    BY <1>1 DEF IInv, Typed, Searching
  <1>3. Typed'
    BY <1>1, <1>2 DEF IInv, Typed
  <1>4. Rooted' /\ Sound'
    BY <1>1, ForestKept DEF IInv, forest
  <1>5. Untouched' /\ Searching' /\ United'
    BY <1>1 DEF IInv, Untouched, Searching, United, InHand
  <1>6. Clustered'
    <2>1. \A r, i \in Indices : i \in clusters'[r] <=> i \in clusters[r] \/ (r = cur /\ i = pair[2])
      BY <1>1, <1>2
    <2>2. \A i \in Indices : Placed(i)' => Placed(i) \/ i = pair[2]
      BY <1>1 DEF Placed
    <2> QED BY <1>1, <1>2, <2>1, <2>2 DEF IInv, Clustered
  <1>7. Asking'
    BY <1>1 DEF IInv, Asking
  <1> QED BY <1>3, <1>4, <1>5, <1>6, <1>7 DEF IInv

LEMMA AllGatheredHolds == IInv /\ AllGathered => IInv'
  <1> SUFFICES ASSUME IInv, AllGathered PROVE IInv' OBVIOUS
  <1> USE DEF AllGathered
  <1>1. Typed'
    BY DEF IInv, Typed, Phases, forest, search
  <1>2. Rooted' /\ Sound'
    BY ForestKept DEF IInv
  <1>3. Untouched' /\ Searching' /\ United'
    BY DEF IInv, Untouched, Searching, United, InHand, forest, search
  <1>4. Clustered'
    BY DEF IInv, Clustered, Placed, forest
  <1>5. Asking'
    BY DEF IInv, Typed, Asking, Open, search
  <1> QED BY <1>1, <1>2, <1>3, <1>4, <1>5 DEF IInv

LEMMA RecheckHolds == IInv /\ Recheck => IInv'
  <1> SUFFICES ASSUME IInv, Recheck PROVE IInv' OBVIOUS
  <1>1. PICK p \in todo : todo' = todo \ {p} /\ pair' = p /\ side' = 1 /\ cur' = p[1]
    BY DEF Recheck, Seek
  <1>2. /\ phase = "retain" /\ phase' = phase /\ side = 0 /\ p \in PairsOf
        /\ UNCHANGED <<left, parent, size, review, clusters, verdict, label>>
    BY <1>1 DEF Recheck, IInv, Typed, forest
  <1>3. Typed'
    BY <1>1, <1>2, OfRecords DEF IInv, Typed
  <1>4. Rooted' /\ Sound'
    BY <1>2, ForestKept DEF IInv, forest
  <1>5. Untouched' /\ Searching' /\ United'
    BY <1>1, <1>2 DEF IInv, Untouched, Searching, United, InHand
  <1>6. Clustered'
    BY <1>2 DEF IInv, Clustered, Placed
  <1>7. Asking'
    BY <1>1, <1>2 DEF IInv, Asking, Open
  <1> QED BY <1>3, <1>4, <1>5, <1>6, <1>7 DEF IInv

(* Both roots are found: they are one root exactly when the labels are one.*)
LEMMA RetainedHolds == IInv /\ Retained => IInv'
  <1> SUFFICES ASSUME IInv, Retained PROVE IInv' OBVIOUS
  <1>1. /\ phase = "retain" /\ phase' = phase /\ side = 3 /\ side' = 0
        /\ review' = IF one # cur THEN review \cup {pair} ELSE review
        /\ UNCHANGED <<todo, left, parent, size, pair, clusters, verdict, label>>
    BY DEF Retained, forest
  <1>2. /\ pair \in PairsOf /\ verdict[pair] = "review" /\ cur \in Indices /\ one \in Indices
        /\ parent[one] = one /\ parent[cur] = cur
        /\ label[one] = label[pair[1]] /\ label[cur] = label[pair[2]]
    BY <1>1 DEF IInv, Typed, Searching, Asking
  <1>3. one # cur <=> Open(pair)
    BY <1>2 DEF IInv, Rooted, Open
  <1>4. Typed'
    BY <1>1, <1>2 DEF IInv, Typed
  <1>5. Rooted' /\ Sound'
    BY <1>1, ForestKept DEF IInv, forest
  <1>6. Untouched' /\ Searching' /\ United'
    BY <1>1 DEF IInv, Untouched, Searching, United, InHand
  <1>7. Clustered'
    BY <1>1 DEF IInv, Clustered, Placed
  <1>8. Asking'
    <2>1. \A p \in PairsOf : Open(p)' <=> Open(p)
      BY <1>1 DEF Open
    <2>2. \A p \in PairsOf :
            p \in review \/ (p \in todo /\ Open(p)) \/ (p = pair /\ Open(p)) <=> Open(p)
      BY <1>1 DEF IInv, Asking
    <2>3. \A p \in PairsOf : p \in review' <=> p \in review \/ (p = pair /\ Open(p))
      BY <1>1, <1>2, <1>3
    <2>4. \A p \in todo' : verdict'[p] = "review"
      BY <1>1 DEF IInv, Asking
    <2> QED BY <1>1, <2>1, <2>2, <2>3, <2>4 DEF Asking
  <1> QED BY <1>4, <1>5, <1>6, <1>7, <1>8 DEF IInv

LEMMA ResolvedHolds == IInv /\ Resolved => IInv'
  <1> SUFFICES ASSUME IInv, Resolved PROVE IInv' OBVIOUS
  <1> USE DEF Resolved
  <1>1. Typed'
    BY DEF IInv, Typed, Phases, forest, search
  <1>2. Rooted' /\ Sound'
    BY ForestKept DEF IInv
  <1>3. Untouched' /\ Searching' /\ United'
    BY DEF IInv, Untouched, Searching, United, InHand, forest, search
  <1>4. Clustered'
    BY DEF IInv, Clustered, Placed, forest
  <1>5. Asking'
    BY DEF IInv, Asking, Open
  <1> QED BY <1>1, <1>2, <1>3, <1>4, <1>5 DEF IInv

LEMMA StepHolds == IInv /\ [Begin \/ ResolutionStep]_resolution => IInv'
  <1> SUFFICES ASSUME IInv, [Begin \/ ResolutionStep]_resolution PROVE IInv' OBVIOUS
  <1>1. CASE Begin \/ ResolutionStep
    BY <1>1, BeginHolds, HalveHolds, ArriveHolds, ComparedHolds, UnionHolds, AllComparedHolds,
       GatherHolds, GatheredHolds, AllGatheredHolds, RecheckHolds, RetainedHolds, ResolvedHolds
       DEF ResolutionStep
  <1>2. CASE UNCHANGED resolution
    <2>1. Typed' /\ Untouched' /\ Rooted' /\ Sound'
      BY <1>2 DEF IInv, Typed, Untouched, Rooted, Sound, Unsplit, Decided, resolution, forest, search
    <2>2. United' /\ Searching'
      BY <1>2 DEF IInv, United, InHand, Searching, resolution, forest, search
    <2>3. Clustered' /\ Asking'
      BY <1>2 DEF IInv, Clustered, Placed, Asking, Open, resolution, forest, search
    <2> QED BY <2>1, <2>2, <2>3 DEF IInv
  <1> QED BY <1>1, <1>2

LEMMA Inductive == ResolutionSpec => []IInv
  BY InitHolds, StepHolds, PTL DEF ResolutionSpec

-----------------------------------------------------------------------------
(* A label is a chain of matches, once every match has been united.        *)
LEMMA LabelsAreChains ==
  ASSUME IInv, phase \in {"gather", "retain", "done"}, NEW i \in Indices, NEW j \in Indices
  PROVE  Chained(i, j) <=> label[i] = label[j]
  <1>1. ASSUME label[i] = label[j] PROVE Chained(i, j)
    BY <1>1 DEF Chained, IInv, Sound
  <1>2. ASSUME Chained(i, j) PROVE label[i] = label[j]
    <2> DEFINE S == {x \in Indices : label[x] = label[i]}
    <2>1. Unsplit(S)
      BY OfRecords DEF Unsplit, Decided, IInv, United, InHand
    <2>2. S \in SUBSET Indices /\ i \in S
      OBVIOUS
    <2>3. j \in S
      BY <1>2, <2>1, <2>2 DEF Chained
    <2> QED BY <2>3
  <1> QED BY <1>1, <1>2

(* Two records are in one cluster exactly when a chain of matches joins    *)
(* them, for any records, rules, blocking and thresholds.                  *)
THEOREM ClustersClosed == ResolutionSpec => []ClustersAreTheClosure
  <1>1. IInv => ClustersAreTheClosure
    <2> SUFFICES ASSUME IInv, phase = "done", NEW i \in Indices, NEW j \in Indices
                 PROVE  Together(i, j) <=> Chained(i, j)
      BY DEF ClustersAreTheClosure
    <2>1. Chained(i, j) <=> label[i] = label[j]
      BY LabelsAreChains
    <2>2. Together(i, j) <=> label[i] = label[j]
      <3>1. PICK r \in Indices : i \in clusters[r]
        BY DEF IInv, Clustered, Placed
      <3>2. PICK s \in Indices : j \in clusters[s]
        BY DEF IInv, Clustered, Placed
      <3>3. \A q, k \in Indices : k \in clusters[q] => parent[q] = q /\ label[q] = label[k]
        BY DEF IInv, Clustered
      <3>4. label[i] = label[j] => r = s
        BY <3>1, <3>2, <3>3 DEF IInv, Rooted
      <3> QED BY <3>1, <3>2, <3>3, <3>4 DEF Together
    <2> QED BY <2>1, <2>2
  <1> QED BY <1>1, Inductive, PTL

(* What is asked is every pair in the middle band that no chain of matches *)
(* settles, and no other.                                                  *)
THEOREM QuestionsOpen == ResolutionSpec => []QuestionsAreOpen
  <1>1. IInv => QuestionsAreOpen
    <2> SUFFICES ASSUME IInv, phase = "done"
                 PROVE  review = {p \in Decided("review") : ~Chained(p[1], p[2])}
      BY DEF QuestionsAreOpen
    <2>1. review \subseteq PairsOf
      BY DEF IInv, Typed
    <2>2. \A p \in PairsOf : p \in review <=> verdict[p] = "review" /\ label[p[1]] # label[p[2]]
      BY DEF IInv, Asking, Open
    <2>3. \A p \in PairsOf : Chained(p[1], p[2]) <=> label[p[1]] = label[p[2]]
      BY OfRecords, LabelsAreChains
    <2>4. ASSUME NEW p \in PairsOf
          PROVE  p \in review <=> p \in {q \in Decided("review") : ~Chained(q[1], q[2])}
      BY <2>2, <2>3 DEF Decided
    <2>5. {q \in Decided("review") : ~Chained(q[1], q[2])} \subseteq PairsOf
      BY DEF Decided
    <2> QED BY <2>1, <2>4, <2>5
  <1> QED BY <1>1, Inductive, PTL

(* For any number of records, rules, blocking and thresholds, the clusters *)
(* and the questions are exactly what the decided pairs say.               *)
THEOREM ResolvedExactly == ResolutionSpec => []ResolvesExactly
  BY ClustersClosed, QuestionsOpen, PTL DEF ResolvesExactly

-----------------------------------------------------------------------------
(* Asking whether an attribute holds one value at a time (Arity).          *)

(* What each pass has still to ask about, and what it has got: of the names*)
(* it has asked about, each is in exactly one of the two.                  *)
AllOf(p) == IF p = "context" THEN Contested ELSE Attributes
Told(p) ==
  /\ DOMAIN known[p] \cup unanswered[p] = Asked(p)
  /\ DOMAIN known[p] \cap unanswered[p] = {}

ArityInv ==
  /\ pass \in {"waits", "context", "bare", "done"}
  /\ DOMAIN known = Passes /\ DOMAIN unanswered = Passes /\ DOMAIN calls = Passes
  /\ pass = "waits" => ahead = {}
  /\ pass \in Passes => ahead \subseteq AllOf(pass)
  /\ pass # "done" => \A p \in Passes : Told(p)
  /\ AnswersAddUp

LEMMA ArityStarts == ArityInit => ArityInv
BY DEF ArityInit, ArityInv, AnswersAddUp, Told, Asked, Passes, NoName

(* A batch moves its names from those ahead to those asked about, and each *)
(* to what is known or to what is unanswered.                              *)
LEMMA BatchCounted ==
  ASSUME ArityInv, AskBatch
  PROVE  ArityInv'
<1> USE DEF Passes
<1>1. pass \in Passes /\ pass' = pass /\ ahead' = ahead \ NextBatch /\ NextBatch \subseteq ahead
  BY DEF AskBatch, NextBatch
<1>2. ahead \subseteq AllOf(pass) /\ \A p \in Passes : Told(p)
  BY <1>1 DEF ArityInv
<1>3. /\ DOMAIN known' = Passes /\ DOMAIN unanswered' = Passes /\ DOMAIN calls' = Passes
  BY DEF AskBatch, ArityInv
<1>4. \E told \in SUBSET NextBatch :
        /\ DOMAIN known'[pass] = DOMAIN known[pass] \cup told
        /\ unanswered'[pass] = unanswered[pass] \cup (NextBatch \ told)
        /\ \A p \in Passes \ {pass} : known'[p] = known[p] /\ unanswered'[p] = unanswered[p]
  <2>1. CASE unanswered' = [unanswered EXCEPT ![pass] = @ \cup NextBatch] /\ UNCHANGED known
    <3>1. unanswered'[pass] = unanswered[pass] \cup (NextBatch \ {})
      BY <2>1, <1>1 DEF ArityInv
    <3>2. \A p \in Passes \ {pass} : unanswered'[p] = unanswered[p]
      BY <2>1, <1>1 DEF ArityInv
    <3>3. DOMAIN known'[pass] = DOMAIN known[pass] \cup {} /\ \A p \in Passes \ {pass} : known'[p] = known[p]
      BY <2>1
    <3>4. {} \in SUBSET NextBatch
      OBVIOUS
    <3> QED BY <3>1, <3>2, <3>3, <3>4
  <2>2. ASSUME NEW of \in SUBSET NextBatch, NEW says \in [of -> Said],
               LET told == {n \in of : Claim(says[n]) # {}} IN
               /\ known' = [known EXCEPT ![pass] =
                    [n \in DOMAIN @ \cup told |-> IF n \in told THEN CHOOSE c \in Claim(says[n]) : TRUE ELSE @[n]]]
               /\ unanswered' = [unanswered EXCEPT ![pass] = @ \cup (NextBatch \ told)]
        PROVE  \E told \in SUBSET NextBatch :
                 /\ DOMAIN known'[pass] = DOMAIN known[pass] \cup told
                 /\ unanswered'[pass] = unanswered[pass] \cup (NextBatch \ told)
                 /\ \A p \in Passes \ {pass} : known'[p] = known[p] /\ unanswered'[p] = unanswered[p]
    <3> DEFINE told == {n \in of : Claim(says[n]) # {}}
               kept == [n \in DOMAIN known[pass] \cup told |->
                          IF n \in told THEN CHOOSE c \in Claim(says[n]) : TRUE ELSE known[pass][n]]
    <3>1. told \in SUBSET NextBatch
      BY <2>2
    <3>2. known' = [known EXCEPT ![pass] = kept] /\ DOMAIN kept = DOMAIN known[pass] \cup told
      BY <2>2
    <3>3. unanswered' = [unanswered EXCEPT ![pass] = unanswered[pass] \cup (NextBatch \ told)]
      BY <2>2
    <3> HIDE DEF told, kept
    <3>4. known'[pass] = kept /\ \A p \in Passes \ {pass} : known'[p] = known[p]
      BY <3>2, <1>1 DEF ArityInv
    <3>5. /\ unanswered'[pass] = unanswered[pass] \cup (NextBatch \ told)
          /\ \A p \in Passes \ {pass} : unanswered'[p] = unanswered[p]
      BY <3>3, <1>1 DEF ArityInv
    <3> QED BY <3>1, <3>2, <3>4, <3>5
  <2> QED BY <2>1, <2>2 DEF AskBatch
<1>5. PICK told \in SUBSET NextBatch :
        /\ DOMAIN known'[pass] = DOMAIN known[pass] \cup told
        /\ unanswered'[pass] = unanswered[pass] \cup (NextBatch \ told)
        /\ \A p \in Passes \ {pass} : known'[p] = known[p] /\ unanswered'[p] = unanswered[p]
  BY <1>4
<1>6. ASSUME NEW p \in Passes PROVE Told(p)'
  <2>1. CASE p = pass
    <3>1. Asked(p) = AllOf(p) \ ahead /\ Asked(p)' = AllOf(p) \ ahead'
      BY <2>1, <1>1 DEF Asked, AllOf
    <3>2. Asked(p)' = Asked(p) \cup NextBatch /\ Asked(p) \cap NextBatch = {}
      BY <3>1, <1>1, <1>2, <2>1
    <3> QED BY <3>2, <1>5, <1>2, <2>1 DEF Told
  <2>2. CASE p # pass
    <3>1. Asked(p)' = Asked(p)
      BY <2>2, <1>1 DEF Asked
    <3> QED BY <3>1, <2>2, <1>5, <1>2 DEF Told
  <2> QED BY <2>1, <2>2
<1>7. AnswersAddUp'
  BY <1>6, <1>1 DEF AnswersAddUp, Told
<1> QED BY <1>1, <1>2, <1>3, <1>6, <1>7 DEF ArityInv, AllOf

LEMMA ArityCombined ==
  ASSUME ArityAssumption, ArityInv, Combine
  PROVE  ArityInv'
<1> USE DEF Passes
<1>1. /\ pass = "bare" /\ ahead = {} /\ pass' = "done" /\ ahead' = ahead
      /\ unanswered' = unanswered /\ calls' = calls
      /\ known' = [known EXCEPT !["bare"] = Or(known["context"], known["bare"])]
  BY DEF Combine
<1>2. DOMAIN known = Passes /\ DOMAIN unanswered = Passes /\ DOMAIN calls = Passes
  BY DEF ArityInv
<1>3. known'["context"] = known["context"] /\ known'["bare"] = Or(known["context"], known["bare"])
  BY <1>1, <1>2
<1>4. DOMAIN known["context"] \subseteq Contested
  BY <1>1 DEF ArityInv, Told, Asked
<1>5. /\ DOMAIN known["bare"] \cup unanswered["bare"] = Attributes
      /\ DOMAIN known["bare"] \cap unanswered["bare"] = {}
  BY <1>1 DEF ArityInv, Told, Asked
<1>6. /\ DOMAIN known'["bare"] = DOMAIN known["context"] \cup DOMAIN known["bare"]
      /\ \A n \in DOMAIN known["context"] : known'["bare"][n] = known["context"][n]
  BY <1>3 DEF Or
<1>7. AnswersAddUp'
  BY <1>1, <1>3, <1>4, <1>5, <1>6 DEF AnswersAddUp, ArityAssumption
<1>8. DOMAIN known' = Passes
  BY <1>1, <1>2
<1> QED BY <1>1, <1>2, <1>7, <1>8 DEF ArityInv

LEMMA ArityGoesOn ==
  ASSUME ArityAssumption, ArityInv, [ArityStep]_arity
  PROVE  ArityInv'
<1>1. CASE AskInContext
  BY <1>1 DEF AskInContext, ArityInv, AnswersAddUp, Told, Asked, AllOf, Passes
<1>2. CASE AskBare
  BY <1>2 DEF AskBare, ArityInv, AnswersAddUp, Told, Asked, AllOf, Passes
<1>3. CASE AskBatch
  BY <1>3, BatchCounted
<1>4. CASE Combine
  BY <1>4, ArityCombined
<1>5. CASE UNCHANGED arity
  BY <1>5 DEF arity, ArityInv, AnswersAddUp, Told, Asked, AllOf
<1> QED BY <1>1, <1>2, <1>3, <1>4, <1>5 DEF ArityStep

(* Of any vocabulary, whatever a model answers and whatever calls fail:    *)
(* every name asked about is answered or reported unanswered, never both,  *)
(* and what was said with the values in sight stands.                      *)
THEOREM EveryNameAccountedFor == ArityInit /\ [][ArityStep]_arity => []AnswersAddUp
<1>1. ArityInv => AnswersAddUp
  BY DEF ArityInv
<1>2. ArityAssumption
  BY ArityAssumption
<1> QED BY ArityStarts, ArityGoesOn, <1>1, <1>2, PTL

-----------------------------------------------------------------------------
(* Days and dates (Calendar), of every year there is.                      *)

(* A quotient is what leaves a remainder.                                  *)
LEMMA Divided ==
  ASSUME NEW x \in Int, NEW n \in Nat \ {0}, NEW q \in Int, NEW r \in 0..(n - 1), x = q * n + r
  PROVE  x \div n = q /\ x % n = r
OBVIOUS

(* The days before a year that begins in March, since the epoch's year 0.  *)
March(y) == 365 * y + y \div 4 - y \div 100 + y \div 400

LEMMA MarchIsInt == ASSUME NEW y \in Int PROVE March(y) \in Int
BY DEF March

(* The same, from the era and the year of the era.                         *)
InEra(era, yoe) == era * 146097 + yoe * 365 + yoe \div 4 - yoe \div 100

LEMMA ErasAddUp ==
  ASSUME NEW y \in Int
  PROVE  March(y) = InEra(y \div 400, y % 400)
<1>1. PICK era \in Int, yoe \in Nat : y \div 400 = era /\ y % 400 = yoe /\ yoe < 400 /\ y = 400 * era + yoe
  BY SMT
<1>2. y \div 4 = 100 * era + yoe \div 4
  BY <1>1, SMT
<1>3. y \div 100 = 4 * era + yoe \div 100
  BY <1>1, SMT
<1>4. March(y) = era * 146097 + yoe * 365 + yoe \div 4 - yoe \div 100
  BY <1>1, <1>2, <1>3, SMT DEF March
<1> QED BY <1>1, <1>4, SMT DEF InEra

LEMMA LongYears ==
  ASSUME NEW y \in Int
  PROVE  March(y) = March(y - 1) + (IF IsLeap(y) THEN 366 ELSE 365)
<1>1. y \div 4 = (y - 1) \div 4 + (IF y % 4 = 0 THEN 1 ELSE 0)
  BY SMT
<1>2. y \div 100 = (y - 1) \div 100 + (IF y % 100 = 0 THEN 1 ELSE 0)
  BY SMT
<1>3. y \div 400 = (y - 1) \div 400 + (IF y % 400 = 0 THEN 1 ELSE 0)
  BY SMT
<1>4. (y % 400 = 0 => y % 100 = 0) /\ (y % 100 = 0 => y % 4 = 0)
  BY SMT
<1> QED BY <1>1, <1>2, <1>3, <1>4, SMT DEF March, IsLeap

(* The day of a year that begins in March at which a month begins.         *)
Shifted(m) == IF m > 2 THEN m - 3 ELSE m + 9
Opening(m) == (153 * Shifted(m) + 2) \div 5
YearFrom(y, m) == IF m <= 2 THEN y - 1 ELSE y

LEMMA Openings ==
  ASSUME NEW m \in 1..12
  PROVE  /\ (m = 3 => Opening(m) = 0)     /\ (m = 4 => Opening(m) = 31)
         /\ (m = 5 => Opening(m) = 61)    /\ (m = 6 => Opening(m) = 92)
         /\ (m = 7 => Opening(m) = 122)   /\ (m = 8 => Opening(m) = 153)
         /\ (m = 9 => Opening(m) = 184)   /\ (m = 10 => Opening(m) = 214)
         /\ (m = 11 => Opening(m) = 245)  /\ (m = 12 => Opening(m) = 275)
         /\ (m = 1 => Opening(m) = 306)   /\ (m = 2 => Opening(m) = 337)
BY SMT DEF Opening, Shifted

LEMMA DaysOfDate ==
  ASSUME NEW y \in Int, NEW m \in 1..12, NEW d \in Nat
  PROVE  DaysFromCivil(Date(y, m, d)) = March(YearFrom(y, m)) + Opening(m) + d - 1 - 719468
<1>1. PICK year \in Int : year = YearFrom(y, m)
  BY SMT DEF YearFrom
<1>2. PICK first \in Int : first = Opening(m)
  BY SMT DEF Opening, Shifted
<1>3. March(year) = InEra(year \div 400, year % 400)
  BY ErasAddUp, SMT
<1>4. DaysFromCivil(Date(y, m, d))
        = (year \div 400) * 146097 + (year % 400) * 365 + (year % 400) \div 4 - (year % 400) \div 100
            + (first + d - 1) - 719468
  BY <1>1, <1>2, SMT DEF DaysFromCivil, Date, YearFrom, Opening, Shifted
<1> QED BY <1>1, <1>2, <1>3, <1>4, SMT DEF InEra

(* The year of a day of an era, from the day.                              *)
DayOfEra(c, q, r, doy) == 36524 * c + 1461 * q + 365 * r + doy
YearOf(doe) == (doe - doe \div 1460 + doe \div 36524 - doe \div 146096) \div 365

LEMMA YearOfEra ==
  ASSUME NEW c \in Nat, NEW q \in Nat, NEW r \in Nat, NEW doy \in Nat,
         c < 4, q < 25, r < 4, doy < 366,
         doy = 365 => r = 3 /\ (q # 24 \/ c = 3)
  PROVE  YearOf(DayOfEra(c, q, r, doy)) = 100 * c + 4 * q + r
<1> PICK doe \in Int : doe = DayOfEra(c, q, r, doy) /\ doe = 36524 * c + 1461 * q + 365 * r + doy
  BY SMT DEF DayOfEra
<1> SUFFICES (doe - doe \div 1460 + doe \div 36524 - doe \div 146096) \div 365 = 100 * c + 4 * q + r
  BY SMT DEF YearOf
<1> DEFINE more == 24 * c + q + 365 * r + doy
<1>1. more \in Nat /\ more < 2920 /\ (more >= 1460 => r = 3 /\ doy >= 269) /\ (doy = 365 => more >= 1460)
  BY SMT
<1>2. doe \div 1460 = 25 * c + q + (IF more >= 1460 THEN 1 ELSE 0)
  <2>1. doe = 1460 * (25 * c + q) + more
    BY SMT
  <2> HIDE DEF more
  <2>2. doe = (25 * c + q + (IF more >= 1460 THEN 1 ELSE 0)) * 1460 + (IF more >= 1460 THEN more - 1460 ELSE more)
    BY <2>1, <1>1, SMT
  <2> QED BY <2>2, <1>1, SMT
<1>3. CASE c = 3 /\ q = 24 /\ r = 3 /\ doy = 365
  <2>1. doe = 146096
    BY <1>3, SMT
  <2> QED BY <2>1, <1>3, SMT
<1>4. CASE ~(c = 3 /\ q = 24 /\ r = 3 /\ doy = 365)
  <2> DEFINE rest == 1461 * q + 365 * r + doy
  <2>1. rest \in Nat /\ rest < 36524 /\ doe = 36524 * c + rest
    BY <1>4, SMT
  <2> HIDE DEF rest, more
  <2>2. doe \div 36524 = c
    BY <2>1, SMT
  <2>3. doe \div 146096 = 0
    BY <2>1, SMT
  <2>4. doe - doe \div 1460 + doe \div 36524 - doe \div 146096
          = 365 * (100 * c + 4 * q + r) + doy - (IF more >= 1460 THEN 1 ELSE 0)
    BY <1>2, <2>2, <2>3, SMT
  <2>5. 0 <= doy - (IF more >= 1460 THEN 1 ELSE 0) /\ doy - (IF more >= 1460 THEN 1 ELSE 0) < 365
    BY <1>1, SMT
  <2> QED BY <2>4, <2>5, SMT
<1> QED BY <1>3, <1>4, SMT

LEMMA MonthOfDay ==
  ASSUME NEW y \in Int, NEW m \in 1..12, NEW d \in Nat, 1 <= d, d <= DaysInMonth(y, m)
  PROVE  /\ Opening(m) + d - 1 \in Nat /\ Opening(m) + d - 1 < 366
         /\ (5 * (Opening(m) + d - 1) + 2) \div 153 = Shifted(m)
         /\ Opening(m) + d - 1 = 365 => m = 2 /\ IsLeap(y)
<1>1. d <= (IF m \in {4, 6, 9, 11} THEN 30 ELSE IF m # 2 THEN 31 ELSE 29)
  BY SMT DEF DaysInMonth
<1>2. m = 2 /\ d = 29 => IsLeap(y)
  BY SMT DEF DaysInMonth
<1>3. PICK first \in Nat, mp \in Nat :
        /\ first = Opening(m) /\ mp = Shifted(m) /\ mp < 12
        /\ first = (153 * mp + 2) \div 5
        /\ (first + d - 1 >= 365 => m = 2 /\ d = 29)
        /\ (mp = 11 => d <= 29) /\ (mp \in {1, 3, 6, 8} => d <= 30) /\ d <= 31
  BY <1>1, SMT DEF Opening, Shifted
<1>4. first + d - 1 \in Nat /\ first + d - 1 < 366
  BY <1>3, SMT
<1>5. (5 * (first + d - 1) + 2) \div 153 = mp
  BY <1>3, SMT
<1> QED BY <1>2, <1>3, <1>4, <1>5, SMT

(* What the last day of a year that begins in March says of the year.      *)
LEMMA LeapEra ==
  ASSUME NEW y \in Int, NEW era \in Int, NEW c \in Nat, NEW q \in Nat, NEW r \in Nat,
         c < 4, q < 25, r < 4, y - 1 = 400 * era + 100 * c + 4 * q + r, IsLeap(y)
  PROVE  r = 3 /\ (q # 24 \/ c = 3)
<1>1. y % 4 = 0 => r = 3
  BY SMT
<1>2. r = 3 /\ q = 24 /\ c # 3 => y % 100 = 0 /\ y % 400 # 0
  BY SMT
<1> QED BY <1>1, <1>2, SMT DEF IsLeap

LEMMA EraParts ==
  ASSUME NEW yoe \in Nat, yoe < 400
  PROVE  \E c \in Nat, q \in Nat, r \in Nat :
           /\ c < 4 /\ q < 25 /\ r < 4 /\ yoe = 100 * c + 4 * q + r
           /\ yoe \div 4 = 25 * c + q /\ yoe \div 100 = c
<1> WITNESS yoe \div 100 \in Nat, (yoe % 100) \div 4 \in Nat, yoe % 4 \in Nat
<1> QED BY SMT

LEMMA ThereAndBack ==
  ASSUME NEW y \in Int, NEW m \in 1..12, NEW d \in Nat, 1 <= d, d <= DaysInMonth(y, m)
  PROVE  CivilFromDays(DaysFromCivil(Date(y, m, d))) = Date(y, m, d)
<1>1. PICK year \in Int : year = YearFrom(y, m)
  BY SMT DEF YearFrom
<1>2. PICK doy \in Nat :
        /\ doy = Opening(m) + d - 1 /\ doy < 366
        /\ (5 * doy + 2) \div 153 = Shifted(m)
        /\ doy = 365 => m = 2 /\ IsLeap(y)
  BY MonthOfDay, SMT
<1>3. PICK era \in Int, yoe \in Nat :
        /\ year \div 400 = era /\ year % 400 = yoe /\ yoe < 400 /\ year = 400 * era + yoe
        /\ March(year) = era * 146097 + yoe * 365 + yoe \div 4 - yoe \div 100
  <2>1. PICK era \in Int, yoe \in Nat : year \div 400 = era /\ year % 400 = yoe /\ yoe < 400 /\ year = 400 * era + yoe
    BY SMT
  <2>2. March(year) = InEra(year \div 400, year % 400)
    BY ErasAddUp, SMT
  <2>3. March(year) = era * 146097 + yoe * 365 + yoe \div 4 - yoe \div 100
    BY <2>1, <2>2, SMT DEF InEra
  <2> QED BY <2>1, <2>3
<1>4. PICK c \in Nat, q \in Nat, r \in Nat :
        /\ c < 4 /\ q < 25 /\ r < 4 /\ yoe = 100 * c + 4 * q + r
        /\ yoe \div 4 = 25 * c + q /\ yoe \div 100 = c
  BY <1>3, EraParts, SMT
<1>5. doy = 365 => r = 3 /\ (q # 24 \/ c = 3)
  <2> SUFFICES ASSUME doy = 365 PROVE r = 3 /\ (q # 24 \/ c = 3)
    BY SMT
  <2>1. y - 1 = 400 * era + 100 * c + 4 * q + r /\ IsLeap(y)
    BY <1>1, <1>2, <1>3, <1>4, SMT DEF YearFrom
  <2> QED BY <2>1, <1>4, LeapEra, SMT
<1>6. PICK doe \in Nat : doe = DayOfEra(c, q, r, doy) /\ doe = 36524 * c + 1461 * q + 365 * r + doy
  BY <1>4, SMT DEF DayOfEra
<1>7. doe < 146097
  BY <1>2, <1>4, <1>5, <1>6, SMT
<1>8. (doe - doe \div 1460 + doe \div 36524 - doe \div 146096) \div 365 = yoe
  <2>1. doy < 366 /\ c < 4 /\ q < 25 /\ r < 4
    BY <1>2, <1>4, SMT
  <2>2. YearOf(DayOfEra(c, q, r, doy)) = 100 * c + 4 * q + r
    BY <2>1, <1>5, YearOfEra, SMT
  <2> QED BY <2>2, <1>4, <1>6, SMT DEF YearOf
<1>9. doe = 365 * yoe + yoe \div 4 - yoe \div 100 + doy
  BY <1>4, <1>6, SMT
<1>10. doe - (365 * yoe + yoe \div 4 - yoe \div 100) = doy
  BY <1>9, <1>4, SMT
<1>11. PICK mp \in Nat : mp = Shifted(m) /\ (IF mp < 10 THEN mp + 3 ELSE mp - 9) = m
                         /\ Opening(m) = (153 * mp + 2) \div 5
  BY SMT DEF Shifted, Opening
<1>12. doy - (153 * mp + 2) \div 5 + 1 = d
  BY <1>2, <1>11, SMT
<1>13. yoe + era * 400 + (IF m <= 2 THEN 1 ELSE 0) = y
  BY <1>1, <1>3, SMT DEF YearFrom
<1>14. PICK days \in Int : days = DaysFromCivil(Date(y, m, d)) /\ days + 719468 = era * 146097 + doe
  <2>1. DaysFromCivil(Date(y, m, d)) = March(year) + Opening(m) + d - 1 - 719468
    BY <1>1, DaysOfDate, SMT
  <2>2. Opening(m) \in Int
    BY SMT DEF Opening, Shifted
  <2>3. March(year) + doy = era * 146097 + doe
    BY <1>3, <1>4, <1>9, SMT
  <2>4. March(year) \in Int
    BY MarchIsInt, SMT
  <2>5. DaysFromCivil(Date(y, m, d)) = era * 146097 + doe - 719468
    BY <2>1, <2>2, <2>3, <2>4, <1>2, SMT
  <2> QED BY <2>5, SMT
<1>15. PICK z \in Int : z = days + 719468
  BY SMT
<1>16. z \div 146097 = era /\ z % 146097 = doe
  BY <1>7, <1>14, <1>15, SMT
<1>17. (5 * doy + 2) \div 153 = mp
  BY <1>2, <1>11, SMT
<1>18. CivilFromDays(days) = Date(y, m, d)
  BY <1>8, <1>10, <1>11, <1>12, <1>13, <1>15, <1>16, <1>17, SMT DEF CivilFromDays
<1> QED BY <1>14, <1>18, SMT

-----------------------------------------------------------------------------
(* A day later and a day earlier, by the rule anyone knows.                *)

IsDate(t) ==
  /\ t = Date(t.y, t.m, t.d) /\ t.y \in Int /\ t.m \in 1..12 /\ t.d \in Nat
  /\ 1 <= t.d /\ t.d <= DaysInMonth(t.y, t.m)

LEMMA DateParts ==
  ASSUME NEW y, NEW m, NEW d
  PROVE  Date(y, m, d).y = y /\ Date(y, m, d).m = m /\ Date(y, m, d).d = d
BY DEF Date

LEMMA MakesDate ==
  ASSUME NEW y \in Int, NEW m \in 1..12, NEW d \in Nat, 1 <= d, d <= DaysInMonth(y, m)
  PROVE  IsDate(Date(y, m, d))
BY SMT DEF IsDate, Date

LEMMA MonthsEnd ==
  ASSUME NEW y \in Int, NEW m \in 1..12, NEW d
  PROVE  /\ LastOfMonth(Date(y, m, d)) = DaysInMonth(y, m)
         /\ DaysInMonth(y, m) \in Nat /\ 28 <= DaysInMonth(y, m) /\ DaysInMonth(y, m) <= 31
<1>1. LastOfMonth(Date(y, m, d)) =
        (CASE m = 2 -> 28 [] m \in {4, 6, 9, 11} -> 30 [] OTHER -> 31)
          + (IF m = 2 /\ y % 4 = 0 /\ (y % 100 # 0 \/ y % 400 = 0) THEN 1 ELSE 0)
  BY SMT DEF LastOfMonth, Date
<1>2. CASE m = 2
  BY <1>1, <1>2, SMT DEF DaysInMonth, IsLeap
<1>3. CASE m \in {4, 6, 9, 11}
  BY <1>1, <1>3, SMT DEF DaysInMonth
<1>4. CASE m # 2 /\ m \notin {4, 6, 9, 11}
  BY <1>1, <1>4, SMT DEF DaysInMonth
<1> QED BY <1>2, <1>3, <1>4

(* A date and the day after it.                                            *)
Follows(y, m, d, next) ==
  \/ d < DaysInMonth(y, m) /\ next = Date(y, m, d + 1)
  \/ d = DaysInMonth(y, m) /\ m < 12 /\ next = Date(y, m + 1, 1)
  \/ d = 31 /\ m = 12 /\ next = Date(y + 1, 1, 1)

LEMMA DayLater ==
  ASSUME NEW y \in Int, NEW m \in 1..12, NEW d \in Nat, 1 <= d, d <= DaysInMonth(y, m),
         NEW next, Follows(y, m, d, next)
  PROVE  IsDate(next) /\ DaysFromCivil(next) = DaysFromCivil(Date(y, m, d)) + 1
<1>1. DaysFromCivil(Date(y, m, d)) = March(YearFrom(y, m)) + Opening(m) + d - 1 - 719468
  BY DaysOfDate, SMT
<1>2. PICK first \in Int, march \in Int : first = Opening(m) /\ march = March(YearFrom(y, m))
  BY SMT DEF Opening, Shifted, March, YearFrom
<1>3. CASE d < DaysInMonth(y, m) /\ next = Date(y, m, d + 1)
  <2>1. DaysFromCivil(next) = March(YearFrom(y, m)) + Opening(m) + (d + 1) - 1 - 719468
    BY <1>3, DaysOfDate, SMT
  <2>2. DaysFromCivil(next) = DaysFromCivil(Date(y, m, d)) + 1
    BY <1>1, <1>2, <2>1, SMT
  <2>3. d + 1 \in Nat /\ 1 <= d + 1 /\ d + 1 <= DaysInMonth(y, m)
    BY <1>3, MonthsEnd, SMT
  <2> QED BY <1>3, <2>2, <2>3, MakesDate
<1>4. CASE d = DaysInMonth(y, m) /\ m < 12 /\ next = Date(y, m + 1, 1)
  <2>1. m + 1 \in 1..12 /\ 1 <= DaysInMonth(y, m + 1)
    BY <1>4, SMT DEF DaysInMonth
  <2>2. IsDate(next)
    BY <1>4, <2>1, MakesDate
  <2>3. DaysFromCivil(next) = March(YearFrom(y, m + 1)) + Opening(m + 1) + 1 - 1 - 719468
    BY <1>4, <2>1, DaysOfDate, SMT
  <2>4. CASE m # 2
    <3>1. YearFrom(y, m + 1) = YearFrom(y, m)
      BY <2>4, SMT DEF YearFrom
    <3>2. d = IF m \in {4, 6, 9, 11} THEN 30 ELSE 31
      BY <1>4, <2>4, SMT DEF DaysInMonth
    <3>3. Opening(m + 1) = Opening(m) + d
      BY <1>4, <2>4, <3>2, SMT DEF Opening, Shifted
    <3> QED BY <1>1, <1>2, <2>2, <2>3, <3>1, <3>3, SMT
  <2>5. CASE m = 2
    <3>1. YearFrom(y, m + 1) = y /\ YearFrom(y, m) = y - 1
      BY <2>5, SMT DEF YearFrom
    <3>2. Opening(m + 1) = 0 /\ Opening(m) = 337
      BY <2>5, SMT DEF Opening, Shifted
    <3>3. d = IF IsLeap(y) THEN 29 ELSE 28
      BY <1>4, <2>5, SMT DEF DaysInMonth
    <3>4. March(y) = March(y - 1) + (IF IsLeap(y) THEN 366 ELSE 365)
      BY LongYears
    <3>5. March(y) \in Int /\ March(y - 1) \in Int
      BY SMT DEF March
    <3> QED BY <1>1, <2>2, <2>3, <3>1, <3>2, <3>3, <3>4, <3>5, SMT
  <2> QED BY <2>4, <2>5
<1>5. CASE d = 31 /\ m = 12 /\ next = Date(y + 1, 1, 1)
  <2>1. DaysFromCivil(next) = March(YearFrom(y + 1, 1)) + Opening(1) + 1 - 1 - 719468
    BY <1>5, DaysOfDate, SMT
  <2>2. YearFrom(y + 1, 1) = y /\ YearFrom(y, m) = y
    BY <1>5, SMT DEF YearFrom
  <2>3. Opening(1) = 306 /\ Opening(m) = 275
    BY <1>5, SMT DEF Opening, Shifted
  <2>4. y + 1 \in Int /\ 1 \in 1..12 /\ 1 <= DaysInMonth(y + 1, 1)
    BY SMT DEF DaysInMonth
  <2>5. IsDate(next)
    BY <1>5, <2>4, MakesDate
  <2>6. March(y) \in Int
    BY SMT DEF March
  <2> QED BY <1>1, <1>5, <2>1, <2>2, <2>3, <2>5, <2>6, SMT
<1> QED BY <1>3, <1>4, <1>5 DEF Follows

LEMMA CountedOn ==
  ASSUME IsDate(date), Tomorrow
  PROVE  Follows(date.y, date.m, date.d, date') /\ day' = day + 1
<1> PICK y \in Int, m \in 1..12, d \in Nat :
      date.y = y /\ date.m = m /\ date.d = d /\ date = Date(y, m, d) /\ d <= DaysInMonth(y, m)
  BY Zenon DEF IsDate
<1>1. LastOfMonth(date) = DaysInMonth(y, m) /\ DaysInMonth(y, m) \in Nat
  BY MonthsEnd
<1>2. day' = day + 1 /\ date' = IF d < DaysInMonth(y, m) THEN [date EXCEPT !.d = d + 1]
                                ELSE IF m < 12 THEN Date(y, m + 1, 1) ELSE Date(y + 1, 1, 1)
  BY <1>1 DEF Tomorrow
<1>3. [date EXCEPT !.d = d + 1] = Date(y, m, d + 1)
  BY DEF Date
<1>4. m = 12 => DaysInMonth(y, m) = 31
  BY SMT DEF DaysInMonth
<1>5. CASE d < DaysInMonth(y, m)
  BY <1>2, <1>3, <1>5 DEF Follows
<1>6. CASE d = DaysInMonth(y, m) /\ m < 12
  BY <1>2, <1>6 DEF Follows
<1>7. CASE d = DaysInMonth(y, m) /\ m = 12
  BY <1>2, <1>4, <1>7 DEF Follows
<1> QED BY <1>1, <1>5, <1>6, <1>7, SMT

LEMMA CountedBack ==
  ASSUME IsDate(date), Yesterday
  PROVE  /\ IsDate(date') /\ day' = day - 1
         /\ Follows(date'.y, date'.m, date'.d, date)
<1> PICK y \in Int, m \in 1..12, d \in Nat :
      date.y = y /\ date.m = m /\ date.d = d /\ date = Date(y, m, d) /\ 1 <= d /\ d <= DaysInMonth(y, m)
  BY Zenon DEF IsDate
<1>1. day' = day - 1 /\ date' = IF d > 1 THEN [date EXCEPT !.d = d - 1]
        ELSE IF m > 1 THEN Date(y, m - 1, LastOfMonth(Date(y, m - 1, 1)))
        ELSE Date(y - 1, 12, 31)
  BY DEF Yesterday
<1>2. CASE d > 1
  <2>1. [date EXCEPT !.d = d - 1] = Date(y, m, d - 1)
    BY DEF Date
  <2>2. date' = Date(y, m, d - 1)
    BY <1>1, <1>2, <2>1
  <2>3. d - 1 \in Nat /\ 1 <= d - 1 /\ d - 1 < DaysInMonth(y, m) /\ d - 1 <= DaysInMonth(y, m) /\ d - 1 + 1 = d
    BY <1>2, MonthsEnd, SMT
  <2>4. IsDate(date')
    BY <2>2, <2>3, MakesDate
  <2>5. Follows(y, m, d - 1, date)
    BY <2>3 DEF Follows
  <2> QED BY <1>1, <2>2, <2>4, <2>5, DateParts
<1>3. CASE ~(d > 1) /\ m > 1
  <2>1. m - 1 \in 1..12 /\ m - 1 < 12 /\ m - 1 + 1 = m /\ d = 1
    BY <1>3, SMT
  <2>2. PICK last \in Nat : last = DaysInMonth(y, m - 1) /\ 1 <= last /\ LastOfMonth(Date(y, m - 1, 1)) = last
    BY <2>1, MonthsEnd, SMT
  <2>3. date' = Date(y, m - 1, last)
    BY <1>1, <1>3, <2>2
  <2>4. IsDate(date')
    BY <2>1, <2>2, <2>3, MakesDate, SMT
  <2>5. Follows(y, m - 1, last, date)
    BY <2>1, <2>2 DEF Follows
  <2>6. date'.y = y /\ date'.m = m - 1 /\ date'.d = last
    BY <2>3 DEF Date
  <2> QED BY <1>1, <2>4, <2>5, <2>6
<1>4. CASE ~(d > 1) /\ ~(m > 1)
  <2>1. m = 1 /\ d = 1 /\ y - 1 \in Int /\ y - 1 + 1 = y
    BY <1>4, SMT
  <2>2. date' = Date(y - 1, 12, 31)
    BY <1>1, <1>4
  <2>3. 12 \in 1..12 /\ 31 \in Nat /\ 1 <= 31 /\ 31 <= DaysInMonth(y - 1, 12)
    BY SMT DEF DaysInMonth
  <2>4. IsDate(date')
    BY <2>1, <2>2, <2>3, MakesDate
  <2>5. Follows(y - 1, 12, 31, date)
    BY <2>1 DEF Follows
  <2>6. date'.y = y - 1 /\ date'.m = 12 /\ date'.d = 31
    BY <2>2 DEF Date
  <2> QED BY <1>1, <2>4, <2>5, <2>6
<1> QED BY <1>2, <1>3, <1>4

(* What is walked is a date, and the date of its day.                      *)
CalendarInv == day \in Int /\ IsDate(date) /\ DaysFromCivil(date) = day

LEMMA CalendarStarts == CalendarAssumption /\ CalendarInit => CalendarInv
<1> SUFFICES ASSUME CalendarAssumption, CalendarInit PROVE CalendarInv
  OBVIOUS
<1>1. PICK c \in Int : day = c * (97 * 366 + 303 * 365) /\ date = Date(1970 + 400 * c, 1, 1)
  BY DEF CalendarInit, CalendarAssumption
<1>2. IsDate(date)
  <2>1. 1970 + 400 * c \in Int /\ 1 \in 1..12 /\ 1 <= DaysInMonth(1970 + 400 * c, 1)
    BY SMT DEF DaysInMonth
  <2> QED BY <1>1, <2>1, MakesDate
<1>3. DaysFromCivil(date) = March(YearFrom(1970 + 400 * c, 1)) + Opening(1) + 1 - 1 - 719468
  BY <1>1, DaysOfDate, SMT
<1>4. YearFrom(1970 + 400 * c, 1) = 1969 + 400 * c /\ Opening(1) = 306
  BY SMT DEF YearFrom, Opening, Shifted
<1>5. March(1969 + 400 * c) = 146097 * c + 719162
  BY SMT DEF March
<1> QED BY <1>1, <1>2, <1>3, <1>4, <1>5, SMT DEF CalendarInv

LEMMA CalendarGoesOn ==
  ASSUME CalendarInv, [CalendarStep]_calendar
  PROVE  CalendarInv'
<1>1. CASE Tomorrow
  <2>1. Follows(date.y, date.m, date.d, date') /\ day' = day + 1
    BY <1>1, CountedOn DEF CalendarInv
  <2>2. IsDate(date') /\ DaysFromCivil(date') = DaysFromCivil(date) + 1
    <3>1. PICK y \in Int, m \in 1..12, d \in Nat :
            date.y = y /\ date.m = m /\ date.d = d /\ date = Date(y, m, d) /\ 1 <= d /\ d <= DaysInMonth(y, m)
      BY Zenon DEF IsDate, CalendarInv
    <3>2. Follows(y, m, d, date')
      BY <2>1, <3>1, Zenon
    <3>3. IsDate(date') /\ DaysFromCivil(date') = DaysFromCivil(Date(y, m, d)) + 1
      BY <3>1, <3>2, DayLater
    <3> QED BY <3>1, <3>3, Zenon
  <2> QED BY <2>1, <2>2 DEF CalendarInv
<1>2. CASE Yesterday
  <2>1. IsDate(date') /\ day' = day - 1 /\ Follows(date'.y, date'.m, date'.d, date)
    BY <1>2, CountedBack DEF CalendarInv
  <2>2. DaysFromCivil(date) = DaysFromCivil(date') + 1
    <3>1. PICK y \in Int, m \in 1..12, d \in Nat :
            date'.y = y /\ date'.m = m /\ date'.d = d /\ date' = Date(y, m, d) /\ 1 <= d /\ d <= DaysInMonth(y, m)
      BY <2>1, Zenon DEF IsDate
    <3>2. Follows(y, m, d, date)
      BY <2>1, <3>1, Zenon
    <3>3. DaysFromCivil(date) = DaysFromCivil(Date(y, m, d)) + 1
      BY <3>1, <3>2, DayLater
    <3> QED BY <3>1, <3>3, Zenon
  <2>3. DaysFromCivil(date') \in Int
    <3>1. PICK y \in Int, m \in 1..12, d \in Nat : date' = Date(y, m, d)
      BY <2>1, Zenon DEF IsDate
    <3>2. DaysFromCivil(date') = March(YearFrom(y, m)) + Opening(m) + d - 1 - 719468
      BY <3>1, DaysOfDate, SMT
    <3>3. March(YearFrom(y, m)) \in Int /\ Opening(m) \in Int
      BY SMT DEF March, YearFrom, Opening, Shifted
    <3> QED BY <3>2, <3>3, SMT
  <2> QED BY <2>1, <2>2, <2>3, SMT DEF CalendarInv
<1>3. CASE UNCHANGED calendar
  BY <1>3 DEF calendar, CalendarInv
<1> QED BY <1>1, <1>2, <1>3 DEF CalendarStep

LEMMA DayOfInstant ==
  ASSUME NEW n \in Nat \ {0}, NEW k \in Int, NEW ms \in 0..(n - 1)
  PROVE  (k * n + ms) \div n = k
<1> PICK x \in Int : x = k * n + ms
  OBVIOUS
<1> QED BY Divided

LEMMA FourDigits ==
  ASSUME NEW y \in Int, 0 <= y, y <= 9999
  PROVE  Padded(y, 4).width = 4 /\ Padded(y, 4).says = y
BY SMT DEF Padded, Digits

LEMMA TwoDigits ==
  ASSUME NEW n \in Nat, n < 100
  PROVE  Padded(n, 2).width = 2 /\ Padded(n, 2).says = n
BY SMT DEF Padded, Digits

LEMMA CalendarRight ==
  ASSUME CalendarAssumption, CalendarInv
  PROVE  DaysAndDatesAgree
<1> PICK y \in Int, m \in 1..12, d \in Nat :
      date.y = y /\ date.m = m /\ date.d = d /\ date = Date(y, m, d) /\ 1 <= d /\ d <= DaysInMonth(y, m)
  BY Zenon DEF IsDate, CalendarInv
<1>1. day \in Int /\ DaysFromCivil(date) = day /\ MsPerDay \in Nat \ {0}
  BY DEF CalendarInv, CalendarAssumption
<1>2. CivilFromDays(day) = date
  BY <1>1, ThereAndBack, Zenon
<1>3. ASSUME NEW ms \in 0..(MsPerDay - 1) PROVE DayOf(day * MsPerDay + ms) = date
  <2>1. (day * MsPerDay + ms) \div MsPerDay = day
    BY <1>1, DayOfInstant
  <2> QED BY <1>2, <2>1, Zenon DEF DayOf
<1>4. DayOf(day * MsPerDay) = date
  <2>1. 0 \in 0..(MsPerDay - 1) /\ day * MsPerDay + 0 = day * MsPerDay
    BY <1>1
  <2> QED BY <1>3, <2>1
<1> DEFINE text == FormatDay(day * MsPerDay)
           over == [text EXCEPT !.d.says = LastOfMonth(date) + 1]
<1>5. text = [y |-> Padded(y, 4), m |-> Padded(m, 2), d |-> Padded(d, 2)]
  BY <1>4, Zenon DEF FormatDay
<1>6. LastOfMonth(date) = DaysInMonth(y, m) /\ DaysInMonth(y, m) \in Nat /\ DaysInMonth(y, m) <= 31
  BY MonthsEnd
<1>7. text.y = Padded(y, 4) /\ text.m = Padded(m, 2) /\ text.d = Padded(d, 2)
  BY <1>5
<1> HIDE DEF text
<1>8. Padded(m, 2).width = 2 /\ Padded(m, 2).says = m /\ Padded(d, 2).width = 2 /\ Padded(d, 2).says = d
  <2>1. m \in Nat /\ m < 100 /\ d < 100
    BY <1>6, SMT
  <2> QED BY <2>1, TwoDigits
<1>9. ASSUME 0 <= y, y <= 9999
      PROVE  ParseDay(text) = {day * MsPerDay}
  <2>1. Padded(y, 4).width = 4 /\ Padded(y, 4).says = y
    BY <1>9, FourDigits
  <2>2. text.y.width = 4 /\ text.y.says = y /\ text.m.width = 2 /\ text.m.says = m
        /\ text.d.width = 2 /\ text.d.says = d
    BY <1>7, <1>8, <2>1
  <2>3. Reads(text)
    BY <1>9, <2>2, SMT DEF Reads
  <2>4. Exists(date) /\ Date(text.y.says, text.m.says, text.d.says) = date
    BY <2>2 DEF Exists
  <2> QED BY <1>1, <2>3, <2>4 DEF ParseDay
<1>10. ASSUME 0 <= y, y <= 9999
       PROVE  ParseDayEnd(text) = {(day + 1) * MsPerDay - 1}
  <2>1. ParseDay(text) = {day * MsPerDay}
    BY <1>9, <1>10
  <2>2. ParseDayEnd(text) = {day * MsPerDay + MsPerDay - 1}
    BY <2>1, SMT DEF ParseDayEnd
  <2>3. (day + 1) * MsPerDay - 1 = day * MsPerDay + MsPerDay - 1
    BY <1>1
  <2> QED BY <2>2, <2>3
<1>11. ParseDay(over) = {}
  <2>1. Padded(y, 4).says = y
    BY SMT DEF Padded
  <2>2. over.y.says = y /\ over.m.says = m /\ over.d.says = LastOfMonth(date) + 1
    <3>1. over = [y |-> Padded(y, 4), m |-> Padded(m, 2), d |-> [Padded(d, 2) EXCEPT !.says = LastOfMonth(date) + 1]]
      BY <1>5 DEF text
    <3>2. [Padded(d, 2) EXCEPT !.says = LastOfMonth(date) + 1].says = LastOfMonth(date) + 1
      BY SMT DEF Padded
    <3>3. over.y = Padded(y, 4) /\ over.m = Padded(m, 2) /\ over.d = [Padded(d, 2) EXCEPT !.says = LastOfMonth(date) + 1]
      BY <3>1
    <3> HIDE DEF over
    <3> QED BY <2>1, <1>8, <3>2, <3>3
  <2> HIDE DEF over
  <2>3. ~Exists(Date(y, m, LastOfMonth(date) + 1))
    BY <1>6 DEF Exists, Date
  <2>4. ~Exists(Date(over.y.says, over.m.says, over.d.says))
    BY <2>2, <2>3
  <2> QED BY <2>4, Zenon DEF ParseDay
<1> HIDE DEF over
<1>12. FourDigitYear =>
         ParseDay(text) = {day * MsPerDay} /\ ParseDayEnd(text) = {(day + 1) * MsPerDay - 1}
  BY <1>9, <1>10 DEF FourDigitYear
<1>13. \A ms \in 0..(MsPerDay - 1) : DayOf(day * MsPerDay + ms) = date
  BY <1>3
<1>14. FourDigitYear =>
         /\ ParseDay(FormatDay(day * MsPerDay)) = {day * MsPerDay}
         /\ ParseDayEnd(FormatDay(day * MsPerDay)) = {(day + 1) * MsPerDay - 1}
  BY <1>12, Zenon DEF text
<1>15. ParseDay([FormatDay(day * MsPerDay) EXCEPT !.d.says = LastOfMonth(date) + 1]) = {}
  BY <1>11, Zenon DEF over, text
<1>16. CivilFromDays(day) = date /\ DaysFromCivil(date) = day
  BY <1>1, <1>2
<1> QED BY <1>13, <1>14, <1>15, <1>16, Zenon DEF DaysAndDatesAgree

(* Every day there is, before the epoch and after it, as far as anyone     *)
(* counts: the arithmetic of the two conversions gives the date counting   *)
(* gives, whatever the length of a day, and what is shown can be read.     *)
THEOREM EveryDayHasItsDate == CalendarInit /\ [][CalendarStep]_calendar => []DaysAndDatesAgree
<1>1. CalendarAssumption
  BY CalendarAssumption
<1> QED BY <1>1, CalendarStarts, CalendarGoesOn, CalendarRight, PTL

-----------------------------------------------------------------------------
(* What a slot holds (Survivor, Belief), first of finite sets of numbers.  *)

(* A finite set in a strict order (below[o] is what comes before o) has an *)
(* element of every rank.                                                  *)
LEMMA RankOnto ==
  ASSUME NEW S, IsFiniteSet(S), NEW below \in [S -> SUBSET S],
         \A o \in S : o \notin below[o],
         \A o, p \in S : o # p => o \in below[p] \/ p \in below[o],
         \A o, p \in S : o \in below[p] => below[o] \subseteq below[p],
         NEW n \in 0..(Cardinality(S) - 1)
  PROVE  \E o \in S : Cardinality(below[o]) = n
  <1> DEFINE f == [o \in S |-> Cardinality(below[o])]
             c == Cardinality(S)
             T == 0..(c - 1)
  <1>1. c \in Nat
    BY FS_CardinalityType
  <1>2. \A o \in S : IsFiniteSet(below[o]) /\ Cardinality(below[o]) \in Nat
    <2> TAKE o \in S
    <2>1. IsFiniteSet(below[o])
      BY FS_Subset
    <2>. QED BY <2>1, FS_CardinalityType
  <1>3. ASSUME NEW o \in S PROVE f[o] \in T
    <2>1. below[o] \in SUBSET S /\ below[o] # S
      OBVIOUS
    <2>2. Cardinality(below[o]) <= c /\ Cardinality(below[o]) # c
      BY <2>1, FS_Subset
    <2>. QED BY <1>1, <1>2, <2>2
  <1>4. ASSUME NEW o \in S, NEW p \in S, o \in below[p] PROVE f[o] # f[p]
    <2>1. below[o] \in SUBSET below[p] /\ below[o] # below[p]
      BY <1>4
    <2>2. Cardinality(below[o]) # Cardinality(below[p])
      BY <1>2, <2>1, FS_Subset
    <2>. QED BY <2>2
  <1>5. f \in Injection(S, T)
    <2>1. \A o, p \in S : f[o] = f[p] => o = p
      <3> SUFFICES ASSUME NEW o \in S, NEW p \in S, o # p PROVE f[o] # f[p]
        OBVIOUS
      <3>1. o \in below[p] \/ p \in below[o]
        OBVIOUS
      <3>. HIDE DEF f
      <3>. QED BY <1>4, <3>1
    <2>2. f \in [S -> T]
      BY <1>3
    <2>. QED BY <2>1, <2>2 DEF Injection, IsInjective
  <1>6. IsFiniteSet(T) /\ Cardinality(T) = c
    <2>. HIDE DEF c
    <2>1. 0 \in Int /\ c - 1 \in Int
      BY <1>1
    <2>2. IsFiniteSet(0..(c - 1)) /\ Cardinality(0..(c - 1)) = IF 0 > c - 1 THEN 0 ELSE (c - 1) - 0 + 1
      BY <2>1, FS_Interval
    <2>. QED BY <1>1, <2>2
  <1>7. f \in Surjection(S, T)
    <2>. HIDE DEF f, T, c
    <2>1. Cardinality(S) = Cardinality(T)
      BY <1>6 DEF c
    <2>. QED BY <1>5, <1>6, <2>1, FS_Injection
  <1>8. PICK o \in S : f[o] = n
    BY <1>7 DEF Surjection
  <1>. QED BY <1>8

(* And so, unless it is empty, a first one.                                *)
LEMMA FirstExists ==
  ASSUME NEW S, IsFiniteSet(S), S # {}, NEW below \in [S -> SUBSET S],
         \A o \in S : o \notin below[o],
         \A o, p \in S : o # p => o \in below[p] \/ p \in below[o],
         \A o, p \in S : o \in below[p] => below[o] \subseteq below[p]
  PROVE  \E o \in S : \A p \in S : p # o => o \in below[p]
  <1>1. Cardinality(S) \in Nat /\ Cardinality(S) # 0
    BY FS_CardinalityType, FS_EmptySet
  <1>2. 0 \in 0..(Cardinality(S) - 1)
    BY <1>1
  <1>3. PICK o \in S : Cardinality(below[o]) = 0
    BY <1>2, RankOnto
  <1>4. IsFiniteSet(below[o])
    BY FS_Subset
  <1>5. below[o] = {}
    BY <1>3, <1>4, FS_EmptySet
  <1>. QED BY <1>5

(* Of numbers: the highest of finitely many, the lowest of any.            *)
LEMMA Highest ==
  ASSUME NEW S \in SUBSET Nat, IsFiniteSet(S), S # {}
  PROVE  Max(S) \in S /\ \A x \in S : x <= Max(S)
  <1> DEFINE below == [o \in S |-> {p \in S : p > o}]
  <1>1. /\ below \in [S -> SUBSET S] /\ \A o \in S : o \notin below[o]
        /\ \A o, p \in S : o # p => o \in below[p] \/ p \in below[o]
    OBVIOUS
  <1>2. \A o, p \in S : o \in below[p] => below[o] \subseteq below[p]
    <2> SUFFICES ASSUME NEW o \in S, NEW p \in S, NEW x \in S, o > p, x > o
                 PROVE  x > p
      OBVIOUS
    <2>. QED OBVIOUS
  <1>. HIDE DEF below
  <1>3. \E o \in S : \A p \in S : p # o => o \in below[p]
    BY <1>1, <1>2, FirstExists, Zenon
  <1>4. \E o \in S : \A p \in S : o >= p
    BY <1>3 DEF below
  <1>. QED BY <1>4 DEF Max

LEMMA Lowest ==
  ASSUME NEW S \in SUBSET Nat, S # {}
  PROVE  \E x \in S : \A y \in S : x <= y
  <1>1. PICK x \in S : \A y \in S : ~(<<y, x>> \in OpToRel(<, Nat))
    BY NatLessThanWellFounded, WFMin
  <1>2. \A y \in S : ~(y < x)
    BY <1>1 DEF OpToRel
  <1>. QED BY <1>2

LEMMA MadeFinite ==
  ASSUME NEW f, IsFiniteSet(DOMAIN f)
  PROVE  IsFiniteSet({f[i] : i \in DOMAIN f})
  <1> DEFINE T == {f[i] : i \in DOMAIN f}
             g == [i \in DOMAIN f |-> f[i]]
  <1>1. g \in Surjection(DOMAIN f, T)
    BY DEF Surjection
  <1>. HIDE DEF g, T
  <1>2. IsFiniteSet(T)
    BY <1>1, FS_Surjection
  <1>. QED BY <1>2 DEF T

-----------------------------------------------------------------------------
(* Candidates: finitely many, each heard at a time and valid from one.     *)
Heard(c) ==
  /\ DOMAIN c \in SUBSET Nat /\ IsFiniteSet(DOMAIN c)
  /\ \A i \in DOMAIN c : c[i].from \in Nat /\ c[i].at \in Nat

Froms(c) == {c[i].from : i \in DOMAIN c}

(* Nothing among them was heard later than the candidate at i.             *)
LastAt(c, i) == \A j \in DOMAIN c : c[j].at <= c[i].at

LEMMA HeardLess ==
  ASSUME NEW c, Heard(c), NEW S \in SUBSET DOMAIN c
  PROVE  /\ Heard(Restrict(c, S)) /\ DOMAIN Restrict(c, S) = S
         /\ \A i \in S : Restrict(c, S)[i] = c[i]
  <1>1. DOMAIN Restrict(c, S) = S /\ \A i \in S : Restrict(c, S)[i] = c[i]
    BY DEF Restrict
  <1>2. IsFiniteSet(S)
    BY FS_Subset DEF Heard
  <1>. QED BY <1>1, <1>2 DEF Heard

LEMMA LatestHeard ==
  ASSUME NEW c, Heard(c), DOMAIN c # {}
  PROVE  /\ \E i \in DOMAIN c : c[i].at = Latest(c)
         /\ \A i \in DOMAIN c : c[i].at <= Latest(c)
         /\ Latest(c) \in Nat
  <1> DEFINE f == [i \in DOMAIN c |-> c[i].at]
             S == {f[i] : i \in DOMAIN f}
  <1>1. DOMAIN f = DOMAIN c /\ \A i \in DOMAIN c : f[i] = c[i].at
    OBVIOUS
  <1>2. S = {c[i].at : i \in DOMAIN c}
    BY <1>1
  <1>. HIDE DEF f
  <1>3. IsFiniteSet(S)
    BY <1>1, MadeFinite DEF Heard
  <1>4. S \in SUBSET Nat /\ S # {}
    BY <1>2 DEF Heard
  <1>5. Latest(c) = Max(S)
    BY <1>2 DEF Latest
  <1>. HIDE DEF S
  <1>6. Max(S) \in S /\ \A x \in S : x <= Max(S)
    BY <1>3, <1>4, Highest
  <1>. QED BY <1>2, <1>4, <1>5, <1>6

LEMMA SomeLast ==
  ASSUME NEW c, Heard(c), DOMAIN c # {}
  PROVE  \E i \in DOMAIN c : LastAt(c, i)
  BY LatestHeard DEF LastAt

LEMMA MostRecentIs ==
  ASSUME NEW c, Heard(c)
  PROVE  MostRecent(c) = {c[i].value : i \in {j \in DOMAIN c : LastAt(c, j)}}
  <1>1. CASE DOMAIN c = {}
    BY <1>1 DEF MostRecent
  <1>2. CASE DOMAIN c # {}
    <2>1. /\ \E i \in DOMAIN c : c[i].at = Latest(c)
          /\ \A i \in DOMAIN c : c[i].at <= Latest(c)
          /\ Latest(c) \in Nat
      BY <1>2, LatestHeard
    <2>2. \A i \in DOMAIN c : c[i].at = Latest(c) <=> LastAt(c, i)
      BY <2>1 DEF LastAt, Heard
    <2>. QED BY <2>2 DEF MostRecent
  <1>. QED BY <1>1, <1>2

(* What opens at f, by its members.                                        *)
OpensAt(c, f, i) ==
  /\ i \in DOMAIN c /\ c[i].from = f
  /\ \A j \in DOMAIN c : c[j].from = f => c[j].at <= c[i].at

LEMMA OpensIs ==
  ASSUME NEW c, Heard(c), NEW f
  PROVE  /\ Opens(c, f) = {c[i].value : i \in {j \in DOMAIN c : OpensAt(c, f, j)}}
         /\ f \in Froms(c) => \E i : OpensAt(c, f, i)
  <1> DEFINE S == {i \in DOMAIN c : c[i].from = f}
             g == Restrict(c, S)
  <1>1. Heard(g) /\ DOMAIN g = S /\ \A i \in S : g[i] = c[i]
    BY HeardLess
  <1>2. Opens(c, f) = MostRecent(g)
    BY DEF Opens
  <1>. HIDE DEF g
  <1>3. MostRecent(g) = {g[i].value : i \in {j \in DOMAIN g : LastAt(g, j)}}
    BY <1>1, MostRecentIs
  <1>4. \A i \in S : LastAt(g, i) <=> OpensAt(c, f, i)
    BY <1>1 DEF LastAt, OpensAt
  <1>5. \A i : OpensAt(c, f, i) => i \in S
    BY DEF OpensAt
  <1>6. ASSUME f \in Froms(c) PROVE \E i : OpensAt(c, f, i)
    <2>1. DOMAIN g # {}
      BY <1>1, <1>6 DEF Froms
    <2>2. \E i \in DOMAIN g : LastAt(g, i)
      BY <1>1, <2>1, SomeLast
    <2>. QED BY <1>1, <1>4, <2>2
  <1>7. Opens(c, f) = {c[i].value : i \in {j \in DOMAIN c : OpensAt(c, f, j)}}
    <2>1. \A i : (i \in DOMAIN g /\ LastAt(g, i)) <=> (i \in DOMAIN c /\ OpensAt(c, f, i))
      BY <1>1, <1>4, <1>5
    <2>2. \A i \in DOMAIN g : g[i].value = c[i].value
      BY <1>1
    <2>. HIDE DEF S
    <2>. QED BY <1>1, <1>2, <1>3, <2>1, <2>2
  <1>. QED BY <1>6, <1>7

(* merge by most_recent, claims that agree included.                       *)
LEMMA MostRecentChosen ==
  ASSUME NEW c, Heard(c)
  PROVE  Chosen(c, "most_recent") = MostRecent(c)
  <1>1. Winner(c, "most_recent") = MostRecent(c)
    <2>1. "most_recent" \notin DOMAIN Orders
      BY SurvivorAssumption DEF Unordered
    <2>. QED BY <2>1 DEF Winner
  <1>2. ASSUME Cardinality(ValuesOf(c)) <= 1 PROVE ValuesOf(c) = MostRecent(c)
    <2>0. MostRecent(c) = {c[i].value : i \in {j \in DOMAIN c : LastAt(c, j)}}
      BY MostRecentIs
    <2>1. CASE DOMAIN c = {}
      BY <2>0, <2>1 DEF ValuesOf
    <2>2. CASE DOMAIN c # {}
      <3> DEFINE f == [i \in DOMAIN c |-> c[i].value]
      <3>1. IsFiniteSet({f[i] : i \in DOMAIN f})
        BY MadeFinite DEF Heard
      <3>2. IsFiniteSet(ValuesOf(c))
        BY <3>1 DEF ValuesOf
      <3>3. Cardinality(ValuesOf(c)) \in Nat /\ ValuesOf(c) # {}
        BY <2>2, <3>2, FS_CardinalityType DEF ValuesOf
      <3>4. Cardinality(ValuesOf(c)) # 0
        BY <3>2, <3>3, FS_EmptySet
      <3>5. Cardinality(ValuesOf(c)) = 1
        BY <1>2, <3>3, <3>4
      <3>6. \E x : ValuesOf(c) = {x}
        BY <3>2, <3>5, FS_Singleton
      <3>7. PICK i \in DOMAIN c : LastAt(c, i)
        BY <2>2, SomeLast
      <3>8. c[i].value \in MostRecent(c) /\ MostRecent(c) \subseteq ValuesOf(c)
        BY <2>0, <3>7 DEF ValuesOf
      <3>. QED BY <3>6, <3>8
    <2>. QED BY <2>1, <2>2
  <1>. QED BY <1>1, <1>2 DEF Chosen

-----------------------------------------------------------------------------
(* A timeline: the instants at which something begins, and their spans.    *)
Begun(c) == {f \in Froms(c) : ~Restates(c, f)}
Closing(c, f) == {g \in Begun(c) : g > f}
Span(c, f) ==
  [from |-> f, values |-> Opens(c, f),
   to |-> IF Closing(c, f) = {} THEN Forever ELSE Min(Closing(c, f))]

LEMMA SpansAre ==
  ASSUME NEW c
  PROVE  SpansOf(c) = {Span(c, f) : f \in Begun(c)}
  BY DEF SpansOf, Span, Begun, Closing, Froms

LEMMA FromsFinite ==
  ASSUME NEW c, Heard(c)
  PROVE  Froms(c) \in SUBSET Nat /\ IsFiniteSet(Froms(c))
  <1> DEFINE f == [i \in DOMAIN c |-> c[i].from]
  <1>1. IsFiniteSet({f[i] : i \in DOMAIN f})
    BY MadeFinite DEF Heard
  <1>2. IsFiniteSet(Froms(c))
    BY <1>1 DEF Froms
  <1>. QED BY <1>2 DEF Heard, Froms

(* A restatement repeats what opened at the instant before.                *)
LEMMA RestatedFrom ==
  ASSUME NEW c, Heard(c), NEW f \in Froms(c), Restates(c, f)
  PROVE  \E g \in Froms(c) : /\ g < f /\ Opens(c, g) = Opens(c, f)
                             /\ \A h \in Froms(c) : h < f => h <= g
  <1> DEFINE S == Froms(c) \cap 0..(f - 1)
             g == Max(S)
  <1>1. Froms(c) \in SUBSET Nat /\ IsFiniteSet(Froms(c))
    BY FromsFinite
  <1>2. S # {} /\ Opens(c, g) = Opens(c, f)
    BY DEF Restates, Froms
  <1>3. S \in SUBSET Nat /\ IsFiniteSet(S)
    BY <1>1, FS_Subset
  <1>4. \A h \in Froms(c) : h < f <=> h \in S
    BY <1>1
  <1>. HIDE DEF S
  <1>5. g \in S /\ \A h \in S : h <= g
    BY <1>2, <1>3, Highest
  <1>6. S \subseteq Froms(c)
    BY DEF S
  <1>. QED BY <1>2, <1>4, <1>5, <1>6

(* The last to begin by t, of what begins.                                 *)
LastBegun(c, t, g) == g \in Begun(c) /\ g <= t /\ \A h \in Begun(c) : h <= t => h <= g

(* What opened at an instant is what the last to begin by then opened.     *)
LEMMA StandsSince ==
  ASSUME NEW c, Heard(c), NEW f \in Froms(c)
  PROVE  \E g : LastBegun(c, f, g) /\ Opens(c, g) = Opens(c, f)
  <1> DEFINE Out == {e \in Froms(c) : ~ \E g : LastBegun(c, e, g) /\ Opens(c, g) = Opens(c, e)}
  <1> SUFFICES ASSUME Out # {} PROVE FALSE
    OBVIOUS
  <1>1. Froms(c) \in SUBSET Nat
    BY FromsFinite
  <1>2. Out \in SUBSET Nat /\ Out \subseteq Froms(c)
    BY <1>1
  <1>3. PICK e \in Out : \A o \in Out : e <= o
    <2>. HIDE DEF Out
    <2>. QED BY <1>2, Lowest
  <1>4. e \in Froms(c) /\ e \in Nat
    BY <1>2, <1>3
  <1>5. Begun(c) \subseteq Froms(c)
    BY DEF Begun
  <1>6. CASE e \in Begun(c)
    <2>1. LastBegun(c, e, e)
      BY <1>4, <1>6 DEF LastBegun
    <2>. QED BY <1>3, <2>1
  <1>7. CASE e \notin Begun(c)
    <2>1. Restates(c, e)
      BY <1>4, <1>7 DEF Begun
    <2>2. PICK d \in Froms(c) : /\ d < e /\ Opens(c, d) = Opens(c, e)
                                /\ \A h \in Froms(c) : h < e => h <= d
      BY <1>4, <2>1, RestatedFrom
    <2>3. d \in Nat /\ d \notin Out
      BY <1>1, <1>3, <1>4, <2>2
    <2>4. PICK g : LastBegun(c, d, g) /\ Opens(c, g) = Opens(c, d)
      BY <2>3
    <2>5. \A h \in Begun(c) : h <= e => h <= d
      <3> SUFFICES ASSUME NEW h \in Begun(c), h <= e PROVE h <= d
        OBVIOUS
      <3>1. h \in Froms(c) /\ h \in Nat /\ h # e
        BY <1>1, <1>5, <1>7
      <3>2. h < e
        BY <1>4, <3>1
      <3>. QED BY <2>2, <3>1, <3>2
    <2>6. LastBegun(c, e, g)
      <3>1. g \in Begun(c) /\ g <= d /\ g \in Nat
        BY <1>1, <1>5, <2>4 DEF LastBegun
      <3>2. g <= e
        BY <1>4, <2>2, <2>3, <3>1
      <3>3. \A h \in Begun(c) : h <= e => h <= g
        BY <2>4, <2>5 DEF LastBegun
      <3>. QED BY <3>1, <3>2, <3>3 DEF LastBegun
    <2>. QED BY <1>3, <2>2, <2>4, <2>6
  <1>. QED BY <1>6, <1>7

(* An instant is covered by the span that began last by then.              *)
LEMMA SpanCovers ==
  ASSUME NEW c, Heard(c), NEW f \in Begun(c), NEW t \in Nat
  PROVE  Covers(Span(c, f), t) <=> LastBegun(c, t, f)
  <1> DEFINE S == Closing(c, f)
             to == Span(c, f).to
  <1>1. Begun(c) \in SUBSET Nat /\ f \in Nat
    BY FromsFinite DEF Begun
  <1>2. S = {g \in Begun(c) : g > f} /\ S \in SUBSET Nat
    BY <1>1 DEF Closing
  <1>3. Covers(Span(c, f), t) <=> f <= t /\ (to = Forever \/ t < to)
    BY DEF Covers, Span
  <1>4. to = IF S = {} THEN Forever ELSE Min(S)
    BY DEF Span
  <1>. HIDE DEF to, S
  <1>5. CASE S = {}
    <2>1. \A h \in Begun(c) : h <= f
      BY <1>1, <1>2, <1>5
    <2>. QED BY <1>3, <1>4, <1>5, <2>1 DEF LastBegun
  <1>6. CASE S # {}
    <2>1. \E x \in S : \A y \in S : x <= y
      BY <1>2, <1>6, Lowest
    <2>2. to \in S /\ \A y \in S : to <= y
      BY <1>4, <1>6, <2>1 DEF Min
    <2>3. to \in Nat /\ to # Forever /\ to \in Begun(c) /\ to > f
      BY <1>2, <2>2, SurvivorAssumption
    <2>4. ASSUME t < to, NEW h \in Begun(c), h <= t PROVE h <= f
      <3>1. h \in Nat
        BY <1>1
      <3>2. h \in S => to <= h
        BY <2>2
      <3>. QED BY <1>1, <1>2, <2>3, <2>4, <3>1, <3>2
    <2>5. ASSUME f <= t, \A h \in Begun(c) : h <= t => h <= f PROVE t < to
      BY <1>1, <2>3, <2>5
    <2>. QED BY <1>3, <2>3, <2>4, <2>5 DEF LastBegun
  <1>. QED BY <1>5, <1>6

(* What held_at reads off a timeline: what the last to begin opened.       *)
LEMMA ResolveIs ==
  ASSUME NEW c, Heard(Claimed(c)), NEW t \in Nat
  PROVE  Resolve(c, "valid_interval", t)
           = UNION {Opens(Claimed(c), f) : f \in {g \in Begun(Claimed(c)) : LastBegun(Claimed(c), t, g)}}
  <1> DEFINE k == Claimed(c)
             facts == SpansOf(k)
  <1>1. Resolve(c, "valid_interval", t) = UNION {x.values : x \in {g \in facts : Covers(g, t)}}
    BY DEF Resolve, Timeline
  <1>. HIDE DEF k
  <1>2. facts = {Span(k, f) : f \in Begun(k)}
    BY SpansAre
  <1>3. \A f \in Begun(k) : Covers(Span(k, f), t) <=> LastBegun(k, t, f)
    BY SpanCovers DEF k
  <1>4. \A f : Span(k, f).values = Opens(k, f)
    BY DEF Span
  <1>. HIDE DEF facts
  <1>5. ASSUME NEW v
        PROVE  v \in UNION {x.values : x \in {g \in facts : Covers(g, t)}}
               <=> \E f \in Begun(k) : LastBegun(k, t, f) /\ v \in Opens(k, f)
    BY <1>2, <1>3, <1>4
  <1>6. ASSUME NEW v
        PROVE  v \in UNION {Opens(k, f) : f \in {g \in Begun(k) : LastBegun(k, t, g)}}
               <=> \E f \in Begun(k) : LastBegun(k, t, f) /\ v \in Opens(k, f)
    OBVIOUS
  <1>7. UNION {x.values : x \in {g \in facts : Covers(g, t)}}
          = UNION {Opens(k, f) : f \in {g \in Begun(k) : LastBegun(k, t, g)}}
    BY <1>5, <1>6
  <1>. QED BY <1>1, <1>7 DEF k

-----------------------------------------------------------------------------
(* The rules as the strategies state them.                                 *)

LEMMA ClaimedHeard ==
  ASSUME NEW c, Heard(c)
  PROVE  Heard(Claimed(c))
  <1>1. {i \in DOMAIN c : c[i].value # Silent} \in SUBSET DOMAIN c
    OBVIOUS
  <1>. QED BY <1>1, HeardLess DEF Claimed

LEMMA RuleOfRecency ==
  ASSUME NEW c, Heard(c), NEW t
  PROVE  Rule(c, "most_recent", t) = MostRecent(c)
  <1>1. MostRecent(c) = {c[i].value : i \in {j \in DOMAIN c : LastAt(c, j)}}
    BY MostRecentIs
  <1>2. ASSUME NEW v
        PROVE  v \in Rule(c, "most_recent", t) <=> \E i \in DOMAIN c : LastAt(c, i) /\ v = c[i].value
    BY DEF Rule, LastAt
  <1>3. ASSUME NEW v
        PROVE  v \in MostRecent(c) <=> \E i \in DOMAIN c : LastAt(c, i) /\ v = c[i].value
    BY <1>1
  <1>. QED BY <1>2, <1>3

(* By the rule, what the last instant by t opens.                          *)
LEMMA RuleOfTime ==
  ASSUME NEW c, Heard(c), NEW t \in Nat
  PROVE  \A v : v \in Rule(c, "valid_interval", t) <=>
           \E f \in Froms(c) : /\ f <= t /\ v \in Opens(c, f)
                               /\ \A g \in Froms(c) : g <= t => g <= f
  <1> TAKE v
  <1> DEFINE Last(i) == c[i].from <= t /\ \A j \in DOMAIN c : c[j].from <= t => c[j].from <= c[i].from
  <1>0. \A i \in DOMAIN c : c[i].from \in Nat /\ c[i].at \in Nat
    BY DEF Heard
  <1>1. v \in Rule(c, "valid_interval", t) <=>
          \E i \in DOMAIN c : /\ v = c[i].value /\ Last(i)
                              /\ \A j \in DOMAIN c : Last(j) => c[j].at <= c[i].at
    BY DEF Rule
  <1>2. \A i, j \in DOMAIN c : Last(i) => (Last(j) <=> c[j].from = c[i].from)
    BY <1>0
  <1>3. \A f : v \in Opens(c, f) <=> \E i \in DOMAIN c : OpensAt(c, f, i) /\ v = c[i].value
    BY OpensIs
  <1>4. \A i \in DOMAIN c : Last(i) =>
          (OpensAt(c, c[i].from, i) <=> \A j \in DOMAIN c : Last(j) => c[j].at <= c[i].at)
    BY <1>2 DEF OpensAt
  <1>5. \A i \in DOMAIN c : Last(i) <=> /\ c[i].from <= t
                                       /\ \A g \in Froms(c) : g <= t => g <= c[i].from
    BY DEF Froms
  <1>6. \A f \in Froms(c), i \in DOMAIN c : OpensAt(c, f, i) => f = c[i].from
    BY DEF OpensAt
  <1>. HIDE DEF Last
  <1>7. ASSUME NEW i \in DOMAIN c, v = c[i].value, Last(i),
               \A j \in DOMAIN c : Last(j) => c[j].at <= c[i].at
        PROVE  \E f \in Froms(c) : /\ f <= t /\ v \in Opens(c, f)
                                   /\ \A g \in Froms(c) : g <= t => g <= f
    <2>1. c[i].from \in Froms(c)
      BY DEF Froms
    <2>. QED BY <1>3, <1>4, <1>5, <1>7, <2>1
  <1>8. ASSUME NEW f \in Froms(c), f <= t, v \in Opens(c, f), \A g \in Froms(c) : g <= t => g <= f
        PROVE  \E i \in DOMAIN c : /\ v = c[i].value /\ Last(i)
                                   /\ \A j \in DOMAIN c : Last(j) => c[j].at <= c[i].at
    <2>1. PICK i \in DOMAIN c : OpensAt(c, f, i) /\ v = c[i].value
      BY <1>3, <1>8
    <2>2. Last(i)
      BY <1>5, <1>6, <1>8, <2>1
    <2>. QED BY <1>4, <1>6, <2>1, <2>2
  <1>. QED BY <1>1, <1>7, <1>8

(* Whatever was heard, in whatever order: what a slot holds by recency, and*)
(* at each instant of its timeline, is what was heard last of what counts  *)
(* (rm-survivor's timeline, with its merged restatements, and held_at).    *)
THEOREM RulesAreFollowed ==
  ASSUME NEW c, Heard(c), NEW t \in Nat, NEW strategy \in {"most_recent", "valid_interval"}
  PROVE  Resolve(c, strategy, t) = Rule(Claimed(c), strategy, t)
  <1> DEFINE k == Claimed(c)
  <1>1. Heard(k)
    BY ClaimedHeard
  <1>2. CASE strategy = "most_recent"
    <2>1. Resolve(c, "most_recent", t) = Chosen(k, "most_recent")
      BY DEF Resolve, Survivors
    <2>. HIDE DEF k
    <2>2. Chosen(k, "most_recent") = Rule(k, "most_recent", t)
      BY <1>1, MostRecentChosen, RuleOfRecency
    <2>. QED BY <1>2, <2>1, <2>2 DEF k
  <1>3. CASE strategy = "valid_interval"
    <2> DEFINE R == Resolve(c, "valid_interval", t)
    <2>1. R = UNION {Opens(k, f) : f \in {g \in Begun(k) : LastBegun(k, t, g)}}
      BY <1>1, ResolveIs
    <2>. HIDE DEF R, k
    <2>2. Froms(k) \in SUBSET Nat /\ Begun(k) \subseteq Froms(k)
      BY <1>1, FromsFinite DEF Begun
    <2>3. ASSUME NEW v
          PROVE  v \in R <=> \E g : LastBegun(k, t, g) /\ v \in Opens(k, g)
      BY <2>1 DEF LastBegun
    <2>4. ASSUME NEW v, NEW g, LastBegun(k, t, g), v \in Opens(k, g)
          PROVE  \E f \in Froms(k) : /\ f <= t /\ v \in Opens(k, f)
                                     /\ \A h \in Froms(k) : h <= t => h <= f
      <3> DEFINE S == {h \in Froms(k) : h <= t}
      <3>1. g \in S /\ S \in SUBSET Nat /\ IsFiniteSet(S)
        BY <1>1, <2>2, <2>4, FromsFinite, FS_Subset DEF LastBegun
      <3>2. Max(S) \in S /\ \A h \in S : h <= Max(S)
        BY <3>1, Highest
      <3>3. PICK f \in Froms(k) : f <= t /\ f \in Nat /\ \A h \in Froms(k) : h <= t => h <= f
        BY <2>2, <3>2
      <3>4. PICK b : LastBegun(k, f, b) /\ Opens(k, b) = Opens(k, f)
        BY <1>1, <3>3, StandsSince
      <3>5. b = g
        <4>1. b \in Nat /\ g \in Nat /\ b \in Froms(k) /\ g \in Froms(k) /\ b <= f /\ b <= t /\ g <= t
          BY <2>2, <2>4, <3>3, <3>4 DEF LastBegun
        <4>2. g <= f
          BY <3>3, <4>1
        <4>3. b <= g
          BY <2>4, <3>4, <4>1 DEF LastBegun
        <4>4. g <= b
          BY <2>4, <3>4, <4>2 DEF LastBegun
        <4>. QED BY <4>1, <4>3, <4>4
      <3>. QED BY <2>4, <3>3, <3>4, <3>5
    <2>5. ASSUME NEW v, NEW f \in Froms(k), f <= t, v \in Opens(k, f),
                 \A h \in Froms(k) : h <= t => h <= f
          PROVE  \E g : LastBegun(k, t, g) /\ v \in Opens(k, g)
      <3>1. PICK b : LastBegun(k, f, b) /\ Opens(k, b) = Opens(k, f)
        BY <1>1, StandsSince
      <3>2. LastBegun(k, t, b)
        <4>1. b \in Nat /\ f \in Nat /\ b <= f /\ b \in Begun(k)
          BY <2>2, <3>1 DEF LastBegun
        <4>2. b <= t
          BY <2>5, <4>1
        <4>3. \A h \in Begun(k) : h <= t => h <= b
          BY <2>2, <2>5, <3>1 DEF LastBegun
        <4>. QED BY <4>1, <4>2, <4>3 DEF LastBegun
      <3>. QED BY <2>5, <3>1, <3>2
    <2>6. R = Rule(k, "valid_interval", t)
      <3>1. \A v : v \in Rule(k, "valid_interval", t) <=>
              \E f \in Froms(k) : /\ f <= t /\ v \in Opens(k, f)
                                  /\ \A g \in Froms(k) : g <= t => g <= f
        BY <1>1, RuleOfTime
      <3>2. \A v : v \in R <=> v \in Rule(k, "valid_interval", t)
        BY <2>3, <2>4, <2>5, <3>1
      <3>3. R = Rule(k, "valid_interval", t)
        BY <3>2
      <3>. QED BY <3>3
    <2>. QED BY <1>3, <2>6 DEF R, k
  <1>. QED BY <1>2, <1>3

-----------------------------------------------------------------------------
(* The log of a slot (Belief): it holds versions, and only grows.          *)
LogTyped == log \in Seq(SlotVersion)

LogGrows ==
  /\ DOMAIN log \subseteq DOMAIN log'
  /\ \A i \in DOMAIN log : log'[i] = log[i]

LEMMA VersionParts ==
  ASSUME NEW v \in SlotVersion
  PROVE  /\ v.value \in Values \cup {Absent} /\ v.value # Silent
         /\ v.from \in Nat /\ v.at \in Nat /\ v.at \in KnownTimes /\ v.from \in ValidTimes \cup KnownTimes
         /\ v.to \in Nat \cup {Forever}
  BY BeliefAssumption DEF SlotVersion

LEMMA LogParts ==
  ASSUME NEW l \in Seq(SlotVersion)
  PROVE  /\ Len(l) \in Nat /\ DOMAIN l = 1..Len(l) /\ IsFiniteSet(DOMAIN l)
         /\ \A i \in DOMAIN l : l[i] \in SlotVersion
  <1>1. Len(l) \in Nat /\ DOMAIN l = 1..Len(l) /\ \A i \in DOMAIN l : l[i] \in SlotVersion
    OBVIOUS
  <1>2. IsFiniteSet(1..Len(l))
    BY <1>1, FS_Interval
  <1>. QED BY <1>1, <1>2

(* What a reader sees is candidates, and none of them silent.              *)
LEMMA SeenHeard ==
  ASSUME NEW l \in Seq(SlotVersion), NEW holder, NEW tx
  PROVE  LET c == Seen(l, holder, tx)
         IN /\ Heard(c) /\ Claimed(c) = c
            /\ \A i : i \in DOMAIN c <=> i \in DOMAIN l /\ l[i].at <= tx /\ l[i].holder = holder
            /\ \A i \in DOMAIN c : c[i] = l[i] /\ c[i] \in SlotVersion
  <1> DEFINE c == Seen(l, holder, tx)
             S == {i \in DOMAIN l : l[i].at <= tx /\ l[i].holder = holder}
  <1>1. /\ IsFiniteSet(DOMAIN l) /\ DOMAIN l \in SUBSET Nat
        /\ \A i \in DOMAIN l : l[i] \in SlotVersion
    BY LogParts
  <1>2. \A i \in DOMAIN l : l[i].from \in Nat /\ l[i].at \in Nat /\ l[i].value # Silent
    BY <1>1, VersionParts
  <1>3. Heard(l)
    BY <1>1, <1>2 DEF Heard
  <1>4. S \in SUBSET DOMAIN l /\ c = Restrict(l, S)
    BY DEF Seen
  <1>5. Heard(c) /\ DOMAIN c = S /\ \A i \in S : c[i] = l[i]
    BY <1>3, <1>4, HeardLess
  <1>6. c = [i \in S |-> l[i]]
    BY <1>4 DEF Restrict
  <1>. HIDE DEF c
  <1>7. Claimed(c) = c
    <2>1. {i \in DOMAIN c : c[i].value # Silent} = DOMAIN c
      BY <1>2, <1>5
    <2>2. Claimed(c) = Restrict(c, DOMAIN c)
      BY <2>1 DEF Claimed
    <2>. QED BY <1>5, <1>6, <2>2 DEF Restrict
  <1>. QED BY <1>1, <1>5, <1>7 DEF c

-----------------------------------------------------------------------------
(* What survives was claimed.                                              *)

LEMMA FirstBestClaimed ==
  ASSUME NEW c, Heard(c), DOMAIN c # {}, NEW rank, \A i \in DOMAIN c : rank[c[i].value] \in Nat
  PROVE  FirstBest(c, rank) \subseteq ValuesOf(c)
  <1> DEFINE f == [i \in DOMAIN c |-> rank[c[i].value]]
             S == {f[i] : i \in DOMAIN f}
             best == Max({rank[c[i].value] : i \in DOMAIN c})
             B == {i \in DOMAIN c : rank[c[i].value] = best}
  <1>1. S = {rank[c[i].value] : i \in DOMAIN c} /\ S \in SUBSET Nat /\ S # {}
    OBVIOUS
  <1>2. IsFiniteSet(S)
    BY MadeFinite DEF Heard
  <1>. HIDE DEF S
  <1>3. Max(S) \in S
    BY <1>1, <1>2, Highest
  <1>4. B # {} /\ B \in SUBSET Nat
    BY <1>1, <1>3 DEF Heard
  <1>5. FirstBest(c, rank) = {c[Min(B)].value}
    BY DEF FirstBest
  <1>. HIDE DEF B, best
  <1>6. Min(B) \in B
    BY <1>4, Lowest DEF Min
  <1>7. B \subseteq DOMAIN c
    BY DEF B
  <1>. QED BY <1>5, <1>6, <1>7 DEF ValuesOf

LEMMA MostRecentClaimed ==
  ASSUME NEW c
  PROVE  MostRecent(c) \subseteq ValuesOf(c)
  BY DEF MostRecent, ValuesOf

LEMMA SourceClaimed ==
  ASSUME NEW c, NEW order
  PROVE  BySourcePriority(c, order) \subseteq ValuesOf(c)
  <1>1. ASSUME NEW s PROVE MostRecent(Restrict(c, {i \in DOMAIN c : c[i].source = s})) \subseteq ValuesOf(c)
    <2> DEFINE g == Restrict(c, {i \in DOMAIN c : c[i].source = s})
    <2>1. MostRecent(g) \subseteq ValuesOf(g)
      BY MostRecentClaimed
    <2>2. ValuesOf(g) \subseteq ValuesOf(c)
      BY DEF ValuesOf, Restrict
    <2>. QED BY <2>1, <2>2
  <1>2. \/ BySourcePriority(c, order) = ValuesOf(c)
        \/ \E s : BySourcePriority(c, order) = MostRecent(Restrict(c, {i \in DOMAIN c : c[i].source = s}))
    BY Zenon DEF BySourcePriority
  <1>. QED BY <1>1, <1>2

LEMMA WinnerClaimed ==
  ASSUME NEW c, Heard(c), DOMAIN c # {}, ValuesOf(c) \subseteq Values \cup {Absent},
         NEW strategy \in Strategies \ {"valid_interval"}
  PROVE  Winner(c, strategy) \subseteq ValuesOf(c)
  <1>1. \A i \in DOMAIN c : c[i].value \in ValuesOf(c)
    BY DEF ValuesOf
  <1>2. CASE strategy = "longest_value"
    <2> DEFINE rank == [v \in ValuesOf(c) |-> IF v = Absent THEN 0 ELSE Size[v]]
    <2>1. \A i \in DOMAIN c : rank[c[i].value] \in Nat
      BY <1>1, BeliefAssumption
    <2>2. strategy \notin DOMAIN Orders
      BY <1>2, SurvivorAssumption DEF Unordered
    <2>3. Winner(c, strategy) = FirstBest(c, rank)
      BY <1>2, <2>2 DEF Winner
    <2>. HIDE DEF rank
    <2>. QED BY <2>1, <2>3, FirstBestClaimed
  <1>3. CASE strategy = "majority_vote"
    <2> DEFINE rank == [v \in ValuesOf(c) |-> Votes(c, v)]
    <2>1. \A v : Votes(c, v) \in Nat
      <3> TAKE v
      <3>1. IsFiniteSet({i \in DOMAIN c : c[i].value = v})
        BY FS_Subset DEF Heard
      <3>. QED BY <3>1, FS_CardinalityType DEF Votes
    <2>2. \A i \in DOMAIN c : rank[c[i].value] \in Nat
      BY <1>1, <2>1
    <2>3. strategy \notin DOMAIN Orders
      BY <1>3, SurvivorAssumption DEF Unordered
    <2>4. Winner(c, strategy) = FirstBest(c, rank)
      BY <1>3, <2>3 DEF Winner
    <2>. HIDE DEF rank
    <2>. QED BY <2>2, <2>4, FirstBestClaimed
  <1>4. CASE strategy = "first_non_null"
    <2>1. Min(DOMAIN c) \in DOMAIN c
      BY Lowest DEF Min, Heard
    <2>2. strategy \notin DOMAIN Orders
      BY <1>4, SurvivorAssumption DEF Unordered
    <2>. QED BY <1>1, <1>4, <2>1, <2>2 DEF Winner
  <1>5. CASE strategy = "unanimous_or_null"
    <2>1. strategy \notin DOMAIN Orders
      BY <1>5, SurvivorAssumption DEF Unordered
    <2>. QED BY <1>5, <2>1 DEF Winner
  <1>6. CASE strategy = "most_recent"
    <2>1. strategy \notin DOMAIN Orders
      BY <1>6, SurvivorAssumption DEF Unordered
    <2>2. Winner(c, strategy) = MostRecent(c)
      BY <1>6, <2>1 DEF Winner
    <2>. QED BY <2>2, MostRecentClaimed
  <1>7. CASE strategy \in DOMAIN Orders
    <2>1. strategy \notin Unordered
      BY <1>7, SurvivorAssumption
    <2>2. Winner(c, strategy) = BySourcePriority(c, Orders[strategy])
      BY <1>7, <2>1 DEF Winner, Unordered
    <2>. QED BY <2>2, SourceClaimed
  <1>. QED BY <1>2, <1>3, <1>4, <1>5, <1>6, <1>7 DEF Strategies, Unordered

LEMMA ChosenClaimed ==
  ASSUME NEW c, Heard(c), DOMAIN c # {}, ValuesOf(c) \subseteq Values \cup {Absent},
         NEW strategy \in Strategies \ {"valid_interval"}
  PROVE  Chosen(c, strategy) \subseteq ValuesOf(c)
  BY WinnerClaimed DEF Chosen

-----------------------------------------------------------------------------
(* A timeline written down: each span of it once.                          *)

(* The k-th of some spans, by where they begin.                            *)
KthOf(facts, k) == CHOOSE x \in facts : Cardinality({y \in facts : y.from <= x.from}) = k

LEMMA EachKth ==
  ASSUME NEW facts, IsFiniteSet(facts), \A x \in facts : x.from \in Nat,
         \A x, y \in facts : x.from = y.from => x = y
  PROVE  /\ Cardinality(facts) \in Nat
         /\ \A k \in 1..Cardinality(facts) : KthOf(facts, k) \in facts
         /\ \A x \in facts : \E k \in 1..Cardinality(facts) : KthOf(facts, k) = x
  <1> DEFINE below == [x \in facts |-> {y \in facts : y.from < x.from}]
             upto(x) == {y \in facts : y.from <= x.from}
             n == Cardinality(facts)
  <1>1. n \in Nat
    BY FS_CardinalityType
  <1>2. below \in [facts -> SUBSET facts]
    OBVIOUS
  <1>3. \A x \in facts : x \notin below[x]
    OBVIOUS
  <1>4. \A x, y \in facts : x # y => x \in below[y] \/ y \in below[x]
    OBVIOUS
  <1>5. \A x, y \in facts : x \in below[y] => below[x] \subseteq below[y]
    <2> SUFFICES ASSUME NEW x \in facts, NEW y \in facts, NEW z \in facts,
                        x.from < y.from, z.from < x.from
                 PROVE  z.from < y.from
      OBVIOUS
    <2>. QED OBVIOUS
  <1>6. \A x \in facts : upto(x) = below[x] \cup {x}
    OBVIOUS
  <1>7. \A x \in facts : IsFiniteSet(below[x]) /\ IsFiniteSet(upto(x))
                         /\ Cardinality(below[x]) \in Nat
                         /\ Cardinality(upto(x)) = Cardinality(below[x]) + 1
    <2> TAKE x \in facts
    <2>. HIDE DEF upto
    <2>1. IsFiniteSet(below[x])
      BY <1>2, FS_Subset
    <2>. HIDE DEF below
    <2>2. Cardinality(below[x]) \in Nat
      BY <2>1, FS_CardinalityType
    <2>3. IsFiniteSet(below[x] \cup {x}) /\ Cardinality(below[x] \cup {x}) = Cardinality(below[x]) + 1
      BY <1>3, <2>1, FS_AddElement
    <2>. QED BY <1>6, <2>1, <2>2, <2>3
  <1>. HIDE DEF below
  <1>8. \A m \in 0..(n - 1) : \E x \in facts : Cardinality(below[x]) = m
    BY <1>2, <1>3, <1>4, <1>5, RankOnto, Zenon
  <1>9. ASSUME NEW k \in 1..n
        PROVE  KthOf(facts, k) \in facts /\ Cardinality(upto(KthOf(facts, k))) = k
    <2>1. k - 1 \in 0..(n - 1) /\ (k - 1) + 1 = k
      BY <1>1
    <2>2. PICK x \in facts : Cardinality(below[x]) = k - 1
      BY <1>8, <2>1
    <2>3. Cardinality(upto(x)) = k
      BY <1>7, <2>1, <2>2
    <2>. QED BY <2>3 DEF KthOf
  <1>10. ASSUME NEW x \in facts
         PROVE  \E k \in 1..n : KthOf(facts, k) = x
    <2> DEFINE k == Cardinality(upto(x))
               z == KthOf(facts, k)
    <2>1. k \in 1..n
      <3>1. upto(x) \in SUBSET facts
        OBVIOUS
      <3>2. k <= n
        BY <3>1, FS_Subset
      <3>3. k \in Nat /\ k >= 1
        <4>. HIDE DEF upto
        <4>1. Cardinality(below[x]) \in Nat /\ k = Cardinality(below[x]) + 1
          BY <1>7
        <4>. QED BY <4>1
      <3>. HIDE DEF k
      <3>. QED BY <1>1, <3>2, <3>3
    <2>. HIDE DEF k
    <2>2. z \in facts /\ Cardinality(upto(z)) = k
      BY <1>9, <2>1
    <2>. HIDE DEF z
    <2>3. ASSUME NEW a \in facts, NEW b \in facts, a.from < b.from PROVE Cardinality(upto(a)) # Cardinality(upto(b))
      <3>1. a \in below[b]
        BY <2>3 DEF below
      <3>2. below[a] \subseteq below[b] /\ a \notin below[a]
        BY <1>3, <1>5, <3>1
      <3>. HIDE DEF upto
      <3>3. IsFiniteSet(below[b]) /\ below[a] \in SUBSET below[b] /\ below[a] # below[b]
        BY <1>7, <3>1, <3>2
      <3>4. Cardinality(below[b]) # Cardinality(below[a])
        BY <3>3, FS_Subset
      <3>5. /\ Cardinality(below[a]) \in Nat /\ Cardinality(below[b]) \in Nat
            /\ Cardinality(upto(a)) = Cardinality(below[a]) + 1
            /\ Cardinality(upto(b)) = Cardinality(below[b]) + 1
        BY <1>7
      <3>. QED BY <3>4, <3>5
    <2>4. z.from = x.from
      BY <2>2, <2>3 DEF k
    <2>. QED BY <2>1, <2>2, <2>4 DEF z
  <1>. QED BY <1>1, <1>9, <1>10

(* The spans of some candidates, each told by where it begins.             *)
LEMMA SpansFinite ==
  ASSUME NEW c, Heard(c)
  PROVE  /\ IsFiniteSet(SpansOf(c))
         /\ \A x \in SpansOf(c) : x.from \in Begun(c) /\ x = Span(c, x.from)
         /\ \A f \in Begun(c) : Span(c, f) \in SpansOf(c) /\ Span(c, f).from = f
         /\ Begun(c) \in SUBSET Nat
  <1> DEFINE g == [f \in Begun(c) |-> Span(c, f)]
  <1>1. IsFiniteSet(Begun(c)) /\ Begun(c) \in SUBSET Nat
    <2>1. Begun(c) \in SUBSET Froms(c)
      BY DEF Begun
    <2>. QED BY <2>1, FromsFinite, FS_Subset
  <1>2. DOMAIN g = Begun(c) /\ \A f \in Begun(c) : g[f] = Span(c, f)
    OBVIOUS
  <1>3. SpansOf(c) = {g[f] : f \in DOMAIN g}
    BY <1>2, SpansAre
  <1>. HIDE DEF g
  <1>4. IsFiniteSet(SpansOf(c))
    BY <1>1, <1>2, <1>3, MadeFinite
  <1>5. \A f \in Begun(c) : Span(c, f).from = f
    BY DEF Span
  <1>. QED BY <1>1, <1>4, <1>5, SpansAre

(* A version that says what the span from f says.                          *)
Concludes(v, c, f) == v = Conclusion(c, CHOOSE x \in Opens(c, f) : TRUE, f, Span(c, f).to)

LEMMA ConclusionTyped ==
  ASSUME NEW c, Heard(c), DOMAIN c # {}, \A i \in DOMAIN c : c[i] \in SlotVersion,
         NEW value \in ValuesOf(c), NEW from \in ValidTimes \cup KnownTimes,
         NEW to \in ValidTimes \cup KnownTimes \cup {Forever}
  PROVE  /\ Conclusion(c, value, from, to) \in SlotVersion
         /\ LET v == Conclusion(c, value, from, to)
            IN /\ v.value = value /\ v.from = from /\ v.to = to /\ v.at = Latest(c)
               /\ v.holder = NoOne
  <1>1. value \in Values \cup {Absent}
    BY VersionParts DEF ValuesOf
  <1>2. Latest(c) \in KnownTimes
    <2>1. PICK i \in DOMAIN c : c[i].at = Latest(c)
      BY LatestHeard
    <2>. QED BY <2>1, VersionParts
  <1>. QED BY <1>1, <1>2 DEF Conclusion, Stated, SlotVersion

LEMMA ResolvedByTime ==
  ASSUME LogTyped, NEW tx \in KnownTimes, AssertResolved("valid_interval", tx)
  PROVE  LET c == Seen(log, NoOne, tx)
         IN /\ DOMAIN c # {}
            /\ \A f \in Begun(c) : Cardinality(Opens(c, f)) = 1
            /\ LogTyped' /\ LogGrows
            /\ \A i \in DOMAIN log' \ DOMAIN log : \E f \in Begun(c) : Concludes(log'[i], c, f)
            /\ \A f \in Begun(c) : \E i \in DOMAIN log' \ DOMAIN log : Concludes(log'[i], c, f)
            /\ \A i \in DOMAIN log, j \in DOMAIN log' \ DOMAIN log : i < j
  <1> DEFINE c == Seen(log, NoOne, tx)
             facts == Timeline(c)
             n == Cardinality(facts)
             said(k) == LET f == KthOf(facts, k)
                        IN Conclusion(c, CHOOSE v \in f.values : TRUE, f.from, f.to)
             extra == [k \in 1..n |-> said(k)]
  <1>1. /\ Heard(c) /\ Claimed(c) = c /\ \A i \in DOMAIN c : c[i] \in SlotVersion
    BY SeenHeard DEF LogTyped
  <1>2. /\ DOMAIN c # {} /\ \A f \in facts : Cardinality(f.values) = 1
        /\ log' = log \o extra
    BY DEF AssertResolved, KthOf
  <1>3. facts = SpansOf(c)
    BY <1>1 DEF Timeline
  <1>. HIDE DEF c, facts
  <1>4. /\ IsFiniteSet(facts)
        /\ \A x \in facts : x.from \in Begun(c) /\ x.from \in Nat /\ x = Span(c, x.from)
        /\ \A f \in Begun(c) : Span(c, f) \in facts /\ Span(c, f).from = f
    BY <1>1, <1>3, SpansFinite
  <1>5. /\ n \in Nat /\ \A k \in 1..n : KthOf(facts, k) \in facts
        /\ \A x \in facts : \E k \in 1..n : KthOf(facts, k) = x
    <2>1. \A x, y \in facts : x.from = y.from => x = y
      BY <1>4
    <2>2. \A x \in facts : x.from \in Nat
      BY <1>4
    <2>. QED BY <1>4, <2>1, <2>2, EachKth
  <1>6. \A f : Span(c, f).values = Opens(c, f) /\ Span(c, f).from = f
    BY DEF Span
  <1>7. \A f \in Begun(c) : Cardinality(Opens(c, f)) = 1
    BY <1>2, <1>4, <1>6
  <1>. HIDE DEF n
  <1>8. ASSUME NEW k \in 1..n
        PROVE  /\ extra[k] \in SlotVersion
               /\ KthOf(facts, k).from \in Begun(c) /\ Concludes(extra[k], c, KthOf(facts, k).from)
    <2> DEFINE f == KthOf(facts, k)
               v == CHOOSE x \in f.values : TRUE
    <2>1. f \in facts /\ f.from \in Begun(c) /\ f = Span(c, f.from) /\ f.values = Opens(c, f.from)
      BY <1>4, <1>5, <1>6
    <2>2. extra[k] = Conclusion(c, v, f.from, f.to)
      OBVIOUS
    <2>. HIDE DEF f, extra
    <2>3. Concludes(extra[k], c, f.from)
      BY <2>1, <2>2 DEF Concludes
    <2>4. v \in ValuesOf(c)
      <3>1. Opens(c, f.from) # {}
        <4>1. f.from \in Froms(c)
          BY <2>1 DEF Begun
        <4>2. PICK i : OpensAt(c, f.from, i)
          BY <1>1, <4>1, OpensIs
        <4>3. i \in DOMAIN c
          BY <4>2 DEF OpensAt
        <4>4. c[i].value \in Opens(c, f.from)
          BY <1>1, <4>2, <4>3, OpensIs
        <4>. QED BY <4>4
      <3>2. Opens(c, f.from) \subseteq ValuesOf(c)
        BY <1>1, OpensIs DEF ValuesOf
      <3>. QED BY <2>1, <3>1, <3>2
    <2>5. Froms(c) \subseteq ValidTimes \cup KnownTimes
      BY <1>1, VersionParts DEF Froms
    <2>6. f.from \in ValidTimes \cup KnownTimes
      BY <2>1, <2>5 DEF Begun
    <2>7. f.to \in ValidTimes \cup KnownTimes \cup {Forever}
      <3> DEFINE S == Closing(c, f.from)
      <3>1. S \subseteq Froms(c) /\ S \in SUBSET Nat
        BY <1>1, FromsFinite DEF Closing, Begun
      <3>2. f.to = IF S = {} THEN Forever ELSE Min(S)
        BY <2>1 DEF Span
      <3>. HIDE DEF S
      <3>3. S # {} => Min(S) \in S
        BY <3>1, Lowest DEF Min
      <3>. QED BY <2>5, <3>1, <3>2, <3>3
    <2>8. extra[k] \in SlotVersion
      BY <1>1, <1>2, <2>2, <2>4, <2>6, <2>7, ConclusionTyped
    <2>. QED BY <2>1, <2>3, <2>8 DEF f
  <1>9. extra \in Seq(SlotVersion) /\ Len(extra) = n /\ DOMAIN extra = 1..n
    <2>1. extra \in [1..n -> SlotVersion]
      BY <1>8
    <2>. HIDE DEF extra
    <2>. QED BY <1>5, <2>1
  <1>. HIDE DEF extra, said
  <1>10. /\ log \in Seq(SlotVersion) /\ Len(log) \in Nat /\ DOMAIN log = 1..Len(log)
    BY DEF LogTyped
  <1>11. /\ log' \in Seq(SlotVersion) /\ DOMAIN log' = 1..(Len(log) + n)
         /\ \A i \in 1..Len(log) : log'[i] = log[i]
         /\ \A k \in 1..n : log'[Len(log) + k] = extra[k]
    <2>1. log' = log \o extra
      BY <1>2
    <2>2. log \o extra \in Seq(SlotVersion) /\ DOMAIN (log \o extra) = 1..(Len(log) + n)
      BY <1>5, <1>9, <1>10
    <2>3. \A i \in 1..Len(log) : (log \o extra)[i] = log[i]
      BY <1>9, <1>10
    <2>4. \A k \in 1..n : (log \o extra)[Len(log) + k] = extra[k]
      BY <1>5, <1>9, <1>10
    <2>. QED BY <2>1, <2>2, <2>3, <2>4
  <1>12. LogTyped' /\ LogGrows
    BY <1>5, <1>10, <1>11 DEF LogTyped, LogGrows
  <1>13. ASSUME NEW i \in DOMAIN log' \ DOMAIN log PROVE \E f \in Begun(c) : Concludes(log'[i], c, f)
    <2>1. i - Len(log) \in 1..n /\ Len(log) + (i - Len(log)) = i
      BY <1>5, <1>10, <1>11
    <2>2. log'[i] = extra[i - Len(log)]
      BY <1>11, <2>1
    <2>. QED BY <1>8, <2>1, <2>2
  <1>14. ASSUME NEW f \in Begun(c) PROVE \E i \in DOMAIN log' \ DOMAIN log : Concludes(log'[i], c, f)
    <2>1. PICK k \in 1..n : KthOf(facts, k) = Span(c, f)
      BY <1>4, <1>5
    <2>2. Concludes(extra[k], c, f)
      BY <1>6, <1>8, <2>1
    <2>3. Len(log) + k \in DOMAIN log' \ DOMAIN log /\ log'[Len(log) + k] = extra[k]
      BY <1>5, <1>10, <1>11
    <2>. QED BY <2>2, <2>3
  <1>15. \A i \in DOMAIN log, j \in DOMAIN log' \ DOMAIN log : i < j
    BY <1>5, <1>10, <1>11
  <1>. QED BY <1>2, <1>7, <1>12, <1>13, <1>14, <1>15 DEF c

-----------------------------------------------------------------------------
(* What is written is a version, after the others.                         *)

LEMMA OneMore ==
  ASSUME LogTyped, NEW v \in SlotVersion, log' = Append(log, v)
  PROVE  LogTyped' /\ LogGrows
  <1>1. Len(log) \in Nat /\ DOMAIN log = 1..Len(log)
    BY DEF LogTyped
  <1>2. log' \in Seq(SlotVersion) /\ DOMAIN log' = 1..(Len(log) + 1)
        /\ \A i \in 1..Len(log) : log'[i] = log[i]
    BY DEF LogTyped
  <1>. QED BY <1>1, <1>2 DEF LogTyped, LogGrows

LEMMA ResolvedToOne ==
  ASSUME LogTyped, NEW tx \in KnownTimes, NEW strategy \in Strategies \ {"valid_interval"},
         AssertResolved(strategy, tx)
  PROVE  LogTyped' /\ LogGrows
  <1> DEFINE c == Seen(log, NoOne, tx)
             S == Survivors(c, strategy)
             first == Min({c[i].at : i \in DOMAIN c})
             v == CHOOSE x \in S : TRUE
  <1>1. /\ Heard(c) /\ Claimed(c) = c /\ \A i \in DOMAIN c : c[i] \in SlotVersion
    BY SeenHeard DEF LogTyped
  <1>2. /\ DOMAIN c # {} /\ Cardinality(S) = 1
        /\ log' = Append(log, Conclusion(c, v, first, Forever))
    BY DEF AssertResolved
  <1>3. S = Chosen(c, strategy)
    BY <1>1 DEF Survivors
  <1>. HIDE DEF c, S, first
  <1>4. \A i \in DOMAIN c : c[i].value \in Values \cup {Absent} /\ c[i].at \in KnownTimes /\ c[i].at \in Nat
    BY <1>1, VersionParts
  <1>5. ValuesOf(c) \subseteq Values \cup {Absent}
    BY <1>4 DEF ValuesOf
  <1>6. S \subseteq ValuesOf(c)
    BY <1>1, <1>2, <1>3, <1>5, ChosenClaimed
  <1>7. S # {}
    <2>1. Cardinality(S) = 1
      BY <1>2
    <2>. QED BY <2>1, FS_EmptySet
  <1>8. v \in ValuesOf(c)
    BY <1>6, <1>7
  <1>9. first \in KnownTimes
    <2> DEFINE T == {c[i].at : i \in DOMAIN c}
    <2>1. T \in SUBSET Nat /\ T # {} /\ T \subseteq KnownTimes
      BY <1>2, <1>4
    <2>2. first = Min(T)
      BY DEF first
    <2>. HIDE DEF T
    <2>. QED BY <2>1, <2>2, Lowest DEF Min
  <1>. HIDE DEF v
  <1>10. Conclusion(c, v, first, Forever) \in SlotVersion
    <2>1. first \in ValidTimes \cup KnownTimes /\ Forever \in ValidTimes \cup KnownTimes \cup {Forever}
      BY <1>9
    <2>. QED BY <1>1, <1>2, <1>8, <2>1, ConclusionTyped
  <1>. QED BY <1>2, <1>10, OneMore

LEMMA LogSteps ==
  ASSUME LogTyped, [BeliefNext]_log
  PROVE  LogTyped' /\ LogGrows
  <1>1. ASSUME NEW value \in Values \cup {Absent}, NEW from \in ValidTimes, NEW at \in KnownTimes,
               NEW supersession \in Supersessions, NEW holder \in Holders \cup {NoOne},
               AssertValue(value, from, at, supersession, holder)
        PROVE  LogTyped' /\ LogGrows
    <2>1. Stated(value, from, Forever, at, supersession, holder) \in SlotVersion
      BY DEF Stated, SlotVersion
    <2>. QED BY <1>1, <2>1, OneMore DEF AssertValue
  <1>2. ASSUME NEW strategy \in Unordered, NEW tx \in KnownTimes, AssertResolved(strategy, tx)
        PROVE  LogTyped' /\ LogGrows
    <2>0. strategy \in Strategies
      BY DEF Strategies
    <2>1. CASE strategy = "valid_interval"
      BY <1>2, <2>1, ResolvedByTime
    <2>2. CASE strategy # "valid_interval"
      BY <1>2, <2>0, <2>2, ResolvedToOne
    <2>. QED BY <2>1, <2>2
  <1>3. CASE UNCHANGED log
    BY <1>3 DEF LogTyped, LogGrows
  <1>. QED BY <1>1, <1>2, <1>3 DEF BeliefNext

LEMMA LogAlwaysTyped == BeliefSpec => []LogTyped
  <1>1. BeliefInit => LogTyped
    BY DEF BeliefInit, LogTyped
  <1>2. LogTyped /\ [BeliefNext]_log => LogTyped'
    BY LogSteps
  <1>. QED BY <1>1, <1>2, PTL DEF BeliefSpec

-----------------------------------------------------------------------------
(* What is known only later is not seen before.                            *)
LEMMA SeenSame ==
  ASSUME LogTyped, LogTyped', LogGrows, NEW tx \in Nat, NEW holder,
         \A i \in DOMAIN log' \ DOMAIN log : log'[i].at > tx
  PROVE  Seen(log', holder, tx) = Seen(log, holder, tx)
  <1> DEFINE S(l) == {i \in DOMAIN l : l[i].at <= tx /\ l[i].holder = holder}
  <1>1. \A i \in DOMAIN log' : log'[i].at \in Nat
    <2>1. \A i \in DOMAIN log' : log'[i] \in SlotVersion
      BY DEF LogTyped
    <2>. QED BY <2>1, VersionParts
  <1>2. \A i \in DOMAIN log' : log'[i].at <= tx => i \in DOMAIN log
    BY <1>1
  <1>3. S(log') = S(log)
    BY <1>2 DEF LogGrows
  <1>4. \A i \in S(log) : log'[i] = log[i]
    BY DEF LogGrows
  <1>5. Seen(log', holder, tx) = [i \in S(log') |-> log'[i]]
        /\ Seen(log, holder, tx) = [i \in S(log) |-> log[i]]
    BY DEF Seen, Restrict
  <1>. HIDE DEF S
  <1>. QED BY <1>3, <1>4, <1>5

(* PastBeliefIsSettled, always: every read of a past, by transaction time, *)
(* answers after any write as it did before, the derived answers of about  *)
(* included (as_of, about and held over an append-only version log).       *)
THEOREM PastIsSettled == BeliefSpec => PastBeliefIsSettled
  <1>1. ASSUME LogTyped, [BeliefNext]_log, NEW tx \in KnownTimes, NEW valid \in ValidTimes,
               \A i \in DOMAIN log' \ DOMAIN log : log'[i].at > tx
        PROVE  /\ AsOf(log', valid, tx) = AsOf(log, valid, tx)
               /\ Held(log', valid, tx) = Held(log, valid, tx)
               /\ \A holder \in Holders \cup {NoOne},
                     strategy \in {"most_recent", "valid_interval"} :
                    About(log', holder, strategy, valid, tx) = About(log, holder, strategy, valid, tx)
    <2>1. LogTyped' /\ LogGrows
      BY <1>1, LogSteps
    <2>2. tx \in Nat
      BY BeliefAssumption
    <2>3. \A i \in DOMAIN log' : log'[i].at \in Nat
      <3>1. \A i \in DOMAIN log' : log'[i] \in SlotVersion
        BY <2>1 DEF LogTyped
      <3>. QED BY <3>1, VersionParts
    <2>4. \A i \in DOMAIN log' : log'[i].at <= tx => i \in DOMAIN log
      BY <1>1, <2>2, <2>3
    <2>5. AsOf(log', valid, tx) = AsOf(log, valid, tx)
      <3> DEFINE K(l) == {i \in DOMAIN l : l[i].at <= tx /\ Covers(l[i], valid)}
                 J(l) == {j \in K(l) : \A k \in K(l) :
                            l[k].at < l[j].at \/ (l[k].at = l[j].at /\ k <= j)}
      <3>1. K(log') = K(log) /\ \A i \in K(log) : log'[i] = log[i]
        BY <2>1, <2>4 DEF LogGrows
      <3>2. AsOf(log', valid, tx) = {log'[i].value : i \in J(log')}
            /\ AsOf(log, valid, tx) = {log[i].value : i \in J(log)}
        BY DEF AsOf
      <3>. HIDE DEF K
      <3>3. J(log') = J(log) /\ \A i \in J(log) : log'[i] = log[i]
        BY <3>1
      <3>. HIDE DEF J
      <3>. QED BY <3>2, <3>3
    <2>6. Held(log', valid, tx) = Held(log, valid, tx)
      <3> DEFINE K(l) == {i \in DOMAIN l : l[i].at <= tx /\ l[i].from <= valid}
      <3>1. K(log') = K(log) /\ \A i \in K(log) : log'[i] = log[i]
        BY <2>1, <2>4 DEF LogGrows
      <3>2. Held(log', valid, tx) = IF K(log') = {} THEN {} ELSE {log'[Max(K(log'))].value}
        BY DEF Held
      <3>3. Held(log, valid, tx) = IF K(log) = {} THEN {} ELSE {log[Max(K(log))].value}
        BY DEF Held
      <3>4. K(log) # {} => Max(K(log)) \in K(log)
        <4>1. DOMAIN log \in SUBSET Nat /\ IsFiniteSet(DOMAIN log)
          BY <1>1, LogParts DEF LogTyped
        <4>2. K(log) \in SUBSET DOMAIN log
          OBVIOUS
        <4>. HIDE DEF K
        <4>3. IsFiniteSet(K(log)) /\ K(log) \in SUBSET Nat
          BY <4>1, <4>2, FS_Subset
        <4>. QED BY <4>3, Highest
      <3>. HIDE DEF K
      <3>. QED BY <3>1, <3>2, <3>3, <3>4
    <2>7. \A holder : Seen(log', holder, tx) = Seen(log, holder, tx)
      BY <1>1, <2>1, <2>2, SeenSame
    <2>. QED BY <2>5, <2>6, <2>7 DEF About
  <1>2. LogTyped /\ [BeliefNext]_log =>
          [\A tx \in KnownTimes, valid \in ValidTimes :
             log' # log /\ (\A i \in DOMAIN log' \ DOMAIN log : log'[i].at > tx) =>
               /\ AsOf(log', valid, tx) = AsOf(log, valid, tx)
               /\ Held(log', valid, tx) = Held(log, valid, tx)
               /\ \A holder \in Holders \cup {NoOne},
                     strategy \in {"most_recent", "valid_interval"} :
                    About(log', holder, strategy, valid, tx) = About(log, holder, strategy, valid, tx)]_log
    BY <1>1
  <1>. QED BY <1>2, LogAlwaysTyped, PTL DEF BeliefSpec, PastBeliefIsSettled

-----------------------------------------------------------------------------
(* Where nothing tells the readers apart.                                  *)

LEMMA PickTheSame ==
  ASSUME LogTyped, \A i, j \in DOMAIN log : i < j => log[i].at <= log[j].at,
         \A i \in DOMAIN log : log[i].to = Forever,
         NEW valid, NEW tx
  PROVE  Held(log, valid, tx) = AsOf(log, valid, tx)
  <1> DEFINE K == {i \in DOMAIN log : log[i].at <= tx /\ log[i].from <= valid}
             M == {j \in K : \A k \in K : log[k].at < log[j].at \/ (log[k].at = log[j].at /\ k <= j)}
  <1>1. DOMAIN log \in SUBSET Nat /\ IsFiniteSet(DOMAIN log)
    BY LogParts DEF LogTyped
  <1>2. \A i \in DOMAIN log : log[i].at \in Nat
    BY LogParts, VersionParts DEF LogTyped
  <1>3. AsOf(log, valid, tx) = {log[i].value : i \in M}
    <2> DEFINE L == {i \in DOMAIN log : log[i].at <= tx /\ Covers(log[i], valid)}
    <2>1. L = K
      BY DEF Covers
    <2>2. AsOf(log, valid, tx) = {log[i].value : i \in {j \in L : \A k \in L :
             log[k].at < log[j].at \/ (log[k].at = log[j].at /\ k <= j)}}
      BY DEF AsOf
    <2>. HIDE DEF L, K
    <2>. QED BY <2>1, <2>2
  <1>4. Held(log, valid, tx) = IF K = {} THEN {} ELSE {log[Max(K)].value}
    BY DEF Held
  <1>5. K \in SUBSET Nat /\ IsFiniteSet(K) /\ K \in SUBSET DOMAIN log
    <2>1. K \in SUBSET DOMAIN log
      OBVIOUS
    <2>. HIDE DEF K
    <2>. QED BY <1>1, <2>1, FS_Subset
  <1>. HIDE DEF K
  <1>6. CASE K = {}
    BY <1>3, <1>4, <1>6
  <1>7. CASE K # {}
    <2> DEFINE m == Max(K)
    <2>1. m \in K /\ \A k \in K : k <= m
      BY <1>5, <1>7, Highest
    <2>. HIDE DEF m
    <2>2. \A k \in K : log[k].at <= log[m].at
      <3> TAKE k \in K
      <3>1. k \in DOMAIN log /\ m \in DOMAIN log /\ k \in Nat /\ m \in Nat /\ k <= m
        BY <1>5, <2>1
      <3>2. CASE k = m
        BY <1>2, <3>1, <3>2
      <3>3. CASE k < m
        BY <3>1, <3>3
      <3>. QED BY <3>1, <3>2, <3>3
    <2>3. m \in M
      BY <1>2, <1>5, <2>1, <2>2
    <2>4. ASSUME NEW j \in M PROVE j = m
      <3>1. j \in K /\ (log[m].at < log[j].at \/ m <= j)
        BY <2>1
      <3>2. j \in Nat /\ m \in Nat /\ log[j].at \in Nat /\ log[m].at \in Nat
        BY <1>2, <1>5, <2>1, <3>1
      <3>. QED BY <2>1, <2>2, <3>1, <3>2
    <2>5. M = {m}
      BY <2>3, <2>4
    <2>. HIDE DEF M
    <2>. QED BY <1>3, <1>4, <1>7, <2>5 DEF m
  <1>. QED BY <1>6, <1>7

LEMMA AnswerStands ==
  ASSUME LogTyped, NEW holder, NEW tx \in KnownTimes, \A i \in DOMAIN log : log[i].holder = holder,
         Cardinality(About(log, holder, "most_recent", 0, tx)) = 1
  PROVE  \E i \in DOMAIN log : /\ log[i].at <= tx
                               /\ log[i].value \in About(log, holder, "most_recent", 0, tx)
                               /\ Standing(i, tx) # "corrected"
  <1> DEFINE c == Seen(log, holder, tx)
             answer == About(log, holder, "most_recent", 0, tx)
  <1>1. /\ Heard(c) /\ Claimed(c) = c
        /\ \A i : i \in DOMAIN c <=> i \in DOMAIN log /\ log[i].at <= tx
        /\ \A i \in DOMAIN c : c[i] = log[i]
    BY SeenHeard DEF LogTyped
  <1>2. answer = Chosen(Claimed(c), "most_recent")
    BY DEF About, Resolve, Survivors
  <1>. HIDE DEF c
  <1>3. answer = {c[i].value : i \in {j \in DOMAIN c : LastAt(c, j)}}
    BY <1>1, <1>2, MostRecentChosen, MostRecentIs
  <1>4. Cardinality(answer) = 1
    OBVIOUS
  <1>. HIDE DEF answer
  <1>5. answer # {}
    <2>1. ASSUME answer = {} PROVE FALSE
      <3>1. Cardinality(answer) = Cardinality({})
        BY <2>1
      <3>2. QED BY <1>4, <3>1, FS_EmptySet
    <2>. QED BY <2>1
  <1>6. PICK i \in DOMAIN c : LastAt(c, i) /\ c[i].value \in answer
    BY <1>3, <1>5
  <1>7. {k \in DOMAIN log : log[k].at <= tx /\ log[k].at > log[i].at} = {}
    <2> SUFFICES ASSUME NEW k \in DOMAIN log, log[k].at <= tx, log[k].at > log[i].at
                 PROVE  FALSE
      OBVIOUS
    <2>1. k \in DOMAIN c /\ c[k] = log[k] /\ c[i] = log[i]
      BY <1>1
    <2>2. log[k].at <= log[i].at /\ log[k].at \in Nat /\ log[i].at \in Nat
      BY <1>1, <1>6, <2>1 DEF LastAt, Heard
    <2>. QED BY <2>2
  <1>8. Standing(i, tx) = "latest"
    BY <1>7 DEF Standing
  <1>. QED BY <1>1, <1>6, <1>8 DEF answer

(* ReadersAgree, always: as_of, held, about and the standing of a recalled *)
(* assertion, four walks of one log, answer alike where nothing tells them *)
(* apart.                                                                  *)
THEOREM ReadersAlwaysAgree == BeliefSpec => []ReadersAgree
  <1>1. ASSUME LogTyped PROVE ReadersAgree
    BY <1>1, PickTheSame, AnswerStands DEF ReadersAgree
  <1>. QED BY <1>1, LogAlwaysTyped, PTL

-----------------------------------------------------------------------------
(* A timeline written down behind the history it was derived from.         *)

LEMMA ConcludesParts ==
  ASSUME NEW v, NEW c, NEW f, Concludes(v, c, f), Cardinality(Opens(c, f)) = 1, IsFiniteSet(Opens(c, f))
  PROVE  /\ Opens(c, f) = {v.value} /\ v.from = f /\ v.to = Span(c, f).to
         /\ v.at = Latest(c) /\ v.holder = NoOne
  <1>1. PICK x : Opens(c, f) = {x}
    BY FS_Singleton
  <1>2. v = Conclusion(c, x, f, Span(c, f).to)
    BY <1>1 DEF Concludes
  <1>. QED BY <1>1, <1>2 DEF Conclusion, Stated

LEMMA OpensFinite ==
  ASSUME NEW c, Heard(c), NEW f
  PROVE  IsFiniteSet(Opens(c, f))
  <1> DEFINE h == [i \in DOMAIN c |-> c[i].value]
  <1>1. IsFiniteSet({h[i] : i \in DOMAIN h})
    BY MadeFinite DEF Heard
  <1>2. Opens(c, f) \in SUBSET {h[i] : i \in DOMAIN h}
    BY OpensIs
  <1>. HIDE DEF h
  <1>. QED BY <1>1, <1>2, FS_Subset

(* The conclusions, each told by the instant whose span it says.           *)
LEMMA WrittenDown ==
  ASSUME LogTyped, NEW tx \in KnownTimes, AssertResolved("valid_interval", tx)
  PROVE  LET c == Seen(log, NoOne, tx)
         IN /\ Heard(c) /\ DOMAIN c # {} /\ LogTyped' /\ LogGrows
            /\ \A i \in DOMAIN log' \ DOMAIN log : \E f \in Begun(c) :
                 /\ Opens(c, f) = {log'[i].value} /\ log'[i].from = f /\ log'[i].to = Span(c, f).to
                 /\ log'[i].at = Latest(c) /\ log'[i].holder = NoOne
            /\ \A f \in Begun(c) : \E i \in DOMAIN log' \ DOMAIN log : log'[i].from = f
            /\ \A i \in DOMAIN log, j \in DOMAIN log' \ DOMAIN log : i < j
  <1> DEFINE c == Seen(log, NoOne, tx)
  <1>1. Heard(c)
    BY SeenHeard DEF LogTyped
  <1>2. /\ DOMAIN c # {} /\ LogTyped' /\ LogGrows
        /\ \A f \in Begun(c) : Cardinality(Opens(c, f)) = 1
        /\ \A i \in DOMAIN log' \ DOMAIN log : \E f \in Begun(c) : Concludes(log'[i], c, f)
        /\ \A f \in Begun(c) : \E i \in DOMAIN log' \ DOMAIN log : Concludes(log'[i], c, f)
        /\ \A i \in DOMAIN log, j \in DOMAIN log' \ DOMAIN log : i < j
    BY ResolvedByTime
  <1>. HIDE DEF c
  <1>3. \A f : IsFiniteSet(Opens(c, f))
    BY <1>1, OpensFinite
  <1>4. ASSUME NEW f \in Begun(c), NEW v, Concludes(v, c, f)
        PROVE  /\ Opens(c, f) = {v.value} /\ v.from = f /\ v.to = Span(c, f).to
               /\ v.at = Latest(c) /\ v.holder = NoOne
    BY <1>2, <1>3, <1>4, ConcludesParts
  <1>. QED BY <1>1, <1>2, <1>4 DEF c

(* What is written down opens nothing else than what was heard opened.     *)
LEMMA SameOpenings ==
  ASSUME LogTyped, NEW tx \in KnownTimes, AssertResolved("valid_interval", tx),
         NEW t \in KnownTimes, t >= Latest(Seen(log, NoOne, tx))
  PROVE  LET d == Seen(log, NoOne, t)
             e == Seen(log', NoOne, t)
         IN /\ Heard(d) /\ Heard(e) /\ Claimed(d) = d /\ Claimed(e) = e
            /\ Froms(e) = Froms(d) /\ \A f : Opens(e, f) = Opens(d, f)
  <1> DEFINE c == Seen(log, NoOne, tx)
             d == Seen(log, NoOne, t)
             e == Seen(log', NoOne, t)
             Fresh == DOMAIN log' \ DOMAIN log
             last == Latest(c)
  <1>1. /\ Heard(c) /\ DOMAIN c # {} /\ LogTyped' /\ LogGrows
        /\ \A i \in Fresh : \E f \in Begun(c) :
             /\ Opens(c, f) = {log'[i].value} /\ log'[i].from = f /\ log'[i].to = Span(c, f).to
             /\ log'[i].at = last /\ log'[i].holder = NoOne
    BY WrittenDown
  <1>2. t \in Nat /\ tx \in Nat /\ t >= last
    BY BeliefAssumption
  <1>3. /\ \A i : i \in DOMAIN c <=> i \in DOMAIN log /\ log[i].at <= tx /\ log[i].holder = NoOne
        /\ \A i \in DOMAIN c : c[i] = log[i]
    BY SeenHeard DEF LogTyped
  <1>4. /\ Heard(d) /\ Claimed(d) = d
        /\ \A i : i \in DOMAIN d <=> i \in DOMAIN log /\ log[i].at <= t /\ log[i].holder = NoOne
        /\ \A i \in DOMAIN d : d[i] = log[i]
    BY SeenHeard DEF LogTyped
  <1>5. /\ Heard(e) /\ Claimed(e) = e
        /\ \A i : i \in DOMAIN e <=> i \in DOMAIN log' /\ log'[i].at <= t /\ log'[i].holder = NoOne
        /\ \A i \in DOMAIN e : e[i] = log'[i]
    BY <1>1, SeenHeard DEF LogTyped
  <1>6. \A i \in DOMAIN d : i \in DOMAIN e /\ e[i] = d[i]
    BY <1>1, <1>4, <1>5 DEF LogGrows
  <1>7. \A i \in DOMAIN e : i \in DOMAIN d \/ i \in Fresh
    BY <1>1, <1>4, <1>5 DEF LogGrows
  <1>8. \A i \in DOMAIN c : c[i].at <= last /\ c[i].at <= tx /\ last \in Nat
    BY <1>1, <1>3, LatestHeard
  <1>9. \A i \in DOMAIN c : i \in DOMAIN d /\ d[i] = c[i]
    BY <1>1, <1>2, <1>3, <1>4, <1>8 DEF Heard
  <1>10. \A i \in DOMAIN d : d[i].at <= last => i \in DOMAIN c
    <2>1. last <= tx
      <3>1. \E i \in DOMAIN c : c[i].at = last
        BY <1>1, LatestHeard
      <3>. QED BY <1>8, <3>1
    <2>2. \A i \in DOMAIN d : d[i].at \in Nat
      BY <1>4 DEF Heard
    <2>3. last \in Nat
      BY <1>1, LatestHeard
    <2>. HIDE DEF last, c, d
    <2>. QED BY <1>2, <1>3, <1>4, <2>1, <2>2, <2>3
  <1>11. \A i \in DOMAIN e : i \in Fresh => e[i].at = last /\ \E f \in Begun(c) : f = e[i].from /\ Opens(c, f) = {e[i].value}
    BY <1>1, <1>5
  <1>12. last \in Nat /\ Begun(c) \subseteq Froms(c)
    BY <1>1, LatestHeard DEF Begun
  <1>. HIDE DEF c, d, e, Fresh, last
  <1>13. Froms(e) = Froms(d)
    <2>1. Froms(d) \subseteq Froms(e)
      BY <1>6 DEF Froms
    <2>2. Froms(c) \subseteq Froms(d)
      BY <1>9 DEF Froms
    <2>3. \A i \in DOMAIN e : e[i].from \in Froms(d)
      BY <1>6, <1>7, <1>11, <1>12, <2>2 DEF Froms
    <2>. QED BY <2>1, <2>3 DEF Froms
  <1>14. ASSUME NEW f PROVE Opens(e, f) = Opens(d, f)
    <2>1. /\ Opens(d, f) = {d[i].value : i \in {j \in DOMAIN d : OpensAt(d, f, j)}}
          /\ Opens(e, f) = {e[i].value : i \in {j \in DOMAIN e : OpensAt(e, f, j)}}
          /\ Opens(c, f) = {c[i].value : i \in {j \in DOMAIN c : OpensAt(c, f, j)}}
          /\ f \in Froms(c) => \E i : OpensAt(c, f, i)
          /\ f \in Froms(d) => \E i : OpensAt(d, f, i)
      BY <1>1, <1>4, <1>5, OpensIs
    <2>2. /\ \A i \in DOMAIN d : d[i].at \in Nat
          /\ \A i \in DOMAIN e : e[i].at \in Nat
          /\ \A i \in DOMAIN c : c[i].at \in Nat
      BY <1>1, <1>4, <1>5 DEF Heard
    <2>3. CASE \E i \in DOMAIN d : d[i].from = f /\ d[i].at > last
      <3>1. PICK o \in DOMAIN d : d[o].from = f /\ d[o].at > last
        BY <2>3
      <3>2. ASSUME NEW i \in DOMAIN e PROVE OpensAt(e, f, i) <=> i \in DOMAIN d /\ OpensAt(d, f, i)
        <4>1. ASSUME OpensAt(e, f, i) PROVE i \in DOMAIN d /\ OpensAt(d, f, i)
          <5>1. e[o].at <= e[i].at /\ e[o] = d[o] /\ o \in DOMAIN e
            BY <1>6, <3>1, <4>1 DEF OpensAt
          <5>2. i \notin Fresh
            BY <1>11, <1>12, <2>2, <3>1, <5>1
          <5>3. i \in DOMAIN d /\ e[i] = d[i]
            BY <1>6, <1>7, <5>2
          <5>. QED BY <1>6, <4>1, <5>3 DEF OpensAt
        <4>2. ASSUME i \in DOMAIN d, OpensAt(d, f, i) PROVE OpensAt(e, f, i)
          <5>1. d[o].at <= d[i].at /\ d[i] = e[i]
            BY <1>6, <3>1, <4>2 DEF OpensAt
          <5>2. ASSUME NEW j \in DOMAIN e, e[j].from = f PROVE e[j].at <= e[i].at
            <6>1. CASE j \in DOMAIN d
              BY <1>6, <4>2, <5>1, <5>2, <6>1 DEF OpensAt
            <6>2. CASE j \in Fresh
              BY <1>11, <1>12, <2>2, <3>1, <4>2, <5>1, <6>2
            <6>. QED BY <1>7, <6>1, <6>2
          <5>. QED BY <4>2, <5>1, <5>2 DEF OpensAt
        <4>. QED BY <4>1, <4>2
      <3>3. \A i : (i \in DOMAIN e /\ OpensAt(e, f, i)) <=> (i \in DOMAIN d /\ OpensAt(d, f, i))
        BY <1>6, <3>2
      <3>. QED BY <1>6, <2>1, <3>3
    <2>4. CASE ~ \E i \in DOMAIN d : d[i].from = f /\ d[i].at > last
      <3>1. \A i : (i \in DOMAIN d /\ d[i].from = f) <=> (i \in DOMAIN c /\ c[i].from = f)
        BY <1>9, <1>10, <1>12, <2>2, <2>4
      <3>2. \A i : OpensAt(d, f, i) <=> OpensAt(c, f, i)
        BY <1>9, <3>1 DEF OpensAt
      <3>3. Opens(d, f) = Opens(c, f)
        BY <1>9, <2>1, <3>1, <3>2 DEF OpensAt
      <3>4. CASE ~ \E j \in DOMAIN e : j \in Fresh /\ e[j].from = f
        <4>1. \A i : (i \in DOMAIN d /\ d[i].from = f) <=> (i \in DOMAIN e /\ e[i].from = f)
          BY <1>6, <1>7, <3>4
        <4>2. \A i : OpensAt(d, f, i) <=> OpensAt(e, f, i)
          BY <1>6, <4>1 DEF OpensAt
        <4>. QED BY <1>6, <2>1, <4>1, <4>2 DEF OpensAt
      <3>5. CASE \E j \in DOMAIN e : j \in Fresh /\ e[j].from = f
        <4>1. PICK j \in DOMAIN e : j \in Fresh /\ e[j].from = f
          BY <3>5
        <4>2. Opens(c, f) = {e[j].value} /\ e[j].at = last
          BY <1>11, <4>1
        <4>3. \A i \in DOMAIN e : e[i].from = f => e[i].at <= last
          BY <1>6, <1>7, <1>11, <1>12, <2>2, <2>4
        <4>4. OpensAt(e, f, j)
          BY <4>1, <4>2, <4>3 DEF OpensAt
        <4>5. ASSUME NEW i \in DOMAIN e, OpensAt(e, f, i) PROVE e[i].value = e[j].value
          <5>1. e[i].from = f /\ e[i].at >= last
            BY <2>2, <1>12, <4>1, <4>2, <4>5 DEF OpensAt
          <5>2. CASE i \in Fresh
            <6>1. Opens(c, f) = {e[i].value}
              BY <1>11, <5>1, <5>2
            <6>. QED BY <4>2, <6>1
          <5>3. CASE i \in DOMAIN d
            <6>1. i \in DOMAIN c /\ c[i] = e[i]
              BY <1>6, <1>9, <3>1, <5>1, <5>3
            <6>2. OpensAt(c, f, i)
              BY <1>6, <1>9, <1>12, <2>2, <4>3, <5>1, <6>1 DEF OpensAt
            <6>3. e[i].value \in Opens(c, f)
              BY <2>1, <6>1, <6>2
            <6>. QED BY <4>2, <6>3
          <5>. QED BY <1>7, <5>2, <5>3
        <4>6. Opens(e, f) = {e[j].value}
          BY <2>1, <4>4, <4>5
        <4>. QED BY <3>3, <4>2, <4>6
      <3>. QED BY <3>4, <3>5
    <2>. QED BY <2>3, <2>4
  <1>. QED BY <1>4, <1>5, <1>13, <1>14 DEF d, e

-----------------------------------------------------------------------------

(* Candidates that open the same, at the same instants, make one timeline. *)
LEMMA SameSpans ==
  ASSUME NEW d, NEW e, Heard(d), Froms(e) = Froms(d), \A f : Opens(e, f) = Opens(d, f)
  PROVE  SpansOf(e) = SpansOf(d)
  <1>1. \A f : Restates(e, f) = Restates(d, f)
    <2> TAKE f
    <2> DEFINE S == Froms(d) \cap 0..(f - 1)
               R(c) == S # {} /\ Cardinality(Opens(c, f)) = 1 /\ Opens(c, Max(S)) = Opens(c, f)
    <2>1. Restates(d, f) = R(d)
      BY DEF Restates, Froms
    <2>2. Restates(e, f) = R(e)
      <3>1. {e[i].from : i \in DOMAIN e} \cap 0..(f - 1) = S
        BY DEF Froms
      <3>. HIDE DEF S
      <3>. QED BY <3>1 DEF Restates
    <2>3. Opens(e, f) = Opens(d, f) /\ Opens(e, Max(S)) = Opens(d, Max(S))
      OBVIOUS
    <2>. HIDE DEF S
    <2>. QED BY <2>1, <2>2, <2>3
  <1>2. Begun(e) = Begun(d)
    BY <1>1 DEF Begun
  <1>3. \A f : Span(e, f) = Span(d, f)
    BY <1>2 DEF Span, Closing
  <1>4. SpansOf(e) = {Span(e, f) : f \in Begun(e)} /\ SpansOf(d) = {Span(d, f) : f \in Begun(d)}
    BY SpansAre
  <1>. QED BY <1>2, <1>3, <1>4

LEMMA SameAnswers ==
  ASSUME LogTyped, NEW tx \in KnownTimes, AssertResolved("valid_interval", tx),
         NEW valid, NEW t \in KnownTimes
  PROVE  About(log', NoOne, "valid_interval", valid, t) = About(log, NoOne, "valid_interval", valid, t)
  <1> DEFINE c == Seen(log, NoOne, tx)
             d == Seen(log, NoOne, t)
             e == Seen(log', NoOne, t)
  <1>1. /\ Heard(c) /\ DOMAIN c # {} /\ LogTyped' /\ LogGrows
        /\ \A i \in DOMAIN log' \ DOMAIN log : log'[i].at = Latest(c)
    BY WrittenDown
  <1>2. Latest(c) \in Nat /\ t \in Nat
    BY <1>1, LatestHeard, BeliefAssumption
  <1>3. CASE t < Latest(c)
    <2>1. \A i \in DOMAIN log' \ DOMAIN log : log'[i].at > t
      BY <1>1, <1>2, <1>3
    <2>2. e = d
      BY <1>1, <1>2, <2>1, SeenSame
    <2>. QED BY <2>2 DEF About
  <1>4. CASE t >= Latest(c)
    <2>1. /\ Heard(d) /\ Claimed(d) = d /\ Claimed(e) = e
          /\ Froms(e) = Froms(d) /\ \A f : Opens(e, f) = Opens(d, f)
      BY <1>4, SameOpenings
    <2>. HIDE DEF d, e
    <2>2. SpansOf(e) = SpansOf(d)
      BY <2>1, SameSpans
    <2>3. Resolve(e, "valid_interval", valid) = Resolve(d, "valid_interval", valid)
      BY <2>1, <2>2 DEF Resolve, Timeline
    <2>. QED BY <2>3 DEF About, d, e
  <1>. QED BY <1>2, <1>3, <1>4

LEMMA ReadsAsDerived ==
  ASSUME LogTyped, NEW tx \in KnownTimes, AssertResolved("valid_interval", tx), NEW valid \in Nat,
         Resolve(Seen(log, NoOne, tx), "valid_interval", valid) # {}
  PROVE  AsOf(log', valid, Latest(Seen(log, NoOne, tx)))
           = Resolve(Seen(log, NoOne, tx), "valid_interval", valid)
  <1> DEFINE c == Seen(log, NoOne, tx)
             last == Latest(c)
             Fresh == DOMAIN log' \ DOMAIN log
             K == {i \in DOMAIN log' : log'[i].at <= last /\ Covers(log'[i], valid)}
             M == {j \in K : \A k \in K :
                     log'[k].at < log'[j].at \/ (log'[k].at = log'[j].at /\ k <= j)}
  <1>1. /\ Heard(c) /\ DOMAIN c # {} /\ LogTyped' /\ LogGrows
        /\ \A i \in Fresh : \E f \in Begun(c) :
             /\ Opens(c, f) = {log'[i].value} /\ log'[i].from = f /\ log'[i].to = Span(c, f).to
             /\ log'[i].at = last
        /\ \A f \in Begun(c) : \E i \in Fresh : log'[i].from = f
        /\ \A i \in DOMAIN log, j \in Fresh : i < j
    BY WrittenDown
  <1>2. Claimed(c) = c
    BY SeenHeard DEF LogTyped
  <1>3. AsOf(log', valid, last) = {log'[i].value : i \in M}
    BY DEF AsOf
  <1>4. /\ DOMAIN log' \in SUBSET Nat /\ IsFiniteSet(DOMAIN log')
        /\ \A i \in DOMAIN log' : log'[i].at \in Nat
    <2>1. /\ DOMAIN log' = 1..Len(log') /\ IsFiniteSet(DOMAIN log')
          /\ \A i \in DOMAIN log' : log'[i] \in SlotVersion
      BY <1>1, LogParts DEF LogTyped
    <2>. QED BY <2>1, VersionParts
  <1>. HIDE DEF c
  <1>5. last \in Nat
    BY <1>1, LatestHeard
  <1>6. Resolve(c, "valid_interval", valid)
          = UNION {Opens(c, f) : f \in {g \in Begun(c) : LastBegun(c, valid, g)}}
    BY <1>1, <1>2, ResolveIs
  <1>7. PICK f \in Begun(c) : LastBegun(c, valid, f)
    BY <1>6 DEF c
  <1>8. Begun(c) \in SUBSET Nat
    BY <1>1, FromsFinite DEF Begun
  <1>9. \A g \in Begun(c) : LastBegun(c, valid, g) => g = f
    BY <1>7, <1>8 DEF LastBegun
  <1>10. Resolve(c, "valid_interval", valid) = Opens(c, f)
    BY <1>6, <1>7, <1>9
  <1>11. \A i \in Fresh : Covers(log'[i], valid) <=> log'[i].from = f
    <2> TAKE i \in Fresh
    <2>1. PICK g \in Begun(c) : log'[i].from = g /\ log'[i].to = Span(c, g).to
      BY <1>1
    <2>2. Covers(log'[i], valid) <=> Covers(Span(c, g), valid)
      BY <2>1 DEF Covers, Span
    <2>3. Covers(Span(c, g), valid) <=> LastBegun(c, valid, g)
      BY <1>1, SpanCovers
    <2>. QED BY <1>7, <1>9, <2>1, <2>2, <2>3
  <1>12. PICK o \in Fresh : log'[o].from = f
    BY <1>1, <1>7
  <1>13. \A i \in Fresh : log'[i].at = last /\ (log'[i].from = f => Opens(c, f) = {log'[i].value})
    BY <1>1
  <1> DEFINE T == {i \in Fresh : log'[i].from = f}
             m == Max(T)
  <1>14. T \in SUBSET Nat /\ IsFiniteSet(T) /\ T # {}
    <2>1. T \in SUBSET DOMAIN log' /\ o \in T
      BY <1>12
    <2>. HIDE DEF T
    <2>. QED BY <1>4, <2>1, FS_Subset
  <1>15. m \in T /\ \A i \in T : i <= m
    <2>. HIDE DEF T
    <2>. QED BY <1>14, Highest
  <1>. HIDE DEF m, last
  <1>16. m \in Fresh /\ log'[m].from = f /\ log'[m].at = last /\ m \in K
    BY <1>5, <1>11, <1>13, <1>15
  <1>17. \A k \in K : k \in Nat /\ log'[k].at \in Nat /\ log'[k].at <= last /\ (k \in Fresh => k \in T)
    BY <1>4, <1>11
  <1>18. \A k \in K : k \in DOMAIN log \/ k \in Fresh
    OBVIOUS
  <1>19. \A k \in DOMAIN log : k < m
    BY <1>1, <1>16
  <1>. HIDE DEF K, Fresh, T
  <1>20. m \in Nat
    BY <1>16, <1>17
  <1>21. m \in M
    <2>1. ASSUME NEW k \in K PROVE log'[k].at < log'[m].at \/ (log'[k].at = log'[m].at /\ k <= m)
      <3>1. k <= m
        BY <1>15, <1>17, <1>18, <1>19, <1>20
      <3>. QED BY <1>5, <1>16, <1>17, <3>1
    <2>. QED BY <1>16, <2>1
  <1>22. ASSUME NEW j \in M PROVE j = m
    <2>1. j \in K /\ (log'[m].at < log'[j].at \/ (log'[m].at = log'[j].at /\ m <= j))
      BY <1>16
    <2>2. m <= j
      BY <1>5, <1>16, <1>17, <2>1
    <2>3. j <= m
      BY <1>15, <1>17, <1>18, <1>19, <1>20, <2>1
    <2>. QED BY <1>17, <1>20, <2>1, <2>2, <2>3
  <1>23. M = {m}
    BY <1>21, <1>22
  <1>. HIDE DEF M
  <1>. QED BY <1>3, <1>10, <1>13, <1>16, <1>23 DEF c, last

(* ResolvingChangesNoAnswer, always: assert_resolved writes behind a       *)
(* history only what its readers already derived from it, and as_of then   *)
(* reads, as of the newest observation, what they derive.                  *)
THEOREM ResolvingIsSafe == BeliefSpec => ResolvingChangesNoAnswer
  <1>1. ASSUME LogTyped, NEW tx \in KnownTimes, AssertResolved("valid_interval", tx), NEW valid \in ValidTimes
        PROVE  LET c == Seen(log, NoOne, tx)
               IN /\ \A t \in KnownTimes : About(log', NoOne, "valid_interval", valid, t)
                                        = About(log, NoOne, "valid_interval", valid, t)
                  /\ Resolve(c, "valid_interval", valid) # {} =>
                       AsOf(log', valid, Latest(c)) = Resolve(c, "valid_interval", valid)
    <2>1. valid \in Nat
      BY BeliefAssumption
    <2>. QED BY <1>1, <2>1, SameAnswers, ReadsAsDerived
  <1>2. LogTyped =>
          [\A tx \in KnownTimes : AssertResolved("valid_interval", tx) =>
             \A valid \in ValidTimes :
               LET c == Seen(log, NoOne, tx)
               IN /\ \A t \in KnownTimes : About(log', NoOne, "valid_interval", valid, t)
                                        = About(log, NoOne, "valid_interval", valid, t)
                  /\ Resolve(c, "valid_interval", valid) # {} =>
                       AsOf(log', valid, Latest(c)) = Resolve(c, "valid_interval", valid)]_log
    BY <1>1
  <1>. QED BY <1>2, LogAlwaysTyped, PTL DEF BeliefSpec, ResolvingChangesNoAnswer

-----------------------------------------------------------------------------
(* Comparing                                                               *)

(* What holds of 0, and of n + 1 when it does of n, holds of every number. *)
LEMMA Climbs ==
  ASSUME NEW S, 0 \in S, \A n \in Nat : n \in S => n + 1 \in S
  PROVE  Nat \subseteq S
<1> SUFFICES ASSUME Nat \ S # {} PROVE FALSE
  OBVIOUS
<1>1. IsWellFoundedOn(OpToRel(<, Nat), Nat)
  BY NatLessThanWellFounded
<1>2. PICK x \in Nat \ S : \A y \in Nat \ S : ~(<<y, x>> \in OpToRel(<, Nat))
  BY <1>1, WFMin
<1>3. \A y \in Nat \ S : ~(y < x)
  BY <1>2 DEF OpToRel
<1>4. x # 0 /\ x - 1 \in Nat /\ x = (x - 1) + 1
  OBVIOUS
<1>5. x - 1 \in S
  BY <1>3, <1>4
<1>6. QED
  BY <1>4, <1>5

(* A set of places that is not empty has a least.                          *)
LEMMA LeastIs ==
  ASSUME NEW S \in SUBSET Nat, S # {}
  PROVE  Least(S) \in S /\ \A j \in S : Least(S) <= j
<1>1. \E i \in S : \A j \in S : i <= j
  <2>1. IsWellFoundedOn(OpToRel(<, Nat), Nat)
    BY NatLessThanWellFounded
  <2>2. PICK i \in S : \A j \in S : ~(<<j, i>> \in OpToRel(<, Nat))
    BY <2>1, WFMin
  <2>3. \A j \in S : ~(j < i)
    BY <2>2 DEF OpToRel
  <2>4. QED
    BY <2>3
<1>2. QED
  BY <1>1 DEF Least

(* Two letters that may be matched.                                        *)
Alike(a, b, i, j) == i \in DOMAIN a /\ j \in Near(a, b, i) /\ a[i] = b[j]

LEMMA AlikeBothWays ==
  ASSUME NEW S, NEW a \in Seq(S), NEW b \in Seq(S), NEW i, NEW j, Alike(a, b, i, j)
  PROVE  Alike(b, a, j, i) /\ i \in Nat /\ j \in Nat /\ i > 0 /\ i <= Len(a)
<1>1. Longer(a, b) = Longer(b, a) /\ Longer(a, b) \in Nat
  BY DEF Longer
<1>2. Window(a, b) = Window(b, a) /\ Window(a, b) \in Int
  BY <1>1 DEF Window
<1>3. /\ i \in DOMAIN a /\ j \in DOMAIN b /\ a[i] = b[j]
      /\ i - Window(a, b) <= j /\ j <= i + Window(a, b)
  BY DEF Alike, Near
<1>4. i \in 1..Len(a) /\ j \in 1..Len(b)
  BY <1>3
<1>5. j - Window(b, a) <= i /\ i <= j + Window(b, a)
  BY <1>2, <1>3, <1>4
<1>6. QED
  BY <1>3, <1>4, <1>5 DEF Alike, Near

(* No letter is matched twice, and two that may be matched are not, only   *)
(* if one of them is, with the other or with a letter before it. Of the    *)
(* letters of a, the first n.                                              *)
MatchedOnce(a, b, M) ==
  /\ \A m \in M : m = <<m[1], m[2]>> /\ Alike(a, b, m[1], m[2])
  /\ \A m, n \in M : m[1] = n[1] <=> m[2] = n[2]

Settled(a, b, M, n) ==
  \A i, j : Alike(a, b, i, j) /\ i <= n =>
    \E m \in M : (m[1] = i /\ m[2] <= j) \/ (m[2] = j /\ m[1] <= i)

Stable(a, b, M) == MatchedOnce(a, b, M) /\ Settled(a, b, M, Len(a))

LEMMA OneMoreLetter ==
  ASSUME NEW S, NEW a \in Seq(S), NEW b \in Seq(S), NEW i \in 1..Len(a), NEW M,
         MatchedOnce(a, b, M), Settled(a, b, M, i - 1), \A m \in M : m[1] <= i - 1
  PROVE  LET next == MatchLetter(a, b, M, i) IN
         MatchedOnce(a, b, next) /\ Settled(a, b, next, i) /\ \A m \in next : m[1] <= i
<1> DEFINE free == {j \in Near(a, b, i) : b[j] = a[i] /\ \A m \in M : m[2] # j}
           next == MatchLetter(a, b, M, i)
<1>1. next = IF free = {} THEN M ELSE M \cup {<<i, Least(free)>>}
  BY DEF MatchLetter
<1>2. \A j \in free : Alike(a, b, i, j) /\ j \in Nat
  BY DEF Alike, Near
<1>3. \A m \in M : m[1] \in Nat /\ m[2] \in Nat /\ Alike(a, b, m[1], m[2]) /\ m = <<m[1], m[2]>>
  BY AlikeBothWays DEF MatchedOnce
<1>4. \A j : Alike(a, b, i, j) /\ j \notin free => \E m \in M : m[2] = j
  BY DEF Alike
<1>5. \A j \in free, m \in M : m[2] # j
  OBVIOUS
<1>6. free # {} => Least(free) \in free /\ \A j \in free : Least(free) <= j
  BY <1>2, LeastIs
<1> HIDE DEF free, next
<1>7. CASE free = {}
  <2>1. next = M
    BY <1>1, <1>7
  <2>2. Settled(a, b, M, i)
    <3> SUFFICES ASSUME NEW k, NEW j, Alike(a, b, k, j), k <= i
                 PROVE  \E m \in M : (m[1] = k /\ m[2] <= j) \/ (m[2] = j /\ m[1] <= k)
      BY DEF Settled
    <3>1. k \in Nat
      BY AlikeBothWays
    <3>2. CASE k <= i - 1
      BY <3>2 DEF Settled
    <3>3. CASE k = i
      <4>1. PICK m \in M : m[2] = j
        BY <1>4, <1>7, <3>3
      <4>2. m[1] <= k
        BY <1>3, <3>3
      <4>3. QED
        BY <4>1, <4>2
    <3>4. QED
      BY <3>1, <3>2, <3>3
  <2>3. \A m \in M : m[1] <= i
    BY <1>3
  <2>4. QED
    BY <2>1, <2>2, <2>3 DEF next
<1>8. CASE free # {}
  <2> DEFINE l == Least(free)
             new == <<i, l>>
  <2>1. next = M \cup {new} /\ new[1] = i /\ new[2] = l /\ new = <<new[1], new[2]>>
    BY <1>1, <1>8
  <2>2. l \in free /\ (\A j \in free : l <= j) /\ Alike(a, b, i, l) /\ l \in Nat
    BY <1>2, <1>6, <1>8
  <2> HIDE DEF l, new
  <2>3. \A m \in M : m[1] # i /\ m[2] # l
    BY <1>3, <1>5, <2>2
  <2>4. MatchedOnce(a, b, next)
    <3>1. \A m \in next : m = <<m[1], m[2]>> /\ Alike(a, b, m[1], m[2])
      BY <1>3, <2>1, <2>2
    <3>2. ASSUME NEW m \in next, NEW n \in next PROVE m[1] = n[1] <=> m[2] = n[2]
      <4>1. CASE m \in M /\ n \in M
        BY <4>1 DEF MatchedOnce
      <4>2. CASE m = new \/ n = new
        BY <2>1, <2>3, <4>2
      <4>3. QED
        BY <2>1, <4>1, <4>2
    <3>3. QED
      BY <3>1, <3>2 DEF MatchedOnce
  <2>5. Settled(a, b, next, i)
    <3> SUFFICES ASSUME NEW k, NEW j, Alike(a, b, k, j), k <= i
                 PROVE  \E m \in next : (m[1] = k /\ m[2] <= j) \/ (m[2] = j /\ m[1] <= k)
      BY DEF Settled
    <3>1. k \in Nat
      BY AlikeBothWays
    <3>2. CASE k <= i - 1
      BY <2>1, <3>2 DEF Settled
    <3>3. CASE k = i /\ j \in free
      BY <2>1, <2>2, <3>3
    <3>4. CASE k = i /\ j \notin free
      <4>1. PICK m \in M : m[2] = j
        BY <1>4, <3>4
      <4>2. m[1] <= k
        BY <1>3, <3>4
      <4>3. QED
        BY <2>1, <4>1, <4>2
    <3>5. QED
      BY <3>1, <3>2, <3>3, <3>4
  <2>6. \A m \in next : m[1] <= i
    BY <1>3, <2>1
  <2>7. QED
    BY <2>4, <2>5, <2>6 DEF next
<1>9. QED
  BY <1>7, <1>8 DEF next

(* The matching, letter after letter.                                      *)
IsMatching(f, a, b, n) ==
  f = [i \in 0..n |-> IF i = 0 THEN {} ELSE MatchLetter(a, b, f[i - 1], i)]

LEMMA MatchingExists ==
  ASSUME NEW a, NEW b, NEW n \in Nat
  PROVE  \E f : IsMatching(f, a, b, n)
<1> DEFINE S == {m \in Nat : \E f : IsMatching(f, a, b, m)}
<1>1. 0 \in S
  <2> DEFINE f == [k \in 0..0 |-> {}]
  <2>1. f = [k \in 0..0 |-> IF k = 0 THEN {} ELSE MatchLetter(a, b, f[k - 1], k)]
    OBVIOUS
  <2> HIDE DEF f
  <2>2. QED
    BY <2>1 DEF IsMatching
<1>2. ASSUME NEW m \in Nat, m \in S PROVE m + 1 \in S
  <2>1. PICK f : IsMatching(f, a, b, m)
    BY <1>2
  <2> DEFINE g == [k \in 0..(m + 1) |-> IF k = m + 1 THEN MatchLetter(a, b, f[m], m + 1) ELSE f[k]]
  <2>2. \A k \in 0..m : g[k] = f[k]
    OBVIOUS
  <2>3. \A k \in 0..m : f[k] = IF k = 0 THEN {} ELSE MatchLetter(a, b, f[k - 1], k)
    BY <2>1 DEF IsMatching
  <2>4. g[m + 1] = MatchLetter(a, b, f[m], m + 1)
    OBVIOUS
  <2>5. DOMAIN g = 0..(m + 1) /\ g = [k \in 0..(m + 1) |-> g[k]]
    OBVIOUS
  <2> HIDE DEF g
  <2>6. ASSUME NEW k \in 0..(m + 1)
        PROVE  g[k] = IF k = 0 THEN {} ELSE MatchLetter(a, b, g[k - 1], k)
    <3>1. CASE k = m + 1
      <4>1. k # 0 /\ k - 1 = m /\ m \in 0..m
        BY <3>1
      <4>2. QED
        BY <2>2, <2>4, <3>1, <4>1
    <3>2. CASE k \in 0..m
      <4>1. k = 0 \/ k - 1 \in 0..m
        BY <3>2
      <4>2. QED
        BY <2>2, <2>3, <3>2, <4>1
    <3>3. QED
      BY <3>1, <3>2
  <2>7. IsMatching(g, a, b, m + 1)
    BY <2>5, <2>6 DEF IsMatching
  <2>8. QED
    BY <2>7
<1>3. n \in S
  <2> HIDE DEF S
  <2>1. QED
    BY <1>1, <1>2, Climbs
<1>4. QED
  BY <1>3

LEMMA MatchingIsStable ==
  ASSUME NEW S, NEW a \in Seq(S), NEW b \in Seq(S)
  PROVE  Stable(a, b, MatchedPairs(a, b))
<1> DEFINE n == Len(a)
           f == CHOOSE f : IsMatching(f, a, b, n)
           So(i) == MatchedOnce(a, b, f[i]) /\ Settled(a, b, f[i], i) /\ \A m \in f[i] : m[1] <= i
           T == {i \in Nat : i <= n => So(i)}
<1>1. n \in Nat
  OBVIOUS
<1>2. IsMatching(f, a, b, n)
  BY <1>1, MatchingExists
<1>3. MatchedPairs(a, b) = f[n]
  BY DEF MatchedPairs, IsMatching
<1> HIDE DEF f
<1>4. \A i \in 0..n : f[i] = IF i = 0 THEN {} ELSE MatchLetter(a, b, f[i - 1], i)
  BY <1>2 DEF IsMatching
<1>5. So(0)
  <2>1. f[0] = {}
    BY <1>1, <1>4
  <2>2. \A i, j : Alike(a, b, i, j) => i \in Nat /\ i > 0
    BY AlikeBothWays
  <2>3. Settled(a, b, {}, 0)
    BY <2>2 DEF Settled
  <2>4. QED
    BY <2>1, <2>3 DEF MatchedOnce
<1>6. ASSUME NEW i \in Nat, i \in T PROVE i + 1 \in T
  <2> SUFFICES ASSUME i + 1 <= n PROVE So(i + 1)
    OBVIOUS
  <2> DEFINE k == i + 1
             M == f[i]
  <2>1. i <= n /\ So(i)
    BY <1>1, <1>6
  <2>2. k \in 1..Len(a) /\ k - 1 = i /\ k \in 0..n /\ k # 0
    BY <1>1
  <2>3. f[k] = MatchLetter(a, b, M, k)
    BY <1>4, <2>2
  <2>4. MatchedOnce(a, b, M) /\ Settled(a, b, M, k - 1) /\ \A m \in M : m[1] <= k - 1
    BY <2>1, <2>2
  <2> HIDE DEF k, M
  <2>5. MatchedOnce(a, b, f[k]) /\ Settled(a, b, f[k], k) /\ \A m \in f[k] : m[1] <= k
    BY <2>2, <2>3, <2>4, OneMoreLetter
  <2>6. QED
    BY <2>5 DEF k
<1>7. n \in T
  <2>1. 0 \in T
    BY <1>5
  <2> HIDE DEF T
  <2>2. QED
    BY <1>1, <1>6, <2>1, Climbs
<1>8. QED
  BY <1>1, <1>3, <1>7 DEF Stable

(* There is one such matching.                                             *)
LEMMA AsTheOther ==
  ASSUME NEW S, NEW a \in Seq(S), NEW b \in Seq(S), NEW M, NEW W,
         Stable(a, b, M), Stable(a, b, W), NEW n \in Nat,
         \A m : (m \in M \/ m \in W) /\ m[1] <= n => (m \in M <=> m \in W),
         NEW m \in M, m[1] = n + 1
  PROVE  m \in W
<1>1. \A x : x \in M \/ x \in W => x = <<x[1], x[2]>> /\ Alike(a, b, x[1], x[2])
  BY DEF Stable, MatchedOnce
<1>2. \A x : x \in M \/ x \in W => x[1] \in Nat /\ x[2] \in Nat /\ x[1] <= Len(a)
  BY <1>1, AlikeBothWays
<1>3. PICK k \in W : (k[1] = m[1] /\ k[2] <= m[2]) \/ (k[2] = m[2] /\ k[1] <= m[1])
  BY <1>1, <1>2 DEF Stable, Settled
<1>4. \A x, y \in M : x[1] = y[1] <=> x[2] = y[2]
  BY DEF Stable, MatchedOnce
<1>5. \A x, y \in W : x[1] = y[1] <=> x[2] = y[2]
  BY DEF Stable, MatchedOnce
<1>6. CASE k[1] < m[1]
  <2>1. k \in M
    BY <1>2, <1>6
  <2>2. k[2] = m[2]
    BY <1>2, <1>3, <1>6
  <2>3. QED
    BY <1>2, <1>4, <1>6, <2>1, <2>2
<1>7. CASE k[1] = m[1] /\ k[2] = m[2]
  BY <1>1, <1>7
<1>8. CASE k[1] = m[1] /\ k[2] < m[2]
  <2>1. PICK l \in M : (l[1] = k[1] /\ l[2] <= k[2]) \/ (l[2] = k[2] /\ l[1] <= k[1])
    BY <1>1, <1>2 DEF Stable, Settled
  <2>2. CASE l[1] = k[1] /\ l[2] <= k[2]
    BY <1>2, <1>4, <1>8, <2>2
  <2>3. CASE l[2] = k[2] /\ l[1] < k[1]
    <3>1. l \in W
      BY <1>2, <1>8, <2>3
    <3>2. QED
      BY <1>2, <1>5, <2>3, <3>1
  <2>4. CASE l[2] = k[2] /\ l[1] = k[1]
    BY <1>2, <1>4, <1>8, <2>4
  <2>5. QED
    BY <1>2, <2>1, <2>2, <2>3, <2>4
<1>9. QED
  BY <1>2, <1>3, <1>6, <1>7, <1>8

LEMMA OnlyOneStable ==
  ASSUME NEW S, NEW a \in Seq(S), NEW b \in Seq(S), NEW M, NEW W,
         Stable(a, b, M), Stable(a, b, W)
  PROVE  M = W
<1> DEFINE Same(n) == \A m : (m \in M \/ m \in W) /\ m[1] <= n => (m \in M <=> m \in W)
           T == {n \in Nat : Same(n)}
<1>1. \A x : x \in M \/ x \in W => Alike(a, b, x[1], x[2])
  BY DEF Stable, MatchedOnce
<1>2. \A x : x \in M \/ x \in W => x[1] \in Nat /\ x[1] > 0 /\ x[1] <= Len(a)
  BY <1>1, AlikeBothWays
<1>3. Same(0)
  BY <1>2
<1>4. ASSUME NEW n \in Nat, Same(n) PROVE Same(n + 1)
  <2>1. \A m : (m \in W \/ m \in M) /\ m[1] <= n => (m \in W <=> m \in M)
    BY <1>4
  <2>2. \A m \in M : m[1] = n + 1 => m \in W
    BY <1>4, AsTheOther
  <2>3. \A m \in W : m[1] = n + 1 => m \in M
    BY <2>1, AsTheOther
  <2>4. \A m : (m \in M \/ m \in W) /\ m[1] <= n + 1 => m[1] <= n \/ m[1] = n + 1
    BY <1>2
  <2>5. QED
    BY <1>4, <2>2, <2>3, <2>4
<1> HIDE DEF Same
<1>5. Len(a) \in T
  <2>1. 0 \in T
    BY <1>3
  <2>2. \A n \in Nat : n \in T => n + 1 \in T
    BY <1>4
  <2> HIDE DEF T
  <2>3. QED
    BY <2>1, <2>2, Climbs
<1>6. QED
  BY <1>2, <1>5 DEF Same

(* Seen from b it is the same.                                             *)
Turned(M) == {<<m[2], m[1]>> : m \in M}

LEMMA MatchedBothWays ==
  ASSUME NEW S, NEW a \in Seq(S), NEW b \in Seq(S)
  PROVE  MatchedPairs(b, a) = Turned(MatchedPairs(a, b))
<1> DEFINE M == MatchedPairs(a, b)
           T == Turned(M)
<1>1. MatchedOnce(a, b, M) /\ Settled(a, b, M, Len(a))
  BY MatchingIsStable DEF Stable
<1> HIDE DEF M
<1>2. \A t \in T : \E m \in M : t[1] = m[2] /\ t[2] = m[1] /\ t = <<t[1], t[2]>>
  BY DEF Turned
<1>3. ASSUME NEW m \in M PROVE \E t \in T : t[1] = m[2] /\ t[2] = m[1]
  <2>1. <<m[2], m[1]>> \in T
    BY DEF Turned
  <2>2. <<m[2], m[1]>>[1] = m[2] /\ <<m[2], m[1]>>[2] = m[1]
    OBVIOUS
  <2>3. QED
    BY <2>1, <2>2
<1> HIDE DEF T
<1>4. MatchedOnce(b, a, T)
  <2>1. \A m \in M : Alike(b, a, m[2], m[1])
    BY <1>1, AlikeBothWays DEF MatchedOnce
  <2>2. \A t \in T : t = <<t[1], t[2]>> /\ Alike(b, a, t[1], t[2])
    BY <1>2, <2>1
  <2>3. \A t, u \in T : t[1] = u[1] <=> t[2] = u[2]
    BY <1>1, <1>2 DEF MatchedOnce
  <2>4. QED
    BY <2>2, <2>3 DEF MatchedOnce
<1>5. Settled(b, a, T, Len(b))
  <2> SUFFICES ASSUME NEW j, NEW i, Alike(b, a, j, i)
               PROVE  \E t \in T : (t[1] = j /\ t[2] <= i) \/ (t[2] = i /\ t[1] <= j)
    BY DEF Settled
  <2>1. Alike(a, b, i, j)
    BY AlikeBothWays
  <2>2. i <= Len(a)
    BY <2>1, AlikeBothWays
  <2>3. PICK m \in M : (m[1] = i /\ m[2] <= j) \/ (m[2] = j /\ m[1] <= i)
    BY <1>1, <2>1, <2>2 DEF Settled
  <2>4. PICK t \in T : t[1] = m[2] /\ t[2] = m[1]
    BY <1>3
  <2>5. QED
    BY <2>3, <2>4
<1>6. Stable(b, a, T)
  BY <1>4, <1>5 DEF Stable
<1>7. QED
  BY <1>6, MatchingIsStable, OnlyOneStable DEF T, M

(* Of two that are the same, each letter is matched with itself.           *)
LEMMA MatchedWithItself ==
  ASSUME NEW S, NEW a \in Seq(S)
  PROVE  MatchedPairs(a, a) = {<<i, i>> : i \in DOMAIN a}
<1> DEFINE M == {<<i, i>> : i \in DOMAIN a}
<1>1. Longer(a, a) \in Nat
  BY DEF Longer
<1>2. Window(a, a) \in Nat
  BY <1>1 DEF Window
<1>3. \A i \in DOMAIN a : i \in Nat /\ Alike(a, a, i, i)
  BY <1>2 DEF Alike, Near
<1>4. MatchedOnce(a, a, M)
  BY <1>3 DEF MatchedOnce
<1>5. ASSUME NEW i \in DOMAIN a PROVE \E m \in M : m[1] = i /\ m[2] = i
  <2>1. <<i, i>> \in M /\ <<i, i>>[1] = i /\ <<i, i>>[2] = i
    OBVIOUS
  <2>2. QED
    BY <2>1
<1> HIDE DEF M
<1>6. Settled(a, a, M, Len(a))
  <2> SUFFICES ASSUME NEW i, NEW j, Alike(a, a, i, j)
               PROVE  \E m \in M : (m[1] = i /\ m[2] <= j) \/ (m[2] = j /\ m[1] <= i)
    BY DEF Settled
  <2>1. i \in DOMAIN a /\ j \in DOMAIN a /\ i \in Nat /\ j \in Nat
    BY DEF Alike, Near
  <2>2. CASE i <= j
    <3>1. PICK m \in M : m[1] = i /\ m[2] = i
      BY <1>5, <2>1
    <3>2. QED
      BY <2>2, <3>1
  <2>3. CASE j <= i
    <3>1. PICK m \in M : m[1] = j /\ m[2] = j
      BY <1>5, <2>1
    <3>2. QED
      BY <2>3, <3>1
  <2>4. QED
    BY <2>1, <2>2, <2>3
<1>7. Stable(a, a, M)
  BY <1>4, <1>6 DEF Stable
<1>8. QED
  BY <1>7, MatchingIsStable, OnlyOneStable DEF M

(* Ranks in a finite set of places.                                        *)
LEMMA RanksRise ==
  ASSUME NEW S \in SUBSET Nat, IsFiniteSet(S), NEW i \in S, NEW k \in S, i < k
  PROVE  Rank(S, i) # Rank(S, k)
<1> DEFINE A == {j \in S : j <= i}
           B == {j \in S : j <= k}
<1>1. i \in Nat /\ k \in Nat /\ \A j \in S : j \in Nat /\ (j <= i => j <= k)
  OBVIOUS
<1>2. A \in SUBSET B /\ k \in B /\ k \notin A
  <2>1. A \in SUBSET B
    BY <1>1
  <2>2. k <= k /\ ~(k <= i)
    BY <1>1
  <2>3. QED
    BY <2>1, <2>2
<1>3. IsFiniteSet(B)
  <2>1. B \in SUBSET S
    OBVIOUS
  <2>2. QED
    BY <2>1, FS_Subset
<1> HIDE DEF A, B
<1>4. A # B
  BY <1>2
<1>5. Cardinality(A) # Cardinality(B)
  BY <1>2, <1>3, <1>4, FS_Subset
<1>6. QED
  BY <1>5 DEF Rank, A, B

LEMMA OneOfRank ==
  ASSUME NEW S \in SUBSET Nat, IsFiniteSet(S), NEW i \in S, NEW k \in S, Rank(S, i) = Rank(S, k)
  PROVE  i = k
<1>1. i \in Nat /\ k \in Nat
  OBVIOUS
<1>2. ~(i < k) /\ ~(k < i)
  BY RanksRise
<1>3. QED
  BY <1>1, <1>2

LEMMA RankWithin ==
  ASSUME NEW S \in SUBSET Nat, IsFiniteSet(S), NEW i \in S
  PROVE  Rank(S, i) \in 1..Cardinality(S)
<1> DEFINE A == {j \in S : j <= i}
<1>1. A \in SUBSET S /\ i \in A
  OBVIOUS
<1> HIDE DEF A
<1>2. IsFiniteSet(A) /\ Cardinality(A) <= Cardinality(S)
  BY <1>1, FS_Subset
<1>3. Cardinality(A) \in Nat /\ Cardinality(S) \in Nat /\ Cardinality(A) # 0
  BY <1>1, <1>2, FS_CardinalityType, FS_EmptySet
<1>4. Cardinality(A) \in 1..Cardinality(S)
  BY <1>2, <1>3
<1>5. QED
  BY <1>4 DEF Rank, A

LEMMA EachRank ==
  ASSUME NEW S \in SUBSET Nat, IsFiniteSet(S), NEW n \in 1..Cardinality(S)
  PROVE  \E i \in S : Rank(S, i) = n
<1> DEFINE below == [i \in S |-> {j \in S : j < i}]
<1>0. \A i \in S : i \in Nat
  OBVIOUS
<1>1. below \in [S -> SUBSET S] /\ \A i, k \in S : k \in below[i] <=> k < i
  OBVIOUS
<1>2. \A i \in S : below[i] = {j \in S : j < i}
  OBVIOUS
<1> HIDE DEF below
<1>3. \A i \in S : i \notin below[i]
  BY <1>0, <1>1
<1>4. \A i, k \in S : i # k => i \in below[k] \/ k \in below[i]
  BY <1>0, <1>1
<1>5. ASSUME NEW i \in S, NEW k \in S, i \in below[k] PROVE below[i] \subseteq below[k]
  <2>1. i < k /\ i \in Nat /\ k \in Nat
    BY <1>0, <1>1, <1>5
  <2>2. \A j \in S : j \in below[i] => j < k
    BY <1>0, <1>1, <2>1
  <2>3. \A j \in below[i] : j \in S
    BY <1>1
  <2>4. QED
    BY <1>1, <2>2, <2>3
<1>6. Cardinality(S) \in Nat
  BY FS_CardinalityType
<1>7. n - 1 \in 0..(Cardinality(S) - 1)
  BY <1>6
<1>8. PICK i \in S : Cardinality(below[i]) = n - 1
  <2>1. below \in [S -> SUBSET S]
    BY <1>1
  <2>2. \A i, k \in S : i \in below[k] => below[i] \subseteq below[k]
    BY <1>5
  <2>3. \A m \in 0..(Cardinality(S) - 1) : \E i \in S : Cardinality(below[i]) = m
    BY <1>3, <1>4, <2>1, <2>2, RankOnto, Zenon
  <2>4. QED
    BY <1>7, <2>3
<1>9. IsFiniteSet(below[i])
  BY <1>1, FS_Subset
<1>10. Cardinality(below[i] \cup {i}) = n
  <2>1. Cardinality(below[i] \cup {i}) = Cardinality(below[i]) + 1
    BY <1>3, <1>9, FS_AddElement
  <2>2. QED
    BY <1>8, <2>1
<1>11. {j \in S : j <= i} = below[i] \cup {i}
  <2>1. \A j \in S : j <= i <=> j < i \/ j = i
    BY <1>0
  <2>2. QED
    BY <1>2, <2>1
<1>12. QED
  BY <1>10, <1>11 DEF Rank

(* What stands opposite, and what stands opposite that.                    *)
LEMMA OppositeIs ==
  ASSUME NEW S \in SUBSET Nat, NEW T \in SUBSET Nat, IsFiniteSet(S), IsFiniteSet(T),
         Cardinality(S) = Cardinality(T), NEW i \in S
  PROVE  Opposite(S, T, i) \in T /\ Opposite(T, S, Opposite(S, T, i)) = i
<1> DEFINE j == Opposite(S, T, i)
           k == Opposite(T, S, j)
<1>1. Rank(S, i) \in 1..Cardinality(T)
  BY RankWithin
<1>2. \E x \in T : Rank(T, x) = Rank(S, i)
  BY <1>1, EachRank
<1>3. j \in T /\ Rank(T, j) = Rank(S, i)
  BY <1>2 DEF Opposite
<1> HIDE DEF j
<1>4. k \in S /\ Rank(S, k) = Rank(T, j)
  BY <1>3 DEF Opposite
<1> HIDE DEF k
<1>5. k = i
  BY <1>3, <1>4, OneOfRank
<1>6. QED
  BY <1>3, <1>5 DEF j, k

LEMMA CrossedBothWays ==
  ASSUME NEW a, NEW b, NEW S \in SUBSET Nat, NEW T \in SUBSET Nat, IsFiniteSet(S), IsFiniteSet(T),
         Cardinality(S) = Cardinality(T)
  PROVE  Cardinality(Crossed(a, b, S, T)) = Cardinality(Crossed(b, a, T, S))
<1> DEFINE C == Crossed(a, b, S, T)
           D == Crossed(b, a, T, S)
           f == [i \in C |-> Opposite(S, T, i)]
<1>1. C \in SUBSET S /\ \A i \in S : i \in C <=> a[i] # b[Opposite(S, T, i)]
  BY DEF Crossed
<1>2. D \in SUBSET T /\ \A j \in T : j \in D <=> b[j] # a[Opposite(T, S, j)]
  BY DEF Crossed
<1>3. \A i \in S : Opposite(S, T, i) \in T /\ Opposite(T, S, Opposite(S, T, i)) = i
  BY OppositeIs
<1>4. \A j \in T : Opposite(T, S, j) \in S /\ Opposite(S, T, Opposite(T, S, j)) = j
  BY OppositeIs
<1>5. \A i \in C : f[i] = Opposite(S, T, i)
  OBVIOUS
<1>6. f \in [C -> D]
  <2>1. \A i \in C : Opposite(S, T, i) \in D
    BY <1>1, <1>2, <1>3
  <2>2. QED
    BY <2>1
<1> HIDE DEF C, D, f
<1>7. \A i, k \in C : f[i] = f[k] => i = k
  BY <1>1, <1>3, <1>5
<1>8. ASSUME NEW j \in D PROVE \E i \in C : f[i] = j
  <2> DEFINE i == Opposite(T, S, j)
  <2>1. i \in S /\ Opposite(S, T, i) = j /\ b[j] # a[i]
    BY <1>2, <1>4
  <2>2. i \in C
    BY <1>1, <2>1
  <2>3. QED
    BY <1>5, <2>1, <2>2
<1>9. f \in Bijection(C, D)
  BY <1>6, <1>7, <1>8 DEF Bijection, Injection, Surjection, IsInjective
<1>10. IsFiniteSet(C)
  BY <1>1, FS_Subset
<1>11. QED
  BY <1>9, <1>10, FS_Bijection DEF ExistsBijection, C, D

(* Which letters of a are matched, and which of b.                         *)
Firsts(M) == {m[1] : m \in M}
Seconds(M) == {m[2] : m \in M}

LEMMA MatchedIs ==
  ASSUME NEW S, NEW a \in Seq(S), NEW b \in Seq(S)
  PROVE  LET M == MatchedPairs(a, b)
             matched == Matched(a, b)
         IN /\ DOMAIN matched = Firsts(M)
            /\ {matched[i] : i \in DOMAIN matched} = Seconds(M)
            /\ Firsts(M) \in SUBSET (1..Len(a)) /\ Seconds(M) \in SUBSET (1..Len(b))
            /\ Cardinality(Firsts(M)) = Cardinality(Seconds(M))
<1> DEFINE M == MatchedPairs(a, b)
           matched == Matched(a, b)
<1>1. MatchedOnce(a, b, M)
  BY MatchingIsStable DEF Stable
<1>2. \A m \in M : m[1] \in 1..Len(a) /\ m[2] \in 1..Len(b)
  BY <1>1 DEF MatchedOnce, Alike, Near
<1>3. matched = [i \in Firsts(M) |-> (CHOOSE m \in M : m[1] = i)[2]]
  BY DEF Matched, Firsts
<1> HIDE DEF M, matched
<1>4. DOMAIN matched = Firsts(M)
  BY <1>3
<1>5. ASSUME NEW m \in M PROVE m[1] \in Firsts(M) /\ matched[m[1]] = m[2]
  <2> DEFINE n == CHOOSE n \in M : n[1] = m[1]
  <2>1. n \in M /\ n[1] = m[1]
    OBVIOUS
  <2>2. n[2] = m[2]
    BY <1>1, <2>1 DEF MatchedOnce
  <2>3. m[1] \in Firsts(M)
    BY DEF Firsts
  <2>4. matched[m[1]] = n[2]
    BY <1>3, <2>3
  <2>5. QED
    BY <2>2, <2>3, <2>4
<1>6. \A i \in Firsts(M) : \E m \in M : m[1] = i /\ matched[i] = m[2]
  BY <1>5 DEF Firsts
<1>7. {matched[i] : i \in DOMAIN matched} = Seconds(M)
  BY <1>4, <1>5, <1>6 DEF Seconds
<1>8. Firsts(M) \in SUBSET (1..Len(a)) /\ Seconds(M) \in SUBSET (1..Len(b))
  BY <1>2 DEF Firsts, Seconds
<1>9. matched \in Bijection(Firsts(M), Seconds(M))
  <2>1. matched \in [Firsts(M) -> Seconds(M)]
    BY <1>3, <1>4, <1>7
  <2>2. \A i, k \in Firsts(M) : matched[i] = matched[k] => i = k
    BY <1>1, <1>6 DEF MatchedOnce
  <2>3. \A j \in Seconds(M) : \E i \in Firsts(M) : matched[i] = j
    BY <1>4, <1>7
  <2>4. QED
    BY <2>1, <2>2, <2>3 DEF Bijection, Injection, Surjection, IsInjective
<1>10. IsFiniteSet(Firsts(M))
  <2>1. Len(a) \in Nat
    OBVIOUS
  <2>2. IsFiniteSet(1..Len(a))
    BY <2>1, FS_Interval
  <2>3. QED
    BY <1>8, <2>2, FS_Subset
<1>11. Cardinality(Firsts(M)) = Cardinality(Seconds(M))
  BY <1>9, <1>10, FS_Bijection DEF ExistsBijection
<1>12. QED
  BY <1>4, <1>7, <1>8, <1>11 DEF M, matched

LEMMA TurnedEnds ==
  ASSUME NEW M
  PROVE  Firsts(Turned(M)) = Seconds(M) /\ Seconds(Turned(M)) = Firsts(M)
<1>1. \A t \in Turned(M) : \E m \in M : t[1] = m[2] /\ t[2] = m[1]
  BY DEF Turned
<1>2. ASSUME NEW m \in M PROVE \E t \in Turned(M) : t[1] = m[2] /\ t[2] = m[1]
  <2>1. <<m[2], m[1]>> \in Turned(M)
    BY DEF Turned
  <2>2. <<m[2], m[1]>>[1] = m[2] /\ <<m[2], m[1]>>[2] = m[1]
    OBVIOUS
  <2>3. QED
    BY <2>1, <2>2
<1>3. QED
  BY <1>1, <1>2 DEF Firsts, Seconds

(* How alike two spellings are, by what is matched.                        *)
AtEnds(a, b, M) ==
  JaroOf(a, b, Cardinality(Firsts(M)), Cardinality(Crossed(a, b, Firsts(M), Seconds(M))))

LEMMA JaroIs ==
  ASSUME NEW S, NEW a \in Seq(S), NEW b \in Seq(S)
  PROVE  Jaro(a, b) = IF a = <<>> /\ b = <<>> THEN One ELSE AtEnds(a, b, MatchedPairs(a, b))
BY MatchedIs DEF Jaro, AtEnds, Transpositions

LEMMA CountsWithin ==
  ASSUME NEW S, NEW a \in Seq(S), NEW b \in Seq(S)
  PROVE  LET M == MatchedPairs(a, b)
             m == Cardinality(Firsts(M))
             t == Cardinality(Crossed(a, b, Firsts(M), Seconds(M)))
         IN /\ m \in Nat /\ m <= Len(a) /\ m <= Len(b)
            /\ t \in Nat /\ t <= m
<1> DEFINE M == MatchedPairs(a, b)
           F == Firsts(M)
           G == Seconds(M)
           C == Crossed(a, b, F, G)
<1>1. F \in SUBSET (1..Len(a)) /\ G \in SUBSET (1..Len(b)) /\ Cardinality(F) = Cardinality(G)
  BY MatchedIs
<1>2. C \in SUBSET F
  BY DEF Crossed
<1> HIDE DEF F, G, C
<1>3. Len(a) \in Nat /\ Len(b) \in Nat
  OBVIOUS
<1>4. /\ IsFiniteSet(1..Len(a)) /\ Cardinality(1..Len(a)) = Len(a)
      /\ IsFiniteSet(1..Len(b)) /\ Cardinality(1..Len(b)) = Len(b)
  <2>1. \A n \in Nat : IsFiniteSet(1..n) /\ Cardinality(1..n) = n
    <3> TAKE n \in Nat
    <3>1. IsFiniteSet(1..n) /\ Cardinality(1..n) = IF 1 > n THEN 0 ELSE n - 1 + 1
      BY FS_Interval
    <3>2. QED
      BY <3>1
  <2>2. QED
    BY <1>3, <2>1
<1>5. IsFiniteSet(F) /\ Cardinality(F) <= Len(a) /\ Cardinality(G) <= Len(b)
  <2>1. IsFiniteSet(F) /\ Cardinality(F) <= Cardinality(1..Len(a))
    BY <1>1, <1>4, FS_Subset
  <2>2. Cardinality(G) <= Cardinality(1..Len(b))
    BY <1>1, <1>4, FS_Subset
  <2>3. QED
    BY <1>4, <2>1, <2>2
<1>6. IsFiniteSet(C) /\ Cardinality(C) <= Cardinality(F)
  BY <1>2, <1>5, FS_Subset
<1>7. Cardinality(F) \in Nat /\ Cardinality(C) \in Nat
  BY <1>5, <1>6, FS_CardinalityType
<1>8. QED
  BY <1>1, <1>5, <1>6, <1>7 DEF C, F, G, M

LEMMA SameCountsBothWays ==
  ASSUME NEW a, NEW b, NEW m \in Nat, NEW t \in Nat, Len(a) \in Nat, Len(b) \in Nat
  PROVE  JaroOf(a, b, m, t) = JaroOf(b, a, m, t)
<1> DEFINE p == Len(a)
           q == Len(b)
<1> p \in Nat /\ q \in Nat
  OBVIOUS
<1> HIDE DEF p, q
<1>1. 2 * m * m * (p + q) + (2 * m - t) * p * q = 2 * m * m * (q + p) + (2 * m - t) * q * p
  OBVIOUS
<1>2. 6 * m * p * q = 6 * m * q * p
  OBVIOUS
<1>3. QED
  BY <1>1, <1>2 DEF JaroOf, p, q

LEMMA JaroBothWays ==
  ASSUME NEW S, NEW a \in Seq(S), NEW b \in Seq(S)
  PROVE  Jaro(a, b) = Jaro(b, a)
<1> DEFINE M == MatchedPairs(a, b)
           W == MatchedPairs(b, a)
           F == Firsts(M)
           G == Seconds(M)
           m == Cardinality(F)
           t == Cardinality(Crossed(a, b, F, G))
<1>1. W = Turned(M)
  BY MatchedBothWays
<1>2. Firsts(W) = G /\ Seconds(W) = F
  BY <1>1, TurnedEnds
<1>3. F \in SUBSET (1..Len(a)) /\ G \in SUBSET (1..Len(b)) /\ Cardinality(F) = Cardinality(G)
  BY MatchedIs
<1>4. m \in Nat /\ t \in Nat
  BY CountsWithin
<1>5. AtEnds(a, b, M) = JaroOf(a, b, m, t)
  BY DEF AtEnds
<1>6. AtEnds(b, a, W) = JaroOf(b, a, Cardinality(G), Cardinality(Crossed(b, a, G, F)))
  BY <1>2 DEF AtEnds
<1> HIDE DEF M, W, F, G
<1>7. Len(a) \in Nat /\ Len(b) \in Nat
  OBVIOUS
<1>8. F \in SUBSET Nat /\ G \in SUBSET Nat /\ IsFiniteSet(F) /\ IsFiniteSet(G)
  <2>1. F \in SUBSET Nat /\ G \in SUBSET Nat
    BY <1>3
  <2>2. IsFiniteSet(1..Len(a)) /\ IsFiniteSet(1..Len(b))
    BY <1>7, FS_Interval
  <2>3. QED
    BY <1>3, <2>1, <2>2, FS_Subset
<1>9. t = Cardinality(Crossed(b, a, G, F))
  BY <1>3, <1>8, CrossedBothWays
<1>10. JaroOf(a, b, m, t) = JaroOf(b, a, m, t)
  <2> HIDE DEF m, t
  <2>1. QED
    BY <1>4, <1>7, SameCountsBothWays
<1>11. AtEnds(a, b, M) = AtEnds(b, a, W)
  BY <1>3, <1>5, <1>6, <1>9, <1>10
<1>12. QED
  BY <1>11, JaroIs DEF M, W

(* A fraction between nothing and everything.                              *)
Within(s) == s.num \in Int /\ s.den \in Int /\ s.den > 0 /\ 0 <= s.num /\ s.num <= s.den

LEMMA Products ==
  ASSUME NEW x \in Nat, NEW y \in Nat, NEW z \in Nat, x <= y
  PROVE  x * z <= y * z /\ x * z \in Nat
<1>1. \A u, v \in Nat : u * v \in Nat
  OBVIOUS
<1>2. PICK d \in Nat : y = x + d
  <2>1. y - x \in Nat /\ y = x + (y - x)
    OBVIOUS
  <2>2. QED
    BY <2>1
<1>3. y * z = x * z + d * z
  BY <1>2
<1>4. QED
  BY <1>1, <1>3

LEMMA JaroOfWithin ==
  ASSUME NEW p \in Nat, NEW q \in Nat, NEW m \in Nat, NEW t \in Nat, m # 0, m <= p, m <= q, t <= m
  PROVE  LET num == 2 * m * m * (p + q) + (2 * m - t) * p * q
             den == 6 * m * p * q
         IN num \in Int /\ den \in Int /\ den > 0 /\ 0 <= num /\ num <= den
<1> DEFINE w == m * p * q
           x == m * m * p
           y == m * m * q
           z == t * p * q
<1>1. \A u, v \in Nat : u * v \in Nat
  OBVIOUS
<1>2. m * p \in Nat /\ m * m \in Nat /\ m * q \in Nat /\ p * q \in Nat
  BY <1>1
<1>3. w \in Nat /\ x \in Nat /\ y \in Nat /\ z \in Nat
  <2>1. t * p \in Nat
    BY <1>1
  <2>2. QED
    BY <1>1, <1>2, <2>1
<1>4. x <= w
  <2>1. m * (m * p) <= q * (m * p)
    BY <1>2, Products
  <2>2. m * (m * p) = x /\ q * (m * p) = w
    OBVIOUS
  <2>3. QED
    BY <2>1, <2>2
<1>5. y <= w
  <2>1. m * (m * q) <= p * (m * q)
    BY <1>2, Products
  <2>2. m * (m * q) = y /\ p * (m * q) = w
    OBVIOUS
  <2>3. QED
    BY <2>1, <2>2
<1>6. z <= w
  <2>1. t * (p * q) <= m * (p * q)
    BY <1>2, Products
  <2>2. t * (p * q) = z /\ m * (p * q) = w
    OBVIOUS
  <2>3. QED
    BY <2>1, <2>2
<1>7. w > 0
  <2>1. p > 0 /\ q > 0 /\ m > 0
    OBVIOUS
  <2>2. \A u, v \in Nat : u > 0 /\ v > 0 => u * v > 0
    OBVIOUS
  <2>3. m * p > 0
    BY <2>1, <2>2
  <2>4. QED
    BY <1>2, <2>1, <2>2, <2>3
<1>8. 2 * m * m * (p + q) + (2 * m - t) * p * q = 2 * x + 2 * y + 2 * w - z
  OBVIOUS
<1>9. 6 * m * p * q = 6 * w
  OBVIOUS
<1> HIDE DEF w, x, y, z
<1>10. /\ 2 * x + 2 * y + 2 * w - z \in Int /\ 6 * w \in Int /\ 6 * w > 0
       /\ 0 <= 2 * x + 2 * y + 2 * w - z /\ 2 * x + 2 * y + 2 * w - z <= 6 * w
  BY <1>3, <1>4, <1>5, <1>6, <1>7
<1>11. QED
  BY <1>8, <1>9, <1>10

LEMMA JaroWithin ==
  ASSUME NEW S, NEW a \in Seq(S), NEW b \in Seq(S)
  PROVE  Within(Jaro(a, b))
<1> DEFINE M == MatchedPairs(a, b)
           m == Cardinality(Firsts(M))
           t == Cardinality(Crossed(a, b, Firsts(M), Seconds(M)))
<1>1. Len(a) \in Nat /\ Len(b) \in Nat
  OBVIOUS
<1>2. m \in Nat /\ m <= Len(a) /\ m <= Len(b) /\ t \in Nat /\ t <= m
  BY CountsWithin
<1>3. Jaro(a, b) = IF a = <<>> /\ b = <<>> THEN One ELSE JaroOf(a, b, m, t)
  BY JaroIs DEF AtEnds
<1> HIDE DEF m, t
<1>4. Within(One) /\ Within(Zero)
  BY DEF Within, One, Zero, Fraction
<1>5. Within(JaroOf(a, b, m, t))
  <2>1. CASE m = 0
    BY <1>4, <2>1 DEF JaroOf
  <2>2. CASE m # 0
    <3> DEFINE p == Len(a)
               q == Len(b)
    <3>1. p \in Nat /\ q \in Nat /\ m <= p /\ m <= q
      BY <1>1, <1>2
    <3>2. JaroOf(a, b, m, t) = Fraction(2 * m * m * (p + q) + (2 * m - t) * p * q, 6 * m * p * q)
      BY <2>2 DEF JaroOf
    <3> HIDE DEF p, q
    <3> DEFINE num == 2 * m * m * (p + q) + (2 * m - t) * p * q
               den == 6 * m * p * q
    <3>3. num \in Int /\ den \in Int /\ den > 0 /\ 0 <= num /\ num <= den
      BY <1>2, <2>2, <3>1, JaroOfWithin
    <3> HIDE DEF num, den
    <3>4. Within(Fraction(num, den))
      BY <3>3 DEF Within, Fraction
    <3>5. QED
      BY <3>2, <3>4 DEF num, den
  <2>3. QED
    BY <2>1, <2>2
<1>6. QED
  BY <1>3, <1>4, <1>5

LEMMA JaroOfItself ==
  ASSUME NEW S, NEW a \in Seq(S)
  PROVE  Jaro(a, a).num = Jaro(a, a).den
<1>1. CASE a = <<>>
  BY <1>1 DEF Jaro, One, Fraction
<1>2. CASE a # <<>>
  <2> DEFINE M == MatchedPairs(a, a)
             D == DOMAIN a
             n == Len(a)
  <2>1. M = {<<i, i>> : i \in D}
    BY MatchedWithItself
  <2>2. n \in Nat /\ D = 1..n /\ n # 0
    BY <1>2
  <2> HIDE DEF M, n
  <2> HIDE DEF D
  <2>3. Firsts(M) = D /\ Seconds(M) = D
    <3>1. \A m \in M : m[1] \in D /\ m[2] \in D
      BY <2>1
    <3>2. ASSUME NEW i \in D PROVE \E m \in M : m[1] = i /\ m[2] = i
      <4>1. <<i, i>> \in M /\ <<i, i>>[1] = i /\ <<i, i>>[2] = i
        BY <2>1
      <4>2. QED
        BY <4>1
    <3>3. QED
      BY <3>1, <3>2 DEF Firsts, Seconds
  <2>4. IsFiniteSet(D) /\ Cardinality(D) = n
    <3>1. IsFiniteSet(1..n) /\ Cardinality(1..n) = IF 1 > n THEN 0 ELSE n - 1 + 1
      BY <2>2, FS_Interval
    <3>2. QED
      BY <2>2, <3>1
  <2>5. Crossed(a, a, D, D) = {}
    <3>1. D \in SUBSET Nat
      BY <2>2
    <3>2. ASSUME NEW i \in D PROVE Opposite(D, D, i) = i
      <4> DEFINE j == Opposite(D, D, i)
      <4>1. j \in D /\ Rank(D, j) = Rank(D, i)
        BY DEF Opposite
      <4> HIDE DEF j
      <4>2. j = i
        BY <2>4, <3>1, <4>1, OneOfRank
      <4>3. QED
        BY <4>2 DEF j
    <3>3. QED
      BY <3>2 DEF Crossed
  <2>6. Cardinality(Crossed(a, a, D, D)) = 0
    BY <2>5, FS_EmptySet
  <2>7. Jaro(a, a) = JaroOf(a, a, n, 0)
    BY <1>2, <2>3, <2>4, <2>6, JaroIs DEF AtEnds, M
  <2>8. Jaro(a, a) = Fraction(2 * n * n * (n + n) + (2 * n - 0) * n * n, 6 * n * n * n)
    BY <2>2, <2>7 DEF JaroOf, n
  <2>9. 2 * n * n * (n + n) + (2 * n - 0) * n * n = 6 * n * n * n
    BY <2>2
  <2>10. QED
    BY <2>8, <2>9 DEF Fraction
<1>3. QED
  BY <1>1, <1>2

(* A start in common is of four letters at most, and in common both ways.  *)
LEMMA StartIs ==
  ASSUME NEW a, NEW b
  PROVE  SharedStart(a, b) \in 0..4 /\ SharedStart(a, b) = SharedStart(b, a)
<1> DEFINE A == {i \in 1..4 : \A j \in 1..i : j \in DOMAIN a \cap DOMAIN b /\ a[j] = b[j]}
           B == {i \in 1..4 : \A j \in 1..i : j \in DOMAIN b \cap DOMAIN a /\ b[j] = a[j]}
<1>1. A = B
  OBVIOUS
<1>2. A \in SUBSET (1..4)
  OBVIOUS
<1> HIDE DEF A, B
<1>3. IsFiniteSet(1..4) /\ Cardinality(1..4) = 4
  <2>1. 1 \in Int /\ 4 \in Int
    OBVIOUS
  <2>2. IsFiniteSet(1..4) /\ Cardinality(1..4) = IF 1 > 4 THEN 0 ELSE 4 - 1 + 1
    BY <2>1, FS_Interval
  <2>3. QED
    BY <2>2
<1>4. IsFiniteSet(A) /\ Cardinality(A) <= 4
  BY <1>2, <1>3, FS_Subset
<1>5. Cardinality(A) \in Nat
  BY <1>4, FS_CardinalityType
<1>6. Cardinality(A) \in 0..4
  BY <1>4, <1>5
<1>7. QED
  BY <1>1, <1>6 DEF SharedStart, A, B

LEMMA BoostedWithin ==
  ASSUME NEW base, Within(base), NEW start \in 0..4
  PROVE  /\ Within(Boosted(base, start))
         /\ base.num = base.den => Boosted(base, start).num = Boosted(base, start).den
<1> DEFINE n == base.num
           d == base.den
<1>1. n \in Int /\ d \in Int /\ d > 0 /\ 0 <= n /\ n <= d
  BY DEF Within
<1>2. Boosted(base, start) = base \/ Boosted(base, start) = Fraction(10 * n + start * (d - n), 10 * d)
  BY DEF Boosted
<1> HIDE DEF n, d
<1>3. /\ 10 * n + start * (d - n) \in Int /\ 10 * d \in Int /\ 10 * d > 0
      /\ 0 <= 10 * n + start * (d - n) /\ 10 * n + start * (d - n) <= 10 * d
      /\ n = d => 10 * n + start * (d - n) = 10 * d
  <2>1. start = 0 \/ start = 1 \/ start = 2 \/ start = 3 \/ start = 4
    OBVIOUS
  <2>2. QED
    BY <1>1, <2>1
<1>4. /\ Within(Fraction(10 * n + start * (d - n), 10 * d))
      /\ n = d => Fraction(10 * n + start * (d - n), 10 * d).num = Fraction(10 * n + start * (d - n), 10 * d).den
  BY <1>3 DEF Within, Fraction
<1>5. QED
  BY <1>2, <1>4 DEF n, d

LEMMA SpellingsCompare ==
  ASSUME NEW S, NEW a \in Seq(S), NEW b \in Seq(S)
  PROVE  /\ Within(JaroWinkler(a, b)) /\ JaroWinkler(a, b) = JaroWinkler(b, a)
         /\ a = b => JaroWinkler(a, b).num = JaroWinkler(a, b).den
<1> DEFINE base == Jaro(a, b)
           start == SharedStart(a, b)
<1>1. Within(base) /\ base = Jaro(b, a)
  BY JaroWithin, JaroBothWays
<1>2. start \in 0..4 /\ start = SharedStart(b, a)
  BY StartIs
<1>3. a = b => base.num = base.den
  BY JaroOfItself
<1>4. JaroWinkler(a, b) = Boosted(base, start) /\ JaroWinkler(b, a) = Boosted(base, start)
  BY <1>1, <1>2 DEF JaroWinkler
<1> HIDE DEF base, start
<1>5. /\ Within(Boosted(base, start))
      /\ base.num = base.den => Boosted(base, start).num = Boosted(base, start).den
  BY <1>1, <1>2, BoostedWithin
<1>6. QED
  BY <1>3, <1>4, <1>5

(* Names in prose, half by half.                                           *)
LEMMA LesserIs ==
  ASSUME NEW s, NEW t, Within(s), Within(t)
  PROVE  /\ Within(Lesser(s, t))
         /\ s.num = s.den /\ t.num = t.den => Lesser(s, t).num = Lesser(s, t).den
BY DEF Lesser

LEMMA ProseCompares ==
  ASSUME NEW S, NEW a, NEW b, a.head \in Seq(S), b.head \in Seq(S),
         a.owner = {} \/ \E o \in Seq(S) : a.owner = {o},
         b.owner = {} \/ \E o \in Seq(S) : b.owner = {o}
  PROVE  /\ Within(PossessiveAware(a, b)) /\ PossessiveAware(a, b) = PossessiveAware(b, a)
         /\ a = b => PossessiveAware(a, b).num = PossessiveAware(a, b).den
<1> DEFINE head == JaroWinkler(a.head, b.head)
<1>1. /\ Within(head) /\ head = JaroWinkler(b.head, a.head)
      /\ a = b => head.num = head.den
  BY SpellingsCompare
<1> HIDE DEF head
<1>2. CASE (a.owner = {}) # (b.owner = {})
  <2>1. PossessiveAware(a, b) = Zero /\ PossessiveAware(b, a) = Zero /\ a # b
    BY <1>2 DEF PossessiveAware
  <2>2. QED
    BY <2>1 DEF Within, Zero, Fraction
<1>3. CASE a.owner = {} /\ b.owner = {}
  <2>1. PossessiveAware(a, b) = head /\ PossessiveAware(b, a) = head
    BY <1>1, <1>3 DEF PossessiveAware, head
  <2>2. QED
    BY <1>1, <2>1
<1>4. CASE a.owner # {} /\ b.owner # {}
  <2>1. PICK o \in Seq(S) : a.owner = {o}
    BY <1>4
  <2>2. PICK p \in Seq(S) : b.owner = {p}
    BY <1>4
  <2>3. (CHOOSE x \in a.owner : TRUE) = o /\ (CHOOSE y \in b.owner : TRUE) = p
    BY <2>1, <2>2
  <2> DEFINE owner == JaroWinkler(o, p)
  <2>4. /\ Within(owner) /\ owner = JaroWinkler(p, o)
        /\ o = p => owner.num = owner.den
    BY SpellingsCompare
  <2>5. a = b => o = p
    BY <2>1, <2>2
  <2> HIDE DEF owner
  <2>6. PossessiveAware(a, b) = Lesser(owner, head) /\ PossessiveAware(b, a) = Lesser(owner, head)
    BY <1>1, <1>4, <2>3, <2>4 DEF PossessiveAware, head, owner
  <2>7. QED
    BY <1>1, <2>4, <2>5, <2>6, LesserIs
<1>5. QED
  BY <1>2, <1>3, <1>4

(* Phrases in which no word is said twice have as many words in common one *)
(* way as the other.                                                       *)
Common(a, b) == {i \in DOMAIN a : \E j \in DOMAIN b : b[j] = a[i]}

LEMMA CommonBothWays ==
  ASSUME NEW S, NEW a \in Seq(S), NEW b \in Seq(S), SaysOnce(a), SaysOnce(b)
  PROVE  /\ Cardinality(Common(a, b)) = Cardinality(Common(b, a))
         /\ Cardinality(Common(a, b)) \in Nat
         /\ Cardinality(Common(a, b)) <= Len(a)
<1> DEFINE C == Common(a, b)
           D == Common(b, a)
           f == [i \in C |-> CHOOSE j \in DOMAIN b : b[j] = a[i]]
<1>1. C \in SUBSET DOMAIN a /\ \A i \in DOMAIN a : i \in C <=> \E j \in DOMAIN b : b[j] = a[i]
  BY DEF Common
<1>2. D \in SUBSET DOMAIN b /\ \A j \in DOMAIN b : j \in D <=> \E i \in DOMAIN a : a[i] = b[j]
  BY DEF Common
<1>3. \A i \in C : f[i] \in DOMAIN b /\ b[f[i]] = a[i]
  BY <1>1
<1>4. f = [i \in C |-> f[i]]
  OBVIOUS
<1> HIDE DEF C, D, f
<1>5. \A i \in C : f[i] \in D
  BY <1>1, <1>2, <1>3
<1>6. f \in [C -> D]
  BY <1>4, <1>5
<1>7. \A i, k \in C : f[i] = f[k] => i = k
  BY <1>1, <1>3 DEF SaysOnce
<1>8. ASSUME NEW j \in D PROVE \E i \in C : f[i] = j
  <2>1. PICK i \in DOMAIN a : a[i] = b[j]
    BY <1>2
  <2>2. j \in DOMAIN b /\ i \in C
    BY <1>1, <1>2, <2>1
  <2>3. f[i] = j
    BY <1>3, <2>1, <2>2 DEF SaysOnce
  <2>4. QED
    BY <2>2, <2>3
<1>9. f \in Bijection(C, D)
  BY <1>6, <1>7, <1>8 DEF Bijection, Injection, Surjection, IsInjective
<1>10. IsFiniteSet(1..Len(a)) /\ Cardinality(1..Len(a)) = Len(a) /\ DOMAIN a = 1..Len(a)
  <2>1. 1 \in Int /\ Len(a) \in Int /\ Len(a) \in Nat /\ DOMAIN a = 1..Len(a)
    OBVIOUS
  <2>2. IsFiniteSet(1..Len(a)) /\ Cardinality(1..Len(a)) = IF 1 > Len(a) THEN 0 ELSE Len(a) - 1 + 1
    BY <2>1, FS_Interval
  <2>3. QED
    BY <2>1, <2>2
<1>11. IsFiniteSet(C) /\ Cardinality(C) <= Len(a)
  BY <1>1, <1>10, FS_Subset
<1>12. Cardinality(C) \in Nat
  BY <1>11, FS_CardinalityType
<1>13. Cardinality(D) = Cardinality(C)
  BY <1>9, <1>11, FS_Bijection DEF ExistsBijection
<1>14. QED
  BY <1>11, <1>12, <1>13 DEF C, D

LEMMA PhrasesCompare ==
  ASSUME NEW S, NEW a \in Seq(S), NEW b \in Seq(S), SaysOnce(a), SaysOnce(b)
  PROVE  /\ Within(TokenJaccard(a, b)) /\ TokenJaccard(a, b) = TokenJaccard(b, a)
         /\ a = b => TokenJaccard(a, b).num = TokenJaccard(a, b).den
<1> DEFINE c == Cardinality(Common(a, b))
           p == Len(a)
           q == Len(b)
<1>1. c = Cardinality(Common(b, a)) /\ c \in Nat /\ c <= p /\ c <= q
  <2>1. Cardinality(Common(b, a)) <= q
    BY CommonBothWays
  <2>2. QED
    BY <2>1, CommonBothWays
<1>2. p \in Nat /\ q \in Nat /\ (a = <<>> <=> p = 0) /\ (b = <<>> <=> q = 0)
  OBVIOUS
<1>3. TokenJaccard(a, b) = IF a = <<>> /\ b = <<>> THEN One
                           ELSE IF a = <<>> \/ b = <<>> THEN Zero ELSE Fraction(c, p + q - c)
  BY DEF TokenJaccard, Common
<1>4. TokenJaccard(b, a) = IF b = <<>> /\ a = <<>> THEN One
                           ELSE IF b = <<>> \/ a = <<>> THEN Zero ELSE Fraction(c, q + p - c)
  BY <1>1 DEF TokenJaccard, Common
<1>5. a = b => c = p /\ p = q
  <2> SUFFICES ASSUME a = b PROVE c = p
    OBVIOUS
  <2>1. Common(a, b) = 1..p
    BY DEF Common
  <2>2. Cardinality(1..p) = IF 1 > p THEN 0 ELSE p - 1 + 1
    BY <1>2, FS_Interval
  <2>3. QED
    BY <1>2, <2>1, <2>2
<1> HIDE DEF c, p, q
<1>6. TokenJaccard(a, b) = TokenJaccard(b, a)
  <2>1. p + q - c = q + p - c
    BY <1>1, <1>2
  <2>2. QED
    BY <1>3, <1>4, <2>1
<1>7. Within(TokenJaccard(a, b))
  BY <1>1, <1>2, <1>3 DEF Within, One, Zero, Fraction
<1>8. ASSUME a = b PROVE TokenJaccard(a, b).num = TokenJaccard(a, b).den
  BY <1>1, <1>2, <1>3, <1>5, <1>8 DEF One, Fraction
<1>9. QED
  BY <1>6, <1>7, <1>8

(* And of any phrases a part of the words of one, and none both ways or    *)
(* neither.                                                                *)
LEMMA CommonIsPart ==
  ASSUME NEW S, NEW a \in Seq(S), NEW b \in Seq(S)
  PROVE  /\ Cardinality(Common(a, b)) \in Nat /\ Cardinality(Common(a, b)) <= Len(a)
         /\ Cardinality(Common(a, b)) = 0 <=> Cardinality(Common(b, a)) = 0
<1>1. ASSUME NEW x \in Seq(S), NEW y \in Seq(S)
      PROVE  /\ IsFiniteSet(Common(x, y)) /\ Cardinality(Common(x, y)) \in Nat
             /\ Cardinality(Common(x, y)) <= Len(x)
  <2>1. Len(x) \in Nat /\ DOMAIN x = 1..Len(x) /\ Common(x, y) \in SUBSET (1..Len(x))
    BY DEF Common
  <2>2. IsFiniteSet(1..Len(x)) /\ Cardinality(1..Len(x)) = Len(x)
    <3>1. 1 \in Int /\ Len(x) \in Int
      BY <2>1
    <3>2. IsFiniteSet(1..Len(x)) /\ Cardinality(1..Len(x)) = IF 1 > Len(x) THEN 0 ELSE Len(x) - 1 + 1
      BY ONLY <3>1, FS_Interval
    <3>3. QED
      BY <2>1, <3>2
  <2>4. IsFiniteSet(Common(x, y)) /\ Cardinality(Common(x, y)) <= Len(x)
    BY <2>1, <2>2, FS_Subset
  <2>5. QED
    BY <2>4, FS_CardinalityType
<1>2. Common(a, b) = {} <=> Common(b, a) = {}
  BY DEF Common
<1>3. /\ Cardinality(Common(a, b)) = 0 <=> Common(a, b) = {}
      /\ Cardinality(Common(b, a)) = 0 <=> Common(b, a) = {}
  BY <1>1, FS_EmptySet
<1>4. QED
  BY <1>1, <1>2, <1>3

(* What token_jaccard makes of phrases, whatever they repeat.              *)
LEMMA RepeatsCompare ==
  ASSUME NEW two, NEW S, NEW a \in Seq(S), NEW b \in Seq(S), two.a = a, two.b = b
  PROVE  Plausible(two, TokenJaccard(a, b), TokenJaccard(b, a))
<1> DEFINE c == Cardinality(Common(a, b))
           d == Cardinality(Common(b, a))
           p == Len(a)
           q == Len(b)
<1>1. c \in Nat /\ d \in Nat /\ c <= p /\ d <= q /\ (c = 0 <=> d = 0)
  BY CommonIsPart
<1>2. p \in Nat /\ q \in Nat /\ (a = <<>> <=> p = 0) /\ (b = <<>> <=> q = 0)
  OBVIOUS
<1>3. TokenJaccard(a, b) = IF a = <<>> /\ b = <<>> THEN One
                           ELSE IF a = <<>> \/ b = <<>> THEN Zero ELSE Fraction(c, p + q - c)
  BY DEF TokenJaccard, Common
<1>4. TokenJaccard(b, a) = IF b = <<>> /\ a = <<>> THEN One
                           ELSE IF b = <<>> \/ a = <<>> THEN Zero ELSE Fraction(d, q + p - d)
  BY DEF TokenJaccard, Common
<1>5. a = b => c = p /\ p = q
  <2> SUFFICES ASSUME a = b PROVE c = p
    OBVIOUS
  <2>1. Common(a, b) = 1..p
    BY DEF Common
  <2>2. Cardinality(1..p) = IF 1 > p THEN 0 ELSE p - 1 + 1
    BY <1>2, FS_Interval
  <2>3. QED
    BY <1>2, <2>1, <2>2
<1> HIDE DEF c, d, p, q
<1>6. CASE a = <<>> \/ b = <<>>
  BY <1>1, <1>2, <1>3, <1>4, <1>6 DEF Plausible, AtMostAs, SameFraction, Zero, One, Fraction
<1>7. CASE a # <<>> /\ b # <<>>
  <2>1. /\ TokenJaccard(a, b).num = c /\ TokenJaccard(a, b).den = p + q - c
        /\ TokenJaccard(b, a).num = d /\ TokenJaccard(b, a).den = q + p - d
    BY <1>3, <1>4, <1>7 DEF Fraction
  <2>2. p + q - c > 0 /\ q + p - d > 0 /\ (a = b => p + q - c = c)
    BY <1>1, <1>2, <1>5, <1>7
  <2>3. QED
    BY <1>1, <1>2, <2>1, <2>2 DEF Plausible, AtMostAs, SameFraction, Zero, One, Fraction
<1>8. QED
  BY <1>6, <1>7

LEMMA FairOf ==
  ASSUME NEW two, NEW s, Within(s), two.a = two.b => s.num = s.den
  PROVE  Plausible(two, s, s) /\ Fair(s, s)
<1> DEFINE n == s.num
           d == s.den
<1>1. n \in Int /\ d \in Int /\ d > 0 /\ 0 <= n /\ n <= d
  BY DEF Within
<1>2. two.a = two.b => n = d
  OBVIOUS
<1> HIDE DEF n, d
<1>3. 0 * d <= n * 1 /\ n * 1 <= 1 * d /\ (n = d => n * 1 = 1 * d)
  BY <1>1
<1>4. QED
  BY <1>1, <1>2, <1>3 DEF Plausible, Fair, AtMostAs, SameFraction, Zero, One, Fraction, n, d

ComparingTyped ==
  \/ compared = Apart
  \/ compared \in Pairs("exact", Phrases) \cup Pairs("jaro_winkler", Spellings)
                    \cup Pairs("token_jaccard", Phrases) \cup Pairs("possessive_aware", ProseNames)

LEMMA ComparedFairly ==
  ASSUME ComparingTyped, compared # Apart
  PROVE  SimilarityIsFair
<1> DEFINE a == compared.a
           b == compared.b
           s == SimilarityOf(compared)
           back == TurnedRound(compared)
<1>0. ASSUME Within(s), s = back, a = b => s.num = s.den PROVE SimilarityIsFair
  <2> HIDE DEF s, back
  <2>1. Plausible(compared, s, back) /\ Fair(s, back)
    BY <1>0, FairOf
  <2>2. QED
    BY <2>1 DEF s, back, SimilarityIsFair
<1>1. CASE compared \in Pairs("exact", Phrases)
  <2>1. compared.how = "exact"
    BY <1>1 DEF Pairs
  <2>2. s = Exactly(a = b) /\ back = Exactly(b = a)
    BY <2>1 DEF Compare, SimilarityOf, TurnedRound
  <2>3. Exactly(a = b) = Exactly(b = a)
    BY DEF Exactly
  <2>4. Within(Exactly(a = b)) /\ (a = b => Exactly(a = b).num = Exactly(a = b).den)
    BY DEF Exactly, Within, Zero, One, Fraction
  <2>5. QED
    BY <1>0, <2>2, <2>3, <2>4
<1>2. CASE compared \in Pairs("jaro_winkler", Spellings)
  <2>1. compared.how = "jaro_winkler" /\ a \in Seq(Tokens) /\ b \in Seq(Tokens)
    BY <1>2, ComparingAssumption DEF Pairs
  <2>2. s = JaroWinkler(a, b) /\ back = JaroWinkler(b, a)
    BY <2>1 DEF Compare, SimilarityOf, TurnedRound
  <2>3. QED
    BY <1>0, <2>1, <2>2, SpellingsCompare
<1>3. CASE compared \in Pairs("token_jaccard", Phrases)
  <2>1. compared.how = "token_jaccard" /\ a \in Phrases /\ b \in Phrases
    BY <1>3 DEF Pairs
  <2>2. a \in Seq(Tokens) /\ b \in Seq(Tokens)
    BY <2>1, ComparingAssumption
  <2>3. s = TokenJaccard(a, b) /\ back = TokenJaccard(b, a)
    BY <2>1 DEF Compare, SimilarityOf, TurnedRound
  <2>4. CASE SaysOnce(a) /\ SaysOnce(b)
    BY <1>0, <2>2, <2>3, <2>4, PhrasesCompare
  <2>5. CASE ~(SaysOnce(a) /\ SaysOnce(b))
    <3>1. Plausible(compared, s, back)
      BY <2>2, <2>3, RepeatsCompare
    <3>2. QED
      BY <2>1, <2>5, <3>1 DEF SimilarityIsFair
  <2>6. QED
    BY <2>4, <2>5
<1>4. CASE compared \in Pairs("possessive_aware", ProseNames)
  <2>1. compared.how = "possessive_aware" /\ a \in ProseNames /\ b \in ProseNames
    BY <1>4 DEF Pairs
  <2>2. /\ a.head \in Seq(Tokens) /\ b.head \in Seq(Tokens)
        /\ a.owner = {} \/ \E o \in Seq(Tokens) : a.owner = {o}
        /\ b.owner = {} \/ \E o \in Seq(Tokens) : b.owner = {o}
    <3> SUFFICES ASSUME NEW name \in ProseNames
                 PROVE  /\ name.head \in Seq(Tokens)
                        /\ name.owner = {} \/ \E o \in Seq(Tokens) : name.owner = {o}
      BY <2>1
    <3>1. name.head \in Seq(Tokens)
      BY ComparingAssumption
    <3>2. \A o, p \in name.owner : o \in Seq(Tokens) /\ o = p
      BY ComparingAssumption
    <3>3. ASSUME NEW o \in name.owner PROVE o \in Seq(Tokens) /\ name.owner = {o}
      BY <3>2
    <3>4. QED
      BY <3>1, <3>3
  <2>3. s = PossessiveAware(a, b) /\ back = PossessiveAware(b, a)
    BY <2>1 DEF Compare, SimilarityOf, TurnedRound
  <2> HIDE DEF a, b, s, back
  <2>4. QED
    BY <1>0, <2>2, <2>3, ProseCompares
<1>5. QED
  BY <1>1, <1>2, <1>3, <1>4 DEF ComparingTyped

(* Whatever two values are compared, however long, the similarity is a     *)
(* fraction that is nothing or more, and everything of a value and itself; *)
(* unless it is token_jaccard's of phrases that repeat a word, it is no    *)
(* more than everything and does not depend on which comes first: the      *)
(* letters claimed from one side are those claimed from the other          *)
(* (Comparator::compare).                                                  *)
THEOREM ComparingIsFair == ComparingSpec => []SimilarityIsFair
<1>1. ComparingInit => ComparingTyped
  BY DEF ComparingInit, ComparingTyped
<1>2. ComparingTyped /\ [CompareTwo]_compared => ComparingTyped'
  BY DEF ComparingTyped, CompareTwo
<1>3. ComparingTyped => SimilarityIsFair
  <2>1. compared = Apart => SimilarityIsFair
    BY DEF SimilarityIsFair
  <2>2. QED
    BY <2>1, ComparedFairly
<1>4. QED
  BY <1>1, <1>2, <1>3, PTL DEF ComparingSpec

-----------------------------------------------------------------------------
(* The oracle: first, that a loop over n turns has what it makes at each.  *)
Turns(D, n, base, step) ==
  \E f \in [0..n -> D] : f[0] = base /\ \A i \in 1..n : f[i] = step[i][f[i - 1]]

LEMMA LoopExists ==
  ASSUME NEW D, NEW n \in Nat, NEW base \in D, NEW step \in [1..n -> [D -> D]]
  PROVE  Turns(D, n, base, step)
<1> DEFINE So(f, m) == f \in [0..m -> D] /\ f[0] = base /\ \A i \in 1..m : f[i] = step[i][f[i - 1]]
           S == {m \in Nat : m <= n => \E f : So(f, m)}
<1>1. 0 \in S
  <2> DEFINE f == [i \in 0..0 |-> base]
  <2>1. f \in [0..0 -> D] /\ f[0] = base /\ 1..0 = {}
    OBVIOUS
  <2> HIDE DEF f
  <2>2. So(f, 0)
    BY <2>1
  <2>3. QED
    BY <2>2
<1>2. ASSUME NEW m \in Nat, m \in S PROVE m + 1 \in S
  <2> SUFFICES ASSUME m + 1 <= n PROVE \E g : So(g, m + 1)
    OBVIOUS
  <2>1. PICK f : So(f, m)
    BY <1>2
  <2> DEFINE g == [i \in 0..(m + 1) |-> IF i = m + 1 THEN step[m + 1][f[m]] ELSE f[i]]
  <2>2. m + 1 \in 1..n /\ f[m] \in D
    BY <2>1
  <2>3. step[m + 1][f[m]] \in D
    BY <2>2
  <2>4. \A i \in 0..m : g[i] = f[i] /\ i \in 0..(m + 1)
    OBVIOUS
  <2>5. g[m + 1] = step[m + 1][f[m]]
    OBVIOUS
  <2>6. g \in [0..(m + 1) -> D]
    BY <2>1, <2>3
  <2> HIDE DEF g
  <2>7. g[0] = base
    BY <2>1, <2>4
  <2>8. ASSUME NEW i \in 1..(m + 1) PROVE g[i] = step[i][g[i - 1]]
    <3>1. CASE i = m + 1
      <4>1. i - 1 = m /\ m \in 0..m
        BY <3>1
      <4>2. QED
        BY <2>4, <2>5, <3>1, <4>1
    <3>2. CASE i \in 1..m
      <4>1. i \in 0..m /\ i - 1 \in 0..m
        BY <3>2
      <4>2. QED
        BY <2>1, <2>4, <3>2, <4>1
    <3>3. QED
      BY <3>1, <3>2
  <2>9. So(g, m + 1)
    BY <2>6, <2>7, <2>8
  <2>10. QED
    BY <2>9
<1>3. n \in S
  <2> HIDE DEF S
  <2>1. QED
    BY <1>1, <1>2, Climbs
<1>4. QED
  BY <1>3 DEF Turns

-----------------------------------------------------------------------------
(* Claims that agree, and the first of those that score highest.           *)

LEMMA ValuesFinite ==
  ASSUME NEW c, Heard(c)
  PROVE  IsFiniteSet(ValuesOf(c)) /\ Cardinality(ValuesOf(c)) \in Nat
<1> DEFINE f == [i \in DOMAIN c |-> c[i].value]
<1>1. IsFiniteSet({f[i] : i \in DOMAIN f})
  BY MadeFinite DEF Heard
<1>2. IsFiniteSet(ValuesOf(c))
  BY <1>1 DEF ValuesOf
<1>3. QED
  BY <1>2, FS_CardinalityType

LEMMA FewValues ==
  ASSUME NEW c, Heard(c)
  PROVE  Cardinality(ValuesOf(c)) <= 1 <=> \A i, j \in DOMAIN c : c[i].value = c[j].value
<1> DEFINE V == ValuesOf(c)
<1>1. IsFiniteSet(V) /\ Cardinality(V) \in Nat
  BY ValuesFinite
<1>2. \A i \in DOMAIN c : c[i].value \in V
  BY DEF ValuesOf
<1>3. \A v \in V : \E i \in DOMAIN c : v = c[i].value
  BY DEF ValuesOf
<1> HIDE DEF V
<1>4. ASSUME Cardinality(V) <= 1, NEW i \in DOMAIN c, NEW j \in DOMAIN c
      PROVE  c[i].value = c[j].value
  <2>1. V # {}
    BY <1>2, <1>4
  <2>2. Cardinality(V) # 0
    BY <1>1, <2>1, FS_EmptySet
  <2>3. Cardinality(V) = 1
    BY <1>1, <1>4, <2>2
  <2>4. \E x : V = {x}
    BY <1>1, <2>3, FS_Singleton
  <2>5. QED
    BY <1>2, <2>4
<1>5. ASSUME \A i, j \in DOMAIN c : c[i].value = c[j].value PROVE Cardinality(V) <= 1
  <2>1. CASE V = {}
    <3>1. Cardinality(V) = 0
      BY <2>1, FS_EmptySet
    <3>2. QED
      BY <3>1
  <2>2. CASE V # {}
    <3>1. \E x : V = {x}
      BY <1>3, <1>5, <2>2
    <3>2. Cardinality(V) = 1
      BY <3>1, FS_Singleton
    <3>3. QED
      BY <3>2
  <2>3. QED
    BY <2>1, <2>2
<1>6. QED
  BY <1>4, <1>5 DEF V

(* Claims that agree hold what any of them does.                           *)
LEMMA OneValue ==
  ASSUME NEW c, Heard(c), Cardinality(ValuesOf(c)) <= 1, NEW j \in DOMAIN c
  PROVE  ValuesOf(c) = {c[j].value}
<1>1. \A i \in DOMAIN c : c[i].value = c[j].value
  BY FewValues
<1>2. QED
  BY <1>1 DEF ValuesOf

FirstMost(c, score, j) ==
  /\ j \in DOMAIN c
  /\ \A i \in DOMAIN c : score[i] <= score[j] /\ (i < j => score[i] < score[j])

LEMMA FirstBestIs ==
  ASSUME NEW c, Heard(c), NEW rank, NEW score \in [DOMAIN c -> Nat],
         \A i \in DOMAIN c : rank[c[i].value] = score[i], NEW j, FirstMost(c, score, j)
  PROVE  FirstBest(c, rank) = {c[j].value}
<1> DEFINE R == {score[i] : i \in DOMAIN score}
           best == Max(R)
           S == {i \in DOMAIN c : rank[c[i].value] = best}
<1>1. j \in DOMAIN c /\ \A i \in DOMAIN c : score[i] <= score[j] /\ (i < j => score[i] < score[j])
  BY DEF FirstMost
<1>2. R = {rank[c[i].value] : i \in DOMAIN c}
  OBVIOUS
<1>3. IsFiniteSet(R)
  BY MadeFinite DEF Heard
<1>4. R \in SUBSET Nat /\ R # {} /\ score[j] \in R /\ \A x \in R : x <= score[j]
  BY <1>1
<1>5. best \in R /\ \A x \in R : x <= best
  <2> HIDE DEF R
  <2>1. QED
    BY <1>3, <1>4, Highest
<1>6. best = score[j]
  <2>1. best <= score[j] /\ score[j] <= best /\ best \in Nat /\ score[j] \in Nat
    BY <1>4, <1>5
  <2> HIDE DEF best
  <2>2. QED
    BY <2>1
<1>7. FirstBest(c, rank) = {c[Min(S)].value}
  BY <1>2 DEF FirstBest
<1> HIDE DEF best, R
<1>8. \A i \in DOMAIN c : i \in Nat /\ score[i] \in Nat
  BY DEF Heard
<1>9. S = {i \in DOMAIN c : score[i] = score[j]}
  BY <1>6
<1>10. j \in S /\ \A i \in S : j <= i
  BY <1>1, <1>8, <1>9
<1>11. \A i \in S : i \in Nat
  BY <1>8
<1> HIDE DEF S
<1>12. Min(S) = j
  <2>1. Min(S) \in S /\ \A i \in S : Min(S) <= i
    BY <1>10 DEF Min
  <2>2. Min(S) <= j /\ j <= Min(S) /\ Min(S) \in Nat /\ j \in Nat
    BY <1>10, <1>11, <2>1
  <2>3. QED
    BY <2>2
<1>13. QED
  BY <1>7, <1>12

(* A loop that replaces what it holds by what scores higher.               *)
Keeps(f, n, c, out, score) ==
  /\ f[0] = {}
  /\ \A i \in 1..n : i \notin DOMAIN c => f[i] = f[i - 1]
  /\ \A i \in 1..n : i \in DOMAIN c /\ f[i - 1] = {} => f[i] = {out[i]}
  /\ \A i \in 1..n, k \in DOMAIN c : i \in DOMAIN c /\ f[i - 1] = {out[k]} =>
       f[i] = IF score[k] < score[i] THEN {out[i]} ELSE f[i - 1]

FirstFound(score, c, out, found) ==
  IF DOMAIN c = {} THEN found = {} ELSE \E j : FirstMost(c, score, j) /\ found = {out[j]}

LEMMA FirstKept ==
  ASSUME NEW n \in Nat, NEW c, DOMAIN c \in SUBSET (1..n), NEW score \in [DOMAIN c -> Nat],
         NEW out, NEW f, Keeps(f, n, c, out, score)
  PROVE  FirstFound(score, c, out, f[n])
<1> DEFINE UpTo(j, i) == /\ j \in DOMAIN c /\ j <= i
                         /\ \A k \in DOMAIN c : k <= i => score[k] <= score[j] /\ (k < j => score[k] < score[j])
           So(best, i) == \/ best = {} /\ \A k \in DOMAIN c : ~(k <= i)
                          \/ \E j : UpTo(j, i) /\ best = {out[j]}
           T == {i \in Nat : i <= n => So(f[i], i)}
<1>1. \A i \in DOMAIN c : score[i] \in Nat /\ i \in Nat /\ i > 0 /\ i <= n
  OBVIOUS
<1>2. 0 \in T
  BY <1>1 DEF Keeps
<1>3. ASSUME NEW m \in Nat, m \in T PROVE m + 1 \in T
  <2> SUFFICES ASSUME m + 1 <= n PROVE So(f[m + 1], m + 1)
    OBVIOUS
  <2> DEFINE i == m + 1
             best == f[m]
  <2>1. So(best, m)
    BY <1>3
  <2>2. /\ i \notin DOMAIN c => f[i] = best
        /\ i \in DOMAIN c /\ best = {} => f[i] = {out[i]}
        /\ \A k \in DOMAIN c : i \in DOMAIN c /\ best = {out[k]} =>
             f[i] = IF score[k] < score[i] THEN {out[i]} ELSE best
    <3>1. i \in 1..n /\ i - 1 = m
      OBVIOUS
    <3>2. QED
      BY <3>1 DEF Keeps
  <2>3. \A k \in DOMAIN c : k <= i <=> k <= m \/ k = i
    BY <1>1
  <2>4. i \in Nat /\ m < i
    OBVIOUS
  <2> HIDE DEF i, best
  <2>5. CASE i \notin DOMAIN c
    <3>1. f[i] = best
      BY <2>2, <2>5
    <3>2. \A k \in DOMAIN c : k <= i <=> k <= m
      BY <2>3, <2>5
    <3>3. CASE best = {} /\ \A k \in DOMAIN c : ~(k <= m)
      BY <3>1, <3>2, <3>3 DEF i
    <3>4. CASE \E j : UpTo(j, m) /\ best = {out[j]}
      <4>1. PICK j : UpTo(j, m) /\ best = {out[j]}
        BY <3>4
      <4>2. UpTo(j, i)
        BY <3>2, <4>1
      <4>3. QED
        BY <3>1, <4>1, <4>2 DEF i
    <3>5. QED
      BY <2>1, <3>3, <3>4
  <2>6. CASE i \in DOMAIN c /\ best = {}
    <3>1. f[i] = {out[i]}
      BY <2>2, <2>6
    <3>2. \A k \in DOMAIN c : ~(k <= m)
      BY <2>1, <2>6
    <3>3. UpTo(i, i)
      BY <1>1, <2>3, <2>4, <2>6, <3>2
    <3>4. QED
      BY <3>1, <3>3 DEF i
  <2>7. CASE i \in DOMAIN c /\ best # {}
    <3>1. PICK j : UpTo(j, m) /\ best = {out[j]}
      BY <2>1, <2>7
    <3>2. j \in DOMAIN c /\ j <= m /\ j \in Nat
      BY <1>1, <3>1
    <3>3. CASE score[j] < score[i]
      <4>1. f[i] = {out[i]}
        BY <2>2, <2>7, <3>1, <3>2, <3>3
      <4>2. \A k \in DOMAIN c : k <= m => score[k] < score[i]
        BY <1>1, <2>7, <3>1, <3>3
      <4>3. UpTo(i, i)
        BY <1>1, <2>3, <2>4, <2>7, <4>2
      <4>4. QED
        BY <4>1, <4>3 DEF i
    <3>4. CASE ~(score[j] < score[i])
      <4>1. f[i] = best
        BY <2>2, <2>7, <3>1, <3>2, <3>4
      <4>2. score[i] <= score[j] /\ j <= i /\ ~(i < j)
        BY <1>1, <2>4, <2>7, <3>2, <3>4
      <4>3. UpTo(j, i)
        BY <2>3, <3>1, <3>2, <4>2
      <4>4. QED
        BY <3>1, <4>1, <4>3 DEF i
    <3>5. QED
      BY <3>3, <3>4
  <2>8. QED
    BY <2>5, <2>6, <2>7
<1>4. n \in T
  <2> HIDE DEF T
  <2>1. QED
    BY <1>2, <1>3, Climbs
<1>5. So(f[n], n)
  BY <1>4
<1>6. CASE f[n] = {} /\ \A k \in DOMAIN c : ~(k <= n)
  <2>1. DOMAIN c = {}
    BY <1>1, <1>6
  <2>2. QED
    BY <1>6, <2>1 DEF FirstFound
<1>7. CASE \E j : UpTo(j, n) /\ f[n] = {out[j]}
  <2>1. PICK j : UpTo(j, n) /\ f[n] = {out[j]}
    BY <1>7
  <2>2. FirstMost(c, score, j) /\ DOMAIN c # {}
    BY <1>1, <2>1 DEF FirstMost
  <2>3. QED
    BY <2>1, <2>2 DEF FirstFound
<1>8. QED
  BY <1>5, <1>6, <1>7

(* Claims of the first n places, each of some length.                      *)
HeardOf(c, n) == Heard(c) /\ DOMAIN c \in SUBSET (1..n) /\ \A i \in DOMAIN c : LengthOf(c[i].value) \in Nat

-----------------------------------------------------------------------------
(* most_complete                                                           *)
IsLongest(f, c, n) == f = [i \in 0..n |-> IF i = 0 THEN {} ELSE Longest(c, f[i - 1], i)]

LEMMA LongestLoop ==
  ASSUME NEW c, NEW n \in Nat
  PROVE  \E f : f[0] = {} /\ (\A i \in 1..n : f[i] = Longest(c, f[i - 1], i)) /\ MostComplete(c, n) = f[n]
<1> DEFINE D == SUBSET ValuesOf(c)
           step == [i \in 1..n |-> [s \in D |-> Longest(c, s, i)]]
<1>1. \A i \in 1..n, s \in D : Longest(c, s, i) \in D
  BY DEF Longest, ValuesOf
<1>2. {} \in D
  OBVIOUS
<1> HIDE DEF D
<1>3. step \in [1..n -> [D -> D]] /\ \A i \in 1..n, s \in D : step[i][s] = Longest(c, s, i)
  BY <1>1
<1> HIDE DEF step
<1>4. PICK g \in [0..n -> D] : g[0] = {} /\ \A i \in 1..n : g[i] = step[i][g[i - 1]]
  <2>1. step \in [1..n -> [D -> D]]
    BY <1>3
  <2>2. Turns(D, n, {}, step)
    BY <1>2, <2>1, LoopExists
  <2>3. QED
    BY <2>2 DEF Turns
<1>5. ASSUME NEW i \in 0..n PROVE g[i] = IF i = 0 THEN {} ELSE Longest(c, g[i - 1], i)
  <2>1. CASE i = 0
    BY <1>4, <2>1
  <2>2. CASE i # 0
    <3>1. i \in 1..n /\ i - 1 \in 0..n
      BY <2>2
    <3>2. g[i - 1] \in D
      BY <3>1
    <3>3. QED
      BY <1>3, <1>4, <2>2, <3>1, <3>2
  <2>3. QED
    BY <2>1, <2>2
<1>6. IsLongest(g, c, n)
  BY <1>5 DEF IsLongest
<1> DEFINE f == CHOOSE f : IsLongest(f, c, n)
<1>7. IsLongest(f, c, n)
  BY <1>6
<1>8. MostComplete(c, n) = f[n]
  BY DEF MostComplete, IsLongest
<1> HIDE DEF f
<1>9. \A i \in 0..n : f[i] = IF i = 0 THEN {} ELSE Longest(c, f[i - 1], i)
  BY <1>7 DEF IsLongest
<1>10. f[0] = {} /\ \A i \in 1..n : f[i] = Longest(c, f[i - 1], i)
  BY <1>9
<1>11. QED
  BY <1>8, <1>10

LEMMA LongestIs ==
  ASSUME NEW n \in Nat, NEW c, HeardOf(c, n)
  PROVE  FirstFound([i \in DOMAIN c |-> LengthOf(c[i].value)], c, [i \in DOMAIN c |-> c[i].value], MostComplete(c, n))
<1> DEFINE score == [i \in DOMAIN c |-> LengthOf(c[i].value)]
           said == [i \in DOMAIN c |-> c[i].value]
<1>1. DOMAIN c \in SUBSET (1..n) /\ score \in [DOMAIN c -> Nat]
  BY DEF HeardOf
<1>2. PICK f : f[0] = {} /\ (\A i \in 1..n : f[i] = Longest(c, f[i - 1], i)) /\ MostComplete(c, n) = f[n]
  BY LongestLoop
<1>3. Keeps(f, n, c, said, score)
  BY <1>2 DEF Keeps, Longest
<1> HIDE DEF score, said
<1>4. FirstFound(score, c, said, f[n])
  BY <1>1, <1>3, FirstKept
<1>5. QED
  BY <1>2, <1>4 DEF score, said

-----------------------------------------------------------------------------
(* Answers that agree.                                                     *)
LEMMA AgreesWithItself ==
  ASSUME NEW X
  PROVE  Agree(X, Answers(X)) /\ Agree(X, Only(X))
<1>1. Agree(X, Answers(X))
  BY DEF Agree, Answers
<1>2. Cardinality(X) > 1 => Agree(X, Refuses)
  BY DEF Agree, Refuses
<1>3. QED
  BY <1>1, <1>2 DEF Only

LEMMA LastHeardIs ==
  ASSUME NEW c, Heard(c)
  PROVE  LastHeard(c) = MostRecent(c)
BY MostRecentIs DEF LastHeard, LastAt

(* A strategy that ranks picks the first of what ranks highest.            *)
LEMMA RankedAgrees ==
  ASSUME NEW c, Heard(c), NEW strategy, NEW rank, Winner(c, strategy) = FirstBest(c, rank),
         NEW score \in [DOMAIN c -> Nat], \A i \in DOMAIN c : rank[c[i].value] = score[i],
         NEW found, FirstFound(score, c, [i \in DOMAIN c |-> c[i].value], found)
  PROVE  Chosen(c, strategy) = found
<1>1. CASE DOMAIN c = {}
  <2>1. ValuesOf(c) = {}
    BY <1>1 DEF ValuesOf
  <2>2. Cardinality(ValuesOf(c)) <= 1
    BY <1>1, FewValues
  <2>3. QED
    BY <1>1, <2>1, <2>2 DEF Chosen, FirstFound
<1>2. CASE DOMAIN c # {}
  <2>1. PICK j : FirstMost(c, score, j) /\ found = {[i \in DOMAIN c |-> c[i].value][j]}
    BY <1>2 DEF FirstFound
  <2>2. j \in DOMAIN c /\ found = {c[j].value}
    BY <2>1 DEF FirstMost
  <2>3. CASE Cardinality(ValuesOf(c)) <= 1
    BY <2>2, <2>3, OneValue DEF Chosen
  <2>4. CASE ~(Cardinality(ValuesOf(c)) <= 1)
    <3>1. Chosen(c, strategy) = FirstBest(c, rank)
      BY <2>4 DEF Chosen
    <3>2. FirstBest(c, rank) = {c[j].value}
      BY <2>1, FirstBestIs
    <3>3. QED
      BY <2>2, <3>1, <3>2
  <2>5. QED
    BY <2>3, <2>4
<1>3. QED
  BY <1>1, <1>2

LEMMA MostCompleteAgrees ==
  ASSUME NEW n \in Nat, NEW c, HeardOf(c, n)
  PROVE  Chosen(c, "longest_value") = MostComplete(c, n)
<1> DEFINE score == [i \in DOMAIN c |-> LengthOf(c[i].value)]
           rank == [v \in ValuesOf(c) |-> IF v = Absent THEN 0 ELSE Size[v]]
<1>1. FirstFound(score, c, [i \in DOMAIN c |-> c[i].value], MostComplete(c, n))
  BY LongestIs
<1>2. Heard(c) /\ score \in [DOMAIN c -> Nat]
  BY DEF HeardOf
<1>3. \A i \in DOMAIN c : rank[c[i].value] = score[i]
  BY DEF ValuesOf, LengthOf
<1>4. Winner(c, "longest_value") = FirstBest(c, rank)
  <2>1. "longest_value" \notin DOMAIN Orders
    BY SurvivorAssumption DEF Unordered
  <2>2. QED
    BY <2>1 DEF Winner
<1> HIDE DEF score, rank
<1>5. QED
  BY <1>1, <1>2, <1>3, <1>4, RankedAgrees

-----------------------------------------------------------------------------
(* majority: the counts, each value's place among them that of its first   *)
(* claim, and the first of the highest.                                    *)
IsCounts(f, c, n) == f = [i \in 0..n |-> IF i = 0 THEN <<>> ELSE CountAt(c, f[i - 1], i)]
CountsOf(c) == Seq([value : ValuesOf(c), n : Nat])

(* A value that is counted, counted once more; and one that is not yet.    *)
OnceMore(s, v, t) ==
  /\ DOMAIN t = DOMAIN s
  /\ \A i \in DOMAIN s : t[i].value = s[i].value /\ t[i].n = IF s[i].value = v THEN s[i].n + 1 ELSE s[i].n
ForTheFirstTime(s, v, t) ==
  /\ DOMAIN t = 1..(Len(s) + 1)
  /\ \A i \in DOMAIN s : t[i] = s[i]
  /\ t[Len(s) + 1] = [value |-> v, n |-> 1]

LEMMA CountedIs ==
  ASSUME NEW c, NEW s \in CountsOf(c), NEW v \in ValuesOf(c)
  PROVE  /\ Counted(s, v) \in CountsOf(c)
         /\ IF \E i \in DOMAIN s : s[i].value = v
            THEN OnceMore(s, v, Counted(s, v)) ELSE ForTheFirstTime(s, v, Counted(s, v))
<1> DEFINE R == [value : ValuesOf(c), n : Nat]
           more == [i \in DOMAIN s |-> IF s[i].value = v THEN [s[i] EXCEPT !.n = @ + 1] ELSE s[i]]
           new == [value |-> v, n |-> 1]
<1>1. s \in Seq(R) /\ DOMAIN s = 1..Len(s) /\ Len(s) \in Nat /\ new \in R
  BY DEF CountsOf
<1>2. CASE \E i \in DOMAIN s : s[i].value = v
  <2>1. Counted(s, v) = more
    BY <1>2 DEF Counted
  <2>2. \A i \in DOMAIN s : s[i] \in R
    <3> HIDE DEF R
    <3>1. QED
      BY <1>1
  <2>3. \A i \in DOMAIN s : /\ more[i] \in R /\ more[i].value = s[i].value
                            /\ more[i].n = IF s[i].value = v THEN s[i].n + 1 ELSE s[i].n
    BY <2>2
  <2>4. more \in [1..Len(s) -> R]
    BY <1>1, <2>3
  <2>5. more \in Seq(R)
    BY <1>1, <2>4
  <2>6. DOMAIN more = DOMAIN s
    OBVIOUS
  <2> HIDE DEF more
  <2>7. Counted(s, v) \in CountsOf(c)
    BY <2>1, <2>5 DEF CountsOf
  <2>8. OnceMore(s, v, Counted(s, v))
    <3>1. \A i \in DOMAIN s : more[i].value = s[i].value /\ more[i].n = IF s[i].value = v THEN s[i].n + 1 ELSE s[i].n
      BY <2>3
    <3> HIDE DEF more
    <3>2. OnceMore(s, v, more)
      BY <2>6, <3>1 DEF OnceMore
    <3>3. QED
      BY <2>1, <3>2
  <2>9. QED
    BY <1>2, <2>7, <2>8
<1>3. CASE ~ \E i \in DOMAIN s : s[i].value = v
  <2>1. Counted(s, v) = Append(s, new)
    BY <1>3 DEF Counted
  <2> HIDE DEF new
  <2>2. Append(s, new) \in Seq(R) /\ Len(Append(s, new)) = Len(s) + 1
    BY <1>1
  <2>3. DOMAIN Append(s, new) = 1..(Len(s) + 1)
    BY <2>2
  <2>4. (\A i \in DOMAIN s : Append(s, new)[i] = s[i]) /\ Append(s, new)[Len(s) + 1] = new
    BY <1>1
  <2>5. QED
    BY <1>3, <2>1, <2>2, <2>3, <2>4 DEF CountsOf, new, ForTheFirstTime
<1>4. QED
  BY <1>2, <1>3

LEMMA CountsLoop ==
  ASSUME NEW c, NEW n \in Nat
  PROVE  \E f : /\ f[0] = <<>> /\ \A i \in 1..n : f[i] = CountAt(c, f[i - 1], i)
                /\ Counts(c, n) = f[n]
<1> DEFINE D == CountsOf(c)
           step == [i \in 1..n |-> [s \in D |-> CountAt(c, s, i)]]
<1>1. ASSUME NEW i \in 1..n, NEW s \in D PROVE CountAt(c, s, i) \in D
  <2>1. CASE i \in DOMAIN c
    <3>1. c[i].value \in ValuesOf(c)
      BY <2>1 DEF ValuesOf
    <3>2. Counted(s, c[i].value) \in D
      BY <3>1, CountedIs
    <3>3. QED
      BY <2>1, <3>2 DEF CountAt
  <2>2. CASE i \notin DOMAIN c
    BY <2>2 DEF CountAt
  <2>3. QED
    BY <2>1, <2>2
<1>2. <<>> \in D
  BY DEF CountsOf
<1> HIDE DEF D
<1>3. step \in [1..n -> [D -> D]] /\ \A i \in 1..n, s \in D : step[i][s] = CountAt(c, s, i)
  BY <1>1
<1> HIDE DEF step
<1>4. PICK g \in [0..n -> D] : g[0] = <<>> /\ \A i \in 1..n : g[i] = step[i][g[i - 1]]
  <2>1. step \in [1..n -> [D -> D]]
    BY <1>3
  <2>2. Turns(D, n, <<>>, step)
    BY <1>2, <2>1, LoopExists
  <2>3. QED
    BY <2>2 DEF Turns
<1>5. ASSUME NEW i \in 0..n PROVE g[i] = IF i = 0 THEN <<>> ELSE CountAt(c, g[i - 1], i)
  <2>1. CASE i = 0
    BY <1>4, <2>1
  <2>2. CASE i # 0
    <3>1. i \in 1..n /\ i - 1 \in 0..n
      BY <2>2
    <3>2. g[i - 1] \in D
      BY <3>1
    <3>3. QED
      BY <1>3, <1>4, <2>2, <3>1, <3>2
  <2>3. QED
    BY <2>1, <2>2
<1>6. IsCounts(g, c, n)
  BY <1>5 DEF IsCounts
<1> DEFINE f == CHOOSE f : IsCounts(f, c, n)
<1>7. IsCounts(f, c, n)
  BY <1>6
<1>8. Counts(c, n) = f[n]
  BY DEF Counts, IsCounts
<1> HIDE DEF f
<1>9. \A i \in 0..n : f[i] = IF i = 0 THEN <<>> ELSE CountAt(c, f[i - 1], i)
  BY <1>7 DEF IsCounts
<1>10. f[0] = <<>> /\ \A i \in 1..n : f[i] = CountAt(c, f[i - 1], i)
  BY <1>9
<1>11. QED
  BY <1>8, <1>10

(* What s says of the claims of the first m places.                        *)
VotesTo(c, v, m) == Cardinality({j \in DOMAIN c : j <= m /\ c[j].value = v})
Tallies(c, s, m) ==
  /\ s \in CountsOf(c)
  /\ \A k \in DOMAIN s : /\ s[k].n = VotesTo(c, s[k].value, m)
                         /\ \E j \in DOMAIN c : j <= m /\ c[j].value = s[k].value
  /\ \A j \in DOMAIN c : j <= m => \E k \in DOMAIN s : s[k].value = c[j].value
  /\ \A k, l \in DOMAIN s, j \in DOMAIN c : k < l /\ j <= m /\ c[j].value = s[l].value =>
       \E i \in DOMAIN c : i < j /\ c[i].value = s[k].value

LEMMA OneVoteMore ==
  ASSUME NEW c, Heard(c), NEW m \in Nat, m + 1 \in DOMAIN c, NEW v
  PROVE  /\ VotesTo(c, v, m) \in Nat
         /\ VotesTo(c, v, m + 1) = IF c[m + 1].value = v THEN VotesTo(c, v, m) + 1 ELSE VotesTo(c, v, m)
<1> DEFINE S(k) == {j \in DOMAIN c : j <= k /\ c[j].value = v}
<1>1. S(m) \in SUBSET DOMAIN c /\ IsFiniteSet(DOMAIN c) /\ DOMAIN c \in SUBSET Nat
  BY DEF Heard
<1>2. IsFiniteSet(S(m))
  BY <1>1, FS_Subset
<1>3. Cardinality(S(m)) \in Nat
  BY <1>2, FS_CardinalityType
<1>4. \A j \in DOMAIN c : j <= m + 1 <=> j <= m \/ j = m + 1
  BY <1>1
<1>5. CASE c[m + 1].value = v
  <2>1. S(m + 1) = S(m) \cup {m + 1}
    BY <1>4, <1>5
  <2>2. m + 1 \notin S(m)
    OBVIOUS
  <2> HIDE DEF S
  <2>3. Cardinality(S(m) \cup {m + 1}) = Cardinality(S(m)) + 1
    BY <1>2, <2>2, FS_AddElement
  <2>4. QED
    BY <1>3, <1>5, <2>1, <2>3 DEF VotesTo, S
<1>6. CASE c[m + 1].value # v
  <2>1. S(m + 1) = S(m)
    BY <1>4, <1>6
  <2>2. QED
    BY <1>3, <1>6, <2>1 DEF VotesTo
<1>7. QED
  BY <1>5, <1>6

LEMMA TalliedOn ==
  ASSUME NEW c, Heard(c), NEW m \in Nat, NEW s, Tallies(c, s, m)
  PROVE  Tallies(c, CountAt(c, s, m + 1), m + 1)
<1> DEFINE p == m + 1
           v == c[p].value
           t == CountAt(c, s, p)
<1>1. /\ s \in CountsOf(c)
      /\ \A k \in DOMAIN s : /\ s[k].n = VotesTo(c, s[k].value, m)
                             /\ \E j \in DOMAIN c : j <= m /\ c[j].value = s[k].value
      /\ \A j \in DOMAIN c : j <= m => \E k \in DOMAIN s : s[k].value = c[j].value
      /\ \A k, l \in DOMAIN s, j \in DOMAIN c : k < l /\ j <= m /\ c[j].value = s[l].value =>
           \E i \in DOMAIN c : i < j /\ c[i].value = s[k].value
  BY DEF Tallies
<1>2. \A j \in DOMAIN c : j \in Nat /\ (j <= p <=> j <= m \/ j = p) /\ (j <= m => j < p)
  BY DEF Heard
<1>3. CASE p \notin DOMAIN c
  <2>1. t = s
    BY <1>3 DEF CountAt
  <2>2. \A j \in DOMAIN c : j <= p <=> j <= m
    BY <1>2, <1>3
  <2>3. \A k \in DOMAIN s : VotesTo(c, s[k].value, p) = VotesTo(c, s[k].value, m)
    <3> TAKE k \in DOMAIN s
    <3> HIDE DEF p
    <3>1. {j \in DOMAIN c : j <= p /\ c[j].value = s[k].value} = {j \in DOMAIN c : j <= m /\ c[j].value = s[k].value}
      BY <2>2
    <3>2. QED
      BY <3>1 DEF VotesTo
  <2> HIDE DEF p, t
  <2>4. Tallies(c, t, p)
    BY <1>1, <2>1, <2>2, <2>3 DEF Tallies
  <2>5. QED
    BY <2>4 DEF p, t
<1>4. CASE p \in DOMAIN c
  <2>1. t = Counted(s, v) /\ v \in ValuesOf(c)
    BY <1>4 DEF CountAt, ValuesOf
  <2>2. \A w : /\ VotesTo(c, w, m) \in Nat
               /\ VotesTo(c, w, p) = IF v = w THEN VotesTo(c, w, m) + 1 ELSE VotesTo(c, w, m)
    BY <1>4, OneVoteMore
  <2>3. DOMAIN s = 1..Len(s) /\ Len(s) \in Nat
    BY <1>1 DEF CountsOf
  <2> HIDE DEF p, t, v
  <2>4. t \in CountsOf(c)
    BY <1>1, <2>1, CountedIs
  <2>5. CASE \E k \in DOMAIN s : s[k].value = v
    <3>1. /\ DOMAIN t = DOMAIN s
          /\ \A k \in DOMAIN s : /\ t[k].value = s[k].value
                                 /\ t[k].n = IF s[k].value = v THEN s[k].n + 1 ELSE s[k].n
      <4>1. OnceMore(s, v, t)
        BY <1>1, <2>1, <2>5, CountedIs
      <4>2. QED
        BY <4>1 DEF OnceMore
    <3>2. \A k \in DOMAIN t : t[k].n = VotesTo(c, t[k].value, p)
      BY <1>1, <2>2, <3>1
    <3>3. \A k \in DOMAIN t : \E j \in DOMAIN c : j <= p /\ c[j].value = t[k].value
      BY <1>1, <1>2, <3>1
    <3>4. \A j \in DOMAIN c : j <= p => \E k \in DOMAIN t : t[k].value = c[j].value
      BY <1>1, <1>2, <2>5, <3>1 DEF v
    <3>5. ASSUME NEW k \in DOMAIN t, NEW l \in DOMAIN t, NEW j \in DOMAIN c, k < l, j <= p, c[j].value = t[l].value
          PROVE  \E i \in DOMAIN c : i < j /\ c[i].value = t[k].value
      <4>1. CASE j <= m
        BY <1>1, <3>1, <3>5, <4>1
      <4>2. CASE j = p
        BY <1>1, <1>2, <3>1, <4>2
      <4>3. QED
        BY <1>2, <3>5, <4>1, <4>2
    <3>6. Tallies(c, t, p)
      BY <2>4, <3>2, <3>3, <3>4, <3>5 DEF Tallies
    <3>7. QED
      BY <3>6 DEF p, t
  <2>6. CASE ~ \E k \in DOMAIN s : s[k].value = v
    <3> DEFINE last == Len(s) + 1
    <3>1. DOMAIN t = 1..last /\ (\A k \in DOMAIN s : t[k] = s[k]) /\ t[last] = [value |-> v, n |-> 1]
      <4>1. ForTheFirstTime(s, v, t)
        BY <1>1, <2>1, <2>6, CountedIs
      <4>2. QED
        BY <4>1 DEF ForTheFirstTime
    <3>2. \A k \in DOMAIN t : k \in DOMAIN s \/ k = last
      BY <2>3, <3>1
    <3>3. \A j \in DOMAIN c : j <= m => c[j].value # v
      BY <1>1, <2>6
    <3>4. VotesTo(c, v, m) = 0
      <4>1. {j \in DOMAIN c : j <= m /\ c[j].value = v} = {}
        BY <3>3
      <4>2. QED
        BY <4>1, FS_EmptySet DEF VotesTo
    <3>5. /\ t[last].value = v /\ t[last].n = 1 /\ last \in DOMAIN t
          /\ \A k, l \in DOMAIN t : k < l => k \in DOMAIN s
          /\ DOMAIN s \subseteq DOMAIN t
      BY <2>3, <3>1
    <3> HIDE DEF last
    <3>6. \A k \in DOMAIN t : t[k].n = VotesTo(c, t[k].value, p)
      BY <1>1, <2>2, <2>6, <3>1, <3>2, <3>4, <3>5
    <3>7. \A k \in DOMAIN t : \E j \in DOMAIN c : j <= p /\ c[j].value = t[k].value
      <4> TAKE k \in DOMAIN t
      <4>1. CASE k \in DOMAIN s
        BY <1>1, <1>2, <3>1, <4>1
      <4>2. CASE k = last
        <5>1. p \in DOMAIN c /\ p <= p /\ c[p].value = t[last].value
          BY <1>2, <1>4, <3>5 DEF p, v
        <5>2. QED
          BY <4>2, <5>1
      <4>3. QED
        BY <3>2, <4>1, <4>2
    <3>8. \A j \in DOMAIN c : j <= p => \E k \in DOMAIN t : t[k].value = c[j].value
      <4> SUFFICES ASSUME NEW j \in DOMAIN c, j <= p PROVE \E k \in DOMAIN t : t[k].value = c[j].value
        OBVIOUS
      <4>1. CASE j <= m
        BY <1>1, <3>1, <3>5, <4>1
      <4>2. CASE j = p
        BY <3>5, <4>2 DEF v
      <4>3. QED
        BY <1>2, <4>1, <4>2
    <3>9. ASSUME NEW k \in DOMAIN t, NEW l \in DOMAIN t, NEW j \in DOMAIN c, k < l, j <= p, c[j].value = t[l].value
          PROVE  \E i \in DOMAIN c : i < j /\ c[i].value = t[k].value
      <4>1. k \in DOMAIN s /\ t[k] = s[k]
        BY <3>1, <3>5, <3>9
      <4>2. CASE j = p
        BY <1>1, <1>2, <4>1, <4>2
      <4>3. CASE j <= m
        <5>1. l \in DOMAIN s /\ t[l] = s[l]
          BY <3>1, <3>2, <3>3, <3>5, <3>9, <4>3
        <5>2. QED
          BY <1>1, <3>9, <4>1, <4>3, <5>1
      <4>4. QED
        BY <1>2, <3>9, <4>2, <4>3
    <3>10. Tallies(c, t, p)
      BY <2>4, <3>6, <3>7, <3>8, <3>9 DEF Tallies
    <3>11. QED
      BY <3>10 DEF p, t
  <2>7. QED
    BY <2>5, <2>6
<1>5. QED
  BY <1>3, <1>4

LEMMA CountsAre ==
  ASSUME NEW n \in Nat, NEW c, HeardOf(c, n)
  PROVE  Tallies(c, Counts(c, n), n)
<1>1. Heard(c) /\ \A j \in DOMAIN c : j \in Nat /\ j > 0
  BY DEF HeardOf
<1>2. PICK f : f[0] = <<>> /\ (\A i \in 1..n : f[i] = CountAt(c, f[i - 1], i)) /\ Counts(c, n) = f[n]
  BY CountsLoop
<1> DEFINE T == {i \in Nat : i <= n => Tallies(c, f[i], i)}
<1>3. 0 \in T
  <2>1. <<>> \in CountsOf(c) /\ DOMAIN <<>> = {}
    BY DEF CountsOf
  <2>2. \A j \in DOMAIN c : ~(j <= 0)
    BY <1>1
  <2>3. Tallies(c, <<>>, 0)
    BY <2>1, <2>2 DEF Tallies
  <2>4. QED
    BY <1>2, <2>3
<1>4. ASSUME NEW m \in Nat, m \in T PROVE m + 1 \in T
  <2> SUFFICES ASSUME m + 1 <= n PROVE Tallies(c, f[m + 1], m + 1)
    OBVIOUS
  <2>1. m + 1 \in 1..n /\ (m + 1) - 1 = m /\ Tallies(c, f[m], m)
    BY <1>4
  <2>2. f[m + 1] = CountAt(c, f[m], m + 1)
    BY <1>2, <2>1
  <2>3. QED
    BY <1>1, <2>1, <2>2, TalliedOn
<1>5. n \in T
  <2> HIDE DEF T
  <2>1. QED
    BY <1>3, <1>4, Climbs
<1>6. QED
  BY <1>2, <1>5

IsLeading(f, s) == f = [i \in 0..Len(s) |-> IF i = 0 THEN {} ELSE Exceeds(s, f[i - 1], i)]

LEMMA LeadingLoop ==
  ASSUME NEW s, Len(s) \in Nat, DOMAIN s = 1..Len(s)
  PROVE  \E f : /\ f[0] = {} /\ \A i \in 1..Len(s) : f[i] = Exceeds(s, f[i - 1], i)
                /\ Leading(s) = f[Len(s)]
<1> DEFINE n == Len(s)
           D == SUBSET {s[i] : i \in DOMAIN s}
           step == [i \in 1..n |-> [b \in D |-> Exceeds(s, b, i)]]
<1>1. \A i \in 1..n, b \in D : Exceeds(s, b, i) \in D
  BY DEF Exceeds
<1>2. {} \in D
  OBVIOUS
<1> HIDE DEF D
<1>3. step \in [1..n -> [D -> D]] /\ \A i \in 1..n, b \in D : step[i][b] = Exceeds(s, b, i)
  BY <1>1
<1> HIDE DEF step
<1>4. PICK g \in [0..n -> D] : g[0] = {} /\ \A i \in 1..n : g[i] = step[i][g[i - 1]]
  <2>1. step \in [1..n -> [D -> D]]
    BY <1>3
  <2>2. Turns(D, n, {}, step)
    BY <1>2, <2>1, LoopExists
  <2>3. QED
    BY <2>2 DEF Turns
<1>5. ASSUME NEW i \in 0..n PROVE g[i] = IF i = 0 THEN {} ELSE Exceeds(s, g[i - 1], i)
  <2>1. CASE i = 0
    BY <1>4, <2>1
  <2>2. CASE i # 0
    <3>1. i \in 1..n /\ i - 1 \in 0..n
      BY <2>2
    <3>2. g[i - 1] \in D
      BY <3>1
    <3>3. QED
      BY <1>3, <1>4, <2>2, <3>1, <3>2
  <2>3. QED
    BY <2>1, <2>2
<1>6. IsLeading(g, s)
  BY <1>5 DEF IsLeading
<1> DEFINE f == CHOOSE f : IsLeading(f, s)
<1>7. IsLeading(f, s)
  BY <1>6
<1>8. Leading(s) = f[n]
  BY DEF Leading, IsLeading
<1> HIDE DEF f
<1>9. \A i \in 0..n : f[i] = IF i = 0 THEN {} ELSE Exceeds(s, f[i - 1], i)
  BY <1>7 DEF IsLeading
<1>10. f[0] = {} /\ \A i \in 1..n : f[i] = Exceeds(s, f[i - 1], i)
  BY <1>9
<1>11. QED
  BY <1>8, <1>10

LEMMA LeadingIs ==
  ASSUME NEW s, Len(s) \in Nat, DOMAIN s = 1..Len(s), \A k \in DOMAIN s : s[k].n \in Nat
  PROVE  FirstFound([k \in DOMAIN s |-> s[k].n], s, s, Leading(s))
<1> DEFINE score == [k \in DOMAIN s |-> s[k].n]
           n == Len(s)
<1>1. PICK f : f[0] = {} /\ (\A i \in 1..n : f[i] = Exceeds(s, f[i - 1], i)) /\ Leading(s) = f[n]
  BY LeadingLoop
<1>2. Keeps(f, n, s, s, score)
  BY <1>1 DEF Keeps, Exceeds
<1>3. score \in [DOMAIN s -> Nat] /\ DOMAIN s \in SUBSET (1..n)
  OBVIOUS
<1> HIDE DEF score
<1>4. FirstFound(score, s, s, f[n])
  BY <1>2, <1>3, FirstKept
<1>5. QED
  BY <1>1, <1>4 DEF score

LEMMA MajorityIs ==
  ASSUME NEW n \in Nat, NEW c, HeardOf(c, n), NEW score \in [DOMAIN c -> Nat],
         \A i \in DOMAIN c : score[i] = Votes(c, c[i].value)
  PROVE  FirstFound(score, c, [i \in DOMAIN c |-> c[i].value], Majority(c, n))
<1> DEFINE s == Counts(c, n)
           among == [k \in DOMAIN s |-> s[k].n]
<1>1. Tallies(c, s, n)
  BY CountsAre
<1>2. \A j \in DOMAIN c : j \in Nat /\ j <= n
  BY DEF HeardOf
<1>3. \A v : VotesTo(c, v, n) = Votes(c, v)
  <2> TAKE v
  <2>1. {j \in DOMAIN c : j <= n /\ c[j].value = v} = {j \in DOMAIN c : c[j].value = v}
    BY <1>2
  <2>2. QED
    BY <2>1 DEF Votes, VotesTo
<1>4. Majority(c, n) = {b.value : b \in Leading(s)}
  BY DEF Majority
<1> HIDE DEF s
<1>5. Len(s) \in Nat /\ DOMAIN s = 1..Len(s) /\ \A k \in DOMAIN s : s[k].n \in Nat
  <2> DEFINE R == [value : ValuesOf(c), n : Nat]
  <2>1. s \in Seq(R)
    BY <1>1 DEF Tallies, CountsOf
  <2>2. \A r \in R : r.n \in Nat
    OBVIOUS
  <2> HIDE DEF R
  <2>3. Len(s) \in Nat /\ DOMAIN s = 1..Len(s) /\ \A k \in DOMAIN s : s[k] \in R
    BY <2>1
  <2>4. QED
    BY <2>2, <2>3
<1>6. FirstFound(among, s, s, Leading(s))
  BY <1>5, LeadingIs
<1>7. /\ \A k \in DOMAIN s : /\ s[k].n = Votes(c, s[k].value)
                             /\ \E j \in DOMAIN c : c[j].value = s[k].value
      /\ \A j \in DOMAIN c : \E k \in DOMAIN s : s[k].value = c[j].value
      /\ \A k, l \in DOMAIN s, j \in DOMAIN c : k < l /\ c[j].value = s[l].value =>
           \E i \in DOMAIN c : i < j /\ c[i].value = s[k].value
  BY <1>1, <1>2, <1>3 DEF Tallies
<1>8. CASE DOMAIN c = {}
  <2>1. DOMAIN s = {}
    BY <1>7, <1>8
  <2>2. Leading(s) = {}
    BY <1>6, <2>1 DEF FirstFound
  <2>3. Majority(c, n) = {}
    BY <1>4, <2>2
  <2>4. QED
    BY <1>8, <2>3 DEF FirstFound
<1>9. CASE DOMAIN c # {}
  <2>1. DOMAIN s # {}
    BY <1>7, <1>9
  <2>2. PICK k : FirstMost(s, among, k) /\ Leading(s) = {s[k]}
    BY <1>6, <2>1 DEF FirstFound
  <2>3. /\ k \in DOMAIN s /\ Majority(c, n) = {s[k].value}
        /\ \A l \in DOMAIN s : s[l].n <= s[k].n /\ (l < k => s[l].n < s[k].n)
    BY <1>4, <2>2 DEF FirstMost
  <2> DEFINE first == {j \in DOMAIN c : c[j].value = s[k].value}
  <2>4. first \in SUBSET Nat /\ first # {}
    BY <1>2, <1>7, <2>3
  <2>5. PICK j \in first : \A i \in first : j <= i
    <3> HIDE DEF first
    <3>1. QED
      BY <2>4, Lowest
  <2>6. j \in DOMAIN c /\ c[j].value = s[k].value /\ j \in Nat
    BY <2>4, <2>5
  <2>7. ASSUME NEW i \in DOMAIN c
        PROVE  score[i] <= score[j] /\ (i < j => score[i] < score[j])
    <3>1. PICK l \in DOMAIN s : s[l].value = c[i].value
      BY <1>7
    <3>2. score[i] = s[l].n /\ score[j] = s[k].n
      BY <1>7, <2>3, <2>6, <3>1
    <3>3. ASSUME i < j PROVE l < k
      <4>1. i \notin first
        BY <1>2, <2>5, <2>6, <3>3
      <4>2. l # k
        BY <3>1, <4>1
      <4>3. ~(k < l)
        <5> SUFFICES ASSUME k < l PROVE FALSE
          OBVIOUS
        <5>1. PICK h \in DOMAIN c : h < i /\ c[h].value = s[k].value
          BY <1>7, <2>3, <3>1
        <5>2. j <= h /\ h \in Nat /\ i \in Nat
          BY <1>2, <2>5, <5>1
        <5>3. QED
          BY <2>6, <3>3, <5>1, <5>2
      <4>4. k \in Nat /\ l \in Nat
        BY <1>5, <2>3
      <4>5. QED
        BY <4>2, <4>3, <4>4
    <3>4. QED
      BY <2>3, <3>2, <3>3
  <2>8. FirstMost(c, score, j)
    BY <2>6, <2>7 DEF FirstMost
  <2>9. Majority(c, n) = {[i \in DOMAIN c |-> c[i].value][j]}
    BY <2>3, <2>6
  <2>10. QED
    BY <1>9, <2>8, <2>9 DEF FirstFound
<1>10. QED
  BY <1>8, <1>9

LEMMA MajorityAgrees ==
  ASSUME NEW n \in Nat, NEW c, HeardOf(c, n)
  PROVE  Chosen(c, "majority_vote") = Majority(c, n)
<1> DEFINE score == [i \in DOMAIN c |-> Votes(c, c[i].value)]
           rank == [v \in ValuesOf(c) |-> Votes(c, v)]
<1>1. Heard(c) /\ IsFiniteSet(DOMAIN c)
  BY DEF HeardOf, Heard
<1>2. \A v : Votes(c, v) \in Nat
  <2> TAKE v
  <2>1. IsFiniteSet({i \in DOMAIN c : c[i].value = v})
    BY <1>1, FS_Subset
  <2>2. QED
    BY <2>1, FS_CardinalityType DEF Votes
<1>3. score \in [DOMAIN c -> Nat] /\ \A i \in DOMAIN c : score[i] = Votes(c, c[i].value)
  BY <1>2
<1>4. \A i \in DOMAIN c : rank[c[i].value] = score[i]
  BY DEF ValuesOf
<1>5. Winner(c, "majority_vote") = FirstBest(c, rank)
  <2>1. "majority_vote" \notin DOMAIN Orders
    BY SurvivorAssumption DEF Unordered
  <2>2. QED
    BY <2>1 DEF Winner
<1> HIDE DEF score, rank
<1>6. FirstFound(score, c, [i \in DOMAIN c |-> c[i].value], Majority(c, n))
  BY <1>3, MajorityIs
<1>7. QED
  BY <1>1, <1>3, <1>4, <1>5, <1>6, RankedAgrees

-----------------------------------------------------------------------------
(* Those that do not rank.                                                 *)
LEMMA FirstAgrees ==
  ASSUME NEW c, Heard(c)
  PROVE  Chosen(c, "first_non_null") = {c[i].value : i \in {j \in DOMAIN c : \A k \in DOMAIN c : j <= k}}
<1> DEFINE S == {j \in DOMAIN c : \A k \in DOMAIN c : j <= k}
<1>1. DOMAIN c \in SUBSET Nat
  BY DEF Heard
<1>2. CASE DOMAIN c = {}
  <2>1. ValuesOf(c) = {}
    BY <1>2 DEF ValuesOf
  <2>2. Cardinality(ValuesOf(c)) <= 1
    BY <1>2, FewValues
  <2>3. QED
    BY <1>2, <2>1, <2>2 DEF Chosen
<1>3. CASE DOMAIN c # {}
  <2>1. PICK j \in DOMAIN c : \A k \in DOMAIN c : j <= k
    BY <1>1, <1>3, Lowest
  <2>2. \A k \in DOMAIN c : (\A l \in DOMAIN c : k <= l) => k = j
    BY <1>1, <2>1
  <2>3. S = {j}
    BY <2>1, <2>2
  <2>4. Min(DOMAIN c) = j
    <3>1. Min(DOMAIN c) \in DOMAIN c /\ \A k \in DOMAIN c : Min(DOMAIN c) <= k
      BY <2>1 DEF Min
    <3>2. QED
      BY <2>2, <3>1
  <2>5. Winner(c, "first_non_null") = {c[j].value}
    <3>1. "first_non_null" \notin DOMAIN Orders
      BY SurvivorAssumption DEF Unordered
    <3>2. QED
      BY <2>4, <3>1 DEF Winner
  <2>6. Chosen(c, "first_non_null") = {c[j].value}
    BY <2>1, <2>5, OneValue DEF Chosen
  <2> HIDE DEF S
  <2>7. {c[i].value : i \in S} = {c[j].value}
    BY <2>3
  <2>8. QED
    BY <2>6, <2>7 DEF S
<1>4. QED
  BY <1>2, <1>3

LEMMA UnanimousAgrees ==
  ASSUME NEW c, Heard(c)
  PROVE  Chosen(c, "unanimous_or_null")
           = {c[i].value : i \in {j \in DOMAIN c : \A k \in DOMAIN c : c[k].value = c[j].value}}
<1> DEFINE S == {j \in DOMAIN c : \A k \in DOMAIN c : c[k].value = c[j].value}
<1>1. CASE Cardinality(ValuesOf(c)) <= 1
  <2>1. \A i, j \in DOMAIN c : c[i].value = c[j].value
    BY <1>1, FewValues
  <2>2. S = DOMAIN c
    BY <2>1
  <2>3. Chosen(c, "unanimous_or_null") = ValuesOf(c)
    BY <1>1 DEF Chosen
  <2> HIDE DEF S
  <2>4. {c[i].value : i \in S} = ValuesOf(c)
    BY <2>2 DEF ValuesOf
  <2>5. QED
    BY <2>3, <2>4 DEF S
<1>2. CASE ~(Cardinality(ValuesOf(c)) <= 1)
  <2>1. PICK p \in DOMAIN c, q \in DOMAIN c : c[p].value # c[q].value
    BY <1>2, FewValues
  <2>2. S = {}
    BY <2>1
  <2>3. Winner(c, "unanimous_or_null") = {}
    <3>1. "unanimous_or_null" \notin DOMAIN Orders
      BY SurvivorAssumption DEF Unordered
    <3>2. QED
      BY <3>1 DEF Winner
  <2>4. Chosen(c, "unanimous_or_null") = {}
    BY <1>2, <2>3 DEF Chosen
  <2> HIDE DEF S
  <2>5. {c[i].value : i \in S} = {}
    BY <2>2
  <2>6. QED
    BY <2>4, <2>5 DEF S
<1>3. QED
  BY <1>1, <1>2

-----------------------------------------------------------------------------
(* source_priority: the claims of the first source that made any.          *)
IsTier(f, c, order) == f = [i \in 0..Len(order) |-> IF i = 0 THEN {} ELSE FromSource(c, f[i - 1], order[i])]

LEMMA TierLoop ==
  ASSUME NEW c, NEW order, Len(order) \in Nat
  PROVE  \E f : /\ f[0] = {} /\ \A i \in 1..Len(order) : f[i] = FromSource(c, f[i - 1], order[i])
                /\ Tier(c, order) = f[Len(order)]
<1> DEFINE n == Len(order)
           D == SUBSET DOMAIN c
           step == [i \in 1..n |-> [b \in D |-> FromSource(c, b, order[i])]]
<1>1. \A i \in 1..n, b \in D : FromSource(c, b, order[i]) \in D
  BY DEF FromSource
<1>2. {} \in D
  OBVIOUS
<1> HIDE DEF D
<1>3. step \in [1..n -> [D -> D]] /\ \A i \in 1..n, b \in D : step[i][b] = FromSource(c, b, order[i])
  BY <1>1
<1> HIDE DEF step
<1>4. PICK g \in [0..n -> D] : g[0] = {} /\ \A i \in 1..n : g[i] = step[i][g[i - 1]]
  <2>1. step \in [1..n -> [D -> D]]
    BY <1>3
  <2>2. Turns(D, n, {}, step)
    BY <1>2, <2>1, LoopExists
  <2>3. QED
    BY <2>2 DEF Turns
<1>5. ASSUME NEW i \in 0..n PROVE g[i] = IF i = 0 THEN {} ELSE FromSource(c, g[i - 1], order[i])
  <2>1. CASE i = 0
    BY <1>4, <2>1
  <2>2. CASE i # 0
    <3>1. i \in 1..n /\ i - 1 \in 0..n
      BY <2>2
    <3>2. g[i - 1] \in D
      BY <3>1
    <3>3. QED
      BY <1>3, <1>4, <2>2, <3>1, <3>2
  <2>3. QED
    BY <2>1, <2>2
<1>6. IsTier(g, c, order)
  BY <1>5 DEF IsTier
<1> DEFINE f == CHOOSE f : IsTier(f, c, order)
<1>7. IsTier(f, c, order)
  BY <1>6
<1>8. Tier(c, order) = f[n]
  BY DEF Tier, IsTier
<1> HIDE DEF f
<1>9. \A i \in 0..n : f[i] = IF i = 0 THEN {} ELSE FromSource(c, f[i - 1], order[i])
  BY <1>7 DEF IsTier
<1>10. f[0] = {} /\ \A i \in 1..n : f[i] = FromSource(c, f[i - 1], order[i])
  BY <1>9
<1>11. QED
  BY <1>8, <1>10

(* What the first m sources leave of the claims.                           *)
ByTier(c, order, tier, m) ==
  IF tier = {} THEN \A q \in 1..m, i \in DOMAIN c : c[i].source # order[q]
  ELSE \E p \in 1..m : /\ tier = {i \in DOMAIN c : c[i].source = order[p]}
                       /\ \A q \in 1..(p - 1), i \in DOMAIN c : c[i].source # order[q]

LEMMA TierIs ==
  ASSUME NEW c, NEW order, Len(order) \in Nat
  PROVE  ByTier(c, order, Tier(c, order), Len(order))
<1> DEFINE n == Len(order)
<1>1. PICK f : f[0] = {} /\ (\A i \in 1..n : f[i] = FromSource(c, f[i - 1], order[i])) /\ Tier(c, order) = f[n]
  BY TierLoop
<1> DEFINE T == {i \in Nat : i <= n => ByTier(c, order, f[i], i)}
<1>2. 0 \in T
  BY <1>1 DEF ByTier
<1>3. ASSUME NEW m \in Nat, m \in T PROVE m + 1 \in T
  <2> SUFFICES ASSUME m + 1 <= n PROVE ByTier(c, order, f[m + 1], m + 1)
    OBVIOUS
  <2>1. m + 1 \in 1..n /\ (m + 1) - 1 = m /\ ByTier(c, order, f[m], m)
    BY <1>3
  <2>2. f[m + 1] = FromSource(c, f[m], order[m + 1])
    BY <1>1, <2>1
  <2>3. CASE f[m] # {}
    <3>1. f[m + 1] = f[m]
      BY <2>2, <2>3 DEF FromSource
    <3>2. PICK p \in 1..m : /\ f[m] = {i \in DOMAIN c : c[i].source = order[p]}
                            /\ \A q \in 1..(p - 1), i \in DOMAIN c : c[i].source # order[q]
      BY <2>1, <2>3 DEF ByTier
    <3>3. p \in 1..(m + 1)
      OBVIOUS
    <3>4. QED
      BY <2>3, <3>1, <3>2, <3>3 DEF ByTier
  <2>4. CASE f[m] = {}
    <3>1. f[m + 1] = {i \in DOMAIN c : c[i].source = order[m + 1]}
      BY <2>2, <2>4 DEF FromSource
    <3>2. \A q \in 1..m, i \in DOMAIN c : c[i].source # order[q]
      BY <2>1, <2>4 DEF ByTier
    <3>3. CASE f[m + 1] = {}
      <4>1. \A q \in 1..(m + 1) : q \in 1..m \/ q = m + 1
        OBVIOUS
      <4>2. \A q \in 1..(m + 1), i \in DOMAIN c : c[i].source # order[q]
        BY <3>1, <3>2, <3>3, <4>1
      <4>3. QED
        BY <3>3, <4>2 DEF ByTier
    <3>4. CASE f[m + 1] # {}
      <4>1. m + 1 \in 1..(m + 1)
        OBVIOUS
      <4>2. QED
        BY <2>1, <3>1, <3>2, <3>4, <4>1 DEF ByTier
    <3>5. QED
      BY <3>3, <3>4
  <2>5. QED
    BY <2>3, <2>4
<1>4. n \in T
  <2> HIDE DEF T
  <2>1. QED
    BY <1>2, <1>3, Climbs
<1>5. QED
  BY <1>1, <1>4

LEMMA NotListed ==
  ASSUME NEW c, Heard(c), NEW order, DOMAIN order \in SUBSET Nat, NEW i \in DOMAIN c,
         c[i].source \notin Members(order)
  PROVE  BySourcePriority(c, order) = ValuesOf(c)
<1> DEFINE sources == {c[k].source : k \in DOMAIN c}
           ranked == {p \in DOMAIN order : order[p] \in sources}
<1>1. c[i].source \in sources /\ \A p \in ranked : order[p] # c[i].source
  BY DEF Members
<1>2. BySourcePriority(c, order) =
        IF \E s \in sources : \A p \in ranked : order[p] # s THEN ValuesOf(c)
        ELSE MostRecent(Restrict(c, {k \in DOMAIN c : c[k].source = order[Min(ranked)]}))
  BY DEF BySourcePriority
<1> HIDE DEF sources, ranked
<1>3. QED
  BY <1>1, <1>2, Zenon

ClaimsOf(c, source) == {i \in DOMAIN c : c[i].source = source}
AllListed(c, order) == \A i \in DOMAIN c : c[i].source \in Members(order)

(* The first listed source with a claim.                                   *)
FirstHeard(c, order, p) ==
  /\ p \in 1..Len(order) /\ \E j \in DOMAIN c : c[j].source = order[p]
  /\ \A q \in 1..(p - 1), i \in DOMAIN c : c[i].source # order[q]

LEMMA FirstListed ==
  ASSUME NEW c, Heard(c), NEW order, Len(order) \in Nat, DOMAIN order = 1..Len(order),
         AllListed(c, order), NEW p, FirstHeard(c, order, p)
  PROVE  BySourcePriority(c, order) = MostRecent(Restrict(c, ClaimsOf(c, order[p])))
<1> DEFINE sources == {c[k].source : k \in DOMAIN c}
           ranked == {q \in DOMAIN order : order[q] \in sources}
<1>1. \A s \in sources : \E q \in ranked : order[q] = s
  BY DEF Members, AllListed
<1>2. BySourcePriority(c, order) =
        IF \E s \in sources : \A q \in ranked : order[q] # s THEN ValuesOf(c)
        ELSE MostRecent(Restrict(c, {k \in DOMAIN c : c[k].source = order[Min(ranked)]}))
  BY DEF BySourcePriority
<1>0. /\ p \in 1..Len(order) /\ \E j \in DOMAIN c : c[j].source = order[p]
      /\ \A q \in 1..(p - 1), i \in DOMAIN c : c[i].source # order[q]
  BY DEF FirstHeard
<1>3. p \in ranked
  BY <1>0
<1>4. ASSUME NEW q \in ranked PROVE p <= q
  <2>1. PICK i \in DOMAIN c : c[i].source = order[q]
    OBVIOUS
  <2>2. q \notin 1..(p - 1) /\ q \in 1..Len(order)
    BY <1>0, <2>1
  <2>3. QED
    BY <1>0, <2>2
<1>5. ranked \in SUBSET Nat
  OBVIOUS
<1> HIDE DEF sources, ranked
<1>6. Min(ranked) = p
  <2>1. Min(ranked) \in ranked /\ \A q \in ranked : Min(ranked) <= q
    BY <1>3, <1>4 DEF Min
  <2>2. Min(ranked) <= p /\ p <= Min(ranked) /\ Min(ranked) \in Nat /\ p \in Nat
    BY <1>3, <1>4, <1>5, <2>1
  <2>3. QED
    BY <2>2
<1>7. BySourcePriority(c, order) = MostRecent(Restrict(c, {k \in DOMAIN c : c[k].source = order[Min(ranked)]}))
  BY <1>1, <1>2, Zenon
<1>8. QED
  BY <1>6, <1>7 DEF ClaimsOf

LEMMA SourceAgrees ==
  ASSUME NEW c, Heard(c), NEW strategy \in DOMAIN Orders,
         Len(Orders[strategy]) \in Nat, DOMAIN Orders[strategy] = 1..Len(Orders[strategy])
  PROVE  Agree(Chosen(c, strategy), PreferredSource(c, Orders[strategy])) \/ Unlisted(c, strategy)
<1> DEFINE order == Orders[strategy]
           T == Tier(c, order)
<1>1. strategy \notin Unordered
  BY SurvivorAssumption
<1>2. Winner(c, strategy) = BySourcePriority(c, order)
  BY <1>1 DEF Winner, Unordered
<1>3. Cardinality(ValuesOf(c)) \in Nat
  BY ValuesFinite
<1>4. CASE \E i \in DOMAIN c : c[i].source \notin Members(order)
  <2>1. PICK i \in DOMAIN c : c[i].source \notin Members(order)
    BY <1>4
  <2>2. PreferredSource(c, order) = Refuses
    BY <1>4 DEF PreferredSource
  <2>3. CASE Cardinality(ValuesOf(c)) <= 1
    <3>1. ValuesOf(c) = {c[i].value}
      BY <2>3, OneValue
    <3>2. Cardinality(ValuesOf(c)) = 1
      BY <3>1, FS_Singleton
    <3>3. QED
      BY <1>4, <3>2 DEF Unlisted
  <2>4. CASE ~(Cardinality(ValuesOf(c)) <= 1)
    <3>1. BySourcePriority(c, order) = ValuesOf(c)
      BY <2>1, NotListed
    <3>2. Chosen(c, strategy) = ValuesOf(c)
      BY <1>2, <2>4, <3>1 DEF Chosen
    <3>3. Cardinality(ValuesOf(c)) > 1
      BY <1>3, <2>4
    <3>4. QED
      BY <2>2, <3>2, <3>3 DEF Agree, Refuses
  <2>5. QED
    BY <2>3, <2>4
<1>5. CASE \A i \in DOMAIN c : c[i].source \in Members(order)
  <2> DEFINE g == Restrict(c, T)
  <2>1. PreferredSource(c, order) = Only(LastHeard(g))
    BY <1>5 DEF PreferredSource
  <2>2. ByTier(c, order, T, Len(order))
    BY TierIs
  <2>3. T \in SUBSET DOMAIN c
    BY <2>2 DEF ByTier
  <2>4. Heard(g) /\ DOMAIN g = T /\ \A i \in T : g[i] = c[i]
    BY <2>3, HeardLess
  <2>5. LastHeard(g) = MostRecent(g)
    BY <2>4, LastHeardIs
  <2>6. Chosen(c, strategy) = MostRecent(g)
    <3>1. CASE DOMAIN c = {}
      <4>1. ValuesOf(c) = {} /\ MostRecent(g) \subseteq ValuesOf(g) /\ ValuesOf(g) = {}
        BY <2>3, <2>4, <3>1, MostRecentClaimed DEF ValuesOf
      <4>2. Cardinality(ValuesOf(c)) <= 1
        BY <3>1, FewValues
      <4>3. QED
        BY <4>1, <4>2 DEF Chosen
    <3>2. CASE DOMAIN c # {}
      <4>1. T # {}
        <5> SUFFICES ASSUME T = {} PROVE FALSE
          OBVIOUS
        <5>1. \A q \in DOMAIN order, i \in DOMAIN c : c[i].source # order[q]
          BY <2>2 DEF ByTier
        <5>2. QED
          BY <1>5, <3>2, <5>1 DEF Members
      <4>2. PICK p \in 1..Len(order) : /\ T = {i \in DOMAIN c : c[i].source = order[p]}
                                       /\ \A q \in 1..(p - 1), i \in DOMAIN c : c[i].source # order[q]
        BY <2>2, <4>1 DEF ByTier
      <4>3. PICK j \in DOMAIN c : c[j].source = order[p]
        BY <4>1, <4>2
      <4>4. CASE Cardinality(ValuesOf(c)) <= 1
        <5>1. \A i \in DOMAIN c : ValuesOf(c) = {c[i].value}
          BY <4>4, OneValue
        <5>2. PICK i \in DOMAIN g : LastAt(g, i)
          BY <2>4, <4>1, SomeLast
        <5>3. MostRecent(g) = {g[k].value : k \in {l \in DOMAIN g : LastAt(g, l)}}
          BY <2>4, MostRecentIs
        <5>4. g[i].value \in MostRecent(g)
          BY <5>2, <5>3
        <5>5. MostRecent(g) \subseteq ValuesOf(g) /\ ValuesOf(g) \subseteq ValuesOf(c)
          BY <2>3, <2>4, MostRecentClaimed DEF ValuesOf
        <5>6. ValuesOf(c) = {g[i].value}
          BY <2>3, <2>4, <5>1, <5>2
        <5>7. Chosen(c, strategy) = ValuesOf(c)
          BY <4>4 DEF Chosen
        <5> HIDE DEF g
        <5>8. QED
          BY <5>4, <5>5, <5>6, <5>7
      <4>5. CASE ~(Cardinality(ValuesOf(c)) <= 1)
        <5>1. BySourcePriority(c, order) = MostRecent(Restrict(c, ClaimsOf(c, order[p])))
          <6> HIDE DEF order, T
          <6>1. Len(order) \in Nat /\ DOMAIN order = 1..Len(order) /\ AllListed(c, order)
            BY <1>5 DEF order, AllListed
          <6>2. FirstHeard(c, order, p)
            BY <4>2, <4>3 DEF FirstHeard
          <6>3. QED
            BY <6>1, <6>2, FirstListed
        <5>2. QED
          BY <1>2, <4>2, <4>5, <5>1 DEF Chosen, ClaimsOf
      <4>6. QED
        BY <4>4, <4>5
    <3>3. QED
      BY <3>1, <3>2
  <2>7. Agree(MostRecent(g), Only(MostRecent(g)))
    BY AgreesWithItself
  <2>8. QED
    BY <2>1, <2>5, <2>6, <2>7
<1>6. QED
  BY <1>4, <1>5

(* Every strategy that picks one winner.                                   *)
LEMMA MergeAgrees ==
  ASSUME NEW n \in Nat, NEW c, HeardOf(c, n), NEW strategy \in Strategies \ {"valid_interval"}
  PROVE  Agree(Chosen(c, strategy), ReferenceMerge(c, n, strategy)) \/ Unlisted(c, strategy)
<1>0. Heard(c)
  BY DEF HeardOf
<1>1. CASE strategy = "most_recent"
  <2>0. "most_recent" \notin DOMAIN Orders
    BY SurvivorAssumption DEF Unordered
  <2>1. ReferenceMerge(c, n, strategy) = Only(LastHeard(c))
    BY <1>1, <2>0 DEF ReferenceMerge
  <2>2. Chosen(c, strategy) = LastHeard(c)
    BY <1>0, <1>1, MostRecentChosen, LastHeardIs
  <2>3. QED
    BY <2>1, <2>2, AgreesWithItself
<1>2. CASE strategy = "longest_value"
  <2>1. "longest_value" \notin DOMAIN Orders
    BY SurvivorAssumption DEF Unordered
  <2>2. ReferenceMerge(c, n, strategy) = Answers(MostComplete(c, n))
    BY <1>2, <2>1 DEF ReferenceMerge
  <2>3. QED
    BY <1>2, <2>2, MostCompleteAgrees, AgreesWithItself
<1>3. CASE strategy = "majority_vote"
  <2>1. "majority_vote" \notin DOMAIN Orders
    BY SurvivorAssumption DEF Unordered
  <2>2. ReferenceMerge(c, n, strategy) = Answers(Majority(c, n))
    BY <1>3, <2>1 DEF ReferenceMerge
  <2>3. QED
    BY <1>3, <2>2, MajorityAgrees, AgreesWithItself
<1>4. CASE strategy = "first_non_null"
  <2>1. "first_non_null" \notin DOMAIN Orders
    BY SurvivorAssumption DEF Unordered
  <2>2. ReferenceMerge(c, n, strategy) = Answers(Chosen(c, strategy))
    BY <1>0, <1>4, <2>1, FirstAgrees DEF ReferenceMerge
  <2>3. QED
    BY <2>2, AgreesWithItself
<1>5. CASE strategy = "unanimous_or_null"
  <2>1. "unanimous_or_null" \notin DOMAIN Orders
    BY SurvivorAssumption DEF Unordered
  <2>2. ReferenceMerge(c, n, strategy) = Answers(Chosen(c, strategy))
    BY <1>0, <1>5, <2>1, UnanimousAgrees DEF ReferenceMerge
  <2>3. QED
    BY <2>2, AgreesWithItself
<1>6. CASE strategy \in DOMAIN Orders
  <2> DEFINE order == Orders[strategy]
  <2>1. strategy \notin Unordered
    BY <1>6, SurvivorAssumption
  <2>2. ReferenceMerge(c, n, strategy) = PreferredSource(c, order)
    BY <1>6, <2>1 DEF ReferenceMerge, Unordered
  <2>3. order \in Seq(Members(order))
    BY <1>6, ReferenceAssumption
  <2> HIDE DEF order
  <2>4. Len(order) \in Nat /\ DOMAIN order = 1..Len(order)
    BY <2>3
  <2>5. QED
    BY <1>0, <1>6, <2>2, <2>4, SourceAgrees DEF order
<1>7. QED
  BY <1>1, <1>2, <1>3, <1>4, <1>5, <1>6 DEF Strategies, Unordered

-----------------------------------------------------------------------------
(* valid_interval, moment after moment.                                    *)
FactsOf(c) == [from : Nat, to : Nat \cup {Forever}, values : SUBSET ValuesOf(c)]

(* t is facts with what is open closed, and one more that is open.         *)
OneMoreOpen(facts, from, values, t) ==
  /\ Len(t) = Len(facts) + 1 /\ t[Len(facts) + 1] = [from |-> from, to |-> Forever, values |-> values]
  /\ \A i \in DOMAIN facts : /\ t[i].from = facts[i].from /\ t[i].values = facts[i].values
                             /\ t[i].to = IF i = Len(facts) THEN from ELSE facts[i].to

StandsLast(facts, values) ==
  Len(facts) > 0 /\ Cardinality(values) = 1 /\ facts[Len(facts)].values = values

LEMMA OpenedIs ==
  ASSUME NEW c, NEW facts \in Seq(FactsOf(c)), NEW from \in Nat, NEW values \in SUBSET ValuesOf(c)
  PROVE  IF StandsLast(facts, values) THEN Opened(facts, from, values) = facts
         ELSE /\ Opened(facts, from, values) \in Seq(FactsOf(c))
              /\ OneMoreOpen(facts, from, values, Opened(facts, from, values))
<1> DEFINE n == Len(facts)
           R == FactsOf(c)
           closed == [i \in DOMAIN facts |-> IF i = n THEN [facts[i] EXCEPT !.to = from] ELSE facts[i]]
           new == [from |-> from, to |-> Forever, values |-> values]
<1>1. CASE StandsLast(facts, values)
  BY <1>1 DEF Opened, StandsLast
<1>2. CASE ~StandsLast(facts, values)
  <2>1. Opened(facts, from, values) = Append(closed, new)
    BY <1>2 DEF Opened, StandsLast
  <2>2. n \in Nat /\ DOMAIN facts = 1..n /\ \A i \in DOMAIN facts : facts[i] \in R
    <3> HIDE DEF R
    <3>1. QED
      BY DEF R
  <2>3. new \in R
    BY DEF FactsOf
  <2>4. \A i \in DOMAIN facts :
          /\ closed[i] \in R /\ closed[i].from = facts[i].from /\ closed[i].values = facts[i].values
          /\ closed[i].to = IF i = n THEN from ELSE facts[i].to
    BY <2>2 DEF FactsOf
  <2>5. DOMAIN closed = 1..n
    BY <2>2
  <2> HIDE DEF closed, new
  <2>6. closed \in Seq(R) /\ Len(closed) = n
    <3> HIDE DEF R
    <3>1. closed \in [1..n -> R]
      <4>1. closed = [i \in 1..n |-> closed[i]]
        BY <2>2, <2>5 DEF closed
      <4>2. QED
        BY <2>2, <2>4, <4>1
    <3>2. QED
      BY <2>2, <3>1
  <2> DEFINE t == Append(closed, new)
  <2>7. /\ t \in Seq(R) /\ Len(t) = n + 1 /\ t[n + 1] = new
        /\ \A i \in 1..n : t[i] = closed[i]
    <3> HIDE DEF R
    <3>1. QED
      BY <2>3, <2>6
  <2> HIDE DEF t
  <2>8. OneMoreOpen(facts, from, values, t)
    BY <2>2, <2>4, <2>7 DEF OneMoreOpen, new
  <2>9. QED
    BY <1>2, <2>1, <2>7, <2>8 DEF t
<1>3. QED
  BY <1>1, <1>2

IsTimeline(f, c, n) ==
  f = [k \in 0..n |-> IF k = 0 THEN [facts |-> <<>>, left |-> Froms(c)] ELSE NextMoment(c, f[k - 1])]

LEMMA TimelineExists ==
  ASSUME NEW c, NEW n \in Nat
  PROVE  \E f : IsTimeline(f, c, n)
<1> DEFINE first == [facts |-> <<>>, left |-> Froms(c)]
           S == {m \in Nat : \E f : IsTimeline(f, c, m)}
<1> HIDE DEF first
<1>0. \A f, m : IsTimeline(f, c, m) <=> f = [k \in 0..m |-> IF k = 0 THEN first ELSE NextMoment(c, f[k - 1])]
  BY DEF IsTimeline, first
<1>1. 0 \in S
  <2> DEFINE f == [k \in 0..0 |-> first]
  <2>1. f = [k \in 0..0 |-> IF k = 0 THEN first ELSE NextMoment(c, f[k - 1])]
    OBVIOUS
  <2> HIDE DEF f
  <2>2. QED
    BY <1>0, <2>1
<1>2. ASSUME NEW m \in Nat, m \in S PROVE m + 1 \in S
  <2>1. PICK f : IsTimeline(f, c, m)
    BY <1>2
  <2> DEFINE g == [k \in 0..(m + 1) |-> IF k = m + 1 THEN NextMoment(c, f[m]) ELSE f[k]]
  <2>2. \A k \in 0..m : g[k] = f[k]
    OBVIOUS
  <2>3. \A k \in 0..m : f[k] = IF k = 0 THEN first ELSE NextMoment(c, f[k - 1])
    BY <1>0, <2>1
  <2>4. g[m + 1] = NextMoment(c, f[m])
    OBVIOUS
  <2>5. DOMAIN g = 0..(m + 1) /\ g = [k \in 0..(m + 1) |-> g[k]]
    OBVIOUS
  <2> HIDE DEF g
  <2>6. ASSUME NEW k \in 0..(m + 1)
        PROVE  g[k] = IF k = 0 THEN first ELSE NextMoment(c, g[k - 1])
    <3>1. CASE k = m + 1
      <4>1. k # 0 /\ k - 1 = m /\ m \in 0..m
        BY <3>1
      <4>2. QED
        BY <2>2, <2>4, <3>1, <4>1
    <3>2. CASE k \in 0..m
      <4>1. k = 0 \/ k - 1 \in 0..m
        BY <3>2
      <4>2. QED
        BY <2>2, <2>3, <3>2, <4>1
    <3>3. QED
      BY <3>1, <3>2
  <2>7. IsTimeline(g, c, m + 1)
    <3>1. g = [k \in 0..(m + 1) |-> IF k = 0 THEN first ELSE NextMoment(c, g[k - 1])]
      BY <2>5, <2>6
    <3>2. QED
      BY <3>1 DEF IsTimeline, first
  <2>8. QED
    BY <2>7
<1>3. n \in S
  <2> HIDE DEF S
  <2>1. QED
    BY <1>1, <1>2, Climbs
<1>4. QED
  BY <1>3

LEMMA TimelineLoop ==
  ASSUME NEW c, NEW n \in Nat, n = Cardinality(Froms(c))
  PROVE  \E f : /\ f[0] = [facts |-> <<>>, left |-> Froms(c)]
                /\ \A k \in 1..n : f[k] = NextMoment(c, f[k - 1])
                /\ ReferenceTimeline(c) = f[n].facts
<1>1. ReferenceTimeline(c) = (CHOOSE f : IsTimeline(f, c, Cardinality(Froms(c))))[Cardinality(Froms(c))].facts
  BY DEF ReferenceTimeline, IsTimeline, Froms
<1> DEFINE f == CHOOSE f : IsTimeline(f, c, n)
<1>2. IsTimeline(f, c, n)
  BY TimelineExists
<1>3. ReferenceTimeline(c) = f[n].facts
  BY <1>1
<1> HIDE DEF f
<1>4. \A k \in 0..n : f[k] = IF k = 0 THEN [facts |-> <<>>, left |-> Froms(c)] ELSE NextMoment(c, f[k - 1])
  BY <1>2 DEF IsTimeline
<1>5. f[0] = [facts |-> <<>>, left |-> Froms(c)] /\ \A k \in 1..n : f[k] = NextMoment(c, f[k - 1])
  BY <1>4
<1>6. QED
  BY <1>3, <1>5

(* What facts say of the moments that are no longer left.                  *)
Followed(c, facts, yet) ==
  /\ facts \in Seq(FactsOf(c))
  /\ yet \in SUBSET Froms(c) /\ \A h \in Froms(c) \ yet, l \in yet : h < l
  /\ \A i \in DOMAIN facts : /\ facts[i].from \in Begun(c) \ yet
                             /\ facts[i].values = Opens(c, facts[i].from)
                             /\ facts[i].to = IF i = Len(facts) THEN Forever ELSE facts[i + 1].from
  /\ \A i, j \in DOMAIN facts : i < j => facts[i].from < facts[j].from
  /\ \A b \in Begun(c) \ yet : \E i \in DOMAIN facts : facts[i].from = b

(* What stands last is what opened at the last of those moments.           *)
LEMMA FollowedLast ==
  ASSUME NEW c, Heard(c), NEW facts, NEW yet, Followed(c, facts, yet), NEW m \in yet,
         \A l \in yet : m <= l
  PROVE  StandsLast(facts, Opens(c, m)) <=> Restates(c, m)
<1> DEFINE H == Froms(c) \ yet
           n == Len(facts)
           v == Opens(c, m)
           earlier == {c[i].from : i \in DOMAIN c} \cap 0..(m - 1)
<1>1. Froms(c) \in SUBSET Nat /\ IsFiniteSet(Froms(c))
  BY FromsFinite
<1>2. yet \in SUBSET Froms(c) /\ (\A h \in H, l \in yet : h < l) /\ m \in Nat /\ Begun(c) \subseteq Froms(c)
  BY <1>1 DEF Followed, Begun
<1>3. earlier = H
  <2>1. earlier = {h \in Froms(c) : h < m}
    BY <1>1, <1>2 DEF Froms
  <2>2. \A h \in Froms(c) : h < m <=> h \notin yet
    BY <1>1, <1>2
  <2>3. QED
    BY <2>1, <2>2
<1>4. Restates(c, m) <=> earlier # {} /\ Cardinality(v) = 1 /\ Opens(c, Max(earlier)) = v
  BY DEF Restates
<1> HIDE DEF earlier, v
<1>5. n \in Nat /\ DOMAIN facts = 1..n
  BY DEF Followed
<1>6. /\ \A i \in DOMAIN facts : facts[i].from \in Begun(c) \ yet /\ facts[i].values = Opens(c, facts[i].from)
      /\ \A i, j \in DOMAIN facts : i < j => facts[i].from < facts[j].from
      /\ \A b \in Begun(c) \ yet : \E i \in DOMAIN facts : facts[i].from = b
  BY DEF Followed
<1>7. CASE H = {}
  <2>1. DOMAIN facts = {}
    BY <1>2, <1>6, <1>7
  <2>2. ~(n > 0)
    BY <1>5, <2>1
  <2>3. QED
    BY <1>3, <1>4, <1>7, <2>2 DEF StandsLast
<1>8. CASE H # {}
  <2> DEFINE g == Max(H)
  <2>1. g \in H /\ \A h \in H : h <= g
    <3>1. IsFiniteSet(H) /\ H \in SUBSET Nat
      BY <1>1, FS_Subset
    <3> HIDE DEF H
    <3>2. QED
      BY <1>8, <3>1, Highest
  <2> HIDE DEF g
  <2>2. PICK b : LastBegun(c, g, b) /\ Opens(c, b) = Opens(c, g)
    BY <2>1, StandsSince
  <2>3. b \in Begun(c) /\ b <= g /\ b \in Nat /\ g \in Nat /\ b \notin yet
    BY <1>1, <1>2, <2>1, <2>2 DEF LastBegun
  <2>4. PICK i \in DOMAIN facts : facts[i].from = b
    BY <1>6, <2>3
  <2>5. n > 0 /\ n \in DOMAIN facts /\ i <= n
    BY <1>5
  <2>6. facts[n].from = b
    <3>1. facts[n].from \in Begun(c) /\ facts[n].from \in H /\ facts[n].from \in Nat
      BY <1>1, <1>2, <1>6, <2>5
    <3>2. facts[n].from <= b
      BY <2>1, <2>2, <3>1 DEF LastBegun
    <3>3. b <= facts[n].from
      BY <1>5, <1>6, <2>3, <2>4, <2>5, <3>1
    <3>4. QED
      BY <2>3, <3>1, <3>2, <3>3
  <2>7. facts[n].values = Opens(c, Max(earlier))
    BY <1>3, <1>6, <2>2, <2>5, <2>6 DEF g
  <2>8. QED
    BY <1>3, <1>4, <1>8, <2>5, <2>7 DEF StandsLast, v
<1>9. QED
  BY <1>7, <1>8

(* One moment fewer is left, and the rest followed.                         *)
Onward(c, yet, next) ==
  /\ Followed(c, next.facts, next.left)
  /\ next = [facts |-> next.facts, left |-> next.left]
  /\ \E m \in yet : next.left = yet \ {m}

LEMMA FollowedOn ==
  ASSUME NEW c, Heard(c), NEW facts, NEW yet, Followed(c, facts, yet), yet # {}
  PROVE  Onward(c, yet, NextMoment(c, [facts |-> facts, left |-> yet]))
<1> DEFINE m == Min(yet)
           v == Opens(c, m)
           t == Opened(facts, m, v)
           next == NextMoment(c, [facts |-> facts, left |-> yet])
<1>1. Froms(c) \in SUBSET Nat /\ yet \in SUBSET Froms(c) /\ Begun(c) \subseteq Froms(c)
  BY FromsFinite DEF Followed, Begun
<1>2. m \in yet /\ \A l \in yet : m <= l
  BY <1>1, Lowest DEF Min
<1>3. next = [facts |-> t, left |-> yet \ {m}]
  <2> DEFINE g == Restrict(c, {i \in DOMAIN c : c[i].from = m})
  <2>1. Heard(g)
    BY HeardLess
  <2>2. LastHeard(g) = v
    BY <2>1, LastHeardIs DEF Opens
  <2>3. next = [facts |-> Opened(facts, m, LastHeard(g)), left |-> yet \ {m}]
    BY DEF NextMoment
  <2>4. QED
    BY <2>2, <2>3
<1>4. v \in SUBSET ValuesOf(c)
  <2>1. v = {c[i].value : i \in {j \in DOMAIN c : OpensAt(c, m, j)}}
    BY OpensIs
  <2> HIDE DEF v
  <2>2. QED
    BY <2>1 DEF ValuesOf
<1>5. StandsLast(facts, v) <=> Restates(c, m)
  BY <1>2, FollowedLast
<1>6. m \in Nat /\ m \in Froms(c)
  BY <1>1, <1>2
<1>7. v = Opens(c, m)
  OBVIOUS
<1>8. facts \in Seq(FactsOf(c))
  BY DEF Followed
<1>9. IF StandsLast(facts, v) THEN t = facts
      ELSE t \in Seq(FactsOf(c)) /\ OneMoreOpen(facts, m, v, t)
  <2> HIDE DEF m, v
  <2>1. QED
    BY <1>4, <1>6, <1>8, OpenedIs
<1> HIDE DEF m, v, t, next
<1> DEFINE rest == yet \ {m}
<1>10. /\ rest \in SUBSET Froms(c) /\ \A h \in Froms(c) \ rest, l \in rest : h < l
  <2>1. \A h \in Froms(c) \ yet, l \in yet : h < l
    BY DEF Followed
  <2>2. QED
    BY <1>1, <1>2, <1>6, <2>1
<1>11. /\ \A i \in DOMAIN facts : /\ facts[i].from \in Begun(c) \ yet
                                  /\ facts[i].values = Opens(c, facts[i].from)
                                  /\ facts[i].to = IF i = Len(facts) THEN Forever ELSE facts[i + 1].from
       /\ \A i, j \in DOMAIN facts : i < j => facts[i].from < facts[j].from
       /\ \A b \in Begun(c) \ yet : \E i \in DOMAIN facts : facts[i].from = b
       /\ \A h \in Froms(c) \ yet : h < m
  BY <1>2 DEF Followed
<1>12. Followed(c, t, rest)
  <2>1. CASE Restates(c, m)
    <3>1. t = facts
      BY <1>5, <1>9, <2>1
    <3>2. Begun(c) \ rest = Begun(c) \ yet
      BY <2>1 DEF Begun
    <3> HIDE DEF rest
    <3>3. QED
      BY <1>8, <1>10, <1>11, <3>1, <3>2 DEF Followed
  <2>2. CASE ~Restates(c, m)
    <3> DEFINE n == Len(facts)
    <3>1. t \in Seq(FactsOf(c)) /\ OneMoreOpen(facts, m, v, t)
      BY <1>5, <1>9, <2>2
    <3>2. n \in Nat /\ DOMAIN facts = 1..n
      BY <1>8
    <3>3. /\ Len(t) = n + 1 /\ t[n + 1].from = m /\ t[n + 1].to = Forever /\ t[n + 1].values = v
          /\ \A i \in DOMAIN facts : /\ t[i].from = facts[i].from /\ t[i].values = facts[i].values
                                     /\ t[i].to = IF i = n THEN m ELSE facts[i].to
      BY <3>1 DEF OneMoreOpen
    <3>4. DOMAIN t = 1..(n + 1)
      BY <3>1, <3>3
    <3>5. m \in Begun(c) /\ Begun(c) \ rest = (Begun(c) \ yet) \cup {m}
      BY <1>2, <1>6, <2>2 DEF Begun
    <3> HIDE DEF rest, n
    <3>6. \A i \in DOMAIN t : i \in DOMAIN facts \/ i = n + 1
      BY <3>2, <3>4
    <3>7. ASSUME NEW i \in DOMAIN t
          PROVE  /\ t[i].from \in Begun(c) \ rest
                 /\ t[i].values = Opens(c, t[i].from)
                 /\ t[i].to = IF i = Len(t) THEN Forever ELSE t[i + 1].from
      <4>1. CASE i = n + 1
        BY <1>7, <3>3, <3>5, <4>1
      <4>2. CASE i \in DOMAIN facts
        <5>1. t[i].from \in Begun(c) \ rest /\ t[i].values = Opens(c, t[i].from)
          BY <1>11, <3>3, <3>5, <4>2
        <5>2. i # Len(t) /\ t[i].to = IF i = n THEN m ELSE facts[i].to
          BY <3>2, <3>3, <4>2
        <5>3. CASE i = n
          BY <3>3, <5>1, <5>2, <5>3
        <5>4. CASE i # n
          <6>1. i + 1 \in DOMAIN facts
            BY <3>2, <4>2, <5>4
          <6>2. facts[i].to = facts[i + 1].from
            BY <1>11, <4>2, <5>4 DEF n
          <6>3. t[i + 1].from = facts[i + 1].from
            BY <3>3, <6>1
          <6>4. QED
            BY <5>1, <5>2, <5>4, <6>2, <6>3
        <5>5. QED
          BY <5>3, <5>4
      <4>3. QED
        BY <3>6, <4>1, <4>2
    <3>8. ASSUME NEW i \in DOMAIN t, NEW j \in DOMAIN t, i < j PROVE t[i].from < t[j].from
      <4>1. i \in DOMAIN facts
        BY <3>2, <3>4, <3>8
      <4>2. CASE j \in DOMAIN facts
        BY <1>11, <3>3, <3>8, <4>1, <4>2
      <4>3. CASE j = n + 1
        <5>1. facts[i].from \in Froms(c) \ yet
          BY <1>1, <1>11, <4>1
        <5>2. QED
          BY <1>11, <3>3, <4>1, <4>3, <5>1
      <4>4. QED
        BY <3>6, <4>2, <4>3
    <3>9. ASSUME NEW b \in Begun(c) \ rest PROVE \E i \in DOMAIN t : t[i].from = b
      <4>1. CASE b = m
        <5>1. n + 1 \in DOMAIN t
          BY <3>2, <3>4
        <5>2. QED
          BY <3>3, <4>1, <5>1
      <4>2. CASE b \in Begun(c) \ yet
        <5>1. PICK i \in DOMAIN facts : facts[i].from = b
          BY <1>11, <4>2
        <5>2. i \in DOMAIN t
          BY <3>2, <3>4
        <5>3. QED
          BY <3>3, <5>1, <5>2
      <4>3. QED
        BY <3>5, <4>1, <4>2
    <3>10. QED
      BY <1>10, <3>1, <3>7, <3>8, <3>9 DEF Followed
  <2>3. QED
    BY <2>1, <2>2
<1>13. next.facts = t /\ next.left = rest
  BY <1>3
<1>14. QED
  BY <1>2, <1>3, <1>12, <1>13 DEF next, Onward

LEMMA TimelineFollowed ==
  ASSUME NEW c, Heard(c)
  PROVE  Followed(c, ReferenceTimeline(c), {})
<1> DEFINE n == Cardinality(Froms(c))
<1>1. IsFiniteSet(Froms(c)) /\ n \in Nat
  BY FromsFinite, FS_CardinalityType
<1>2. PICK f : /\ f[0] = [facts |-> <<>>, left |-> Froms(c)]
               /\ \A k \in 1..n : f[k] = NextMoment(c, f[k - 1])
               /\ ReferenceTimeline(c) = f[n].facts
  BY <1>1, TimelineLoop
<1> DEFINE So(s, k) == /\ s = [facts |-> s.facts, left |-> s.left] /\ Followed(c, s.facts, s.left)
                       /\ IsFiniteSet(s.left) /\ Cardinality(s.left) = n - k
           T == {k \in Nat : k <= n => So(f[k], k)}
<1>3. 0 \in T
  <2>1. Followed(c, <<>>, Froms(c))
    BY DEF Followed, Begun
  <2>2. f[0].facts = <<>> /\ f[0].left = Froms(c)
    BY <1>2
  <2>3. So(f[0], 0)
    BY <1>1, <1>2, <2>1, <2>2
  <2>4. QED
    BY <2>3
<1>4. ASSUME NEW k \in Nat, k \in T PROVE k + 1 \in T
  <2> SUFFICES ASSUME k + 1 <= n PROVE So(f[k + 1], k + 1)
    OBVIOUS
  <2> DEFINE s == f[k]
             next == f[k + 1]
  <2>1. So(s, k)
    BY <1>1, <1>4
  <2>2. next = NextMoment(c, s)
    <3>1. k + 1 \in 1..n /\ (k + 1) - 1 = k
      BY <1>1
    <3>2. QED
      BY <1>2, <3>1
  <2> HIDE DEF s, next
  <2>3. s.left # {}
    <3>1. Cardinality(s.left) # 0
      BY <1>1, <2>1
    <3>2. QED
      BY <2>1, <3>1, FS_EmptySet
  <2>4. /\ Followed(c, next.facts, next.left)
        /\ next = [facts |-> next.facts, left |-> next.left]
        /\ \E m \in s.left : next.left = s.left \ {m}
    <3>1. Onward(c, s.left, NextMoment(c, [facts |-> s.facts, left |-> s.left]))
      BY <2>1, <2>3, FollowedOn
    <3>2. Onward(c, s.left, next)
      BY <2>1, <2>2, <3>1
    <3>3. QED
      BY <3>2 DEF Onward
  <2>5. PICK m \in s.left : next.left = s.left \ {m}
    BY <2>4
  <2>6. IsFiniteSet(next.left) /\ Cardinality(next.left) = Cardinality(s.left) - 1
    BY <2>1, <2>5, FS_RemoveElement
  <2>7. Cardinality(next.left) = n - (k + 1)
    BY <1>1, <2>1, <2>6
  <2>8. So(next, k + 1)
    BY <2>4, <2>6, <2>7
  <2>9. QED
    BY <2>8 DEF next
<1>5. n \in T
  <2> HIDE DEF T
  <2>1. QED
    BY <1>1, <1>3, <1>4, Climbs
<1>6. So(f[n], n)
  BY <1>1, <1>5
<1>7. f[n].left = {}
  <2>1. Cardinality(f[n].left) = 0
    BY <1>1, <1>6
  <2>2. QED
    BY <1>6, <2>1, FS_EmptySet
<1>8. Followed(c, f[n].facts, {})
  BY <1>6, <1>7
<1>9. QED
  BY <1>2, <1>8

(* A fact that follows is a span.                                          *)
LEMMA FactIsSpan ==
  ASSUME NEW c, Heard(c), NEW facts, Followed(c, facts, {}), NEW i \in DOMAIN facts
  PROVE  facts[i].from \in Begun(c) /\ facts[i] = Span(c, facts[i].from)
<1> DEFINE n == Len(facts)
           f == facts[i].from
           S == Closing(c, f)
<1>1. Begun(c) \in SUBSET Nat
  BY FromsFinite DEF Begun
<1>2. facts \in Seq(FactsOf(c))
  BY DEF Followed
<1>3. n \in Nat /\ DOMAIN facts = 1..n /\ facts[i] \in FactsOf(c)
  BY <1>2
<1>4. /\ \A k \in DOMAIN facts : /\ facts[k].from \in Begun(c)
                                 /\ facts[k].values = Opens(c, facts[k].from)
                                 /\ facts[k].to = IF k = n THEN Forever ELSE facts[k + 1].from
      /\ \A k, l \in DOMAIN facts : k < l => facts[k].from < facts[l].from
      /\ \A b \in Begun(c) : \E k \in DOMAIN facts : facts[k].from = b
  BY DEF Followed
<1>5. f \in Nat /\ f \in Begun(c)
  BY <1>1, <1>4
<1>6. S \in SUBSET Nat /\ S = {g \in Begun(c) : g > f}
  BY <1>1 DEF Closing
<1>7. facts[i].to = IF S = {} THEN Forever ELSE Min(S)
  <2> HIDE DEF f, S
  <2>1. ASSUME NEW g \in S PROVE \E k \in DOMAIN facts : facts[k].from = g /\ i < k
    <3>1. PICK k \in DOMAIN facts : facts[k].from = g
      BY <1>4, <1>6
    <3>2. k # i /\ ~(k < i)
      <4>1. g > f /\ g \in Nat /\ f \in Nat
        BY <1>5, <1>6
      <4>2. k < i => facts[k].from < facts[i].from
        BY <1>4
      <4>3. QED
        BY <3>1, <4>1, <4>2 DEF f
    <3>3. QED
      BY <1>3, <3>1, <3>2
  <2>2. CASE i = n
    <3>1. S = {}
      BY <1>3, <2>1, <2>2
    <3>2. QED
      BY <1>4, <2>2, <3>1
  <2>3. CASE i # n
    <3> DEFINE to == facts[i + 1].from
    <3>1. i + 1 \in DOMAIN facts /\ i < i + 1
      BY <1>3, <2>3
    <3>2. to \in S
      <4>1. to \in Begun(c) /\ facts[i].from < to
        BY <1>4, <3>1
      <4>2. QED
        BY <1>1, <1>5, <1>6, <4>1 DEF f
    <3>3. ASSUME NEW g \in S PROVE to <= g
      <4>1. PICK k \in DOMAIN facts : facts[k].from = g /\ i < k
        BY <2>1
      <4>2. CASE k = i + 1
        BY <1>6, <4>1, <4>2
      <4>3. CASE k # i + 1
        <5>1. i + 1 < k
          BY <1>3, <4>1, <4>3
        <5>2. to < g
          BY <1>4, <3>1, <4>1, <5>1
        <5>3. QED
          BY <1>6, <3>2, <5>2
      <4>4. QED
        BY <4>2, <4>3
    <3>4. facts[i].to = to
      BY <1>4, <2>3
    <3> HIDE DEF to
    <3>5. Min(S) = to
      <4>1. Min(S) \in S /\ \A g \in S : Min(S) <= g
        BY <3>2, <3>3 DEF Min
      <4>2. Min(S) <= to /\ to <= Min(S) /\ Min(S) \in Nat /\ to \in Nat
        BY <1>6, <3>2, <3>3, <4>1
      <4>3. QED
        BY <4>2
    <3>6. QED
      BY <3>2, <3>4, <3>5
  <2>4. QED
    BY <2>2, <2>3
<1>8. Span(c, f) = [from |-> f, values |-> Opens(c, f), to |-> IF S = {} THEN Forever ELSE Min(S)]
  BY DEF Span
<1>9. facts[i].values = Opens(c, f)
  BY <1>4
<1> HIDE DEF S
<1>10. facts[i] = [from |-> facts[i].from, to |-> facts[i].to, values |-> facts[i].values]
  BY <1>3 DEF FactsOf
<1>11. facts[i] = Span(c, f)
  BY <1>7, <1>8, <1>9, <1>10
<1>12. QED
  BY <1>5, <1>11

LEMMA TimelineIs ==
  ASSUME NEW c, Heard(c)
  PROVE  SpansOf(c) = Members(ReferenceTimeline(c))
<1> DEFINE facts == ReferenceTimeline(c)
<1>1. Followed(c, facts, {})
  BY TimelineFollowed
<1> HIDE DEF facts
<1>2. \A i \in DOMAIN facts : facts[i].from \in Begun(c) /\ facts[i] = Span(c, facts[i].from)
  BY <1>1, FactIsSpan
<1>3. \A b \in Begun(c) : \E i \in DOMAIN facts : facts[i].from = b
  BY <1>1 DEF Followed
<1>4. SpansOf(c) = {Span(c, b) : b \in Begun(c)}
  BY SpansAre
<1>5. ASSUME NEW x PROVE x \in SpansOf(c) <=> \E i \in DOMAIN facts : x = facts[i]
  BY <1>2, <1>3, <1>4
<1>6. SpansOf(c) = Members(facts)
  BY <1>5 DEF Members
<1>7. QED
  BY <1>6 DEF facts

LEMMA HeldAgrees ==
  ASSUME NEW candidates, Heard(Claimed(candidates)), NEW t \in Nat
  PROVE  Agree(Resolve(candidates, "valid_interval", t),
               ReferenceHeldAt(ReferenceTimeline(Claimed(candidates)), t))
<1> DEFINE c == Claimed(candidates)
           facts == ReferenceTimeline(c)
           covering == {i \in DOMAIN facts : /\ facts[i].from <= t
                                             /\ facts[i].to = Forever \/ t < facts[i].to}
           opened == {g \in Begun(c) : LastBegun(c, t, g)}
           resolved == Resolve(candidates, "valid_interval", t)
<1>1. resolved = UNION {Opens(c, f) : f \in opened}
  BY ResolveIs
<1>2. Followed(c, facts, {})
  BY TimelineFollowed
<1>3. ReferenceHeldAt(facts, t) = IF covering = {} THEN Answers({}) ELSE Only(facts[Min(covering)].values)
  BY DEF ReferenceHeldAt
<1>4. Heard(c)
  OBVIOUS
<1> HIDE DEF c, facts, resolved
<1>5. ASSUME NEW i \in DOMAIN facts
      PROVE  facts[i].from \in Begun(c) /\ (i \in covering <=> LastBegun(c, t, facts[i].from))
  <2>1. facts[i].from \in Begun(c) /\ facts[i] = Span(c, facts[i].from)
    BY <1>2, <1>4, FactIsSpan
  <2>2. Covers(Span(c, facts[i].from), t) <=> LastBegun(c, t, facts[i].from)
    BY <1>4, <2>1, SpanCovers
  <2>3. i \in covering <=> Covers(facts[i], t)
    BY DEF Covers
  <2>4. QED
    BY <2>1, <2>2, <2>3
<1>6. \A g, h \in opened : g = h
  <2>1. Begun(c) \in SUBSET Nat
    BY <1>4, FromsFinite DEF Begun
  <2>2. \A g, h \in opened : g \in Nat /\ h \in Nat /\ g <= h
    BY <2>1 DEF LastBegun
  <2> HIDE DEF opened
  <2>3. QED
    BY <2>2
<1>7. /\ \A b \in Begun(c) : \E i \in DOMAIN facts : facts[i].from = b
      /\ \A i \in DOMAIN facts : facts[i].values = Opens(c, facts[i].from)
      /\ DOMAIN facts \in SUBSET Nat
  <2>1. facts \in Seq(FactsOf(c))
    BY <1>2 DEF Followed
  <2>2. DOMAIN facts \in SUBSET Nat
    BY <2>1
  <2>3. QED
    BY <1>2, <2>2 DEF Followed
<1>8. CASE covering = {}
  <2>1. opened = {}
    BY <1>5, <1>7, <1>8
  <2> HIDE DEF opened
  <2>2. resolved = {}
    BY <1>1, <2>1
  <2>3. ReferenceHeldAt(facts, t) = Answers({})
    BY <1>3, <1>8
  <2>4. Agree(resolved, ReferenceHeldAt(facts, t))
    BY <2>2, <2>3, AgreesWithItself
  <2>5. QED
    BY <2>4 DEF c, facts, resolved
<1>9. CASE covering # {}
  <2> DEFINE i == Min(covering)
  <2>1. i \in covering /\ i \in DOMAIN facts
    <3>1. covering \in SUBSET Nat /\ covering \subseteq DOMAIN facts
      BY <1>7
    <3> HIDE DEF covering
    <3>2. QED
      BY <1>9, <3>1, Lowest DEF Min
  <2> HIDE DEF i
  <2>2. facts[i].from \in opened
    BY <1>5, <2>1
  <2>3. opened = {facts[i].from}
    <3> HIDE DEF opened
    <3>1. QED
      BY <1>6, <2>2
  <2> HIDE DEF opened
  <2>4. resolved = Opens(c, facts[i].from)
    BY <1>1, <2>3
  <2>5. resolved = facts[i].values
    BY <1>7, <2>1, <2>4
  <2> HIDE DEF covering
  <2>6. ReferenceHeldAt(facts, t) = Only(resolved)
    BY <1>3, <1>9, <2>5 DEF i
  <2>7. Agree(resolved, ReferenceHeldAt(facts, t))
    BY <2>6, AgreesWithItself
  <2>8. QED
    BY <2>7 DEF c, facts, resolved
<1>10. QED
  BY <1>8, <1>9

-----------------------------------------------------------------------------
LEMMA HistoryHeard ==
  ASSUME NEW history \in Histories
  PROVE  /\ Heard(history) /\ Len(history) \in Nat
         /\ HeardOf(Claimed(history), Len(history))
<1> DEFINE n == Len(history)
           c == Claimed(history)
<1>1. /\ history \in Seq(Members(history))
      /\ \A x \in Members(history) : /\ x.from \in Nat /\ x.at \in Nat
                                     /\ x.value \notin {Absent, Silent} => Size[x.value] \in Nat
  BY ReferenceAssumption
<1>2. n \in Nat /\ DOMAIN history = 1..n /\ \A i \in DOMAIN history : history[i] \in Members(history)
  BY <1>1 DEF Members
<1>3. IsFiniteSet(1..n)
  <2>1. 1 \in Int /\ n \in Int
    BY <1>2
  <2> HIDE DEF n
  <2>2. QED
    BY <2>1, FS_Interval
<1>4. Heard(history)
  BY <1>1, <1>2, <1>3 DEF Heard
<1>5. Heard(c)
  BY <1>4, ClaimedHeard
<1>6. /\ DOMAIN c \in SUBSET DOMAIN history
      /\ \A i \in DOMAIN c : c[i] = history[i] /\ history[i].value # Silent
  BY DEF Claimed, Restrict
<1> HIDE DEF c
<1>7. ASSUME NEW i \in DOMAIN c PROVE LengthOf(c[i].value) \in Nat
  <2>1. c[i] \in Members(history) /\ c[i].value # Silent
    BY <1>2, <1>6
  <2>2. CASE c[i].value = Absent
    BY <2>2 DEF LengthOf
  <2>3. CASE c[i].value # Absent
    BY <1>1, <2>1, <2>3 DEF LengthOf
  <2>4. QED
    BY <2>2, <2>3
<1>8. DOMAIN c \in SUBSET (1..n)
  BY <1>2, <1>6
<1>9. HeardOf(c, n)
  BY <1>5, <1>7, <1>8 DEF HeardOf
<1>10. QED
  BY <1>2, <1>4, <1>9 DEF c

(* Every history, under every strategy and at every instant: the code      *)
(* answers as the oracle does, loop against rank, and as the rule states   *)
(* (rm-survivor's merge and held_at against rm-conform's reference).       *)
THEOREM OracleAlwaysAgrees == ReferenceSpec => []AnswersFollowTheRule
<1> DEFINE AHistory == heard = <<>> \/ heard \in Histories
<1>1. ReferenceInit => AHistory
  BY DEF ReferenceInit
<1>2. AHistory /\ [Hear]_heard => AHistory'
  BY DEF Hear
<1>3. AHistory => AnswersFollowTheRule
  <2> SUFFICES ASSUME heard \in Histories PROVE AnswersFollowTheRule
    BY DEF AnswersFollowTheRule
  <2> DEFINE c == Claimed(heard)
             n == Len(heard)
             facts == ReferenceTimeline(c)
  <2>1. Heard(heard) /\ n \in Nat /\ HeardOf(c, n) /\ Heard(c)
    BY HistoryHeard DEF HeardOf
  <2>2. ReadAt \subseteq Nat
    BY ReferenceAssumption
  <2>3. \A strategy \in Strategies \ {"valid_interval"} :
          Agree(Survivors(heard, strategy), ReferenceMerge(c, n, strategy)) \/ Unlisted(c, strategy)
    <3> TAKE strategy \in Strategies \ {"valid_interval"}
    <3>1. Agree(Chosen(c, strategy), ReferenceMerge(c, n, strategy)) \/ Unlisted(c, strategy)
      <4> HIDE DEF c, n
      <4>1. QED
        BY <2>1, MergeAgrees
    <3>2. QED
      BY <3>1 DEF Survivors
  <2>4. Timeline(heard) = Members(facts)
    BY <2>1, TimelineIs DEF Timeline
  <2>5. \A t \in ReadAt : Agree(Resolve(heard, "valid_interval", t), ReferenceHeldAt(facts, t))
    BY <2>1, <2>2, HeldAgrees
  <2>6. AsTheOracle(heard)
    BY <2>3, <2>4, <2>5 DEF AsTheOracle
  <2>7. \A t \in ReadAt, strategy \in {"most_recent", "valid_interval"} :
          Resolve(heard, strategy, t) = Rule(c, strategy, t)
    BY <2>1, <2>2, RulesAreFollowed
  <2>8. QED
    BY <2>6, <2>7 DEF AnswersFollowTheRule
<1>4. QED
  BY <1>1, <1>2, <1>3, PTL DEF ReferenceSpec
=============================================================================
