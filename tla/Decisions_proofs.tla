--------------------------- MODULE Decisions_proofs ---------------------------
(***************************************************************************)
(* The decision log, for any number of processes, commands, titles and     *)
(* clocks. In four parts, each on the one before.                          *)
(*                                                                         *)
(* Vectors (AlwaysIndexed): whatever is written between a reindex's        *)
(* reading of the texts and its swap, every assertion has a vector of its  *)
(* own decision's field. What a plan has read stays a text of what it was  *)
(* read for (Speaks), because the log and the names only grow, and         *)
(* rebuild_index takes it only if it covers what there is by then.         *)
(*                                                                         *)
(* What goes with what (DatedInv, WholeInv, CountInv): names are unlike,   *)
(* an edge joins two decisions, a choice has a status and a reach beside   *)
(* it, a status that reads superseded has an edge beside it, and there is  *)
(* a choice for each time a title was decided. From these the list and the *)
(* detail agree (ListAgrees) and a title is one decision (OnePerTitle).    *)
(*                                                                         *)
(* The past (PastStays): a step only adds (Grown), and what it adds is     *)
(* heard of together, so that before that instant the reads are the same.  *)
(* A chain is a recursive function over paths: that there is one, that     *)
(* there is only one however many entities there are, and what it keeps    *)
(* of its beginning, are shown by how many entities are left to visit.     *)
(*                                                                         *)
(* Recall (RecallAlwaysExact, LiveAlwaysFirst): hits are in an order, so   *)
(* the number that come before one is its place (PlacesAre), the k best    *)
(* are the first k places (BestIs), and demoting is another order of the   *)
(* same hits (DemotingIs).                                                 *)
(***************************************************************************)
EXTENDS Recall, WellFoundedInduction, FiniteSetTheorems, TLAPS

IsSeq(s) == \E S : s \in Seq(S)

Prefix(s, t) ==
  /\ IsSeq(s) /\ IsSeq(t) /\ Len(s) <= Len(t)
  /\ \A i \in 1..Len(s) : t[i] = s[i]

(* A text is of what an assertion's slot holds or held.                    *)
Speaks(n, l, text, i) ==
  /\ text[1] = n[l[i].e] /\ text[2] = l[i].attribute
  /\ \E j \in DOMAIN l : /\ l[j].e = l[i].e /\ l[j].attribute = l[i].attribute
                         /\ text[3] = l[j].value

Fits(n, l, texts) ==
  IsSeq(texts) /\ DOMAIN texts \subseteq DOMAIN l /\ \A i \in DOMAIN texts : Speaks(n, l, texts[i], i)

Named(n, l) == IsSeq(n) /\ IsSeq(l) /\ \A i \in DOMAIN l : l[i].e \in DOMAIN n

Planned == \A c \in Clients : plan[c].is = "reindex" => Fits(names, log, plan[c].texts)

LogInv ==
  /\ Named(names, log)
  /\ DOMAIN index = DOMAIN log /\ Fits(names, log, index)
  /\ DOMAIN plan = Clients /\ Planned

-----------------------------------------------------------------------------
(* Sequences                                                               *)

LEMMA SequenceOf ==
  ASSUME NEW s, NEW n \in Nat, DOMAIN s = 1..n, s = [i \in 1..n |-> s[i]]
  PROVE  IsSeq(s) /\ Len(s) = n
<1> DEFINE S == {s[i] : i \in 1..n}
<1>1. s \in [1..n -> S]
  OBVIOUS
<1> HIDE DEF S
<1>2. s \in Seq(S) /\ Len(s) = n
  BY <1>1
<1>3. QED
  BY <1>2 DEF IsSeq

LEMMA LengthOf ==
  ASSUME NEW s, IsSeq(s)
  PROVE  Len(s) \in Nat /\ DOMAIN s = 1..Len(s)
  BY DEF IsSeq

LEMMA Widened ==
  ASSUME NEW S, NEW T, NEW l \in Seq(S)
  PROVE  l \in Seq(S \cup T)
  OBVIOUS

LEMMA Joined ==
  ASSUME NEW s, IsSeq(s), NEW t, IsSeq(t)
  PROVE  /\ IsSeq(s \o t) /\ Len(s \o t) = Len(s) + Len(t)
         /\ \A i \in 1..Len(s) : (s \o t)[i] = s[i]
         /\ \A i \in 1..Len(t) : (s \o t)[Len(s) + i] = t[i]
<1>1. PICK S : s \in Seq(S)
  BY DEF IsSeq
<1>2. PICK T : t \in Seq(T)
  BY DEF IsSeq
<1>3. s \in Seq(S \cup T)
  BY <1>1, Widened
<1>4. t \in Seq(S \cup T)
  BY <1>2, Widened
<1>5. s \o t \in Seq(S \cup T)
  BY <1>3, <1>4
<1>6. IsSeq(s \o t)
  BY <1>5 DEF IsSeq
<1>7. QED
  BY <1>3, <1>4, <1>6

LEMMA AppendedIs ==
  ASSUME NEW s, IsSeq(s), NEW x
  PROVE  Append(s, x) = s \o <<x>> /\ IsSeq(<<x>>) /\ Len(<<x>>) = 1 /\ <<x>>[1] = x
<1>1. PICK S : s \in Seq(S)
  BY DEF IsSeq
<1>2. s \in Seq(S \cup {x})
  BY <1>1, Widened
<1>3. <<x>> \in Seq({x})
  OBVIOUS
<1>4. QED
  BY <1>2, <1>3 DEF IsSeq

-----------------------------------------------------------------------------
(* The lowest and the highest of some places                               *)

LEMMA LowestIs ==
  ASSUME NEW S \in SUBSET Nat, S # {}
  PROVE  Lowest(S) \in S /\ \A y \in S : Lowest(S) <= y
<1>1. IsWellFoundedOn(OpToRel(<, Nat), Nat)
  BY NatLessThanWellFounded
<1>2. PICK x \in S : \A y \in S : ~(<<y, x>> \in OpToRel(<, Nat))
  BY <1>1, WFMin
<1>3. \A y \in S : ~(y < x)
  BY <1>2 DEF OpToRel
<1>4. x \in Nat /\ \A y \in S : y \in Nat
  OBVIOUS
<1>5. \A y \in S : x <= y
  BY <1>3, <1>4
<1>6. QED
  BY <1>5 DEF Lowest

LEMMA HighestIs ==
  ASSUME NEW n \in Nat, NEW S \in SUBSET (1..n), S # {}
  PROVE  Highest(S) \in S /\ \A y \in S : y <= Highest(S)
<1> DEFINE T == {n - x : x \in S}
<1>1. \A x \in S : n - x \in Nat
  OBVIOUS
<1>2. T \in SUBSET Nat
  BY <1>1
<1>3. T # {}
  <2>1. PICK x \in S : TRUE
    OBVIOUS
  <2>2. n - x \in T
    BY <2>1
  <2>3. QED
    BY <2>2
<1>4. Lowest(T) \in T /\ \A y \in T : Lowest(T) <= y
  <2> HIDE DEF T
  <2>1. QED
    BY <1>2, <1>3, LowestIs
<1>5. PICK x \in S : Lowest(T) = n - x
  BY <1>4
<1>6. \A y \in S : n - x <= n - y
  BY <1>4, <1>5
<1>7. \A y \in S : y <= x
  BY <1>6
<1>8. QED
  BY <1>7 DEF Highest

-----------------------------------------------------------------------------
(* What is written                                                         *)

(* A text speaks of its assertion for ever.                                *)
LEMMA StillFits ==
  ASSUME NEW n, NEW l, Named(n, l), NEW m, Prefix(n, m), NEW k, Prefix(l, k),
         NEW texts, Fits(n, l, texts)
  PROVE  Fits(m, k, texts)
<1>1. /\ DOMAIN n = 1..Len(n) /\ DOMAIN m = 1..Len(m) /\ DOMAIN l = 1..Len(l) /\ DOMAIN k = 1..Len(k)
      /\ Len(n) \in Nat /\ Len(m) \in Nat /\ Len(l) \in Nat /\ Len(k) \in Nat
  BY LengthOf DEF Named, Prefix
<1>2. DOMAIN l \subseteq DOMAIN k /\ \A i \in DOMAIN l : k[i] = l[i]
  BY <1>1 DEF Prefix
<1>3. \A e \in DOMAIN n : m[e] = n[e]
  BY <1>1 DEF Prefix
<1>4. ASSUME NEW i \in DOMAIN texts
      PROVE  Speaks(m, k, texts[i], i)
  <2>1. i \in DOMAIN l /\ Speaks(n, l, texts[i], i)
    BY DEF Fits
  <2>2. k[i] = l[i] /\ m[k[i].e] = n[l[i].e]
    BY <1>2, <1>3, <2>1 DEF Named
  <2>3. PICK j \in DOMAIN l : /\ l[j].e = l[i].e /\ l[j].attribute = l[i].attribute
                              /\ texts[i][3] = l[j].value
    BY <2>1 DEF Speaks
  <2>4. j \in DOMAIN k /\ k[j] = l[j]
    BY <1>2
  <2>5. QED
    BY <2>1, <2>2, <2>3, <2>4 DEF Speaks
<1>5. QED
  BY <1>2, <1>4 DEF Fits

(* Names grow from n to m, w is written to the log l, and what was         *)
(* embedded of it, v, to the index x.                                      *)
Writing(n, l, x, m, w, v) ==
  /\ Named(n, l) /\ Prefix(n, m)
  /\ DOMAIN x = DOMAIN l /\ Fits(n, l, x)
  /\ IsSeq(w) /\ \A i \in 1..Len(w) : w[i].e \in DOMAIN m
  /\ IsSeq(v) /\ Len(v) = Len(w)
  /\ \A i \in 1..Len(w) : v[i] = Text(m[w[i].e], w[i].attribute, w[i].value)

Settled(l, m, k, y) == Named(m, k) /\ Prefix(l, k) /\ DOMAIN y = DOMAIN k /\ Fits(m, k, y)

(* What is embedded as it is written speaks of what is written.            *)
LEMMA Written ==
  ASSUME NEW n, NEW l, NEW x, NEW m, NEW w, NEW v, Writing(n, l, x, m, w, v)
  PROVE  Settled(l, m, l \o w, x \o v)
<1> DEFINE k == l \o w
           y == x \o v
<1>0. /\ Named(n, l) /\ Prefix(n, m)
      /\ DOMAIN x = DOMAIN l /\ Fits(n, l, x)
      /\ IsSeq(w) /\ \A i \in 1..Len(w) : w[i].e \in DOMAIN m
      /\ IsSeq(v) /\ Len(v) = Len(w)
      /\ \A i \in 1..Len(w) : v[i] = Text(m[w[i].e], w[i].attribute, w[i].value)
  BY DEF Writing
<1>1. IsSeq(l) /\ IsSeq(x) /\ IsSeq(w) /\ IsSeq(v) /\ IsSeq(m) /\ IsSeq(n)
  BY <1>0 DEF Named, Fits, Prefix
<1>2. /\ IsSeq(k) /\ Len(k) = Len(l) + Len(w)
      /\ \A i \in 1..Len(l) : k[i] = l[i]
      /\ \A i \in 1..Len(w) : k[Len(l) + i] = w[i]
  <2>1. IsSeq(l) /\ IsSeq(w)
    BY <1>1
  <2>2. IsSeq(k) /\ Len(k) = Len(l) + Len(w)
    BY <2>1, Joined
  <2>3. \A i \in 1..Len(l) : k[i] = l[i]
    BY <2>1, Joined
  <2>4. \A i \in 1..Len(w) : k[Len(l) + i] = w[i]
    BY <2>1, Joined
  <2>5. QED
    BY <2>2, <2>3, <2>4
<1>3. /\ IsSeq(y) /\ Len(y) = Len(x) + Len(v)
      /\ \A i \in 1..Len(x) : y[i] = x[i]
      /\ \A i \in 1..Len(v) : y[Len(x) + i] = v[i]
  <2>1. IsSeq(x) /\ IsSeq(v)
    BY <1>1
  <2>2. IsSeq(y) /\ Len(y) = Len(x) + Len(v)
    BY <2>1, Joined
  <2>3. \A i \in 1..Len(x) : y[i] = x[i]
    BY <2>1, Joined
  <2>4. \A i \in 1..Len(v) : y[Len(x) + i] = v[i]
    BY <2>1, Joined
  <2>5. QED
    BY <2>2, <2>3, <2>4
<1> HIDE DEF k, y
<1>4. /\ Len(l) \in Nat /\ Len(x) \in Nat /\ Len(w) \in Nat /\ Len(v) \in Nat
      /\ DOMAIN l = 1..Len(l) /\ DOMAIN x = 1..Len(x) /\ DOMAIN k = 1..Len(k) /\ DOMAIN y = 1..Len(y)
  BY <1>1, <1>2, <1>3, LengthOf
<1>5. Len(x) = Len(l)
  BY <1>0, <1>4
<1>6. Prefix(l, k)
  BY <1>1, <1>2, <1>4 DEF Prefix
<1>7. DOMAIN y = DOMAIN k
  BY <1>0, <1>2, <1>3, <1>4, <1>5
<1>8. /\ DOMAIN n \subseteq DOMAIN m
  <2>1. Len(n) \in Nat /\ Len(m) \in Nat /\ DOMAIN n = 1..Len(n) /\ DOMAIN m = 1..Len(m)
    BY <1>1, LengthOf
  <2>2. QED
    BY <1>0, <2>1 DEF Prefix
<1>9. \A i \in DOMAIN k : i \in DOMAIN l \/ \E j \in 1..Len(w) : i = Len(l) + j
  <2>1. SUFFICES ASSUME NEW i \in DOMAIN k, i \notin DOMAIN l
                 PROVE  \E j \in 1..Len(w) : i = Len(l) + j
    OBVIOUS
  <2>2. i - Len(l) \in 1..Len(w) /\ i = Len(l) + (i - Len(l))
    BY <1>2, <1>4, <2>1
  <2>3. QED
    BY <2>2
<1>10. \A i \in DOMAIN k : k[i].e \in DOMAIN m
  <2>1. \A i \in DOMAIN l : k[i].e \in DOMAIN m
    BY <1>0, <1>2, <1>4, <1>8 DEF Named
  <2>2. \A j \in 1..Len(w) : k[Len(l) + j].e \in DOMAIN m
    BY <1>0, <1>2
  <2>3. QED
    BY <1>9, <2>1, <2>2
<1>11. Named(m, k)
  BY <1>1, <1>2, <1>10 DEF Named
<1>12. Fits(m, k, x)
  BY <1>0, <1>6, StillFits
<1>13. \A i \in DOMAIN l : Speaks(m, k, y[i], i)
  BY <1>0, <1>3, <1>4, <1>5, <1>12 DEF Fits
<1>14. \A j \in 1..Len(w) : Speaks(m, k, y[Len(l) + j], Len(l) + j)
  <2>1. SUFFICES ASSUME NEW j \in 1..Len(w)
                 PROVE  Speaks(m, k, y[Len(l) + j], Len(l) + j)
    OBVIOUS
  <2>2. y[Len(l) + j] = v[j] /\ k[Len(l) + j] = w[j]
    BY <1>0, <1>2, <1>3, <1>5
  <2>3. v[j] = <<m[w[j].e], w[j].attribute, w[j].value>>
    BY <1>0 DEF Text
  <2>4. Len(l) + j \in DOMAIN k
    BY <1>2, <1>4
  <2>5. QED
    BY <2>2, <2>3, <2>4 DEF Speaks
<1>15. \A i \in DOMAIN k : Speaks(m, k, y[i], i)
  BY <1>9, <1>13, <1>14
<1>16. Fits(m, k, y)
  BY <1>3, <1>7, <1>15 DEF Fits
<1>17. QED
  BY <1>6, <1>7, <1>11, <1>16 DEF Settled, k, y

LEMMA SameIs ==
  ASSUME NEW s, IsSeq(s)
  PROVE  Prefix(s, s)
BY LengthOf DEF Prefix

-----------------------------------------------------------------------------
(* Steps                                                                   *)

(* A plan that was read stays fit for the swap, whatever was committed.    *)
LEMMA CommitKeeps ==
  ASSUME LogInv, NEW c \in Clients, Done(c), Prefix(names, names'), Prefix(log, log')
  PROVE  DOMAIN plan' = Clients /\ Planned'
<1>1. DOMAIN plan' = Clients
  BY DEF LogInv, Done
<1>2. ASSUME NEW d \in Clients, plan'[d].is = "reindex"
      PROVE  Fits(names', log', plan'[d].texts)
  <2>1. d # c
    BY <1>2 DEF LogInv, Done, Idle
  <2>2. plan'[d] = plan[d]
    BY <2>1 DEF LogInv, Done
  <2>3. Fits(names, log, plan[d].texts) /\ Named(names, log)
    BY <1>2, <2>2 DEF LogInv, Planned
  <2>4. QED
    BY <2>2, <2>3, StillFits
<1>3. QED
  BY <1>1, <1>2 DEF Planned

(* So it is when a plan is made.                                           *)
LEMMA BeginKeeps ==
  ASSUME LogInv, NEW c \in Clients, UNCHANGED stored, DOMAIN plan' = Clients,
         \A d \in Clients \ {c} : plan'[d] = plan[d],
         plan'[c].is = "reindex" => Fits(names, log, plan'[c].texts)
  PROVE  LogInv'
<1>1. names' = names /\ log' = log /\ index' = index
  BY DEF stored
<1>2. ASSUME NEW d \in Clients, plan'[d].is = "reindex"
      PROVE  Fits(names, log, plan'[d].texts)
  <2>1. CASE d = c
    BY <1>2, <2>1
  <2>2. CASE d # c
    BY <1>2, <2>2 DEF LogInv, Planned
  <2>3. QED
    BY <2>1, <2>2
<1>3. DOMAIN plan' = Clients /\ Planned'
  BY <1>1, <1>2 DEF Planned
<1>4. QED
  BY <1>1, <1>3 DEF LogInv

(* What is read from the last of each slot is a text of that slot.         *)
LEMMA RebuiltFits ==
  ASSUME LogInv
  PROVE  Fits(names, log, Rebuilt)
<1>1. IsSeq(log) /\ Len(log) \in Nat /\ DOMAIN log = 1..Len(log)
  BY LengthOf DEF LogInv, Named
<1>2. DOMAIN Rebuilt = 1..Len(log) /\ Rebuilt = [i \in 1..Len(log) |-> Rebuilt[i]]
  BY <1>1 DEF Rebuilt
<1>3. IsSeq(Rebuilt)
  BY <1>1, <1>2, SequenceOf
<1>4. ASSUME NEW i \in DOMAIN log
      PROVE  Speaks(names, log, Rebuilt[i], i)
  <2> DEFINE S == Slot(log[i].e, log[i].attribute)
  <2>1. S \in SUBSET (1..Len(log)) /\ S # {}
    BY <1>1 DEF Slot
  <2>2. Highest(S) \in S
    <3> HIDE DEF S
    <3>1. QED
      BY <1>1, <2>1, HighestIs
  <2>3. Rebuilt[i] = <<names[log[i].e], log[i].attribute, log[Highest(S)].value>>
    BY DEF Rebuilt, Text
  <2>4. /\ Highest(S) \in DOMAIN log /\ log[Highest(S)].e = log[i].e
        /\ log[Highest(S)].attribute = log[i].attribute
    BY <2>2 DEF Slot
  <2> HIDE DEF S
  <2>5. QED
    BY <2>3, <2>4 DEF Speaks
<1>5. QED
  BY <1>1, <1>2, <1>3, <1>4 DEF Fits

LEMMA InitFits == Init => LogInv
<1> SUFFICES ASSUME Init PROVE LogInv
  OBVIOUS
<1> DEFINE n == Cardinality(Legacy)
<1>1. n \in Nat
  BY DecisionsAssumption, FS_CardinalityType
<1>2. names \in [1..n -> Legacy]
  BY DEF Init
<1> HIDE DEF n
<1>3. names \in Seq(Legacy) /\ Len(names) = n /\ DOMAIN names = 1..n
  BY <1>1, <1>2
<1>31. IsSeq(names)
  BY <1>3 DEF IsSeq
<1>4. DOMAIN log = 1..(2 * n) /\ log = [i \in 1..(2 * n) |-> log[i]]
  BY <1>3 DEF Init
<1>5. 2 * n \in Nat
  BY <1>1
<1>6. IsSeq(log) /\ Len(log) = 2 * n
  BY <1>4, <1>5, SequenceOf
<1>7. ASSUME NEW i \in 1..(2 * n)
      PROVE  log[i].e \in 1..n
  <2>1. i \in Nat /\ i >= 1 /\ i <= 2 * n
    BY <1>5
  <2>2. CASE i % 2 = 1
    <3>1. log[i].e = (i + 1) \div 2
      BY <1>3, <2>2 DEF Init, Version
    <3>2. (i + 1) \div 2 \in 1..n
      BY <1>1, <2>1, <2>2
    <3>3. QED
      BY <3>1, <3>2
  <2>3. CASE i % 2 # 1
    <3>1. log[i].e = i \div 2
      BY <1>3, <2>3 DEF Init, Version
    <3>2. i \div 2 \in 1..n
      BY <1>1, <2>1, <2>3
    <3>3. QED
      BY <3>1, <3>2
  <2>4. QED
    BY <2>2, <2>3
<1>8. Named(names, log)
  BY <1>3, <1>31, <1>4, <1>6, <1>7 DEF Named
<1>9. DOMAIN index = 1..(2 * n) /\ index = [i \in 1..(2 * n) |-> index[i]]
  BY <1>4 DEF Init
<1>10. IsSeq(index)
  BY <1>5, <1>9, SequenceOf
<1>11. \A i \in DOMAIN log : index[i] = <<names[log[i].e], log[i].attribute, log[i].value>>
  BY DEF Init, Text
<1>12. \A i \in DOMAIN log : Speaks(names, log, index[i], i)
  BY <1>11 DEF Speaks
<1>13. Fits(names, log, index)
  BY <1>4, <1>9, <1>10, <1>12 DEF Fits
<1>14. DOMAIN plan = Clients /\ Planned
  BY DEF Init, Planned, Idle
<1>15. QED
  BY <1>4, <1>8, <1>9, <1>13, <1>14 DEF LogInv

-----------------------------------------------------------------------------
(* Commits                                                                 *)

LEMMA Found1 ==
  ASSUME IsSeq(names), NEW title, Titled(title) # {}
  PROVE  Lowest(Titled(title)) \in DOMAIN names /\ names[Lowest(Titled(title))] = title
<1>1. DOMAIN names = 1..Len(names) /\ Len(names) \in Nat
  BY LengthOf
<1>2. Titled(title) \in SUBSET Nat
  BY <1>1 DEF Titled
<1>3. Lowest(Titled(title)) \in Titled(title)
  BY <1>2, LowestIs
<1>4. QED
  BY <1>3 DEF Titled

(* A title is written to the one that has it, or to a new one.             *)
LEMMA Addressed ==
  ASSUME IsSeq(names), NEW title, NEW e, NEW m,
         e = IF Titled(title) = {} THEN Len(names) + 1 ELSE Lowest(Titled(title)),
         m = IF e = Len(names) + 1 THEN Append(names, title) ELSE names
  PROVE  Prefix(names, m) /\ e \in DOMAIN m /\ m[e] = title
<1>1. Len(names) \in Nat /\ DOMAIN names = 1..Len(names)
  BY LengthOf
<1>2. CASE Titled(title) = {}
  <2>1. e = Len(names) + 1 /\ m = Append(names, title)
    BY <1>2
  <2>2. PICK S : names \in Seq(S)
    BY DEF IsSeq
  <2>3. names \in Seq(S \cup {title})
    BY <2>2, Widened
  <2>4. m \in Seq(S \cup {title}) /\ Len(m) = Len(names) + 1 /\ m[Len(names) + 1] = title
    BY <2>1, <2>3
  <2>5. \A i \in 1..Len(names) : m[i] = names[i]
    BY <2>1, <2>3
  <2>6. IsSeq(m) /\ DOMAIN m = 1..Len(m)
    BY <2>4 DEF IsSeq
  <2>7. QED
    <3>1. Prefix(names, m)
      BY <1>1, <2>4, <2>5, <2>6 DEF Prefix
    <3>2. e \in DOMAIN m /\ m[e] = title
      BY <1>1, <2>1, <2>4, <2>6
    <3>3. QED
      BY <3>1, <3>2
<1>3. CASE Titled(title) # {}
  <2>1. e \in DOMAIN names /\ names[e] = title
    BY <1>3, Found1
  <2>2. e # Len(names) + 1
    BY <1>1, <2>1
  <2>21. m = names
    BY <2>2
  <2>3. Prefix(names, names)
    BY SameIs
  <2>4. QED
    BY <2>1, <2>21, <2>3
<1>4. QED
  BY <1>2, <1>3

LEMMA SingleIs ==
  ASSUME NEW x
  PROVE  IsSeq(<<x>>) /\ Len(<<x>>) = 1 /\ DOMAIN <<x>> = {1} /\ <<x>>[1] = x
<1>1. <<x>> \in Seq({x})
  OBVIOUS
<1>2. IsSeq(<<x>>)
  BY <1>1 DEF IsSeq
<1>3. QED
  BY <1>2

LEMMA EmptyIs == IsSeq(<<>>) /\ Len(<<>>) = 0 /\ DOMAIN <<>> = {}
<1>1. <<>> \in Seq({})
  OBVIOUS
<1>2. QED
  BY <1>1 DEF IsSeq

LEMMA FilledIs ==
  ASSUME NEW attribute, NEW value
  PROVE  IsSeq(Filled(attribute, value))
BY EmptyIs, SingleIs DEF Filled

LEMMA FieldsIs ==
  ASSUME NEW d
  PROVE  IsSeq(Fields(d))
<1> DEFINE a == Filled("status", d.status)
           b == Filled("choice", d.choice)
           f == Filled("because", d.because)
           g == Filled("context", d.context)
           h == Filled("scope", d.scope)
<1>1. IsSeq(a) /\ IsSeq(b) /\ IsSeq(f) /\ IsSeq(g) /\ IsSeq(h)
  BY FilledIs
<1>2. Fields(d) = a \o b \o f \o g \o h
  BY DEF Fields
<1> HIDE DEF a, b, f, g, h
<1>3. IsSeq(a \o b)
  BY <1>1, Joined
<1>4. IsSeq(a \o b \o f)
  BY <1>1, <1>3, Joined
<1>5. IsSeq(a \o b \o f \o g)
  BY <1>1, <1>4, Joined
<1>6. IsSeq(a \o b \o f \o g \o h)
  BY <1>1, <1>5, Joined
<1>7. QED
  BY <1>2, <1>6

LEMMA Settles ==
  ASSUME LogInv, NEW c \in Clients, Done(c), Prefix(names, names'),
         Settled(log, names', log', index')
  PROVE  LogInv'
<1>1. Prefix(log, log')
  BY DEF Settled
<1>2. DOMAIN plan' = Clients /\ Planned'
  BY <1>1, CommitKeeps
<1>3. QED
  BY <1>2 DEF LogInv, Settled

(* One assertion, and its vector.                                          *)
LEMMA OneWritten ==
  ASSUME LogInv, Prefix(names, names'), NEW w, w.e \in DOMAIN names',
         NEW v, v = Text(names'[w.e], w.attribute, w.value),
         log' = Append(log, w), index' = Append(index, v)
  PROVE  Settled(log, names', log', index')
<1> DEFINE W == <<w>>
           V == <<v>>
<1>1. IsSeq(log) /\ IsSeq(index)
  BY DEF LogInv, Named, Fits
<1>2. log' = log \o W /\ index' = index \o V
  BY <1>1, AppendedIs
<1>3. IsSeq(W) /\ Len(W) = 1 /\ IsSeq(V) /\ Len(V) = 1 /\ W[1] = w /\ V[1] = v
  BY SingleIs
<1> HIDE DEF W, V
<1>4. Writing(names, log, index, names', W, V)
  BY <1>3 DEF LogInv, Writing
<1>5. Settled(log, names', log \o W, index \o V)
  BY <1>4, Written
<1>6. QED
  BY <1>2, <1>5

(* A note writes one field, and a reach if it was given one.               *)
NoteFields(n) == <<Field(n.attribute, n.value)>> \o Filled("scope", n.scope)

LEMMA NoteFieldsAre ==
  ASSUME NEW n
  PROVE  /\ IsSeq(NoteFields(n)) /\ Len(NoteFields(n)) \in 1..2
         /\ NoteFields(n)[1] = Field(n.attribute, n.value)
         /\ Len(NoteFields(n)) = 2 => n.scope # Absent /\ NoteFields(n)[2] = Field("scope", n.scope)
<1> DEFINE f == Field(n.attribute, n.value)
           g == Field("scope", n.scope)
           s == <<f>>
           t == Filled("scope", n.scope)
<1>1. NoteFields(n) = s \o t
  BY DEF NoteFields
<1>2. IsSeq(s) /\ Len(s) = 1 /\ s[1] = f
  BY SingleIs
<1>3. IsSeq(t) /\ Len(t) \in 0..1 /\ (Len(t) = 1 => n.scope # Absent /\ t[1] = g)
  <2>1. (t = <<>> \/ t = <<g>>) /\ (n.scope = Absent => t = <<>>)
    BY DEF Filled, g
  <2>2. QED
    BY <2>1, EmptyIs, SingleIs
<1> HIDE DEF s, t, f, g
<1>4. IsSeq(s \o t) /\ Len(s \o t) = Len(s) + Len(t)
  BY <1>2, <1>3, Joined
<1>5. \A i \in 1..Len(s) : (s \o t)[i] = s[i]
  BY <1>2, <1>3, Joined
<1>6. \A i \in 1..Len(t) : (s \o t)[Len(s) + i] = t[i]
  BY <1>2, <1>3, Joined
<1>7. QED
  BY <1>1, <1>2, <1>3, <1>4, <1>5, <1>6 DEF f, g

LEMMA NoteKeeps ==
  ASSUME LogInv, NEW c \in Clients, CommitNote(c)
  PROVE  LogInv'
<1> DEFINE p == plan[c]
           n == p.n
           e == IF Titled(n.title) = {} THEN Len(names) + 1 ELSE Lowest(Titled(n.title))
           fields == NoteFields(n)
           written == [i \in DOMAIN fields |->
                         Version(e, fields[i].attribute, fields[i].value, p.from, p.at)]
           told == [i \in DOMAIN written |->
                      Text(n.title, written[i].attribute, written[i].value)]
<1>1. /\ names' = IF e = Len(names) + 1 THEN Append(names, n.title) ELSE names
      /\ log' = log \o written /\ index' = index \o told
      /\ Done(c)
  BY DEF CommitNote, NoteFields
<1>2. Prefix(names, names') /\ e \in DOMAIN names' /\ names'[e] = n.title
  <2>1. IsSeq(names)
    BY DEF LogInv, Named
  <2>2. QED
    BY <1>1, <2>1, Addressed
<1>3. IsSeq(fields) /\ Len(fields) \in Nat /\ DOMAIN fields = 1..Len(fields)
  <2>1. IsSeq(fields)
    BY NoteFieldsAre
  <2> HIDE DEF fields
  <2>2. QED
    BY <2>1, LengthOf
<1> HIDE DEF fields
<1>4. /\ DOMAIN written = 1..Len(fields) /\ written = [i \in 1..Len(fields) |-> written[i]]
      /\ \A i \in 1..Len(fields) : written[i].e = e
  BY <1>3 DEF Version
<1> HIDE DEF written
<1>5. /\ DOMAIN told = 1..Len(fields) /\ told = [i \in 1..Len(fields) |-> told[i]]
      /\ \A i \in 1..Len(fields) :
            told[i] = Text(n.title, written[i].attribute, written[i].value)
  BY <1>4
<1> HIDE DEF told
<1>6. IsSeq(written) /\ Len(written) = Len(fields) /\ IsSeq(told) /\ Len(told) = Len(fields)
  BY <1>3, <1>4, <1>5, SequenceOf
<1> HIDE DEF e, n
<1>7. Writing(names, log, index, names', written, told)
  <2>1. \A i \in 1..Len(written) :
          told[i] = Text(names'[written[i].e], written[i].attribute, written[i].value)
    BY <1>2, <1>4, <1>5, <1>6
  <2>2. QED
    BY <1>2, <1>4, <1>6, <2>1 DEF LogInv, Writing
<1>8. Settled(log, names', log', index')
  BY <1>1, <1>7, Written
<1>9. QED
  BY <1>1, <1>2, <1>8, Settles

LEMMA RescopeKeeps ==
  ASSUME LogInv, NEW c \in Clients, CommitRescope(c)
  PROVE  LogInv'
<1> DEFINE r == plan[c].r
           at == plan[c].at
           e == Lowest(Titled(r.title))
           w == Version(e, "scope", r.scope, RescopedFrom(e, at), at)
           v == Text(r.title, "scope", r.scope)
<1>1. IsSeq(names) /\ IsSeq(log) /\ Named(names, log)
  BY DEF LogInv, Named
<1>2. Prefix(names, names) /\ Prefix(log, log)
  BY <1>1, SameIs
<1>3. Done(c)
  BY DEF CommitRescope
<1>4. CASE UNCHANGED stored
  <2>1. names' = names /\ log' = log /\ index' = index
    BY <1>4 DEF stored
  <2>2. Settled(log, names', log', index')
    BY <1>1, <1>2, <2>1 DEF LogInv, Settled
  <2>3. QED
    BY <1>2, <1>3, <2>1, <2>2, Settles
<1>5. CASE /\ Titled(r.title) # {} /\ names' = names
           /\ log' = Append(log, w) /\ index' = Append(index, v)
  <2>1. e \in DOMAIN names /\ names[e] = r.title
    BY <1>1, <1>5, Found1
  <2>2. w.e = e /\ w.attribute = "scope" /\ w.value = r.scope
    BY DEF Version
  <2>3. w.e \in DOMAIN names' /\ v = Text(names'[w.e], w.attribute, w.value)
    BY <1>5, <2>1, <2>2
  <2>4. Prefix(names, names')
    BY <1>2, <1>5
  <2> HIDE DEF r, at, e, w, v
  <2>5. Settled(log, names', log', index')
    BY <1>5, <2>3, <2>4, OneWritten
  <2>6. QED
    BY <1>3, <2>4, <2>5, Settles
<1>6. QED
  BY <1>4, <1>5 DEF CommitRescope

(* What a decision is entered with, after what it retires.                 *)
LEMMA DecideKeeps ==
  ASSUME LogInv, NEW c \in Clients, CommitDecide(c)
  PROVE  LogInv'
<1> DEFINE p == plan[c]
           d == p.d
           old == IF d.supersedes = Absent THEN {} ELSE Titled(d.supersedes)
           e == IF Titled(d.title) = {} THEN Len(names) + 1 ELSE Lowest(Titled(d.title))
           gone == Version(Lowest(old), "status", "superseded", p.from, p.at)
           retired == IF old = {} THEN <<>> ELSE <<gone>>
           fields == Fields(d)
           written == [i \in DOMAIN fields |->
                         Version(e, fields[i].attribute, fields[i].value, p.from, p.at)]
           retold == [i \in DOMAIN retired |-> Text(d.supersedes, "status", "superseded")]
           told == [i \in DOMAIN written |->
                      Text(d.title, written[i].attribute, written[i].value)]
<1>1. /\ names' = IF e = Len(names) + 1 THEN Append(names, d.title) ELSE names
      /\ log' = log \o retired \o written
      /\ index' = index \o retold \o told
      /\ Done(c)
  BY DEF CommitDecide
<1>2. IsSeq(names)
  BY DEF LogInv, Named
<1>3. Prefix(names, names') /\ e \in DOMAIN names' /\ names'[e] = d.title
  BY <1>1, <1>2, Addressed
<1>4. /\ IsSeq(retired) /\ DOMAIN retired = 1..Len(retired)
      /\ Len(retired) \in Nat
  <2>1. IsSeq(<<gone>>) /\ IsSeq(<<>>)
    BY SingleIs, EmptyIs
  <2>2. IsSeq(retired)
    BY <2>1
  <2> HIDE DEF retired
  <2>3. QED
    BY <2>2, LengthOf
<1>5. \A i \in 1..Len(retired) :
        /\ retired[i].e \in DOMAIN names' /\ names'[retired[i].e] = d.supersedes
        /\ retired[i].attribute = "status" /\ retired[i].value = "superseded"
  <2>1. SUFFICES ASSUME NEW i \in 1..Len(retired)
                 PROVE  /\ retired[i].e \in DOMAIN names'
                        /\ names'[retired[i].e] = d.supersedes
                        /\ retired[i].attribute = "status" /\ retired[i].value = "superseded"
    OBVIOUS
  <2>2. old # {}
    BY <1>4, <2>1, EmptyIs
  <2>3. old = Titled(d.supersedes) /\ retired = <<gone>>
    BY <2>2
  <2>4. Lowest(old) \in DOMAIN names /\ names[Lowest(old)] = d.supersedes
    BY <1>2, <2>2, <2>3, Found1
  <2>5. Lowest(old) \in DOMAIN names' /\ names'[Lowest(old)] = d.supersedes
    <3>1. /\ DOMAIN names = 1..Len(names) /\ DOMAIN names' = 1..Len(names')
          /\ Len(names) \in Nat /\ Len(names') \in Nat
      BY <1>3, LengthOf DEF Prefix
    <3>2. QED
      BY <1>3, <2>4, <3>1 DEF Prefix
  <2>6. i = 1 /\ retired[i] = gone
    BY <2>1, <2>3, SingleIs
  <2>7. gone.e = Lowest(old) /\ gone.attribute = "status" /\ gone.value = "superseded"
    BY DEF Version
  <2>8. QED
    BY <2>5, <2>6, <2>7
<1>6. IsSeq(fields) /\ Len(fields) \in Nat /\ DOMAIN fields = 1..Len(fields)
  <2>1. IsSeq(fields)
    BY FieldsIs
  <2> HIDE DEF fields
  <2>2. QED
    BY <2>1, LengthOf
<1> HIDE DEF retired, fields
<1>7. DOMAIN written = 1..Len(fields) /\ written = [i \in 1..Len(fields) |-> written[i]]
  BY <1>6
<1>8. \A i \in 1..Len(fields) : written[i].e = e
  BY <1>6 DEF Version
<1>9. /\ DOMAIN retold = 1..Len(retired) /\ retold = [i \in 1..Len(retired) |-> retold[i]]
      /\ \A i \in 1..Len(retired) : retold[i] = Text(d.supersedes, "status", "superseded")
  BY <1>4
<1> HIDE DEF written, retold
<1>10. /\ DOMAIN told = 1..Len(fields) /\ told = [i \in 1..Len(fields) |-> told[i]]
       /\ \A i \in 1..Len(fields) :
             told[i] = Text(d.title, written[i].attribute, written[i].value)
  BY <1>7
<1> HIDE DEF told
<1>11. IsSeq(written) /\ Len(written) = Len(fields)
  BY <1>6, <1>7, SequenceOf
<1>12. IsSeq(retold) /\ Len(retold) = Len(retired)
  BY <1>4, <1>9, SequenceOf
<1>13. IsSeq(told) /\ Len(told) = Len(fields)
  BY <1>6, <1>10, SequenceOf
<1> HIDE DEF e, d, old, gone
<1>14. Settled(log, names', log \o retired, index \o retold)
  <2>1. \A i \in 1..Len(retired) :
          retold[i] = Text(names'[retired[i].e], retired[i].attribute, retired[i].value)
    BY <1>5, <1>9
  <2>2. Writing(names, log, index, names', retired, retold)
    BY <1>3, <1>4, <1>5, <1>12, <2>1 DEF LogInv, Writing
  <2>3. QED
    BY <2>2, Written
<1>15. Settled(log \o retired, names', log \o retired \o written, index \o retold \o told)
  <2>1. \A i \in 1..Len(written) :
          told[i] = Text(names'[written[i].e], written[i].attribute, written[i].value)
    BY <1>3, <1>8, <1>10, <1>11
  <2>2. \A i \in 1..Len(written) : written[i].e \in DOMAIN names'
    BY <1>3, <1>8, <1>11
  <2>3. Prefix(names', names')
    <3>1. IsSeq(names')
      BY <1>3 DEF Prefix
    <3>2. QED
      BY <3>1, SameIs
  <2>4. Writing(names', log \o retired, index \o retold, names', written, told)
    BY <1>11, <1>13, <1>14, <2>1, <2>2, <2>3 DEF Settled, Writing
  <2>5. QED
    BY <2>4, Written
<1>16. Prefix(log, log \o retired \o written)
  <2> DEFINE k == log \o retired
             j == k \o written
  <2>1. Prefix(log, k) /\ Prefix(k, j)
    BY <1>14, <1>15 DEF Settled
  <2> HIDE DEF k, j
  <2>2. \A i \in 1..Len(log) : j[i] = log[i]
    <3>1. Len(log) \in Nat /\ Len(k) \in Nat
      BY <2>1, LengthOf DEF Prefix
    <3>2. QED
      BY <2>1, <3>1 DEF Prefix
  <2>3. Len(log) <= Len(j)
    <3>1. Len(log) \in Nat /\ Len(k) \in Nat /\ Len(j) \in Nat
      BY <2>1, LengthOf DEF Prefix
    <3>2. QED
      BY <2>1, <3>1 DEF Prefix
  <2>4. Prefix(log, j)
    BY <2>1, <2>2, <2>3 DEF Prefix
  <2>5. QED
    BY <2>4 DEF k, j
<1>17. Settled(log, names', log', index')
  BY <1>1, <1>15, <1>16 DEF Settled
<1>18. QED
  BY <1>1, <1>3, <1>17, Settles

(* rebuild_index takes what covers the log, and else changes nothing.      *)
LEMMA ReindexKeeps ==
  ASSUME LogInv, NEW c \in Clients, CommitReindex(c)
  PROVE  LogInv'
<1>1. /\ plan[c].is = "reindex" /\ names' = names /\ log' = log /\ Done(c)
      /\ index' = IF DOMAIN plan[c].texts = DOMAIN log THEN plan[c].texts ELSE index
  BY DEF CommitReindex, Swap
<1>2. Fits(names, log, plan[c].texts)
  BY <1>1 DEF LogInv, Planned
<1>3. DOMAIN index' = DOMAIN log /\ Fits(names, log, index')
  BY <1>1, <1>2 DEF LogInv
<1>4. IsSeq(names) /\ IsSeq(log) /\ Named(names, log)
  BY DEF LogInv, Named
<1>5. Prefix(names, names) /\ Prefix(log, log)
  BY <1>4, SameIs
<1>6. Settled(log, names', log', index')
  BY <1>1, <1>3, <1>4, <1>5 DEF Settled
<1>7. QED
  BY <1>1, <1>5, <1>6, Settles

-----------------------------------------------------------------------------
LEMMA LogStep == LogInv /\ [Next]_vars => LogInv'
<1> SUFFICES ASSUME LogInv, [Next]_vars PROVE LogInv'
  OBVIOUS
<1>1. ASSUME NEW c \in Clients, NEW p, Begin(c, p), p.is # "reindex"
      PROVE  LogInv'
  <2>1. UNCHANGED stored /\ plan' = [plan EXCEPT ![c] = p]
    BY <1>1 DEF Begin
  <2>2. DOMAIN plan = Clients
    BY DEF LogInv
  <2>3. /\ DOMAIN plan' = Clients /\ plan'[c].is # "reindex"
        /\ \A d \in Clients \ {c} : plan'[d] = plan[d]
    BY <1>1, <2>1, <2>2
  <2>4. QED
    BY <2>1, <2>3, BeginKeeps
<1>2. CASE Tick \/ UNCHANGED vars
  BY <1>2 DEF Tick, vars, stored, LogInv, Planned
<1>3. ASSUME NEW c \in Clients, NEW d \in Decides, PlanDecide(c, d)
      PROVE  LogInv'
  BY <1>1, <1>3 DEF PlanDecide
<1>4. ASSUME NEW c \in Clients, NEW r \in Rescopes, PlanRescope(c, r)
      PROVE  LogInv'
  BY <1>1, <1>4 DEF PlanRescope
<1>5. ASSUME NEW c \in Clients, NEW n \in Notes, PlanNote(c, n)
      PROVE  LogInv'
  BY <1>1, <1>5 DEF PlanNote
<1>6. ASSUME NEW c \in Clients, PlanReindex(c)
      PROVE  LogInv'
  <2>1. /\ UNCHANGED stored
        /\ plan' = [plan EXCEPT ![c] = [is |-> "reindex", texts |-> Rebuilt]]
    BY <1>6 DEF PlanReindex, Begin
  <2>2. DOMAIN plan = Clients
    BY DEF LogInv
  <2>3. /\ DOMAIN plan' = Clients /\ plan'[c].texts = Rebuilt
        /\ \A d \in Clients \ {c} : plan'[d] = plan[d]
    BY <2>1, <2>2
  <2>4. Fits(names, log, plan'[c].texts)
    BY <2>3, RebuiltFits
  <2>5. QED
    BY <2>1, <2>3, <2>4, BeginKeeps
<1>7. QED
  BY <1>2, <1>3, <1>4, <1>5, <1>6, DecideKeeps, RescopeKeeps, NoteKeeps, ReindexKeeps DEF Next

LEMMA LogSays == LogInv => EveryAssertionIsIndexed
<1> SUFFICES ASSUME LogInv PROVE EveryAssertionIsIndexed
  OBVIOUS
<1>1. DOMAIN index = DOMAIN log /\ \A i \in DOMAIN log : Speaks(names, log, index[i], i)
  BY DEF LogInv, Fits
<1>2. QED
  BY <1>1 DEF EveryAssertionIsIndexed, Speaks, Slot

(* Whatever commits between a reindex's reading of the texts and its swap  *)
(* (reindex_texts, then rebuild_index under a second lock), every          *)
(* assertion of the log has a vector, made of its decision's name, its     *)
(* field and a value that field holds or held.                             *)
THEOREM AlwaysIndexed == Spec => []EveryAssertionIsIndexed
<1>1. Init => LogInv
  BY InitFits
<1>2. LogInv /\ [Next]_vars => LogInv'
  BY LogStep
<1>3. LogInv => EveryAssertionIsIndexed
  BY LogSays
<1>4. QED
  BY <1>1, <1>2, <1>3, PTL DEF Spec

-----------------------------------------------------------------------------
(* What each version of the log goes with                                  *)

(* Of the same entity, from the same day, heard at the same instant.       *)
Beside(l, i, j) == l[j].e = l[i].e /\ l[j].from = l[i].from /\ l[j].at = l[i].at

(* A status says "superseded" beside an edge, or before it says otherwise. *)
Accounted(l, X, i) ==
  \/ \E x \in X : x.old = l[i].e /\ x.from = l[i].from /\ x.at = l[i].at
  \/ \E j \in DOMAIN l : /\ i < j /\ Beside(l, i, j)
                         /\ l[j].attribute = "status" /\ l[j].value # "superseded"

(* A choice has a status beside it, and, unless it is older than scopes, a *)
(* reach. None of the three is blank.                                      *)
Whole(l, X, i) ==
  /\ l[i].at \in 1..MaxClock /\ l[i].from \in 1..MaxClock
  /\ l[i].attribute \in {"status", "choice", "scope"} => l[i].value # Absent
  /\ l[i].attribute = "status" /\ l[i].value = "superseded" => Accounted(l, X, i)
  /\ l[i].attribute = "choice" =>
       /\ \E j \in DOMAIN l : Beside(l, i, j) /\ l[j].attribute = "status"
       /\ l[i].from = 1 \/ \E j \in DOMAIN l : Beside(l, i, j) /\ l[j].attribute = "scope"

(* An edge joins two decisions.                                            *)
Joins(n, x) ==
  /\ x.new \in DOMAIN n /\ x.old \in DOMAIN n /\ x.new # x.old
  /\ x.from \in Nat /\ x.at \in Nat

Injective(n) == \A e, f \in DOMAIN n : n[e] = n[f] => e = f

(* What is planned was not refused, and is as old as its reading of the    *)
(* clock.                                                                  *)
Sane(p) ==
  /\ p.is \in {"idle", "decide", "rescope", "note", "reindex"}
  /\ p.is = "decide" => /\ p.d \in Decides /\ p.d.choice # Absent /\ p.d.status \in Statuses
                        /\ p.at \in 1..MaxClock /\ p.from \in 1..MaxClock
  /\ p.is = "rescope" => p.r \in Rescopes /\ p.at \in 1..MaxClock
  /\ p.is = "note" => p.n \in Notes /\ p.at \in 1..MaxClock /\ p.from \in 1..MaxClock

DatedInv ==
  /\ clock \in 1..MaxClock
  /\ \A c \in Clients : Sane(plan[c])
  /\ Injective(names)
  /\ IsSeq(edges) /\ \A x \in Elements(edges) : Joins(names, x)

WholeInv == \A i \in DOMAIN log : Whole(log, Elements(edges), i)

(* The fields that make a decision are written by deciding and rescoping.  *)
NotesOfOtherThings == \A n \in Notes : n.attribute \notin DecisionFields

-----------------------------------------------------------------------------
(* A log, a later one, and the edges of both.                              *)
Later(l, k, X, Y) ==
  /\ DOMAIN l \subseteq DOMAIN k /\ \A i \in DOMAIN l : k[i] = l[i]
  /\ X \subseteq Y

LEMMA StillWhole ==
  ASSUME NEW l, NEW k, NEW X, NEW Y, Later(l, k, X, Y), NEW i \in DOMAIN l, Whole(l, X, i)
  PROVE  Whole(k, Y, i)
<1>1. k[i] = l[i] /\ \A j \in DOMAIN l : j \in DOMAIN k /\ k[j] = l[j]
  BY DEF Later
<1>2. ASSUME l[i].attribute = "status", l[i].value = "superseded"
      PROVE  Accounted(k, Y, i)
  <2>1. Accounted(l, X, i)
    BY <1>2 DEF Whole
  <2>2. CASE \E x \in X : x.old = l[i].e /\ x.from = l[i].from /\ x.at = l[i].at
    BY <1>1, <2>2 DEF Accounted, Later
  <2>3. CASE \E j \in DOMAIN l : /\ i < j /\ Beside(l, i, j)
                                 /\ l[j].attribute = "status" /\ l[j].value # "superseded"
    BY <1>1, <2>3 DEF Accounted, Beside
  <2>4. QED
    BY <2>1, <2>2, <2>3 DEF Accounted
<1>3. ASSUME l[i].attribute = "choice"
      PROVE  /\ \E j \in DOMAIN k : Beside(k, i, j) /\ k[j].attribute = "status"
             /\ k[i].from = 1 \/ \E j \in DOMAIN k : Beside(k, i, j) /\ k[j].attribute = "scope"
  <2>1. PICK j \in DOMAIN l : Beside(l, i, j) /\ l[j].attribute = "status"
    BY <1>3 DEF Whole
  <2>2. \E m \in DOMAIN k : Beside(k, i, m) /\ k[m].attribute = "status"
    BY <1>1, <2>1 DEF Beside
  <2>3. CASE l[i].from = 1
    BY <1>1, <2>2, <2>3
  <2>4. CASE \E m \in DOMAIN l : Beside(l, i, m) /\ l[m].attribute = "scope"
    <3>1. \E m \in DOMAIN k : Beside(k, i, m) /\ k[m].attribute = "scope"
      BY <1>1, <2>4 DEF Beside
    <3>2. QED
      BY <2>2, <3>1
  <2>5. QED
    BY <1>3, <2>3, <2>4 DEF Whole
<1>4. QED
  BY <1>1, <1>2, <1>3 DEF Whole

LEMMA StillJoins ==
  ASSUME NEW n, NEW m, Prefix(n, m), NEW x, Joins(n, x)
  PROVE  Joins(m, x)
<1>1. DOMAIN n \subseteq DOMAIN m
  <2>1. Len(n) \in Nat /\ Len(m) \in Nat /\ DOMAIN n = 1..Len(n) /\ DOMAIN m = 1..Len(m)
    BY LengthOf DEF Prefix
  <2>2. QED
    BY <2>1 DEF Prefix
<1>2. QED
  BY <1>1 DEF Joins

(* Decide writes a status, a choice and a reach, and what else it is told. *)
LEMMA FieldsAre ==
  ASSUME NEW d, d.status # Absent, d.choice # Absent, d.scope # Absent
  PROVE  /\ IsSeq(Fields(d)) /\ Len(Fields(d)) \in 3..5
         /\ Fields(d)[1] = Field("status", d.status)
         /\ Fields(d)[2] = Field("choice", d.choice)
         /\ Fields(d)[Len(Fields(d))] = Field("scope", d.scope)
         /\ \A i \in 3..(Len(Fields(d)) - 1) : Fields(d)[i].attribute \in {"because", "context"}
<1> DEFINE s == Field("status", d.status)
           h == Field("choice", d.choice)
           b == Field("because", d.because)
           t == Field("context", d.context)
           p == Field("scope", d.scope)
<1>0. IsSeq(Fields(d))
  BY FieldsIs
<1>01. b.attribute = "because" /\ t.attribute = "context"
  BY DEF Field
<1>1. Fields(d) = <<s>> \o <<h>> \o Filled("because", d.because) \o Filled("context", d.context)
                    \o <<p>>
  BY DEF Fields, Filled
<1> HIDE DEF s, h, b, t, p
<1> DEFINE u == Filled("because", d.because)
           v == Filled("context", d.context)
           A == <<s>> \o <<h>>
           B == A \o u
           C == B \o v
<1>2. /\ IsSeq(u) /\ Len(u) \in 0..1 /\ \A i \in 1..Len(u) : u[i] = b
  <2>1. u = <<>> \/ u = <<b>>
    BY DEF Filled, b
  <2>2. QED
    BY <2>1, EmptyIs, SingleIs
<1>3. /\ IsSeq(v) /\ Len(v) \in 0..1 /\ \A i \in 1..Len(v) : v[i] = t
  <2>1. v = <<>> \/ v = <<t>>
    BY DEF Filled, t
  <2>2. QED
    BY <2>1, EmptyIs, SingleIs
<1> HIDE DEF u, v
<1>4. /\ IsSeq(<<s>>) /\ Len(<<s>>) = 1 /\ <<s>>[1] = s
      /\ IsSeq(<<h>>) /\ Len(<<h>>) = 1 /\ <<h>>[1] = h
      /\ IsSeq(<<p>>) /\ Len(<<p>>) = 1 /\ <<p>>[1] = p
  BY SingleIs
<1>5. IsSeq(A) /\ Len(A) = 2 /\ A[1] = s /\ A[2] = h
  <2>0. IsSeq(<<s>>) /\ IsSeq(<<h>>)
    BY <1>4
  <2>01. IsSeq(A) /\ Len(A) = Len(<<s>>) + Len(<<h>>)
    BY <2>0, Joined
  <2>02. \A i \in 1..Len(<<s>>) : A[i] = <<s>>[i]
    BY <2>0, Joined
  <2>03. \A i \in 1..Len(<<h>>) : A[Len(<<s>>) + i] = <<h>>[i]
    BY <2>0, Joined
  <2>1. /\ IsSeq(A) /\ Len(A) = Len(<<s>>) + Len(<<h>>)
        /\ \A i \in 1..Len(<<s>>) : A[i] = <<s>>[i]
        /\ \A i \in 1..Len(<<h>>) : A[Len(<<s>>) + i] = <<h>>[i]
    BY <2>01, <2>02, <2>03
  <2> HIDE DEF A
  <2>2. QED
    BY <1>4, <2>1
<1> HIDE DEF A
<1>6. IsSeq(B) /\ Len(B) = 2 + Len(u) /\ B[1] = s /\ B[2] = h /\ \A i \in 3..Len(B) : B[i] = b
  <2>0. IsSeq(A) /\ IsSeq(u)
    BY <1>2, <1>5
  <2>01. IsSeq(B) /\ Len(B) = Len(A) + Len(u)
    BY <2>0, Joined
  <2>02. \A i \in 1..Len(A) : B[i] = A[i]
    BY <2>0, Joined
  <2>03. \A i \in 1..Len(u) : B[Len(A) + i] = u[i]
    BY <2>0, Joined
  <2>1. /\ IsSeq(B) /\ Len(B) = Len(A) + Len(u)
        /\ \A i \in 1..Len(A) : B[i] = A[i]
        /\ \A i \in 1..Len(u) : B[Len(A) + i] = u[i]
    BY <2>01, <2>02, <2>03
  <2> HIDE DEF B
  <2>2. \A i \in 3..Len(B) : i - 2 \in 1..Len(u) /\ i = Len(A) + (i - 2)
    BY <1>2, <1>5, <2>1
  <2>3. QED
    BY <1>2, <1>5, <2>1, <2>2
<1> HIDE DEF B
<1>7. /\ IsSeq(C) /\ Len(C) = 2 + Len(u) + Len(v) /\ C[1] = s /\ C[2] = h
      /\ \A i \in 3..Len(C) : C[i] \in {b, t}
  <2>0. IsSeq(B) /\ IsSeq(v)
    BY <1>3, <1>6
  <2>01. IsSeq(C) /\ Len(C) = Len(B) + Len(v)
    BY <2>0, Joined
  <2>02. \A i \in 1..Len(B) : C[i] = B[i]
    BY <2>0, Joined
  <2>03. \A i \in 1..Len(v) : C[Len(B) + i] = v[i]
    BY <2>0, Joined
  <2>1. /\ IsSeq(C) /\ Len(C) = Len(B) + Len(v)
        /\ \A i \in 1..Len(B) : C[i] = B[i]
        /\ \A i \in 1..Len(v) : C[Len(B) + i] = v[i]
    BY <2>01, <2>02, <2>03
  <2> HIDE DEF C
  <2>2. \A i \in 3..Len(C) : i \in 3..Len(B) \/ (i - Len(B) \in 1..Len(v) /\ i = Len(B) + (i - Len(B)))
    BY <1>2, <1>3, <1>6, <2>1
  <2>3. QED
    BY <1>2, <1>3, <1>6, <2>1, <2>2
<1> HIDE DEF C
<1>8. /\ Len(C \o <<p>>) = Len(C) + 1
      /\ \A i \in 1..Len(C) : (C \o <<p>>)[i] = C[i]
      /\ (C \o <<p>>)[Len(C) + 1] = p
  <2> DEFINE P == <<p>>
  <2>0. IsSeq(C) /\ IsSeq(P)
    BY <1>4, <1>7
  <2>1. P[1] = p /\ Len(P) = 1
    BY <1>4
  <2> HIDE DEF P
  <2>2. Len(C \o P) = Len(C) + Len(P)
    BY <2>0, Joined
  <2>3. \A i \in 1..Len(C) : (C \o P)[i] = C[i]
    BY <2>0, Joined
  <2>4. \A i \in 1..Len(P) : (C \o P)[Len(C) + i] = P[i]
    BY <2>0, Joined
  <2>5. 1 \in 1..Len(P)
    BY <2>1
  <2>6. (C \o P)[Len(C) + 1] = p
    BY <2>1, <2>4, <2>5
  <2>7. Len(C \o P) = Len(C) + 1
    BY <2>1, <2>2
  <2>8. QED
    BY <2>3, <2>6, <2>7 DEF P
<1>9. Fields(d) = C \o <<p>>
  BY <1>1 DEF C, B, A, u, v
<1>10. \A i \in 3..(Len(Fields(d)) - 1) : Fields(d)[i] \in {b, t}
  BY <1>2, <1>3, <1>7, <1>8, <1>9
<1>11. \A i \in 3..(Len(Fields(d)) - 1) : Fields(d)[i].attribute \in {"because", "context"}
  BY <1>01, <1>10
<1>12. /\ Len(Fields(d)) \in 3..5 /\ Fields(d)[1] = s /\ Fields(d)[2] = h
       /\ Fields(d)[Len(Fields(d))] = p
  BY <1>2, <1>3, <1>7, <1>8, <1>9
<1>13. QED
  BY <1>0, <1>11, <1>12 DEF s, h, p

-----------------------------------------------------------------------------
(* What a commit leaves behind                                             *)

LEMMA AddressedOnce ==
  ASSUME IsSeq(names), Injective(names), NEW title, NEW e, NEW m,
         e = IF Titled(title) = {} THEN Len(names) + 1 ELSE Lowest(Titled(title)),
         m = IF e = Len(names) + 1 THEN Append(names, title) ELSE names
  PROVE  Injective(m) /\ DOMAIN m \subseteq DOMAIN names \cup {e}
<1>1. Len(names) \in Nat /\ DOMAIN names = 1..Len(names)
  BY LengthOf
<1>2. CASE Titled(title) = {}
  <2>1. e = Len(names) + 1 /\ m = Append(names, title)
    BY <1>2
  <2>2. PICK S : names \in Seq(S)
    BY DEF IsSeq
  <2>3. names \in Seq(S \cup {title})
    BY <2>2, Widened
  <2>4. DOMAIN m = 1..(Len(names) + 1) /\ m[Len(names) + 1] = title
    BY <2>1, <2>3
  <2>5. \A i \in 1..Len(names) : m[i] = names[i]
    BY <2>1, <2>3
  <2>6. \A f \in 1..Len(names) : names[f] # title
    BY <1>1, <1>2 DEF Titled
  <2>7. \A f \in DOMAIN m : f \in 1..Len(names) \/ f = Len(names) + 1
    BY <1>1, <2>4
  <2>8. QED
    BY <1>1, <2>1, <2>4, <2>5, <2>6, <2>7 DEF Injective
<1>3. CASE Titled(title) # {}
  <2>1. e \in DOMAIN names
    BY <1>3, Found1
  <2>2. e # Len(names) + 1
    BY <1>1, <2>1
  <2>3. QED
    BY <2>2
<1>4. QED
  BY <1>2, <1>3

(* Deciding: what it retires, if anything, then its fields, and the edge.  *)
DecideIs(p, e, r, k, o) ==
  /\ e \in DOMAIN names' /\ names'[e] = p.d.title /\ r \in 0..1 /\ k \in 3..5
  /\ Prefix(log, log') /\ Len(log') = Len(log) + r + k
  /\ log'[Len(log) + r + 1] = Version(e, "status", p.d.status, p.from, p.at)
  /\ log'[Len(log) + r + 2] = Version(e, "choice", p.d.choice, p.from, p.at)
  /\ log'[Len(log) + r + k] = Version(e, "scope", p.d.scope, p.from, p.at)
  /\ \A i \in 3..(k - 1) : /\ log'[Len(log) + r + i].attribute \in {"because", "context"}
                           /\ log'[Len(log) + r + i].e = e
                           /\ log'[Len(log) + r + i].from = p.from
                           /\ log'[Len(log) + r + i].at = p.at
  /\ r = 1 => /\ o \in DOMAIN names
              /\ log'[Len(log) + 1] = Version(o, "status", "superseded", p.from, p.at)
  /\ edges' = IF r = 1 /\ o # e
              THEN Append(edges, [new |-> e, old |-> o, from |-> p.from, at |-> p.at])
              ELSE edges

LEMMA DecideWrites ==
  ASSUME LogInv, DatedInv, NEW c \in Clients, CommitDecide(c)
  PROVE  /\ Prefix(names, names') /\ Injective(names')
         /\ \E e : /\ DOMAIN names' \subseteq DOMAIN names \cup {e}
                   /\ \E r, k, o : DecideIs(plan[c], e, r, k, o)
<1> DEFINE p == plan[c]
           d == p.d
           old == IF d.supersedes = Absent THEN {} ELSE Titled(d.supersedes)
           o == Lowest(old)
           e == IF Titled(d.title) = {} THEN Len(names) + 1 ELSE Lowest(Titled(d.title))
           gone == Version(Lowest(old), "status", "superseded", p.from, p.at)
           retired == IF old = {} THEN <<>> ELSE <<gone>>
           fields == Fields(d)
           written == [i \in DOMAIN fields |->
                         Version(e, fields[i].attribute, fields[i].value, p.from, p.at)]
           r == Len(retired)
           k == Len(fields)
<1>1. /\ names' = IF e = Len(names) + 1 THEN Append(names, d.title) ELSE names
      /\ log' = log \o retired \o written
      /\ edges' = Link(p, e, old)
      /\ p.is = "decide"
  BY DEF CommitDecide
<1>2. IsSeq(names) /\ IsSeq(log) /\ Injective(names)
  BY DEF LogInv, Named, DatedInv
<1>3. Prefix(names, names') /\ e \in DOMAIN names' /\ names'[e] = d.title
  BY <1>1, <1>2, Addressed
<1>4. Injective(names') /\ DOMAIN names' \subseteq DOMAIN names \cup {e}
  <2> DEFINE title == d.title
             m == names'
  <2>1. /\ e = IF Titled(title) = {} THEN Len(names) + 1 ELSE Lowest(Titled(title))
        /\ m = IF e = Len(names) + 1 THEN Append(names, title) ELSE names
    BY <1>1
  <2> HIDE DEF e, title, m
  <2>2. Injective(m)
    BY <1>2, <2>1, AddressedOnce
  <2>3. DOMAIN m \subseteq DOMAIN names \cup {e}
    BY <1>2, <2>1, AddressedOnce
  <2>4. QED
    BY <2>2, <2>3 DEF m
<1>5. d.status # Absent /\ d.choice # Absent /\ d.scope # Absent
  <2>1. Sane(p)
    BY DEF DatedInv
  <2>2. d \in Decides /\ d.status \in Statuses /\ d.choice # Absent
    BY <1>1, <2>1 DEF Sane
  <2>3. QED
    BY <2>2, DecisionsAssumption
<1>6. /\ IsSeq(fields) /\ k \in 3..5
      /\ fields[1] = Field("status", d.status) /\ fields[2] = Field("choice", d.choice)
      /\ fields[k] = Field("scope", d.scope)
      /\ \A i \in 3..(k - 1) : fields[i].attribute \in {"because", "context"}
  BY <1>5, FieldsAre
<1>7. IsSeq(<<gone>>) /\ Len(<<gone>>) = 1 /\ <<gone>>[1] = gone
  BY SingleIs
<1>8. IsSeq(retired) /\ r \in 0..1 /\ (r = 1 <=> old # {}) /\ (r = 1 => retired[1] = gone)
  BY <1>7, EmptyIs
<1>9. r = 1 => o \in DOMAIN names
  <2>1. SUFFICES ASSUME old # {} PROVE o \in DOMAIN names
    BY <1>8
  <2>2. old = Titled(d.supersedes)
    BY <2>1
  <2>3. QED
    BY <1>2, <2>1, <2>2, Found1
<1>10. edges' = IF r = 1 /\ o # e
                THEN Append(edges, [new |-> e, old |-> o, from |-> p.from, at |-> p.at])
                ELSE edges
  <2>1. CASE old = {}
    BY <1>1, <1>8, <2>1 DEF Link
  <2>2. CASE old # {}
    BY <1>1, <1>8, <2>2 DEF Link
  <2>3. QED
    BY <2>1, <2>2
<1>11. gone = Version(o, "status", "superseded", p.from, p.at)
  OBVIOUS
<1> HIDE DEF retired, fields, e, o, gone, p, d, old
<1>12. DOMAIN fields = 1..k
  BY <1>6, LengthOf
<1>13. /\ DOMAIN written = 1..k /\ written = [i \in 1..k |-> written[i]]
       /\ \A i \in 1..k : written[i] = Version(e, fields[i].attribute, fields[i].value, p.from, p.at)
  BY <1>12
<1> HIDE DEF written
<1>14. IsSeq(written) /\ Len(written) = k
  <2>1. k \in Nat
    BY <1>6
  <2>2. QED
    BY <1>13, <2>1, SequenceOf
<1> DEFINE m == log \o retired
<1>15. /\ IsSeq(m) /\ Len(m) = Len(log) + r
       /\ \A i \in 1..Len(log) : m[i] = log[i]
       /\ \A i \in 1..r : m[Len(log) + i] = retired[i]
  <2>1. IsSeq(m) /\ Len(m) = Len(log) + Len(retired)
    BY <1>2, <1>8, Joined
  <2>2. \A i \in 1..Len(log) : m[i] = log[i]
    BY <1>2, <1>8, Joined
  <2>3. \A i \in 1..Len(retired) : m[Len(log) + i] = retired[i]
    BY <1>2, <1>8, Joined
  <2>4. QED
    BY <2>1, <2>2, <2>3
<1>16. log' = m \o written
  BY <1>1
<1> HIDE DEF m, r, k
<1>17. /\ IsSeq(log') /\ Len(log') = Len(m) + k
       /\ \A i \in 1..Len(m) : log'[i] = m[i]
       /\ \A i \in 1..k : log'[Len(m) + i] = written[i]
  <2>0. IsSeq(m) /\ IsSeq(written)
    BY <1>14, <1>15
  <2>1. IsSeq(log') /\ Len(log') = Len(m) + Len(written)
    BY <1>16, <2>0, Joined
  <2>2. \A i \in 1..Len(m) : log'[i] = m[i]
    BY <1>16, <2>0, Joined
  <2>3. \A i \in 1..Len(written) : log'[Len(m) + i] = written[i]
    BY <1>16, <2>0, Joined
  <2>4. QED
    BY <1>14, <2>1, <2>2, <2>3
<1>18. Len(log) \in Nat
  BY <1>2, LengthOf
<1>19. Prefix(log, log')
  <2>1. r \in Nat /\ k \in Nat
    BY <1>6, <1>8
  <2>2. Len(log) <= Len(m) /\ Len(log) <= Len(log') /\ Len(m) \in Nat
    BY <1>15, <1>17, <1>18, <2>1
  <2>3. \A i \in 1..Len(log) : i \in 1..Len(m)
    BY <1>18, <2>2
  <2>4. \A i \in 1..Len(log) : log'[i] = log[i]
    BY <1>15, <1>17, <2>3
  <2>5. QED
    BY <1>2, <1>17, <2>2, <2>4 DEF Prefix
<1>20. r = 1 => log'[Len(log) + 1] = gone
  BY <1>8, <1>15, <1>17, <1>18
<1>21. \A i \in 1..k : log'[Len(log) + r + i]
                          = Version(e, fields[i].attribute, fields[i].value, p.from, p.at)
  BY <1>13, <1>15, <1>17
<1>22. /\ log'[Len(log) + r + 1] = Version(e, "status", d.status, p.from, p.at)
       /\ log'[Len(log) + r + 2] = Version(e, "choice", d.choice, p.from, p.at)
       /\ log'[Len(log) + r + k] = Version(e, "scope", d.scope, p.from, p.at)
  <2>1. 1 \in 1..k /\ 2 \in 1..k /\ k \in 1..k
    BY <1>6
  <2>2. QED
    BY <1>6, <1>21, <2>1 DEF Field
<1>23. \A i \in 3..(k - 1) : /\ log'[Len(log) + r + i].attribute \in {"because", "context"}
                            /\ log'[Len(log) + r + i].e = e
                            /\ log'[Len(log) + r + i].from = p.from
                            /\ log'[Len(log) + r + i].at = p.at
  <2>1. \A i \in 3..(k - 1) : i \in 1..k
    BY <1>6
  <2>2. QED
    <3> SUFFICES ASSUME NEW i \in 3..(k - 1)
                 PROVE  /\ log'[Len(log) + r + i].attribute \in {"because", "context"}
                        /\ log'[Len(log) + r + i].e = e
                        /\ log'[Len(log) + r + i].from = p.from
                        /\ log'[Len(log) + r + i].at = p.at
      OBVIOUS
    <3>1. log'[Len(log) + r + i] = Version(e, fields[i].attribute, fields[i].value, p.from, p.at)
      BY <1>21, <2>1
    <3>2. fields[i].attribute \in {"because", "context"}
      BY <1>6
    <3>3. QED
      BY <3>1, <3>2 DEF Version
<1>24. DecideIs(p, e, r, k, o)
  <2>1. Len(log') = Len(log) + r + k
    BY <1>6, <1>8, <1>15, <1>17, <1>18
  <2>2. r = 1 => /\ o \in DOMAIN names
                 /\ log'[Len(log) + 1] = Version(o, "status", "superseded", p.from, p.at)
    BY <1>9, <1>11, <1>20
  <2>3. e \in DOMAIN names' /\ names'[e] = p.d.title /\ r \in 0..1 /\ k \in 3..5
    BY <1>3, <1>6, <1>8 DEF d
  <2>4. /\ log'[Len(log) + r + 1] = Version(e, "status", p.d.status, p.from, p.at)
        /\ log'[Len(log) + r + 2] = Version(e, "choice", p.d.choice, p.from, p.at)
        /\ log'[Len(log) + r + k] = Version(e, "scope", p.d.scope, p.from, p.at)
    BY <1>22 DEF d
  <2>5. QED
    BY <1>10, <1>19, <1>23, <2>1, <2>2, <2>3, <2>4 DEF DecideIs
<1>25. QED
  BY <1>3, <1>4, <1>24 DEF p

LEMMA ElementsAppend ==
  ASSUME NEW s, IsSeq(s), NEW x
  PROVE  IsSeq(Append(s, x)) /\ Elements(Append(s, x)) = Elements(s) \cup {x}
<1>1. PICK S : s \in Seq(S)
  BY DEF IsSeq
<1>2. s \in Seq(S \cup {x})
  BY <1>1, Widened
<1>3. /\ Append(s, x) \in Seq(S \cup {x}) /\ DOMAIN Append(s, x) = 1..(Len(s) + 1)
      /\ DOMAIN s = 1..Len(s) /\ Len(s) \in Nat
      /\ \A i \in 1..Len(s) : Append(s, x)[i] = s[i]
      /\ Append(s, x)[Len(s) + 1] = x
  BY <1>2
<1>4. \A y \in Elements(Append(s, x)) : y \in Elements(s) \cup {x}
  <2>1. SUFFICES ASSUME NEW i \in 1..(Len(s) + 1) PROVE Append(s, x)[i] \in Elements(s) \cup {x}
    BY <1>3 DEF Elements
  <2>2. i \in 1..Len(s) \/ i = Len(s) + 1
    BY <1>3
  <2>3. QED
    BY <1>3, <2>2 DEF Elements
<1>5. \A y \in Elements(s) \cup {x} : y \in Elements(Append(s, x))
  <2>1. x \in Elements(Append(s, x))
    <3>1. Len(s) + 1 \in DOMAIN Append(s, x)
      BY <1>3
    <3>2. QED
      BY <1>3, <3>1 DEF Elements
  <2>2. \A i \in 1..Len(s) : s[i] \in Elements(Append(s, x))
    <3>1. \A i \in 1..Len(s) : i \in DOMAIN Append(s, x) /\ Append(s, x)[i] = s[i]
      BY <1>3
    <3>2. QED
      BY <3>1 DEF Elements
  <2>3. QED
    BY <1>3, <2>1, <2>2 DEF Elements
<1>6. QED
  BY <1>3, <1>4, <1>5 DEF IsSeq

LEMMA AppendGrows ==
  ASSUME NEW s, IsSeq(s), NEW x
  PROVE  /\ Prefix(s, Append(s, x)) /\ Len(Append(s, x)) = Len(s) + 1
         /\ Append(s, x)[Len(s) + 1] = x
<1>1. PICK S : s \in Seq(S)
  BY DEF IsSeq
<1>2. s \in Seq(S \cup {x})
  BY <1>1, Widened
<1>3. /\ Append(s, x) \in Seq(S \cup {x}) /\ Len(Append(s, x)) = Len(s) + 1
      /\ Len(s) \in Nat
      /\ \A i \in 1..Len(s) : Append(s, x)[i] = s[i]
      /\ Append(s, x)[Len(s) + 1] = x
  BY <1>2
<1>4. QED
  BY <1>3 DEF Prefix, IsSeq

(* Nothing that is stored changes but by growing, and a new edge is heard  *)
(* of with a new version.                                                  *)
Grown ==
  /\ Prefix(names, names') /\ Injective(names') /\ Prefix(log, log')
  /\ IsSeq(edges') /\ Elements(edges) \subseteq Elements(edges')
  /\ \A x \in Elements(edges') : Joins(names', x)
  /\ \A x \in Elements(edges') \ Elements(edges) :
       \E i \in DOMAIN log' \ DOMAIN log : log'[i].at = x.at

NewWhole == \A i \in DOMAIN log' \ DOMAIN log : Whole(log', Elements(edges'), i)

LEMMA PrefixDomains ==
  ASSUME NEW s, NEW t, Prefix(s, t)
  PROVE  /\ Len(s) \in Nat /\ Len(t) \in Nat /\ Len(s) <= Len(t)
         /\ DOMAIN s = 1..Len(s) /\ DOMAIN t = 1..Len(t) /\ DOMAIN s \subseteq DOMAIN t
         /\ \A i \in DOMAIN s : t[i] = s[i]
         /\ DOMAIN t \ DOMAIN s = (Len(s) + 1)..Len(t)
<1>1. /\ Len(s) \in Nat /\ Len(t) \in Nat
      /\ DOMAIN s = 1..Len(s) /\ DOMAIN t = 1..Len(t)
  BY LengthOf DEF Prefix
<1>2. QED
  BY <1>1 DEF Prefix

LEMMA WholeKeeps ==
  ASSUME WholeInv, Grown, NewWhole
  PROVE  WholeInv'
<1>1. Later(log, log', Elements(edges), Elements(edges'))
  BY PrefixDomains DEF Later, Grown
<1>2. \A i \in DOMAIN log : Whole(log', Elements(edges'), i)
  BY <1>1, StillWhole DEF WholeInv
<1>3. \A i \in DOMAIN log' : Whole(log', Elements(edges'), i)
  BY <1>2 DEF NewWhole
<1>4. QED
  BY <1>3 DEF WholeInv

LEMMA OldJoin ==
  ASSUME DatedInv, Prefix(names, names')
  PROVE  \A x \in Elements(edges) : Joins(names', x)
BY StillJoins DEF DatedInv

LEMMA DecideGrows ==
  ASSUME LogInv, DatedInv, NEW c \in Clients, CommitDecide(c)
  PROVE  Grown /\ NewWhole
<1> DEFINE p == plan[c]
           d == p.d
           L == Len(log)
<1>1. Prefix(names, names') /\ Injective(names')
  BY DecideWrites
<1>2. PICK e, r, k, o : DecideIs(p, e, r, k, o)
  BY DecideWrites
<1>3. /\ d \in Decides /\ d.status \in Statuses /\ d.choice # Absent /\ d.scope # Absent
      /\ p.at \in 1..MaxClock /\ p.from \in 1..MaxClock
  <2>1. p.is = "decide" /\ Sane(p)
    BY DEF CommitDecide, DatedInv
  <2>2. QED
    BY <2>1, DecisionsAssumption DEF Sane
<1>4. /\ L \in Nat /\ DOMAIN log = 1..L /\ DOMAIN log' = 1..(L + r + k)
      /\ DOMAIN log' \ DOMAIN log = (L + 1)..(L + r + k) /\ r \in 0..1 /\ k \in 3..5
      /\ Prefix(log, log')
  BY <1>2, PrefixDomains DEF DecideIs
<1> DEFINE x == [new |-> e, old |-> o, from |-> p.from, at |-> p.at]
<1>5. /\ IsSeq(edges')
      /\ Elements(edges') = IF r = 1 /\ o # e THEN Elements(edges) \cup {x} ELSE Elements(edges)
  <2>1. IsSeq(edges)
    BY DEF DatedInv
  <2>2. edges' = IF r = 1 /\ o # e THEN Append(edges, x) ELSE edges
    BY <1>2 DEF DecideIs
  <2> HIDE DEF x
  <2>3. QED
    BY <2>1, <2>2, ElementsAppend
<1>6. r = 1 /\ o # e => Joins(names', x)
  <2>1. SUFFICES ASSUME r = 1, o # e PROVE Joins(names', x)
    OBVIOUS
  <2>2. e \in DOMAIN names' /\ o \in DOMAIN names'
    BY <1>1, <1>2, <2>1, PrefixDomains DEF DecideIs
  <2>3. p.from \in Nat /\ p.at \in Nat
    BY <1>3
  <2>4. QED
    BY <2>1, <2>2, <2>3 DEF Joins
<1>7. \A y \in Elements(edges') : Joins(names', y)
  BY <1>1, <1>5, <1>6, OldJoin
<1>8. /\ L + r + 1 \in DOMAIN log' \ DOMAIN log
      /\ log'[L + r + 1].at = p.at /\ log'[L + r + 1].from = p.from /\ log'[L + r + 1].e = e
      /\ log'[L + r + 1].attribute = "status" /\ log'[L + r + 1].value = d.status
  BY <1>2, <1>4 DEF DecideIs, Version
<1>9. Grown
  <2>1. \A y \in Elements(edges') \ Elements(edges) : y.at = p.at
    BY <1>5
  <2>2. QED
    BY <1>1, <1>4, <1>5, <1>7, <1>8, <2>1 DEF Grown
<1>10. /\ L + r + k \in DOMAIN log'
       /\ log'[L + r + k].at = p.at /\ log'[L + r + k].from = p.from /\ log'[L + r + k].e = e
       /\ log'[L + r + k].attribute = "scope" /\ log'[L + r + k].value = d.scope
  BY <1>2, <1>4 DEF DecideIs, Version
<1>11. d.status # "superseded" /\ d.status # Absent /\ "superseded" # Absent
  BY <1>3, DecisionsAssumption DEF Statuses
<1>12. ASSUME NEW i \in DOMAIN log' \ DOMAIN log
       PROVE  Whole(log', Elements(edges'), i)
  <2>1. \/ r = 1 /\ i = L + 1
        \/ i = L + r + 1 \/ i = L + r + 2 \/ i = L + r + k
        \/ \E j \in 3..(k - 1) : i = L + r + j
    <3>1. i - L - r \in 3..(k - 1) => \E j \in 3..(k - 1) : i = L + r + j
      <4>1. i = L + r + (i - L - r)
        BY <1>4
      <4>2. QED
        BY <4>1
    <3>2. QED
      BY <1>4, <3>1
  <2>2. CASE r = 1 /\ i = L + 1
    <3>1. /\ log'[i].e = o /\ log'[i].attribute = "status" /\ log'[i].value = "superseded"
          /\ log'[i].from = p.from /\ log'[i].at = p.at
      BY <1>2, <2>2 DEF DecideIs, Version
    <3>2. Accounted(log', Elements(edges'), i)
      <4>1. CASE o # e
        <5>1. x \in Elements(edges') /\ x.old = o /\ x.from = p.from /\ x.at = p.at
          BY <1>5, <2>2, <4>1
        <5>2. QED
          BY <3>1, <5>1 DEF Accounted
      <4>2. CASE o = e
        <5>1. Beside(log', i, L + r + 1) /\ i < L + r + 1
          BY <1>4, <1>8, <2>2, <3>1, <4>2 DEF Beside
        <5>2. QED
          BY <1>8, <1>11, <5>1 DEF Accounted
      <4>3. QED
        BY <4>1, <4>2
    <3>3. QED
      BY <1>3, <1>11, <3>1, <3>2 DEF Whole
  <2>3. CASE i = L + r + 1
    BY <1>3, <1>8, <1>11, <2>3 DEF Whole
  <2>4. CASE i = L + r + k
    BY <1>3, <1>10, <2>4 DEF Whole
  <2>5. CASE i = L + r + 2
    <3>1. /\ log'[i].e = e /\ log'[i].attribute = "choice" /\ log'[i].value = d.choice
          /\ log'[i].from = p.from /\ log'[i].at = p.at
      BY <1>2, <2>5 DEF DecideIs, Version
    <3>2. Beside(log', i, L + r + 1) /\ Beside(log', i, L + r + k)
      BY <1>8, <1>10, <3>1 DEF Beside
    <3>3. QED
      BY <1>3, <1>8, <1>10, <3>1, <3>2 DEF Whole
  <2>6. CASE \E j \in 3..(k - 1) : i = L + r + j
    <3>1. /\ log'[i].attribute \in {"because", "context"} /\ log'[i].from = p.from
          /\ log'[i].at = p.at
      BY <1>2, <2>6 DEF DecideIs
    <3>2. log'[i].attribute \notin {"status", "choice", "scope"}
      BY <3>1
    <3>3. QED
      BY <1>3, <3>1, <3>2 DEF Whole
  <2>7. QED
    BY <2>1, <2>2, <2>3, <2>4, <2>5, <2>6
<1>13. QED
  BY <1>9, <1>12 DEF NewWhole

LEMMA SameGrows ==
  ASSUME LogInv, DatedInv, names' = names, log' = log, edges' = edges
  PROVE  Grown /\ NewWhole
<1>1. Prefix(names, names) /\ Prefix(log, log)
  BY SameIs DEF LogInv, Named
<1>2. QED
  BY <1>1 DEF DatedInv, Grown, NewWhole

LEMMA OneGrows ==
  ASSUME LogInv, DatedInv, Prefix(names, names'), Injective(names'), edges' = edges,
         NEW w, log' = Append(log, w)
  PROVE  /\ Grown /\ DOMAIN log' \ DOMAIN log = {Len(log) + 1} /\ log'[Len(log) + 1] = w
         /\ Len(log) \in Nat /\ DOMAIN log = 1..Len(log)
<1>1. Prefix(log, log') /\ Len(log') = Len(log) + 1 /\ log'[Len(log) + 1] = w
  BY AppendGrows DEF LogInv, Named
<1>2. \A x \in Elements(edges') : Joins(names', x)
  BY OldJoin
<1>3. Grown
  BY <1>1, <1>2 DEF Grown, DatedInv
<1>4. /\ Len(log) \in Nat /\ DOMAIN log = 1..Len(log)
      /\ DOMAIN log' \ DOMAIN log = (Len(log) + 1)..(Len(log) + 1)
  BY <1>1, PrefixDomains
<1>5. QED
  BY <1>1, <1>3, <1>4

(* Noting: one version, or two.                                            *)
NoteIs(p, e, k) ==
  /\ k \in 1..2 /\ Prefix(log, log') /\ Len(log') = Len(log) + k
  /\ log'[Len(log) + 1] = Version(e, p.n.attribute, p.n.value, p.from, p.at)
  /\ k = 2 => /\ p.n.scope # Absent
              /\ log'[Len(log) + 2] = Version(e, "scope", p.n.scope, p.from, p.at)

LEMMA NoteWrites ==
  ASSUME LogInv, DatedInv, NEW c \in Clients, CommitNote(c)
  PROVE  /\ Prefix(names, names') /\ Injective(names') /\ edges' = edges /\ decided' = decided
         /\ plan[c].n \in Notes /\ plan[c].at \in 1..MaxClock /\ plan[c].from \in 1..MaxClock
         /\ \E e, k : NoteIs(plan[c], e, k)
<1> DEFINE p == plan[c]
           n == p.n
           e == IF Titled(n.title) = {} THEN Len(names) + 1 ELSE Lowest(Titled(n.title))
           fields == NoteFields(n)
           written == [i \in DOMAIN fields |->
                         Version(e, fields[i].attribute, fields[i].value, p.from, p.at)]
           k == Len(fields)
<1>1. /\ names' = IF e = Len(names) + 1 THEN Append(names, n.title) ELSE names
      /\ log' = log \o written /\ edges' = edges /\ decided' = decided
      /\ p.is = "note"
  BY DEF CommitNote, NoteFields
<1>2. IsSeq(names) /\ IsSeq(log) /\ Injective(names)
  BY DEF LogInv, Named, DatedInv
<1>3. Prefix(names, names') /\ Injective(names')
  <2> DEFINE title == n.title
             m == names'
  <2>1. /\ e = IF Titled(title) = {} THEN Len(names) + 1 ELSE Lowest(Titled(title))
        /\ m = IF e = Len(names) + 1 THEN Append(names, title) ELSE names
    BY <1>1
  <2> HIDE DEF e, title, m
  <2>2. Injective(m)
    BY <1>2, <2>1, AddressedOnce
  <2>3. Prefix(names, m)
    BY <1>2, <2>1, Addressed
  <2>4. QED
    BY <2>2, <2>3 DEF m
<1>4. n \in Notes /\ p.at \in 1..MaxClock /\ p.from \in 1..MaxClock
  <2>1. Sane(plan[c])
    BY DEF DatedInv
  <2>2. QED
    BY <1>1, <2>1 DEF Sane
<1>5. /\ IsSeq(fields) /\ k \in 1..2 /\ fields[1] = Field(n.attribute, n.value)
      /\ k = 2 => n.scope # Absent /\ fields[2] = Field("scope", n.scope)
  BY NoteFieldsAre
<1> HIDE DEF fields, e, n
<1>6. DOMAIN fields = 1..k
  BY <1>5, LengthOf
<1>7. /\ DOMAIN written = 1..k /\ written = [i \in 1..k |-> written[i]]
      /\ \A i \in 1..k : written[i] = Version(e, fields[i].attribute, fields[i].value, p.from, p.at)
  BY <1>6
<1> HIDE DEF written, k
<1>8. IsSeq(written) /\ Len(written) = k
  <2>1. k \in Nat
    BY <1>5
  <2>2. QED
    BY <1>7, <2>1, SequenceOf
<1>9. /\ IsSeq(log') /\ Len(log') = Len(log) + k
      /\ \A i \in 1..Len(log) : log'[i] = log[i]
      /\ \A i \in 1..k : log'[Len(log) + i] = written[i]
  <2>1. IsSeq(log') /\ Len(log') = Len(log) + Len(written)
    BY <1>1, <1>2, <1>8, Joined
  <2>2. \A i \in 1..Len(log) : log'[i] = log[i]
    BY <1>1, <1>2, <1>8, Joined
  <2>3. \A i \in 1..Len(written) : log'[Len(log) + i] = written[i]
    BY <1>1, <1>2, <1>8, Joined
  <2>4. QED
    BY <1>8, <2>1, <2>2, <2>3
<1>10. Prefix(log, log')
  <2>1. Len(log) \in Nat
    BY <1>2, LengthOf
  <2>2. QED
    BY <1>2, <1>5, <1>9, <2>1 DEF Prefix
<1>11. /\ log'[Len(log) + 1] = Version(e, n.attribute, n.value, p.from, p.at)
       /\ k = 2 => /\ n.scope # Absent
                   /\ log'[Len(log) + 2] = Version(e, "scope", n.scope, p.from, p.at)
  <2>1. 1 \in 1..k /\ (k = 2 => 2 \in 1..k)
    BY <1>5
  <2>2. QED
    BY <1>5, <1>7, <1>9, <2>1 DEF Field
<1>12. NoteIs(p, e, k)
  BY <1>5, <1>9, <1>10, <1>11 DEF NoteIs, n
<1>13. QED
  BY <1>1, <1>3, <1>4, <1>12 DEF p, n

LEMMA NoteGrows ==
  ASSUME LogInv, DatedInv, NEW c \in Clients, CommitNote(c)
  PROVE  /\ Grown /\ (NotesOfOtherThings => NewWhole)
         /\ NotesOfOtherThings =>
              \A i \in DOMAIN log' \ DOMAIN log : log'[i].attribute # "choice"
<1> DEFINE p == plan[c]
<1>1. /\ Prefix(names, names') /\ Injective(names') /\ edges' = edges
      /\ p.n \in Notes /\ p.at \in 1..MaxClock /\ p.from \in 1..MaxClock
  BY NoteWrites
<1>2. PICK e, k : NoteIs(p, e, k)
  BY NoteWrites
<1> HIDE DEF p
<1>3. /\ Prefix(log, log') /\ k \in 1..2 /\ Len(log) \in Nat
      /\ DOMAIN log' \ DOMAIN log = (Len(log) + 1)..(Len(log) + k)
  BY <1>2, PrefixDomains DEF NoteIs
<1>4. Grown
  <2>1. \A x \in Elements(edges') : Joins(names', x)
    BY <1>1, OldJoin
  <2>2. QED
    BY <1>1, <1>3, <2>1 DEF Grown, DatedInv
<1>5. ASSUME NotesOfOtherThings, NEW i \in DOMAIN log' \ DOMAIN log
      PROVE  Whole(log', Elements(edges'), i) /\ log'[i].attribute # "choice"
  <2>1. \/ i = Len(log) + 1
        \/ i = Len(log) + 2 /\ k = 2
    BY <1>3
  <2>2. CASE i = Len(log) + 1
    <3>1. /\ log'[i].attribute = p.n.attribute /\ log'[i].from = p.from /\ log'[i].at = p.at
      BY <1>2, <2>2 DEF NoteIs, Version
    <3>2. log'[i].attribute \notin {"status", "choice", "scope"}
      BY <1>1, <1>5, <3>1 DEF NotesOfOtherThings, DecisionFields
    <3>3. QED
      BY <1>1, <3>1, <3>2 DEF Whole
  <2>3. CASE i = Len(log) + 2 /\ k = 2
    <3>1. /\ log'[i].attribute = "scope" /\ log'[i].value = p.n.scope /\ p.n.scope # Absent
          /\ log'[i].from = p.from /\ log'[i].at = p.at
      BY <1>2, <2>3 DEF NoteIs, Version
    <3>2. QED
      BY <1>1, <3>1 DEF Whole
  <2>4. QED
    BY <2>1, <2>2, <2>3
<1>6. QED
  BY <1>4, <1>5 DEF NewWhole

LEMMA RescopeGrows ==
  ASSUME LogInv, DatedInv, WholeInv, NEW c \in Clients, CommitRescope(c)
  PROVE  Grown /\ NewWhole
<1> DEFINE r == plan[c].r
           at == plan[c].at
           e == Lowest(Titled(r.title))
           w == Version(e, "scope", r.scope, RescopedFrom(e, at), at)
<1>1. /\ \/ UNCHANGED stored
         \/ log' = Append(log, w) /\ UNCHANGED <<names, edges, decided>>
      /\ plan[c].is = "rescope"
  BY DEF CommitRescope
<1>2. r \in Rescopes /\ at \in 1..MaxClock /\ r.scope # Absent
  <2>1. Sane(plan[c])
    BY DEF DatedInv
  <2>2. QED
    BY <1>1, <2>1, DecisionsAssumption DEF Sane
<1>3. CASE UNCHANGED stored
  BY <1>3, SameGrows DEF stored
<1>4. CASE log' = Append(log, w) /\ UNCHANGED <<names, edges, decided>>
  <2>1. RescopedFrom(e, at) \in 1..MaxClock
    <3> DEFINE choices == Visible(e, "choice", At(MaxClock, MaxClock))
    <3>1. \/ RescopedFrom(e, at) = at
          \/ choices # {} /\ RescopedFrom(e, at) = log[Lowest(choices)].from
      BY DEF RescopedFrom
    <3>2. ASSUME choices # {}
          PROVE  log[Lowest(choices)].from \in 1..MaxClock
      <4>1. DOMAIN log = 1..Len(log) /\ Len(log) \in Nat
        BY LengthOf DEF LogInv, Named
      <4>2. choices \in SUBSET DOMAIN log
        BY DEF Visible
      <4>3. choices \in SUBSET Nat
        BY <4>1, <4>2
      <4> HIDE DEF choices
      <4>4. Lowest(choices) \in choices
        BY <3>2, <4>3, LowestIs
      <4>5. Whole(log, Elements(edges), Lowest(choices))
        BY <4>2, <4>4 DEF WholeInv
      <4>6. QED
        BY <4>5 DEF Whole
    <3>3. QED
      BY <1>2, <3>1, <3>2
  <2>2. /\ w.attribute = "scope" /\ w.from = RescopedFrom(e, at) /\ w.at = at
        /\ w.value = r.scope
    BY DEF Version
  <2>3. Prefix(names, names') /\ Injective(names') /\ edges' = edges
    <3>1. Prefix(names, names)
      BY SameIs DEF LogInv, Named
    <3>2. QED
      BY <1>4, <3>1 DEF DatedInv
  <2> HIDE DEF w, e, r, at
  <2>4. Grown /\ DOMAIN log' \ DOMAIN log = {Len(log) + 1} /\ log'[Len(log) + 1] = w
    BY <1>4, <2>3, OneGrows
  <2>5. Whole(log', Elements(edges'), Len(log) + 1)
    BY <1>2, <2>1, <2>2, <2>4 DEF Whole
  <2>6. QED
    BY <2>4, <2>5 DEF NewWhole
<1>5. QED
  BY <1>1, <1>3, <1>4

-----------------------------------------------------------------------------
(* The invariants, step by step                                            *)

LEMMA DoneDated ==
  ASSUME LogInv, DatedInv, Grown, NEW c \in Clients, Done(c)
  PROVE  DatedInv'
<1>1. clock' = clock /\ plan' = [plan EXCEPT ![c] = Idle] /\ DOMAIN plan = Clients
  BY DEF Done, LogInv
<1>2. Sane(Idle)
  BY DEF Sane, Idle
<1>3. \A d \in Clients : Sane(plan'[d])
  BY <1>1, <1>2 DEF DatedInv
<1>4. QED
  BY <1>1, <1>3 DEF DatedInv, Grown

LEMMA BeginDated ==
  ASSUME LogInv, DatedInv, NEW c \in Clients, NEW p, Begin(c, p), Sane(p)
  PROVE  DatedInv' /\ Grown /\ NewWhole
<1>1. /\ UNCHANGED <<clock, names, log, edges>> /\ plan' = [plan EXCEPT ![c] = p]
      /\ DOMAIN plan = Clients
  BY DEF Begin, stored, LogInv
<1>2. \A d \in Clients : Sane(plan'[d])
  BY <1>1 DEF DatedInv
<1>3. QED
  BY <1>1, <1>2, SameGrows DEF DatedInv, Injective

LEMMA DatedStep ==
  ASSUME LogInv, DatedInv, WholeInv, [Next]_vars
  PROVE  DatedInv' /\ Grown /\ (NotesOfOtherThings => NewWhole)
<1>1. CASE Tick
  <2>1. UNCHANGED <<plan, names, log, edges>> /\ clock' \in 1..MaxClock
    BY <1>1, DecisionsAssumption DEF Tick, stored, DatedInv
  <2>2. QED
    BY <2>1, SameGrows DEF DatedInv, Injective
<1>2. CASE UNCHANGED vars
  <2>1. UNCHANGED <<clock, plan, names, log, edges>>
    BY <1>2 DEF vars, stored
  <2>2. QED
    BY <2>1, SameGrows DEF DatedInv, Injective
<1>3. ASSUME NEW c \in Clients, NEW d \in Decides, PlanDecide(c, d)
      PROVE  DatedInv' /\ Grown /\ NewWhole
  <2> DEFINE p == [is |-> "decide", d |-> d, at |-> clock,
                   from |-> IF d.from = 0 THEN clock ELSE d.from]
  <2>1. Begin(c, p) /\ d.choice # Absent /\ d.status \in Statuses
    BY <1>3 DEF PlanDecide
  <2>2. clock \in 1..MaxClock /\ d.from \in 0..MaxClock /\ MaxClock \in Nat
    BY DecisionsAssumption DEF DatedInv
  <2>3. (IF d.from = 0 THEN clock ELSE d.from) \in 1..MaxClock
    BY <2>2
  <2>4. Sane(p)
    BY <2>1, <2>2, <2>3 DEF Sane
  <2>5. QED
    BY <2>1, <2>4, BeginDated
<1>4. ASSUME NEW c \in Clients, NEW r \in Rescopes, PlanRescope(c, r)
      PROVE  DatedInv' /\ Grown /\ NewWhole
  <2> DEFINE p == [is |-> "rescope", r |-> r, at |-> clock]
  <2>1. Begin(c, p)
    BY <1>4 DEF PlanRescope
  <2>2. Sane(p)
    BY DEF Sane, DatedInv
  <2>3. QED
    BY <2>1, <2>2, BeginDated
<1>5. ASSUME NEW c \in Clients, NEW n \in Notes, PlanNote(c, n)
      PROVE  DatedInv' /\ Grown /\ NewWhole
  <2> DEFINE p == [is |-> "note", n |-> n, at |-> clock,
                   from |-> IF n.from = 0 THEN clock ELSE n.from]
  <2>1. Begin(c, p)
    BY <1>5 DEF PlanNote
  <2>2. clock \in 1..MaxClock /\ n.from \in 0..MaxClock /\ MaxClock \in Nat
    BY DecisionsAssumption DEF DatedInv
  <2>3. (IF n.from = 0 THEN clock ELSE n.from) \in 1..MaxClock
    BY <2>2
  <2>4. Sane(p)
    BY <2>2, <2>3 DEF Sane
  <2>5. QED
    BY <2>1, <2>4, BeginDated
<1>6. ASSUME NEW c \in Clients, PlanReindex(c)
      PROVE  DatedInv' /\ Grown /\ NewWhole
  <2> DEFINE p == [is |-> "reindex", texts |-> Rebuilt]
  <2>1. Begin(c, p)
    BY <1>6 DEF PlanReindex
  <2>2. Sane(p)
    BY DEF Sane
  <2>3. QED
    BY <2>1, <2>2, BeginDated
<1>7. ASSUME NEW c \in Clients, CommitDecide(c)
      PROVE  DatedInv' /\ Grown /\ NewWhole
  <2>1. Done(c)
    BY <1>7 DEF CommitDecide
  <2>2. QED
    BY <1>7, <2>1, DecideGrows, DoneDated
<1>8. ASSUME NEW c \in Clients, CommitRescope(c)
      PROVE  DatedInv' /\ Grown /\ NewWhole
  <2>1. Done(c)
    BY <1>8 DEF CommitRescope
  <2>2. QED
    BY <1>8, <2>1, RescopeGrows, DoneDated
<1>9. ASSUME NEW c \in Clients, CommitNote(c)
      PROVE  DatedInv' /\ Grown /\ (NotesOfOtherThings => NewWhole)
  <2>1. Done(c)
    BY <1>9 DEF CommitNote
  <2>2. QED
    BY <1>9, <2>1, NoteGrows, DoneDated
<1>10. ASSUME NEW c \in Clients, CommitReindex(c)
       PROVE  DatedInv' /\ Grown /\ NewWhole
  <2>1. Done(c) /\ UNCHANGED <<names, log, edges>>
    BY <1>10 DEF CommitReindex
  <2>2. QED
    BY <2>1, SameGrows, DoneDated
<1>11. QED
  BY <1>1, <1>2, <1>3, <1>4, <1>5, <1>6, <1>7, <1>8, <1>9, <1>10 DEF Next

(* What was recorded before scopes existed: a status and a choice of each. *)
LegacyLog(n) ==
  \A e \in 1..n : /\ log[2 * e - 1] = Version(e, "status", "accepted", 1, 1)
                  /\ log[2 * e] = Version(e, "choice", names[e], 1, 1)

LEMMA InitLegacy ==
  ASSUME Init
  PROVE  \E n \in Nat : /\ IsSeq(names) /\ DOMAIN names = 1..n /\ Injective(names)
                        /\ \A e \in 1..n : names[e] # Absent
                        /\ DOMAIN log = 1..(2 * n) /\ LegacyLog(n)
                        /\ \A i \in 1..(2 * n) : \E e \in 1..n : i = 2 * e - 1 \/ i = 2 * e
<1> DEFINE n == Cardinality(Legacy)
<1>1. n \in Nat
  BY DecisionsAssumption, FS_CardinalityType
<1>2. names \in [1..n -> Legacy] /\ Elements(names) = Legacy
  BY DEF Init
<1>21. IsFiniteSet(1..n) /\ Cardinality(1..n) = n
  <2> DEFINE m == n
  <2>1. m \in Nat
    BY <1>1
  <2> HIDE DEF m
  <2>2. IsFiniteSet(1..m) /\ Cardinality(1..m) = m
    BY <2>1, FS_Interval
  <2>3. QED
    BY <2>2 DEF m
<1>3. Injective(names)
  <2>1. names \in Surjection(1..n, Legacy)
    BY <1>2 DEF Surjection, Elements
  <2>2. names \in Injection(1..n, Legacy)
    BY <1>21, <2>1, FS_SurjSameCardinalityImpliesInj
  <2>3. QED
    BY <1>2, <2>2 DEF Injection, IsInjective, Injective
<1> HIDE DEF n
<1>4. names \in Seq(Legacy) /\ Len(names) = n /\ DOMAIN names = 1..n
  BY <1>1, <1>2
<1>5. \A e \in 1..n : names[e] # Absent
  BY <1>2, DecisionsAssumption
<1>6. /\ DOMAIN log = 1..(2 * n)
      /\ \A i \in 1..(2 * n) :
           log[i] = IF i % 2 = 1 THEN Version((i + 1) \div 2, "status", "accepted", 1, 1)
                    ELSE Version(i \div 2, "choice", names[i \div 2], 1, 1)
  BY <1>4 DEF Init
<1>7. LegacyLog(n)
  <2>1. SUFFICES ASSUME NEW e \in 1..n
                 PROVE  /\ log[2 * e - 1] = Version(e, "status", "accepted", 1, 1)
                        /\ log[2 * e] = Version(e, "choice", names[e], 1, 1)
    BY DEF LegacyLog
  <2>2. /\ 2 * e - 1 \in 1..(2 * n) /\ 2 * e \in 1..(2 * n)
        /\ (2 * e - 1) % 2 = 1 /\ (2 * e) % 2 # 1
        /\ ((2 * e - 1) + 1) \div 2 = e /\ (2 * e) \div 2 = e
    BY <1>1
  <2>3. QED
    BY <1>6, <2>2
<1>8. ASSUME NEW i \in 1..(2 * n)
      PROVE  \E e \in 1..n : i = 2 * e - 1 \/ i = 2 * e
  <2>1. CASE i % 2 = 1
    <3>1. (i + 1) \div 2 \in 1..n /\ i = 2 * ((i + 1) \div 2) - 1
      BY <1>1, <2>1
    <3>2. QED
      BY <3>1
  <2>2. CASE i % 2 # 1
    <3>1. i \div 2 \in 1..n /\ i = 2 * (i \div 2)
      BY <1>1, <2>2
    <3>2. QED
      BY <3>1
  <2>3. QED
    BY <2>1, <2>2
<1>9. IsSeq(names)
  BY <1>4 DEF IsSeq
<1>10. QED
  BY <1>1, <1>3, <1>4, <1>5, <1>6, <1>7, <1>8, <1>9

LEMMA InitDated == Init => DatedInv /\ WholeInv
<1> SUFFICES ASSUME Init PROVE DatedInv /\ WholeInv
  OBVIOUS
<1>1. PICK n \in Nat : /\ IsSeq(names) /\ DOMAIN names = 1..n /\ Injective(names)
                       /\ \A e \in 1..n : names[e] # Absent
                       /\ DOMAIN log = 1..(2 * n) /\ LegacyLog(n)
                       /\ \A i \in 1..(2 * n) : \E e \in 1..n : i = 2 * e - 1 \/ i = 2 * e
  BY InitLegacy
<1>2. clock \in 1..MaxClock /\ 1 \in 1..MaxClock
  BY DecisionsAssumption DEF Init
<1>3. \A c \in Clients : Sane(plan[c])
  BY DEF Init, Idle, Sane
<1>4. IsSeq(edges) /\ Elements(edges) = {}
  <2>1. edges = <<>>
    BY DEF Init
  <2>2. QED
    BY <2>1, EmptyIs DEF Elements
<1>5. DatedInv
  BY <1>1, <1>2, <1>3, <1>4 DEF DatedInv
<1>6. ASSUME NEW i \in DOMAIN log
      PROVE  Whole(log, Elements(edges), i)
  <2>1. PICK e \in 1..n : i = 2 * e - 1 \/ i = 2 * e
    BY <1>1
  <2>2. /\ log[2 * e - 1] = Version(e, "status", "accepted", 1, 1)
        /\ log[2 * e] = Version(e, "choice", names[e], 1, 1)
        /\ names[e] # Absent
    BY <1>1 DEF LegacyLog
  <2>3. 2 * e - 1 \in DOMAIN log
    BY <1>1
  <2>4. CASE i = 2 * e - 1
    <3>1. "accepted" # Absent /\ "accepted" # "superseded"
      BY DecisionsAssumption DEF Statuses
    <3>2. QED
      BY <1>2, <2>2, <2>4, <3>1 DEF Whole, Version
  <2>5. CASE i = 2 * e
    <3>1. Beside(log, i, 2 * e - 1) /\ log[2 * e - 1].attribute = "status"
      BY <2>2, <2>5 DEF Beside, Version
    <3>2. /\ log[i].attribute = "choice" /\ log[i].from = 1 /\ log[i].at = 1
          /\ log[i].value # Absent
      BY <2>2, <2>5 DEF Version
    <3>3. QED
      BY <1>2, <2>3, <3>1, <3>2 DEF Whole
  <2>6. QED
    BY <2>1, <2>4, <2>5
<1>7. QED
  BY <1>5, <1>6 DEF WholeInv

-----------------------------------------------------------------------------
(* Chains                                                                  *)

LEMMA Climbs ==
  ASSUME NEW S, 0 \in S, \A n \in Nat : n \in S => n + 1 \in S
  PROVE  Nat \subseteq S
<1> SUFFICES ASSUME NEW m \in Nat \ S PROVE FALSE
  OBVIOUS
<1> DEFINE T == Nat \ S
<1>1. T \in SUBSET Nat /\ T # {}
  OBVIOUS
<1> HIDE DEF T
<1>2. Lowest(T) \in T /\ \A y \in T : Lowest(T) <= y
  BY <1>1, LowestIs
<1>3. Lowest(T) \in Nat /\ Lowest(T) \notin S /\ Lowest(T) # 0
  BY <1>2 DEF T
<1>4. Lowest(T) - 1 \in Nat /\ Lowest(T) - 1 \notin T
  BY <1>2, <1>3
<1>5. Lowest(T) - 1 \in S
  BY <1>4 DEF T
<1>6. (Lowest(T) - 1) + 1 \in S
  BY <1>4, <1>5
<1>7. QED
  BY <1>3, <1>6

(* Where a way leads from e among edges X.                                 *)
BeyondIn(X, e, way, at) ==
  IF way = "forward" THEN {x.new : x \in {y \in X : y.old = e /\ InForce(y, at)}}
                     ELSE {x.old : x \in {y \in X : y.new = e /\ InForce(y, at)}}

Onward(X, path, way, at) == BeyondIn(X, path[Len(path)], way, at)

(* The walk has nowhere to go, or only to where it has been.               *)
Stops(X, path, way, at) ==
  Onward(X, path, way, at) = {} \/ Lowest(Onward(X, path, way, at)) \in Elements(path)

IsWalkOver(f, S, X, way, at) ==
  f = [path \in S |-> IF Stops(X, path, way, at) THEN Tail(path)
                      ELSE f[Append(path, Lowest(Onward(X, path, way, at)))]]

Left(n, path) == Cardinality((1..n) \ Elements(path))

(* Edges among the first n entities.                                       *)
Within(X, n) == \A x \in X : x.new \in 1..n /\ x.old \in 1..n

LEMMA OnwardWithin ==
  ASSUME NEW n \in Nat, NEW X, Within(X, n), NEW path, NEW way, NEW at,
         ~Stops(X, path, way, at)
  PROVE  /\ Lowest(Onward(X, path, way, at)) \in (1..n) \ Elements(path)
<1> DEFINE N == Onward(X, path, way, at)
<1>1. N # {} /\ Lowest(N) \notin Elements(path)
  BY DEF Stops
<1>2. N \subseteq 1..n
  BY DEF Onward, BeyondIn, Within
<1>3. N \in SUBSET Nat
  BY <1>2
<1> HIDE DEF N
<1>4. Lowest(N) \in N
  BY <1>1, <1>3, LowestIs
<1>5. QED
  BY <1>1, <1>2, <1>4 DEF N

LEMMA LeftIs ==
  ASSUME NEW n \in Nat, NEW path \in Seq(1..n)
  PROVE  Left(n, path) \in Nat /\ Left(n, path) <= n
<1>1. IsFiniteSet(1..n) /\ Cardinality(1..n) = n
  BY FS_Interval
<1>2. (1..n) \ Elements(path) \subseteq 1..n
  OBVIOUS
<1>3. /\ IsFiniteSet((1..n) \ Elements(path))
      /\ Cardinality((1..n) \ Elements(path)) <= Cardinality(1..n)
  BY <1>1, <1>2, FS_Subset
<1>4. Cardinality((1..n) \ Elements(path)) \in Nat
  BY <1>3, FS_CardinalityType
<1>5. QED
  BY <1>1, <1>3, <1>4 DEF Left

(* Each step visits one more.                                              *)
LEMMA OneLess ==
  ASSUME NEW n \in Nat, NEW path \in Seq(1..n), NEW y \in (1..n) \ Elements(path)
  PROVE  Append(path, y) \in Seq(1..n) /\ Left(n, Append(path, y)) = Left(n, path) - 1
<1> DEFINE R == (1..n) \ Elements(path)
<1>1. IsSeq(path)
  BY DEF IsSeq
<1>2. Elements(Append(path, y)) = Elements(path) \cup {y}
  BY <1>1, ElementsAppend
<1>3. IsFiniteSet(R)
  <2>1. IsFiniteSet(1..n)
    BY FS_Interval
  <2>2. R \subseteq 1..n
    OBVIOUS
  <2>3. QED
    BY <2>1, <2>2, FS_Subset
<1>4. y \in R
  OBVIOUS
<1>5. (1..n) \ Elements(Append(path, y)) = R \ {y}
  BY <1>2
<1> HIDE DEF R
<1>6. Cardinality(R \ {y}) = Cardinality(R) - 1
  BY <1>3, <1>4, FS_RemoveElement
<1>7. Append(path, y) \in Seq(1..n)
  BY DEF R
<1>8. QED
  BY <1>5, <1>6, <1>7 DEF Left, R

(* The paths a walk has fewer than m entities left to visit on.            *)
Near(n, m) == {path \in Seq(1..n) : Left(n, path) < m}

LEMMA WalkExists ==
  ASSUME NEW n \in Nat, NEW X, Within(X, n), NEW way, NEW at
  PROVE  \E f : IsWalkOver(f, Seq(1..n), X, way, at)
<1> DEFINE S == {m \in Nat : \E f : IsWalkOver(f, Near(n, m), X, way, at)}
<1>1. 0 \in S
  <2>1. Near(n, 0) = {}
    BY LeftIs DEF Near
  <2> DEFINE f == [path \in {} |-> path]
  <2>2. f = [path \in {} |-> IF Stops(X, path, way, at) THEN Tail(path)
                             ELSE f[Append(path, Lowest(Onward(X, path, way, at)))]]
    OBVIOUS
  <2>3. IsWalkOver(f, Near(n, 0), X, way, at)
    BY <2>1, <2>2 DEF IsWalkOver
  <2> HIDE DEF f
  <2>4. QED
    BY <2>3
<1>2. ASSUME NEW m \in Nat, m \in S
      PROVE  m + 1 \in S
  <2>1. PICK f : IsWalkOver(f, Near(n, m), X, way, at)
    BY <1>2
  <2> DEFINE next(path) == Lowest(Onward(X, path, way, at))
             g == [path \in Near(n, m + 1) |->
                     IF Stops(X, path, way, at) THEN Tail(path) ELSE f[Append(path, next(path))]]
  <2>2. ASSUME NEW path \in Near(n, m)
        PROVE  /\ path \in Near(n, m + 1)
               /\ f[path] = IF Stops(X, path, way, at) THEN Tail(path)
                            ELSE f[Append(path, next(path))]
    <3>1. path \in Near(n, m + 1)
      BY LeftIs DEF Near
    <3>2. QED
      BY <2>1, <3>1 DEF IsWalkOver
  <2>3. \A path \in Near(n, m) : g[path] = f[path]
    BY <2>2
  <2>4. ASSUME NEW path \in Near(n, m + 1), ~Stops(X, path, way, at)
        PROVE  Append(path, next(path)) \in Near(n, m)
    <3> DEFINE y == next(path)
    <3>1. y \in (1..n) \ Elements(path)
      BY <2>4, OnwardWithin
    <3>2. path \in Seq(1..n) /\ Left(n, path) < m + 1
      BY DEF Near
    <3> HIDE DEF y
    <3>3. Append(path, y) \in Seq(1..n) /\ Left(n, Append(path, y)) = Left(n, path) - 1
      BY <3>1, <3>2, OneLess
    <3>4. Left(n, path) \in Nat
      BY <3>2, LeftIs
    <3>5. QED
      BY <3>2, <3>3, <3>4 DEF Near, y
  <2>5. \A path \in Near(n, m + 1) :
          g[path] = IF Stops(X, path, way, at) THEN Tail(path) ELSE g[Append(path, next(path))]
    BY <2>3, <2>4
  <2>6. g = [path \in Near(n, m + 1) |-> g[path]]
    OBVIOUS
  <2> HIDE DEF g
  <2>7. g = [path \in Near(n, m + 1) |->
               IF Stops(X, path, way, at) THEN Tail(path) ELSE g[Append(path, next(path))]]
    BY <2>5, <2>6
  <2>8. IsWalkOver(g, Near(n, m + 1), X, way, at)
    BY <2>7 DEF IsWalkOver
  <2>9. QED
    BY <2>8
<1>3. n + 1 \in S
  <2> HIDE DEF S
  <2>1. Nat \subseteq S
    BY <1>1, <1>2, Climbs
  <2>2. QED
    BY <2>1
<1>4. Near(n, n + 1) = Seq(1..n)
  BY LeftIs DEF Near
<1>5. QED
  BY <1>3, <1>4

(* It does not matter how many more entities there are.                    *)
LEMMA WalkUnique ==
  ASSUME NEW n \in Nat, NEW m \in Nat, n <= m, NEW X, Within(X, n), NEW Y, NEW way, NEW at,
         \A e : BeyondIn(X, e, way, at) = BeyondIn(Y, e, way, at),
         NEW f, IsWalkOver(f, Seq(1..n), X, way, at),
         NEW g, IsWalkOver(g, Seq(1..m), Y, way, at)
  PROVE  \A path \in Seq(1..n) : f[path] = g[path]
<1> DEFINE S == {k \in Nat : \A path \in Near(n, k) : f[path] = g[path]}
           next(path) == Lowest(Onward(X, path, way, at))
<1>1. Near(n, 0) = {}
  BY LeftIs DEF Near
<1>2. 0 \in S
  BY <1>1
<1>3. \A path : Onward(X, path, way, at) = Onward(Y, path, way, at)
  BY DEF Onward
<1>4. \A path : Stops(X, path, way, at) <=> Stops(Y, path, way, at)
  BY <1>3 DEF Stops
<1>5. ASSUME NEW path \in Seq(1..n)
      PROVE  /\ f[path] = IF Stops(X, path, way, at) THEN Tail(path) ELSE f[Append(path, next(path))]
             /\ g[path] = IF Stops(X, path, way, at) THEN Tail(path) ELSE g[Append(path, next(path))]
  <2>1. path \in Seq(1..m)
    <3>1. 1..n \subseteq 1..m
      OBVIOUS
    <3>2. QED
      BY <3>1
  <2>2. f[path] = IF Stops(X, path, way, at) THEN Tail(path) ELSE f[Append(path, next(path))]
    BY DEF IsWalkOver
  <2>3. g[path] = IF Stops(Y, path, way, at) THEN Tail(path)
                  ELSE g[Append(path, Lowest(Onward(Y, path, way, at)))]
    BY <2>1 DEF IsWalkOver
  <2>4. Stops(X, path, way, at) <=> Stops(Y, path, way, at)
    BY <1>4
  <2>5. next(path) = Lowest(Onward(Y, path, way, at))
    BY <1>3
  <2> HIDE DEF next
  <2>6. QED
    BY <2>2, <2>3, <2>4, <2>5
<1>6. ASSUME NEW k \in Nat, k \in S
      PROVE  k + 1 \in S
  <2>1. SUFFICES ASSUME NEW path \in Near(n, k + 1) PROVE f[path] = g[path]
    OBVIOUS
  <2>2. path \in Seq(1..n) /\ Left(n, path) < k + 1
    BY DEF Near
  <2>3. CASE Stops(X, path, way, at)
    BY <1>5, <2>2, <2>3
  <2>4. CASE ~Stops(X, path, way, at)
    <3> DEFINE y == next(path)
    <3>1. y \in (1..n) \ Elements(path)
      BY <2>4, OnwardWithin
    <3>2. f[path] = f[Append(path, y)] /\ g[path] = g[Append(path, y)]
      BY <1>5, <2>2, <2>4
    <3> HIDE DEF y
    <3>3. Append(path, y) \in Seq(1..n) /\ Left(n, Append(path, y)) = Left(n, path) - 1
      BY <2>2, <3>1, OneLess
    <3>4. Left(n, path) \in Nat
      BY <2>2, LeftIs
    <3>5. Append(path, y) \in Near(n, k)
      BY <2>2, <3>3, <3>4 DEF Near
    <3>6. f[Append(path, y)] = g[Append(path, y)]
      BY <1>6, <3>5
    <3>7. QED
      BY <3>2, <3>6
  <2>5. QED
    BY <2>3, <2>4
<1>7. n + 1 \in S
  <2> HIDE DEF S
  <2>1. Nat \subseteq S
    BY <1>2, <1>6, Climbs
  <2>2. QED
    BY <2>1
<1>8. Near(n, n + 1) = Seq(1..n)
  BY LeftIs DEF Near
<1>9. QED
  BY <1>7, <1>8

(* A walk keeps where it first went.                                       *)
LEMMA WalkHeads ==
  ASSUME NEW n \in Nat, NEW X, Within(X, n), NEW way, NEW at,
         NEW f, IsWalkOver(f, Seq(1..n), X, way, at)
  PROVE  \A path \in Seq(1..n) : Len(path) >= 2 => f[path] # <<>> /\ f[path][1] = path[2]
<1> DEFINE S == {k \in Nat : \A path \in Near(n, k) :
                   Len(path) >= 2 => f[path] # <<>> /\ f[path][1] = path[2]}
<1>1. Near(n, 0) = {}
  BY LeftIs DEF Near
<1>2. 0 \in S
  BY <1>1
<1>3. ASSUME NEW k \in Nat, k \in S
      PROVE  k + 1 \in S
  <2>1. SUFFICES ASSUME NEW path \in Near(n, k + 1), Len(path) >= 2
                 PROVE  f[path] # <<>> /\ f[path][1] = path[2]
    OBVIOUS
  <2>2. path \in Seq(1..n) /\ Left(n, path) < k + 1
    BY DEF Near
  <2> DEFINE y == Lowest(Onward(X, path, way, at))
  <2>3. f[path] = IF Stops(X, path, way, at) THEN Tail(path) ELSE f[Append(path, y)]
    BY <2>2 DEF IsWalkOver
  <2>4. CASE Stops(X, path, way, at)
    <3>1. f[path] = Tail(path)
      BY <2>3, <2>4
    <3>2. Len(Tail(path)) = Len(path) - 1 /\ Tail(path)[1] = path[2] /\ Tail(path) \in Seq(1..n)
      BY <2>1, <2>2
    <3>3. Tail(path) # <<>>
      <4>1. Len(path) \in Nat
        BY <2>2
      <4>2. Len(Tail(path)) # 0
        BY <2>1, <3>2, <4>1
      <4>3. QED
        BY <4>2, EmptyIs
    <3>4. QED
      BY <3>1, <3>2, <3>3
  <2>5. CASE ~Stops(X, path, way, at)
    <3>1. y \in (1..n) \ Elements(path)
      BY <2>5, OnwardWithin
    <3>2. f[path] = f[Append(path, y)]
      BY <2>3, <2>5
    <3> HIDE DEF y
    <3>3. Append(path, y) \in Seq(1..n) /\ Left(n, Append(path, y)) = Left(n, path) - 1
      BY <2>2, <3>1, OneLess
    <3>4. Left(n, path) \in Nat
      BY <2>2, LeftIs
    <3>5. Append(path, y) \in Near(n, k)
      BY <2>2, <3>3, <3>4 DEF Near
    <3>6. Len(Append(path, y)) >= 2 /\ Append(path, y)[2] = path[2]
      BY <2>1, <2>2, <3>1
    <3>7. QED
      BY <1>3, <3>2, <3>5, <3>6
  <2>6. QED
    BY <2>4, <2>5
<1>4. n + 1 \in S
  <2> HIDE DEF S
  <2>1. Nat \subseteq S
    BY <1>2, <1>3, Climbs
  <2>2. QED
    BY <2>1
<1>5. Near(n, n + 1) = Seq(1..n)
  BY LeftIs DEF Near
<1>6. QED
  BY <1>4, <1>5

LEMMA ChainIs ==
  ASSUME LogInv, DatedInv, NEW way, NEW at
  PROVE  \E f : /\ IsWalkOver(f, Seq(1..Len(names)), Elements(edges), way, at)
                /\ \A e : Chain(e, way, at) = f[<<e>>]
<1> DEFINE n == Len(names)
           X == Elements(edges)
           F == CHOOSE f : IsWalkOver(f, Seq(1..n), X, way, at)
<1>1. n \in Nat /\ DOMAIN names = 1..n
  BY LengthOf DEF LogInv, Named
<1>2. Within(X, n)
  BY <1>1 DEF DatedInv, Joins, Within
<1>3. \E f : IsWalkOver(f, Seq(1..n), X, way, at)
  <2> HIDE DEF n, X
  <2>1. QED
    BY <1>1, <1>2, WalkExists
<1>4. IsWalkOver(F, Seq(1..n), X, way, at)
  <2> HIDE DEF n, X
  <2>1. QED
    BY <1>3
<1>5. \A e : Beyond(e, way, at) = BeyondIn(X, e, way, at)
  BY DEF Beyond, BeyondIn, Superseders, Superseded
<1>6. ASSUME NEW e
      PROVE  Chain(e, way, at) = F[<<e>>]
  <2> DEFINE Body(g) == [path \in Seq(DOMAIN names) |->
                LET next == Beyond(path[Len(path)], way, at)
                IN IF next = {} THEN Tail(path)
                   ELSE IF Lowest(next) \in Elements(path) THEN Tail(path)
                   ELSE g[Append(path, Lowest(next))]]
  <2>1. ASSUME NEW g
        PROVE  g = Body(g) <=> IsWalkOver(g, Seq(1..n), X, way, at)
    <3> DEFINE B(path) == IF Stops(X, path, way, at) THEN Tail(path)
                          ELSE g[Append(path, Lowest(Onward(X, path, way, at)))]
    <3>1. ASSUME NEW path \in Seq(DOMAIN names)
          PROVE  Body(g)[path] = B(path)
      <4>1. Beyond(path[Len(path)], way, at) = Onward(X, path, way, at)
        BY <1>5 DEF Onward
      <4>2. Body(g)[path] = LET next == Onward(X, path, way, at)
                            IN IF next = {} THEN Tail(path)
                               ELSE IF Lowest(next) \in Elements(path) THEN Tail(path)
                               ELSE g[Append(path, Lowest(next))]
        BY <4>1
      <4> HIDE DEF Body, X
      <4>3. QED
        BY <4>2 DEF Stops
    <3>2. Body(g) = [path \in Seq(DOMAIN names) |-> Body(g)[path]]
      OBVIOUS
    <3> HIDE DEF Body, B
    <3>3. Body(g) = [path \in Seq(1..n) |-> B(path)]
      BY <1>1, <3>1, <3>2
    <3>4. QED
      BY <3>3 DEF IsWalkOver, B
  <2>2. Chain(e, way, at) = (CHOOSE g : g = Body(g))[<<e>>]
    BY DEF Chain
  <2>3. (CHOOSE g : g = Body(g)) = F
    <3> HIDE DEF Body
    <3>1. QED
      BY <2>1, Zenon
  <2>4. QED
    BY <2>2, <2>3
<1>7. QED
  BY <1>4, <1>6

ChainsAreWalks ==
  \A way, at : \E f : /\ IsWalkOver(f, Seq(1..Len(names)), Elements(edges), way, at)
                      /\ \A e : Chain(e, way, at) = f[<<e>>]

LEMMA AllChains == LogInv /\ DatedInv => ChainsAreWalks
BY ChainIs DEF ChainsAreWalks

-----------------------------------------------------------------------------
(* What is told later                                                      *)

(* All that is new is heard of after at.                                   *)
HeardAfter(at) == \A i \in DOMAIN log' \ DOMAIN log : log'[i].at > at.tx

LEMMA VisibleStays ==
  ASSUME Grown, NEW at \in Points, HeardAfter(at), WholeInv', NEW e, NEW attribute
  PROVE  Visible(e, attribute, at)' = Visible(e, attribute, at)
<1>1. /\ DOMAIN log \subseteq DOMAIN log' /\ \A i \in DOMAIN log : log'[i] = log[i]
  BY PrefixDomains DEF Grown
<1>2. \A i \in DOMAIN log' \ DOMAIN log : ~(log'[i].at <= at.tx)
  <2>1. SUFFICES ASSUME NEW i \in DOMAIN log' \ DOMAIN log PROVE ~(log'[i].at <= at.tx)
    OBVIOUS
  <2>2. Whole(log', Elements(edges'), i)
    BY DEF WholeInv
  <2>3. log'[i].at \in Nat /\ at.tx \in Nat /\ log'[i].at > at.tx
    BY <2>2, DecisionsAssumption DEF Whole, Points, HeardAfter
  <2>4. QED
    BY <2>3
<1>3. QED
  BY <1>1, <1>2 DEF Visible

LEMMA HeldIs ==
  ASSUME LogInv, NEW e, NEW attribute, NEW at, Visible(e, attribute, at) # {}
  PROVE  /\ Highest(Visible(e, attribute, at)) \in Visible(e, attribute, at)
         /\ \A i \in Visible(e, attribute, at) : i <= Highest(Visible(e, attribute, at))
         /\ Held(e, attribute, at) = log[Highest(Visible(e, attribute, at))].value
<1> DEFINE S == Visible(e, attribute, at)
<1>1. Len(log) \in Nat /\ DOMAIN log = 1..Len(log)
  BY LengthOf DEF LogInv, Named
<1>2. S \in SUBSET (1..Len(log)) /\ S # {}
  BY <1>1 DEF Visible
<1>3. Held(e, attribute, at) = log[Highest(S)].value
  BY DEF Held
<1> HIDE DEF S
<1>4. Highest(S) \in S /\ \A i \in S : i <= Highest(S)
  BY <1>1, <1>2, HighestIs
<1>5. QED
  BY <1>3, <1>4 DEF S

LEMMA HeldStays ==
  ASSUME LogInv, Grown, NEW at \in Points, HeardAfter(at), WholeInv', NEW e, NEW attribute
  PROVE  Held(e, attribute, at)' = Held(e, attribute, at)
<1> DEFINE S == Visible(e, attribute, at)
<1>1. S' = S
  BY VisibleStays
<1>2. CASE S = {}
  BY <1>1, <1>2 DEF Held
<1>3. CASE S # {}
  <2>1. Highest(S) \in DOMAIN log
    <3>1. Highest(S) \in S
      BY <1>3, HeldIs
    <3>2. S \subseteq DOMAIN log
      BY DEF Visible
    <3>3. QED
      BY <3>1, <3>2
  <2>2. log'[Highest(S)] = log[Highest(S)]
    BY <2>1, PrefixDomains DEF Grown
  <2>3. Held(e, attribute, at) = log[Highest(S)].value
    BY <1>3 DEF Held
  <2>4. Held(e, attribute, at)' = log'[Highest(S')].value
    BY <1>1, <1>3 DEF Held
  <2>5. QED
    BY <1>1, <2>2, <2>3, <2>4
<1>4. QED
  BY <1>2, <1>3

LEMMA BeyondStays ==
  ASSUME Grown, NEW at \in Points, HeardAfter(at), WholeInv'
  PROVE  \A e, way : BeyondIn(Elements(edges'), e, way, at) = BeyondIn(Elements(edges), e, way, at)
<1>1. \A x \in Elements(edges') : InForce(x, at) => x \in Elements(edges)
  <2>1. SUFFICES ASSUME NEW x \in Elements(edges') \ Elements(edges), InForce(x, at)
                 PROVE  FALSE
    OBVIOUS
  <2>2. PICK i \in DOMAIN log' \ DOMAIN log : log'[i].at = x.at
    BY DEF Grown
  <2>3. Whole(log', Elements(edges'), i)
    BY DEF WholeInv
  <2>4. log'[i].at \in Nat /\ at.tx \in Nat /\ log'[i].at > at.tx
    BY <2>3, DecisionsAssumption DEF Whole, Points, HeardAfter
  <2>5. x.at <= at.tx
    BY <2>1 DEF InForce
  <2>6. QED
    BY <2>2, <2>4, <2>5
<1>2. Elements(edges) \subseteq Elements(edges')
  BY DEF Grown
<1>3. QED
  BY <1>1, <1>2 DEF BeyondIn

LEMMA ChainStays ==
  ASSUME LogInv, DatedInv, ChainsAreWalks, ChainsAreWalks', Grown,
         NEW at \in Points, HeardAfter(at), WholeInv', NEW e \in DOMAIN names, NEW way
  PROVE  Chain(e, way, at)' = Chain(e, way, at)
<1> DEFINE n == Len(names)
           m == Len(names')
           X == Elements(edges)
           Y == Elements(edges')
<1>1. PICK f : /\ IsWalkOver(f, Seq(1..n), X, way, at)
               /\ \A d : Chain(d, way, at) = f[<<d>>]
  BY DEF ChainsAreWalks
<1>2. PICK g : /\ IsWalkOver(g, Seq(1..m), Y, way, at)
               /\ \A d : Chain(d, way, at)' = g[<<d>>]
  BY DEF ChainsAreWalks
<1>3. n \in Nat /\ m \in Nat /\ n <= m /\ DOMAIN names = 1..n
  BY PrefixDomains DEF Grown
<1>4. Within(X, n)
  BY <1>3 DEF DatedInv, Joins, Within
<1>5. \A d : BeyondIn(X, d, way, at) = BeyondIn(Y, d, way, at)
  BY BeyondStays
<1> HIDE DEF n, m, X, Y
<1>6. \A path \in Seq(1..n) : f[path] = g[path]
  BY <1>1, <1>2, <1>3, <1>4, <1>5, WalkUnique
<1>7. <<e>> \in Seq(1..n)
  BY <1>3
<1>8. QED
  BY <1>1, <1>2, <1>6, <1>7

LEMMA LaterTellsNothing ==
  ASSUME LogInv, DatedInv, ChainsAreWalks, ChainsAreWalks', Grown, WholeInv'
  PROVE  HeardLaterTellsNothing
<1> SUFFICES ASSUME NEW at \in Points, HeardAfter(at), NEW e \in DOMAIN names
             PROVE  /\ Line(e, at)' = Line(e, at) /\ Detail(e, at)' = Detail(e, at)
                    /\ Held(e, "scope", at)' = Held(e, "scope", at)
  BY DEF HeardLaterTellsNothing, HeardAfter
<1>1. /\ Held(e, "scope", at)' = Held(e, "scope", at)
      /\ Held(e, "choice", at)' = Held(e, "choice", at)
      /\ Held(e, "status", at)' = Held(e, "status", at)
  BY HeldStays
<1>2. Visible(e, "choice", at)' = Visible(e, "choice", at)
  BY VisibleStays
<1>3. Superseders(e, at)' = Superseders(e, at)
  <2>1. Superseders(e, at) = BeyondIn(Elements(edges), e, "forward", at)
    BY DEF Superseders, BeyondIn
  <2>2. Superseders(e, at)' = BeyondIn(Elements(edges'), e, "forward", at)
    BY DEF Superseders, BeyondIn, Elements
  <2>3. QED
    BY <2>1, <2>2, BeyondStays
<1>4. /\ Chain(e, "forward", at)' = Chain(e, "forward", at)
      /\ Chain(e, "back", at)' = Chain(e, "back", at)
  BY ChainStays
<1>5. Status(e, at)' = Status(e, at)
  BY <1>1 DEF Status
<1>6. Line(e, at)' = Line(e, at)
  <2>1. StandsInList(e, at)' = StandsInList(e, at)
    BY <1>3, <1>5 DEF StandsInList
  <2>2. QED
    BY <1>1, <1>2, <1>3, <1>5, <2>1 DEF Line
<1>7. Detail(e, at)' = Detail(e, at)
  <2>1. StandsInDetail(e, at)' = StandsInDetail(e, at)
    BY <1>4, <1>5 DEF StandsInDetail
  <2>2. QED
    BY <1>1, <1>4, <1>5, <2>1 DEF Detail
<1>8. QED
  BY <1>1, <1>6, <1>7

LEMMA HighestLast ==
  ASSUME NEW n \in Nat, NEW S \in SUBSET (1..n), n \in S
  PROVE  Highest(S) = n
<1>1. Highest(S) \in S /\ \A y \in S : y <= Highest(S)
  BY HighestIs
<1>2. Highest(S) \in 1..n /\ n <= Highest(S)
  BY <1>1
<1>3. QED
  BY <1>2

LEMMA OneTitled ==
  ASSUME LogInv, DatedInv, NEW e \in DOMAIN names
  PROVE  Titled(names[e]) = {e} /\ Lowest(Titled(names[e])) = e
<1>1. Titled(names[e]) = {e}
  BY DEF DatedInv, Injective, Titled
<1>2. e \in Nat
  BY LengthOf DEF LogInv, Named
<1>3. Lowest({e}) \in {e}
  BY <1>2, LowestIs
<1>4. QED
  BY <1>1, <1>3

LEMMA RescopesKeep ==
  ASSUME LogInv, DatedInv, WholeInv,
         NEW c \in Clients, NEW e \in DOMAIN names, NEW at \in 1..MaxClock,
         CommitRescope(c), plan[c].at = at, plan[c].r.title = names[e],
         \A i \in DOMAIN log : log[i].at <= at /\ log[i].from <= log[i].at,
         NEW valid \in 1..MaxClock
  PROVE  IF \E i \in Slot(e, "scope") : log[i].from <= at
         THEN valid < at =>
                Held(e, "scope", At(valid, MaxClock))' = Held(e, "scope", At(valid, MaxClock))
         ELSE Visible(e, "choice", At(valid, MaxClock)) # {} =>
                Held(e, "scope", At(valid, MaxClock))' = plan[c].r.scope
<1> DEFINE r == plan[c].r
           now == At(at, at)
           P == At(valid, MaxClock)
           w == Version(e, "scope", r.scope, RescopedFrom(e, at), at)
           L == Len(log)
<1>0. MaxClock \in Nat /\ at \in Nat /\ valid \in Nat
  BY DecisionsAssumption
<1>1. Titled(r.title) = {e} /\ Lowest(Titled(r.title)) = e
  BY OneTitled
<1>2. \/ Held(e, "scope", now) = r.scope /\ UNCHANGED stored
      \/ Held(e, "scope", now) # r.scope /\ log' = Append(log, w)
  BY <1>1 DEF CommitRescope
<1>3. r.scope # Absent
  <2>1. plan[c].is = "rescope" /\ Sane(plan[c])
    BY DEF CommitRescope, DatedInv
  <2>2. QED
    BY <2>1, DecisionsAssumption DEF Sane
<1>4. L \in Nat /\ DOMAIN log = 1..L
  BY LengthOf DEF LogInv, Named
<1>5. /\ now.valid = at /\ now.tx = at /\ P.valid = valid /\ P.tx = MaxClock
      /\ w.e = e /\ w.attribute = "scope" /\ w.value = r.scope /\ w.at = at
      /\ w.from = RescopedFrom(e, at)
  BY DEF At, Version
<1>6. ASSUME log' = Append(log, w)
      PROVE  /\ DOMAIN log' = 1..(L + 1) /\ \A i \in 1..L : log'[i] = log[i]
             /\ log'[L + 1] = w
  <2>1. Prefix(log, log') /\ Len(log') = L + 1 /\ log'[L + 1] = w
    BY <1>6, AppendGrows DEF LogInv, Named
  <2>2. QED
    BY <1>4, <2>1, PrefixDomains
<1>7. \A i \in DOMAIN log : /\ log[i].from \in 1..MaxClock /\ log[i].at \in 1..MaxClock
                            /\ log[i].attribute = "scope" => log[i].value # Absent
  BY DEF WholeInv, Whole
<1> HIDE DEF r, now, P, w, L
<1>8. CASE \E i \in Slot(e, "scope") : log[i].from <= at
  <2>1. SUFFICES ASSUME valid < at
                 PROVE  Held(e, "scope", P)' = Held(e, "scope", P)
    BY <1>8 DEF P
  <2>2. Visible(e, "scope", now) # {}
    BY <1>5, <1>8 DEF Slot, Visible
  <2>3. Held(e, "scope", now) # Absent
    <3> DEFINE h == Highest(Visible(e, "scope", now))
    <3>1. h \in Visible(e, "scope", now) /\ Held(e, "scope", now) = log[h].value
      BY <2>2, HeldIs
    <3> HIDE DEF h
    <3>2. h \in DOMAIN log /\ log[h].attribute = "scope"
      BY <3>1 DEF Visible
    <3>3. QED
      BY <1>7, <3>1, <3>2
  <2>4. RescopedFrom(e, at) = at
    BY <2>3 DEF RescopedFrom, now
  <2>5. CASE UNCHANGED stored
    <3>1. log' = log
      BY <2>5 DEF stored
    <3>2. QED
      BY <3>1 DEF Held, Visible
  <2>6. CASE log' = Append(log, w)
    <3>1. ~(w.from <= P.valid)
      BY <1>0, <1>5, <2>1, <2>4
    <3>2. Visible(e, "scope", P)' = Visible(e, "scope", P)
      <4>1. \A i \in 1..(L + 1) : i \in 1..L \/ i = L + 1
        BY <1>4
      <4>2. 1..L \subseteq 1..(L + 1) /\ L + 1 \notin 1..L
        BY <1>4
      <4>3. QED
        BY <1>4, <1>6, <2>6, <3>1, <4>1, <4>2 DEF Visible
    <3>3. CASE Visible(e, "scope", P) = {}
      BY <3>2, <3>3 DEF Held
    <3>4. CASE Visible(e, "scope", P) # {}
      <4> DEFINE h == Highest(Visible(e, "scope", P))
      <4>1. h \in Visible(e, "scope", P) /\ Held(e, "scope", P) = log[h].value
        BY <3>4, HeldIs
      <4>2. Held(e, "scope", P)' = log'[h].value
        BY <3>2, <3>4 DEF Held
      <4> HIDE DEF h
      <4>3. h \in 1..L
        BY <1>4, <4>1 DEF Visible
      <4>4. QED
        BY <1>6, <2>6, <4>1, <4>2, <4>3
    <3>5. QED
      BY <3>3, <3>4
  <2>7. QED
    BY <1>2, <2>5, <2>6
<1>9. CASE ~ \E i \in Slot(e, "scope") : log[i].from <= at
  <2>1. SUFFICES ASSUME Visible(e, "choice", P) # {}
                 PROVE  Held(e, "scope", P)' = r.scope
    BY <1>9 DEF P, r
  <2>2. Visible(e, "scope", now) = {}
    BY <1>5, <1>9 DEF Slot, Visible
  <2>3. Held(e, "scope", now) = Absent
    BY <2>2 DEF Held
  <2>4. log' = Append(log, w)
    BY <1>2, <1>3, <2>3
  <2> DEFINE choices == Visible(e, "choice", At(MaxClock, MaxClock))
             j == Lowest(choices)
  <2>5. choices # {}
    <3>1. PICK i : i \in Visible(e, "choice", P)
      BY <2>1
    <3>2. i \in DOMAIN log /\ log[i].from <= valid
      BY <1>5, <3>1 DEF Visible
    <3>3. log[i].from <= MaxClock
      BY <1>0, <1>7, <3>2
    <3>4. i \in choices
      BY <1>5, <3>1, <3>3 DEF Visible, At
    <3>5. QED
      BY <3>4
  <2>6. RescopedFrom(e, at) = log[j].from
    BY <2>3, <2>5 DEF RescopedFrom, now
  <2>7. j \in choices
    <3>1. choices \in SUBSET Nat
      BY <1>4 DEF Visible
    <3> HIDE DEF choices
    <3>2. QED
      BY <2>5, <3>1, LowestIs
  <2>8. j \in DOMAIN log /\ log[j].e = e /\ log[j].attribute = "choice"
    BY <2>7 DEF Visible
  <2> HIDE DEF choices, j
  <2>9. log[j].from = 1
    <3>1. SUFFICES ASSUME NEW m \in DOMAIN log, Beside(log, j, m), log[m].attribute = "scope"
                   PROVE  FALSE
      <4>1. Whole(log, Elements(edges), j)
        BY <2>8 DEF WholeInv
      <4>2. QED
        BY <2>8, <4>1, <3>1 DEF Whole
    <3>2. m \in Slot(e, "scope")
      BY <2>8, <3>1 DEF Slot, Beside
    <3>3. log[m].from <= at
      BY <1>0, <1>7
    <3>4. QED
      BY <1>9, <3>2, <3>3
  <2>10. L + 1 \in Visible(e, "scope", P)'
    <3>1. w.from <= P.valid /\ w.at <= P.tx
      BY <1>0, <1>5, <2>6, <2>9
    <3>2. L + 1 \in DOMAIN log' /\ log'[L + 1] = w
      BY <1>4, <1>6, <2>4
    <3>3. QED
      BY <1>5, <3>1, <3>2 DEF Visible
  <2> DEFINE S == Visible(e, "scope", P)'
  <2>11. S \in SUBSET (1..(L + 1)) /\ S # {}
    BY <1>6, <2>4, <2>10 DEF Visible
  <2>12. Held(e, "scope", P)' = log'[Highest(S)].value
    BY <2>11 DEF Held
  <2>13. Highest(S) = L + 1
    <3>1. L + 1 \in Nat /\ L + 1 \in S
      BY <1>4, <2>10
    <3>2. S \in SUBSET (1..(L + 1))
      BY <2>11
    <3> HIDE DEF S
    <3>3. QED
      BY <3>1, <3>2, HighestLast
  <2>14. QED
    BY <1>5, <1>6, <2>4, <2>12, <2>13
<1>10. QED
  BY <1>8, <1>9

(* No command rewrites what the log answered about a past, of either       *)
(* clock: what is decided, linked or noted later changes no answer as of   *)
(* an instant before it was heard of, along chains of any length; and a    *)
(* reach that is corrected leaves the reach before it alone, while one     *)
(* written down for the first time reaches back to the decision's start.   *)
THEOREM PastStays == NotesOfOtherThings => (Spec => PastAnswersStay)
<1> SUFFICES ASSUME NotesOfOtherThings PROVE Spec => PastAnswersStay
  OBVIOUS
<1> DEFINE Inv == LogInv /\ DatedInv /\ WholeInv
<1>1. Init => Inv
  BY InitFits, InitDated
<1>2. Inv /\ [Next]_vars => Inv'
  <2> SUFFICES ASSUME Inv, [Next]_vars PROVE Inv'
    OBVIOUS
  <2>1. LogInv'
    BY LogStep
  <2>2. DatedInv' /\ Grown /\ NewWhole
    BY DatedStep
  <2>3. WholeInv'
    BY <2>2, WholeKeeps
  <2>4. QED
    BY <2>1, <2>2, <2>3
<1>3. Inv => ChainsAreWalks
  BY AllChains
<1>4. Inv /\ ChainsAreWalks /\ Inv' /\ ChainsAreWalks' /\ [Next]_vars
        => [HeardLaterTellsNothing /\ CorrectionsKeepThePast]_vars
  <2> SUFFICES ASSUME Inv, ChainsAreWalks, Inv', ChainsAreWalks', [Next]_vars
               PROVE  HeardLaterTellsNothing /\ CorrectionsKeepThePast
    OBVIOUS
  <2>1. Grown
    BY DatedStep
  <2>2. HeardLaterTellsNothing
    BY <2>1, LaterTellsNothing
  <2>3. CorrectionsKeepThePast
    BY RescopesKeep DEF CorrectionsKeepThePast
  <2>4. QED
    BY <2>2, <2>3
<1> HIDE DEF Inv
<1>5. QED
  BY <1>1, <1>2, <1>3, <1>4, PTL DEF Spec, PastAnswersStay

-----------------------------------------------------------------------------
(* The list and the detail                                                 *)

(* The chain is empty when nothing replaced the decision, and begins with  *)
(* the lowest of what did.                                                 *)
LEMMA ChainBegins ==
  ASSUME LogInv, DatedInv, NEW e \in DOMAIN names, NEW at
  PROVE  /\ Superseders(e, at) = {} <=> Chain(e, "forward", at) = <<>>
         /\ Superseders(e, at) # {} => Chain(e, "forward", at)[1] = Lowest(Superseders(e, at))
<1> DEFINE n == Len(names)
           X == Elements(edges)
           N == Superseders(e, at)
           y == Lowest(N)
           path == <<e>>
<1>1. PICK f : /\ IsWalkOver(f, Seq(1..n), X, "forward", at)
               /\ \A d : Chain(d, "forward", at) = f[<<d>>]
  BY ChainIs
<1>2. n \in Nat /\ DOMAIN names = 1..n
  BY LengthOf DEF LogInv, Named
<1>3. Within(X, n)
  BY <1>2 DEF DatedInv, Joins, Within
<1>4. /\ path \in Seq(1..n) /\ Len(path) = 1 /\ path[Len(path)] = e /\ Elements(path) = {e}
      /\ Tail(path) = <<>>
  BY <1>2 DEF Elements
<1>5. Onward(X, path, "forward", at) = N
  BY <1>4 DEF Onward, BeyondIn, Superseders
<1>6. f[path] = IF Stops(X, path, "forward", at) THEN Tail(path) ELSE f[Append(path, y)]
  <2> HIDE DEF path, N
  <2>1. QED
    BY <1>1, <1>4, <1>5 DEF IsWalkOver
<1>7. Chain(e, "forward", at) = f[path]
  BY <1>1
<1>8. N # {} => y \in N /\ y \in 1..n /\ y # e
  <2>1. SUFFICES ASSUME N # {} PROVE y \in N /\ y \in 1..n /\ y # e
    OBVIOUS
  <2>2. \A z \in N : z \in 1..n /\ z # e
    BY <1>2 DEF Superseders, DatedInv, Joins
  <2>3. N \in SUBSET Nat
    BY <2>2
  <2> HIDE DEF N
  <2>4. y \in N
    BY <2>1, <2>3, LowestIs
  <2>5. QED
    BY <2>2, <2>4
<1> HIDE DEF path, N, y, X, n
<1>9. CASE N = {}
  <2>1. Stops(X, path, "forward", at)
    BY <1>5, <1>9 DEF Stops
  <2>2. QED
    BY <1>4, <1>6, <1>7, <1>9, <2>1 DEF N
<1>10. CASE N # {}
  <2>1. ~Stops(X, path, "forward", at)
    BY <1>4, <1>5, <1>8, <1>10 DEF Stops, y
  <2>2. Chain(e, "forward", at) = f[Append(path, y)]
    BY <1>6, <1>7, <2>1
  <2> DEFINE q == Append(path, y)
  <2>3. q \in Seq(1..n) /\ Len(q) = 2 /\ q[2] = y
    <3>1. y \in 1..n
      BY <1>8, <1>10
    <3>2. path \in Seq(1..n) /\ Len(path) = 1
      BY <1>4
    <3> HIDE DEF q
    <3>3. Append(path, y) \in Seq(1..n)
      BY <3>1, <3>2
    <3>4. IsSeq(path)
      BY <3>2 DEF IsSeq
    <3>5. Len(Append(path, y)) = Len(path) + 1 /\ Append(path, y)[Len(path) + 1] = y
      BY <3>4, AppendGrows
    <3>6. QED
      BY <3>2, <3>3, <3>5 DEF q
  <2> HIDE DEF q
  <2>4. f[q] # <<>> /\ f[q][1] = y
    <3>1. Len(q) >= 2
      BY <2>3
    <3>2. IsWalkOver(f, Seq(1..n), X, "forward", at)
      BY <1>1
    <3>3. \A p \in Seq(1..n) : Len(p) >= 2 => f[p] # <<>> /\ f[p][1] = p[2]
      BY <1>2, <1>3, <3>2, WalkHeads
    <3>4. QED
      BY <2>3, <3>1, <3>3
  <2>5. QED
    BY <1>10, <2>2, <2>4 DEF N, y, q
<1>11. QED
  BY <1>9, <1>10

(* What reads as superseded has been replaced, as of the same point.       *)
LEMMA SupersededIs ==
  ASSUME LogInv, DatedInv, WholeInv, NEW e, NEW at \in Points,
         Held(e, "status", at) = "superseded"
  PROVE  Superseders(e, at) # {}
<1> DEFINE S == Visible(e, "status", at)
           h == Highest(S)
<1>1. S # {}
  BY DecisionsAssumption DEF Held
<1>2. h \in S /\ (\A i \in S : i <= h) /\ log[h].value = "superseded"
  BY <1>1, HeldIs
<1>3. /\ h \in DOMAIN log /\ log[h].e = e /\ log[h].attribute = "status"
      /\ log[h].at <= at.tx /\ log[h].from <= at.valid
  BY <1>2 DEF Visible
<1>4. DOMAIN log \subseteq Nat
  BY LengthOf DEF LogInv, Named
<1> HIDE DEF h
<1>5. Accounted(log, Elements(edges), h)
  BY <1>2, <1>3 DEF WholeInv, Whole
<1>6. ~ \E j \in DOMAIN log : /\ h < j /\ Beside(log, h, j)
                              /\ log[j].attribute = "status" /\ log[j].value # "superseded"
  <2>1. SUFFICES ASSUME NEW j \in DOMAIN log, h < j, Beside(log, h, j), log[j].attribute = "status"
                 PROVE  FALSE
    OBVIOUS
  <2>2. j \in S
    BY <1>3, <2>1 DEF Visible, Beside
  <2>3. j <= h /\ j \in Nat /\ h \in Nat
    BY <1>2, <1>3, <1>4, <2>2
  <2>4. QED
    BY <2>1, <2>3
<1>7. PICK x \in Elements(edges) : x.old = e /\ x.from = log[h].from /\ x.at = log[h].at
  BY <1>3, <1>5, <1>6 DEF Accounted
<1>8. InForce(x, at)
  BY <1>3, <1>7 DEF InForce
<1>9. x.new \in Superseders(e, at)
  BY <1>7, <1>8 DEF Superseders
<1>10. QED
  BY <1>9

(* What has a choice has a status.                                         *)
LEMMA ChosenHasStatus ==
  ASSUME LogInv, WholeInv, NEW e, NEW at, Held(e, "choice", at) # Absent
  PROVE  Held(e, "status", at) # Absent
<1>1. Visible(e, "choice", at) # {}
  BY DEF Held
<1>2. PICK i : i \in Visible(e, "choice", at)
  BY <1>1
<1>3. /\ i \in DOMAIN log /\ log[i].e = e /\ log[i].attribute = "choice"
      /\ log[i].at <= at.tx /\ log[i].from <= at.valid
  BY <1>2 DEF Visible
<1>4. PICK j \in DOMAIN log : Beside(log, i, j) /\ log[j].attribute = "status"
  BY <1>3 DEF WholeInv, Whole
<1>5. j \in Visible(e, "status", at)
  BY <1>3, <1>4 DEF Beside, Visible
<1> DEFINE h == Highest(Visible(e, "status", at))
<1>6. h \in Visible(e, "status", at) /\ Held(e, "status", at) = log[h].value
  BY <1>5, HeldIs
<1> HIDE DEF h
<1>7. h \in DOMAIN log /\ log[h].attribute = "status"
  BY <1>6 DEF Visible
<1>8. QED
  BY <1>6, <1>7 DEF WholeInv, Whole

LEMMA ListIsDetail == LogInv /\ DatedInv /\ WholeInv => ListAndDetailAgree
<1> SUFFICES ASSUME LogInv, DatedInv, WholeInv, NEW e \in DOMAIN names, NEW at \in Points
             PROVE  /\ \A here \in Positions :
                         e \in Listed(at, here) => Found(names[e], at, here) = "found"
                    /\ Line(e, at).stands = Detail(e, at).stands
                    /\ Line(e, at).by = IF Detail(e, at).forward = <<>> THEN Absent
                                        ELSE Detail(e, at).forward[1]
                    /\ Held(e, "status", at) = "superseded" => Superseders(e, at) # {}
  BY DEF ListAndDetailAgree
<1>1. ASSUME NEW here \in Positions, e \in Listed(at, here)
      PROVE  Found(names[e], at, here) = "found"
  <2>1. Titled(names[e]) # {} /\ Lowest(Titled(names[e])) = e
    BY OneTitled
  <2>2. ~OutOfReach(e, at, here) /\ Held(e, "choice", at) # Absent
    BY <1>1 DEF Listed
  <2>3. Held(e, "status", at) # Absent
    BY <2>2, ChosenHasStatus
  <2>4. QED
    BY <2>1, <2>2, <2>3 DEF Found
<1>2. /\ Superseders(e, at) = {} <=> Chain(e, "forward", at) = <<>>
      /\ Superseders(e, at) # {} => Chain(e, "forward", at)[1] = Lowest(Superseders(e, at))
  BY ChainBegins
<1>3. Line(e, at).stands = Detail(e, at).stands
  <2>1. StandsInList(e, at) <=> StandsInDetail(e, at)
    BY <1>2 DEF StandsInList, StandsInDetail
  <2>2. Line(e, at).stands = StandsInList(e, at) /\ Detail(e, at).stands = StandsInDetail(e, at)
    BY DEF Line, Detail
  <2>3. StandsInList(e, at) \in BOOLEAN /\ StandsInDetail(e, at) \in BOOLEAN
    BY DEF StandsInList, StandsInDetail
  <2>4. QED
    BY <2>1, <2>2, <2>3
<1>4. Line(e, at).by = IF Detail(e, at).forward = <<>> THEN Absent ELSE Detail(e, at).forward[1]
  BY <1>2 DEF Line, Detail
<1>5. Held(e, "status", at) = "superseded" => Superseders(e, at) # {}
  BY SupersededIs
<1>6. QED
  BY <1>1, <1>3, <1>4, <1>5

LEMMA LogKeeps ==
  ASSUME NotesOfOtherThings, LogInv, DatedInv, WholeInv, [Next]_vars
  PROVE  LogInv' /\ DatedInv' /\ WholeInv'
<1>1. LogInv'
  BY LogStep
<1>2. DatedInv' /\ Grown /\ NewWhole
  BY DatedStep
<1>3. QED
  BY <1>1, <1>2, WholeKeeps

(* The list and the detail of a decision say the same of whether it stands *)
(* and of what replaced it, at every point of the two clocks, though one   *)
(* looks at the edges and the other walks a chain of any length; what is   *)
(* listed is found; and what reads as superseded has its successor there.  *)
THEOREM ListAgrees == NotesOfOtherThings => (Spec => []ListAndDetailAgree)
<1> SUFFICES ASSUME NotesOfOtherThings PROVE Spec => []ListAndDetailAgree
  OBVIOUS
<1> DEFINE Inv == LogInv /\ DatedInv /\ WholeInv
<1>1. Init => Inv
  BY InitFits, InitDated
<1>2. Inv /\ [Next]_vars => Inv'
  BY LogKeeps
<1>3. Inv => ListAndDetailAgree
  BY ListIsDetail
<1>4. QED
  BY <1>1, <1>2, <1>3, PTL DEF Spec

-----------------------------------------------------------------------------
(* Revisions                                                               *)

Times(ds, title) == {i \in DOMAIN ds : ds[i] = title}
Choices(l, e) == {i \in DOMAIN l : l[i].e = e /\ l[i].attribute = "choice"}

(* Each decision was revised as often as its title was decided.            *)
CountInv ==
  /\ IsSeq(decided) /\ \A i \in DOMAIN decided : \E e \in DOMAIN names : names[e] = decided[i]
  /\ \A e \in DOMAIN names : Cardinality(Choices(log, e)) = Cardinality(Times(decided, names[e]))

(* An entity that is new has no versions, and its title was not decided.   *)
LEMMA NewIsEmpty ==
  ASSUME LogInv, DatedInv, CountInv, Grown, NEW e \in DOMAIN names' \ DOMAIN names
  PROVE  Choices(log, e) = {} /\ Times(decided, names'[e]) = {}
<1>1. Choices(log, e) = {}
  BY DEF LogInv, Named, Choices
<1>2. ASSUME NEW i \in DOMAIN decided, decided[i] = names'[e]
      PROVE  FALSE
  <2>1. PICK f \in DOMAIN names : names[f] = decided[i]
    BY DEF CountInv
  <2>2. f \in DOMAIN names' /\ names'[f] = names[f]
    BY PrefixDomains DEF Grown
  <2>3. QED
    BY <1>2, <2>1, <2>2 DEF Grown, Injective
<1>3. QED
  BY <1>1, <1>2 DEF Times

(* A commit that writes no choice and decides nothing keeps the count.     *)
LEMMA NoChoiceCounts ==
  ASSUME LogInv, DatedInv, CountInv, Grown, decided' = decided,
         \A i \in DOMAIN log' \ DOMAIN log : log'[i].attribute # "choice"
  PROVE  CountInv'
<1>1. /\ DOMAIN log \subseteq DOMAIN log' /\ \A i \in DOMAIN log : log'[i] = log[i]
      /\ DOMAIN names \subseteq DOMAIN names' /\ \A e \in DOMAIN names : names'[e] = names[e]
  BY PrefixDomains DEF Grown
<1>2. \A e : Choices(log', e) = Choices(log, e)
  BY <1>1 DEF Choices
<1>3. \A title : Times(decided', title) = Times(decided, title)
  BY DEF Times
<1>4. ASSUME NEW e \in DOMAIN names'
      PROVE  Cardinality(Choices(log', e)) = Cardinality(Times(decided', names'[e]))
  <2>1. CASE e \in DOMAIN names
    BY <1>1, <1>2, <1>3, <2>1 DEF CountInv
  <2>2. CASE e \notin DOMAIN names
    BY <1>2, <1>3, <2>2, NewIsEmpty
  <2>3. QED
    BY <2>1, <2>2
<1>5. IsSeq(decided') /\ \A i \in DOMAIN decided' : \E e \in DOMAIN names' : names'[e] = decided'[i]
  BY <1>1 DEF CountInv
<1>6. QED
  BY <1>4, <1>5 DEF CountInv, Times, Choices

LEMMA BothFinite ==
  ASSUME LogInv, CountInv
  PROVE  \A e, title : IsFiniteSet(Choices(log, e)) /\ IsFiniteSet(Times(decided, title))
<1>1. DOMAIN log = 1..Len(log) /\ Len(log) \in Nat /\ DOMAIN decided = 1..Len(decided) /\ Len(decided) \in Nat
  BY LengthOf DEF LogInv, Named, CountInv
<1>2. IsFiniteSet(1..Len(log)) /\ IsFiniteSet(1..Len(decided))
  BY <1>1, FS_Interval
<1>3. ASSUME NEW e, NEW title
      PROVE  IsFiniteSet(Choices(log, e)) /\ IsFiniteSet(Times(decided, title))
  <2>1. Choices(log, e) \subseteq 1..Len(log) /\ Times(decided, title) \subseteq 1..Len(decided)
    BY <1>1 DEF Choices, Times
  <2>2. QED
    BY <1>2, <2>1, FS_Subset
<1>4. QED
  BY <1>3

LEMMA OneMoreEach ==
  ASSUME NEW S, IsFiniteSet(S), NEW T, IsFiniteSet(T), Cardinality(S) = Cardinality(T),
         NEW x, x \notin S, NEW y, y \notin T
  PROVE  Cardinality(S \cup {x}) = Cardinality(T \cup {y})
<1>1. Cardinality(S \cup {x}) = Cardinality(S) + 1
  BY FS_AddElement
<1>2. Cardinality(T \cup {y}) = Cardinality(T) + 1
  BY FS_AddElement
<1>3. QED
  BY <1>1, <1>2

(* Deciding writes one choice, to the decision that has the title.         *)
LEMMA DecideCounts ==
  ASSUME LogInv, DatedInv, CountInv, NEW c \in Clients, CommitDecide(c)
  PROVE  CountInv'
<1> DEFINE p == plan[c]
           title == p.d.title
           L == Len(log)
           K == Len(decided)
<1>0. Grown
  BY DecideGrows
<1>1. PICK e : /\ DOMAIN names' \subseteq DOMAIN names \cup {e}
               /\ \E r, k, o : DecideIs(p, e, r, k, o)
  BY DecideWrites
<1>2. PICK r, k, o : DecideIs(p, e, r, k, o)
  BY <1>1
<1>3. decided' = Append(decided, title)
  BY DEF CommitDecide
<1>4. /\ DOMAIN log \subseteq DOMAIN log' /\ \A i \in DOMAIN log : log'[i] = log[i]
      /\ DOMAIN names \subseteq DOMAIN names' /\ \A f \in DOMAIN names : names'[f] = names[f]
  BY <1>0, PrefixDomains DEF Grown
<1>5. /\ L \in Nat /\ DOMAIN log = 1..L /\ r \in 0..1 /\ k \in 3..5
      /\ DOMAIN log' \ DOMAIN log = (L + 1)..(L + r + k)
  BY <1>2, PrefixDomains DEF DecideIs
<1> DEFINE x == L + r + 2
<1>6. /\ x \in DOMAIN log' \ DOMAIN log
      /\ log'[x].e = e /\ log'[x].attribute = "choice"
  BY <1>2, <1>5 DEF DecideIs, Version
<1>7. \A i \in DOMAIN log' \ DOMAIN log : log'[i].attribute = "choice" => i = x
  <2>1. SUFFICES ASSUME NEW i \in DOMAIN log' \ DOMAIN log, i # x
                 PROVE  log'[i].attribute # "choice"
    OBVIOUS
  <2>2. \/ r = 1 /\ i = L + 1
        \/ i = L + r + 1 \/ i = L + r + k
        \/ \E j \in 3..(k - 1) : i = L + r + j
    <3>1. i - L - r \in 3..(k - 1) => \E j \in 3..(k - 1) : i = L + r + j
      <4>1. i = L + r + (i - L - r)
        BY <1>5
      <4>2. QED
        BY <4>1
    <3>2. QED
      BY <1>5, <2>1, <3>1
  <2>3. CASE r = 1 /\ i = L + 1
    BY <1>2, <2>3 DEF DecideIs, Version
  <2>4. CASE i = L + r + 1
    BY <1>2, <2>4 DEF DecideIs, Version
  <2>5. CASE i = L + r + k
    BY <1>2, <2>5 DEF DecideIs, Version
  <2>6. CASE \E j \in 3..(k - 1) : i = L + r + j
    BY <1>2, <2>6 DEF DecideIs
  <2>7. QED
    BY <2>2, <2>3, <2>4, <2>5, <2>6
<1> HIDE DEF x
<1>8. Choices(log', e) = Choices(log, e) \cup {x} /\ x \notin Choices(log, e)
  BY <1>4, <1>6, <1>7 DEF Choices
<1>9. \A f : f # e => Choices(log', f) = Choices(log, f)
  BY <1>4, <1>6, <1>7 DEF Choices
<1>10. /\ IsSeq(decided') /\ DOMAIN decided' = DOMAIN decided \cup {K + 1} /\ K + 1 \notin DOMAIN decided
       /\ (\A i \in DOMAIN decided : decided'[i] = decided[i]) /\ decided'[K + 1] = title
  <2>1. IsSeq(decided)
    BY DEF CountInv
  <2>2. Prefix(decided, decided') /\ Len(decided') = K + 1 /\ decided'[K + 1] = title
    BY <1>3, <2>1, AppendGrows
  <2>3. /\ K \in Nat /\ DOMAIN decided = 1..K /\ DOMAIN decided' = 1..(K + 1)
        /\ \A i \in DOMAIN decided : decided'[i] = decided[i]
    BY <2>2, PrefixDomains
  <2>4. QED
    BY <2>2, <2>3 DEF Prefix
<1>11. Times(decided', title) = Times(decided, title) \cup {K + 1} /\ K + 1 \notin Times(decided, title)
  BY <1>10 DEF Times
<1>12. \A t : t # title => Times(decided', t) = Times(decided, t)
  BY <1>10 DEF Times
<1>13. e \in DOMAIN names' /\ names'[e] = title
  BY <1>2 DEF DecideIs
<1>14. Cardinality(Choices(log, e)) = Cardinality(Times(decided, title))
  <2>1. CASE e \in DOMAIN names
    BY <1>4, <1>13, <2>1 DEF CountInv
  <2>2. CASE e \notin DOMAIN names
    BY <1>0, <1>13, <2>2, NewIsEmpty
  <2>3. QED
    BY <2>1, <2>2
<1>15. Cardinality(Choices(log, e) \cup {x}) = Cardinality(Times(decided, title) \cup {K + 1})
  <2> DEFINE S == Choices(log, e)
             T == Times(decided, title)
  <2>1. IsFiniteSet(S) /\ IsFiniteSet(T) /\ Cardinality(S) = Cardinality(T)
    BY <1>14, BothFinite
  <2>2. x \notin S /\ K + 1 \notin T
    BY <1>8, <1>11
  <2> HIDE DEF S, T
  <2>3. Cardinality(S \cup {x}) = Cardinality(T \cup {K + 1})
    BY <2>1, <2>2, OneMoreEach
  <2>4. QED
    BY <2>3 DEF S, T
<1>16. ASSUME NEW f \in DOMAIN names'
       PROVE  Cardinality(Choices(log', f)) = Cardinality(Times(decided', names'[f]))
  <2>1. CASE f = e
    BY <1>8, <1>11, <1>13, <1>15, <2>1
  <2>2. CASE f # e
    <3>1. f \in DOMAIN names /\ names'[f] = names[f]
      BY <1>1, <1>4, <2>2
    <3>2. names'[f] # title
      BY <1>0, <1>13, <2>2 DEF Grown, Injective
    <3>3. QED
      BY <1>9, <1>12, <2>2, <3>1, <3>2 DEF CountInv
  <2>3. QED
    BY <2>1, <2>2
<1>17. \A i \in DOMAIN decided' : \E f \in DOMAIN names' : names'[f] = decided'[i]
  <2>1. ASSUME NEW i \in DOMAIN decided
        PROVE  \E f \in DOMAIN names' : names'[f] = decided'[i]
    <3>1. PICK f \in DOMAIN names : names[f] = decided[i]
      BY DEF CountInv
    <3>2. QED
      BY <1>4, <1>10, <3>1
  <2>2. QED
    BY <1>10, <1>13, <2>1
<1>18. QED
  BY <1>10, <1>16, <1>17 DEF CountInv, Times, Choices

LEMMA CountStep ==
  ASSUME NotesOfOtherThings, LogInv, DatedInv, WholeInv, CountInv, [Next]_vars
  PROVE  CountInv'
<1>1. Grown
  BY DatedStep
<1>2. ASSUME UNCHANGED <<names, log, decided>>
      PROVE  CountInv'
  BY <1>1, <1>2, NoChoiceCounts
<1>3. ASSUME NEW c \in Clients, NEW p, Begin(c, p)
      PROVE  CountInv'
  BY <1>2, <1>3 DEF Begin, stored
<1>4. CASE Tick \/ UNCHANGED vars
  BY <1>2, <1>4 DEF Tick, vars, stored
<1>5. ASSUME NEW c \in Clients, CommitNote(c)
      PROVE  CountInv'
  <2>1. decided' = decided
    BY <1>5 DEF CommitNote
  <2>2. \A i \in DOMAIN log' \ DOMAIN log : log'[i].attribute # "choice"
    BY <1>5, NoteGrows
  <2>3. QED
    BY <1>1, <2>1, <2>2, NoChoiceCounts
<1>6. ASSUME NEW c \in Clients, CommitRescope(c)
      PROVE  CountInv'
  <2> DEFINE r == plan[c].r
             at == plan[c].at
             e == Lowest(Titled(r.title))
             w == Version(e, "scope", r.scope, RescopedFrom(e, at), at)
  <2>1. UNCHANGED stored \/ (log' = Append(log, w) /\ decided' = decided)
    BY <1>6 DEF CommitRescope
  <2>2. CASE UNCHANGED stored
    BY <1>2, <2>2 DEF stored
  <2>3. CASE log' = Append(log, w) /\ decided' = decided
    <3>1. w.attribute # "choice"
      BY DEF Version
    <3> HIDE DEF w
    <3>2. DOMAIN log' \ DOMAIN log = {Len(log) + 1} /\ log'[Len(log) + 1] = w
      <4>1. Prefix(log, log') /\ Len(log') = Len(log) + 1 /\ log'[Len(log) + 1] = w
        BY <2>3, AppendGrows DEF LogInv, Named
      <4>2. Len(log) \in Nat /\ DOMAIN log' \ DOMAIN log = (Len(log) + 1)..(Len(log) + 1)
        BY <4>1, PrefixDomains
      <4>3. QED
        BY <4>1, <4>2
    <3>3. QED
      BY <1>1, <2>3, <3>1, <3>2, NoChoiceCounts
  <2>4. QED
    BY <2>1, <2>2, <2>3
<1>7. ASSUME NEW c \in Clients, CommitReindex(c)
      PROVE  CountInv'
  BY <1>2, <1>7 DEF CommitReindex
<1>8. ASSUME NEW c \in Clients, CommitDecide(c)
      PROVE  CountInv'
  BY <1>8, DecideCounts
<1>9. QED
  <2>1. ASSUME NEW c \in Clients, NEW d \in Decides, PlanDecide(c, d)
        PROVE  CountInv'
    BY <1>3, <2>1 DEF PlanDecide
  <2>2. ASSUME NEW c \in Clients, NEW r \in Rescopes, PlanRescope(c, r)
        PROVE  CountInv'
    BY <1>3, <2>2 DEF PlanRescope
  <2>3. ASSUME NEW c \in Clients, NEW n \in Notes, PlanNote(c, n)
        PROVE  CountInv'
    BY <1>3, <2>3 DEF PlanNote
  <2>4. ASSUME NEW c \in Clients, PlanReindex(c)
        PROVE  CountInv'
    BY <1>3, <2>4 DEF PlanReindex
  <2>5. QED
    BY <1>4, <1>5, <1>6, <1>7, <1>8, <2>1, <2>2, <2>3, <2>4 DEF Next

LEMMA InitCounts == Init => CountInv
<1> SUFFICES ASSUME Init PROVE CountInv
  OBVIOUS
<1>1. PICK n \in Nat : /\ IsSeq(names) /\ DOMAIN names = 1..n /\ Injective(names)
                       /\ DOMAIN log = 1..(2 * n) /\ LegacyLog(n)
                       /\ \A i \in 1..(2 * n) : \E e \in 1..n : i = 2 * e - 1 \/ i = 2 * e
  BY InitLegacy
<1>2. decided = names
  BY DEF Init
<1>3. ASSUME NEW e \in 1..n
      PROVE  Cardinality(Choices(log, e)) = Cardinality(Times(decided, names[e]))
  <2>1. Times(decided, names[e]) = {e}
    BY <1>1, <1>2 DEF Times, Injective
  <2>2. 2 * e \in Choices(log, e)
    <3>1. 2 * e \in DOMAIN log
      BY <1>1
    <3>2. log[2 * e] = Version(e, "choice", names[e], 1, 1)
      BY <1>1 DEF LegacyLog
    <3>3. QED
      BY <3>1, <3>2 DEF Choices, Version
  <2>3. ASSUME NEW i \in Choices(log, e)
        PROVE  i = 2 * e
    <3>1. i \in 1..(2 * n) /\ log[i].e = e /\ log[i].attribute = "choice"
      BY <1>1 DEF Choices
    <3>2. PICK f \in 1..n : i = 2 * f - 1 \/ i = 2 * f
      BY <1>1, <3>1
    <3>3. /\ log[2 * f - 1] = Version(f, "status", "accepted", 1, 1)
          /\ log[2 * f] = Version(f, "choice", names[f], 1, 1)
      BY <1>1 DEF LegacyLog
    <3>4. i = 2 * f /\ f = e
      BY <3>1, <3>2, <3>3 DEF Version
    <3>5. QED
      BY <3>4
  <2>4. Choices(log, e) = {2 * e}
    BY <2>2, <2>3
  <2>5. QED
    BY <2>1, <2>4, FS_Singleton
<1>4. QED
  BY <1>1, <1>2, <1>3 DEF CountInv

(* Processes that know nothing of each other decide under one title, and   *)
(* in every order of their commits the log has one decision of that title, *)
(* revised as often as it was decided: no rescope, note or reindex counts. *)
THEOREM OnePerTitle == NotesOfOtherThings => (Spec => []OneDecisionPerTitle)
<1> SUFFICES ASSUME NotesOfOtherThings PROVE Spec => []OneDecisionPerTitle
  OBVIOUS
<1> DEFINE Inv == LogInv /\ DatedInv /\ WholeInv /\ CountInv
<1>1. Init => Inv
  BY InitFits, InitDated, InitCounts
<1>2. Inv /\ [Next]_vars => Inv'
  BY LogKeeps, CountStep
<1>3. Inv => OneDecisionPerTitle
  <2> SUFFICES ASSUME Inv PROVE OneDecisionPerTitle
    OBVIOUS
  <2>1. \A e, f \in DOMAIN names : names[e] = names[f] => e = f
    BY DEF DatedInv, Injective
  <2>2. ASSUME NEW e \in DOMAIN names
        PROVE  Visible(e, "choice", At(MaxClock, MaxClock)) = Choices(log, e)
    <3>1. \A i \in DOMAIN log : log[i].at <= MaxClock /\ log[i].from <= MaxClock
      BY DecisionsAssumption DEF WholeInv, Whole
    <3>2. QED
      BY <3>1 DEF Visible, Choices, At
  <2>3. QED
    BY <2>1, <2>2 DEF OneDecisionPerTitle, CountInv, Times
<1>4. QED
  BY <1>1, <1>2, <1>3, PTL DEF Spec

-----------------------------------------------------------------------------
(* Hits in an order                                                        *)

Ordered(S, before) ==
  /\ IsFiniteSet(S) /\ before \in [S -> SUBSET S]
  /\ \A o \in S : o \notin before[o]
  /\ \A o, p \in S : o # p => o \in before[p] \/ p \in before[o]
  /\ \A o, p \in S : o \in before[p] => before[o] \subseteq before[p]

(* How many come before each: every number, once, and in the order.        *)
LEMMA PlacesAre ==
  ASSUME NEW S, NEW before, Ordered(S, before)
  PROVE  /\ Cardinality(S) \in Nat
         /\ \A o \in S : Cardinality(before[o]) \in 0..(Cardinality(S) - 1)
         /\ \A o, p \in S : o \in before[p] => Cardinality(before[o]) < Cardinality(before[p])
         /\ \A n \in 0..(Cardinality(S) - 1) : \E o \in S : Cardinality(before[o]) = n
<1> DEFINE f == [o \in S |-> Cardinality(before[o])]
           c == Cardinality(S)
           T == 0..(c - 1)
<1>1. c \in Nat /\ IsFiniteSet(S)
  BY FS_CardinalityType DEF Ordered
<1>2. \A o \in S : IsFiniteSet(before[o]) /\ Cardinality(before[o]) \in Nat
  <2> TAKE o \in S
  <2>1. IsFiniteSet(before[o])
    BY <1>1, FS_Subset DEF Ordered
  <2>2. QED
    BY <2>1, FS_CardinalityType
<1>3. ASSUME NEW o \in S PROVE f[o] \in T
  <2>1. before[o] \in SUBSET S /\ before[o] # S
    BY DEF Ordered
  <2>2. Cardinality(before[o]) <= c /\ Cardinality(before[o]) # c
    BY <1>1, <2>1, FS_Subset
  <2>3. QED
    BY <1>1, <1>2, <2>2
<1>4. ASSUME NEW o \in S, NEW p \in S, o \in before[p]
      PROVE  Cardinality(before[o]) < Cardinality(before[p])
  <2>1. before[o] \in SUBSET before[p] /\ before[o] # before[p]
    BY <1>4 DEF Ordered
  <2>2. Cardinality(before[o]) <= Cardinality(before[p])
          /\ Cardinality(before[o]) # Cardinality(before[p])
    BY <1>2, <2>1, FS_Subset
  <2>3. QED
    BY <1>2, <2>2
<1>5. f \in Injection(S, T)
  <2>1. \A o, p \in S : f[o] = f[p] => o = p
    <3> SUFFICES ASSUME NEW o \in S, NEW p \in S, o # p PROVE f[o] # f[p]
      OBVIOUS
    <3>1. o \in before[p] \/ p \in before[o]
      BY DEF Ordered
    <3>2. f[o] = Cardinality(before[o]) /\ f[p] = Cardinality(before[p])
      OBVIOUS
    <3> HIDE DEF f
    <3>3. QED
      BY <1>2, <1>4, <3>1, <3>2
  <2>2. f \in [S -> T]
    BY <1>3
  <2>3. QED
    BY <2>1, <2>2 DEF Injection, IsInjective
<1>6. IsFiniteSet(T) /\ Cardinality(T) = c
  <2> HIDE DEF c
  <2>1. 0 \in Int /\ c - 1 \in Int
    BY <1>1
  <2>2. IsFiniteSet(0..(c - 1))
          /\ Cardinality(0..(c - 1)) = IF 0 > c - 1 THEN 0 ELSE (c - 1) - 0 + 1
    BY <2>1, FS_Interval
  <2>3. QED
    BY <1>1, <2>2
<1>7. f \in Surjection(S, T)
  <2> HIDE DEF f, T, c
  <2>1. Cardinality(S) = Cardinality(T)
    BY <1>6 DEF c
  <2>2. QED
    BY <1>1, <1>5, <1>6, <2>1, FS_Injection
<1>8. \A n \in T : \E o \in S : f[o] = n
  <2> HIDE DEF f, T
  <2>1. QED
    BY <1>7 DEF Surjection
<1>9. QED
  BY <1>1, <1>3, <1>4, <1>8

LEMMA BijectionCounts ==
  ASSUME NEW S, IsFiniteSet(S), NEW T, NEW f \in [S -> T],
         \A x, y \in S : f[x] = f[y] => x = y, \A y \in T : \E x \in S : f[x] = y
  PROVE  IsFiniteSet(T) /\ Cardinality(T) = Cardinality(S)
<1>1. f \in Bijection(S, T)
  BY DEF Bijection, Injection, IsInjective, Surjection
<1>2. QED
  BY <1>1, FS_Bijection DEF ExistsBijection

LEMMA ArrangedIs ==
  ASSUME NEW S, NEW before, Ordered(S, before), NEW s,
         s = Arranged({Placed(h, before[h]) : h \in S})
  PROVE  /\ DOMAIN s \subseteq Nat /\ Elements(s) = S
         /\ \A m, n \in DOMAIN s : m < n => s[m] \in before[s[n]]
<1> DEFINE P == {Placed(h, before[h]) : h \in S}
           f == [h \in S |-> Placed(h, before[h])]
<1>1. Cardinality(P) = Cardinality(S)
  <2>1. f \in [S -> P] /\ \A y \in P : \E x \in S : f[x] = y
    OBVIOUS
  <2>2. \A x, y \in S : f[x] = f[y] => x = y
    <3>1. \A x \in S : f[x].hit = x
      BY DEF Placed
    <3> HIDE DEF f
    <3>2. QED
      BY <3>1
  <2> HIDE DEF f, P
  <2>3. IsFiniteSet(S)
    BY DEF Ordered
  <2>4. QED
    BY <2>1, <2>2, <2>3, BijectionCounts
<1>2. /\ Cardinality(S) \in Nat
      /\ \A o \in S : Cardinality(before[o]) \in 0..(Cardinality(S) - 1)
      /\ \A o, p \in S : o \in before[p] => Cardinality(before[o]) < Cardinality(before[p])
      /\ \A n \in 0..(Cardinality(S) - 1) : \E o \in S : Cardinality(before[o]) = n
  BY PlacesAre
<1>3. \A p \in P : p.hit \in S /\ p.before = Cardinality(before[p.hit])
  BY DEF Placed
<1>4. \A o \in S : \E p \in P : p.before = Cardinality(before[o])
  <2> TAKE o \in S
  <2>1. Placed(o, before[o]) \in P /\ Placed(o, before[o]).before = Cardinality(before[o])
    BY DEF Placed
  <2>2. QED
    BY <2>1
<1>5. DOMAIN s = 1..Cardinality(S) /\ \A n \in DOMAIN s : s[n] = (CHOOSE p \in P : p.before = n - 1).hit
  BY <1>1 DEF Arranged
<1> HIDE DEF P
<1>6. \A n \in DOMAIN s : s[n] \in S /\ Cardinality(before[s[n]]) = n - 1
  <2> TAKE n \in DOMAIN s
  <2>1. n - 1 \in 0..(Cardinality(S) - 1)
    BY <1>2, <1>5
  <2>2. \E p \in P : p.before = n - 1
    BY <1>2, <1>4, <2>1
  <2> DEFINE p == CHOOSE p \in P : p.before = n - 1
  <2>3. p \in P /\ p.before = n - 1 /\ s[n] = p.hit
    BY <1>5, <2>2
  <2> HIDE DEF p
  <2>4. QED
    BY <1>3, <2>3
<1>7. \A o, p \in S : Cardinality(before[o]) = Cardinality(before[p]) => o = p
  <2>1. \A o, p \in S : o # p => o \in before[p] \/ p \in before[o]
    BY DEF Ordered
  <2>2. QED
    BY <1>2, <2>1
<1>8. \A o \in S : \E n \in DOMAIN s : s[n] = o
  <2> TAKE o \in S
  <2>1. Cardinality(before[o]) + 1 \in DOMAIN s
    BY <1>2, <1>5
  <2>2. (Cardinality(before[o]) + 1) - 1 = Cardinality(before[o])
    BY <1>2
  <2>3. s[Cardinality(before[o]) + 1] = o
    BY <1>6, <1>7, <2>1, <2>2
  <2>4. QED
    BY <2>1, <2>3
<1>9. \A m, n \in DOMAIN s : m < n => s[m] \in before[s[n]]
  <2> SUFFICES ASSUME NEW m \in DOMAIN s, NEW n \in DOMAIN s, m < n
               PROVE  s[m] \in before[s[n]]
    OBVIOUS
  <2>1. m \in Nat /\ n \in Nat
    BY <1>2, <1>5
  <2>2. /\ s[m] \in S /\ s[n] \in S
        /\ Cardinality(before[s[m]]) = m - 1 /\ Cardinality(before[s[n]]) = n - 1
    BY <1>6
  <2>3. s[m] # s[n] /\ ~(s[n] \in before[s[m]])
    BY <1>2, <2>1, <2>2
  <2>4. QED
    BY <2>2, <2>3 DEF Ordered
<1>10. DOMAIN s \subseteq Nat
  <2>1. \A c \in Nat : 1..c \subseteq Nat
    OBVIOUS
  <2>2. QED
    BY <1>2, <1>5, <2>1
<1>11. Elements(s) = S
  BY <1>6, <1>8 DEF Elements
<1>12. QED
  BY <1>9, <1>10, <1>11

-----------------------------------------------------------------------------
(* Hits: finitely many, with unlike ids and comparable scores              *)

Numbers == Boost \in Int /\ \A x, y : Similarity(x, y) \in Int

HitSet(H) ==
  /\ IsFiniteSet(H) /\ \A h \in H : h.id \in Nat /\ h.score \in Int
  /\ \A g, h \in H : g.id = h.id => g = h

LEMMA BetterOrders ==
  ASSUME NEW H, HitSet(H)
  PROVE  Ordered(H, [h \in H |-> {g \in H : Better(g, h)}])
<1> DEFINE before == [h \in H |-> {g \in H : Better(g, h)}]
<1>1. \A o, p \in H : o \in before[p] <=> Better(o, p)
  OBVIOUS
<1>2. before \in [H -> SUBSET H]
  OBVIOUS
<1>3. \A o \in H : ~Better(o, o)
  BY DEF HitSet, Better
<1>4. \A o, p \in H : o # p => Better(o, p) \/ Better(p, o)
  BY DEF HitSet, Better
<1>5. \A o, p, x \in H : Better(o, p) /\ Better(x, o) => Better(x, p)
  <2> SUFFICES ASSUME NEW o \in H, NEW p \in H, NEW x \in H, Better(o, p), Better(x, o)
               PROVE  Better(x, p)
    OBVIOUS
  <2>1. /\ o.id \in Nat /\ p.id \in Nat /\ x.id \in Nat
        /\ o.score \in Int /\ p.score \in Int /\ x.score \in Int
    BY DEF HitSet
  <2>2. QED
    BY <2>1 DEF Better
<1> HIDE DEF before
<1>6. \A o, p \in H : o \in before[p] => before[o] \subseteq before[p]
  BY <1>1, <1>2, <1>5
<1>7. QED
  BY <1>1, <1>2, <1>3, <1>4, <1>6 DEF HitSet, Ordered, before

(* The k best: all, when there are no more; else k, that no other beats.   *)
LEMMA BestIs ==
  ASSUME NEW H, HitSet(H), NEW k \in Nat
  PROVE  /\ Best(k, H) \subseteq H
         /\ Cardinality(H) <= k => Best(k, H) = H
         /\ \A h \in H \ Best(k, H) :
              Cardinality(Best(k, H)) = k /\ \A g \in Best(k, H) : g.score >= h.score
<1> DEFINE before == [h \in H |-> {g \in H : Better(g, h)}]
           B == Best(k, H)
<1>1. Ordered(H, before)
  BY BetterOrders
<1>2. \A h \in H : before[h] = {g \in H : Better(g, h)}
  OBVIOUS
<1>3. B = {h \in H : Cardinality(before[h]) < k}
  BY <1>2 DEF Best
<1> HIDE DEF before
<1>4. /\ Cardinality(H) \in Nat
      /\ \A o \in H : Cardinality(before[o]) \in 0..(Cardinality(H) - 1)
      /\ \A o, p \in H : o \in before[p] => Cardinality(before[o]) < Cardinality(before[p])
      /\ \A n \in 0..(Cardinality(H) - 1) : \E o \in H : Cardinality(before[o]) = n
  BY <1>1, PlacesAre
<1> HIDE DEF B
<1>5. B \subseteq H
  BY <1>3
<1>6. ASSUME Cardinality(H) <= k PROVE B = H
  BY <1>3, <1>4, <1>6
<1>7. ASSUME NEW h \in H \ B
      PROVE  Cardinality(B) = k /\ \A g \in B : g.score >= h.score
  <2>1. k <= Cardinality(before[h]) /\ k < Cardinality(H)
    BY <1>3, <1>4
  <2> DEFINE f == [g \in B |-> Cardinality(before[g])]
             T == 0..(k - 1)
  <2>2. f \in [B -> T]
    <3>1. \A g \in B : Cardinality(before[g]) \in T
      BY <1>3, <1>4
    <3>2. QED
      BY <3>1
  <2>3. \A g, j \in B : f[g] = f[j] => g = j
    <3> SUFFICES ASSUME NEW g \in B, NEW j \in B, g # j PROVE f[g] # f[j]
      OBVIOUS
    <3>1. g \in before[j] \/ j \in before[g]
      BY <1>1, <1>5 DEF Ordered
    <3>2. Cardinality(before[g]) # Cardinality(before[j])
      BY <1>4, <1>5, <3>1
    <3>3. QED
      BY <3>2
  <2>4. \A n \in T : \E g \in B : f[g] = n
    <3> SUFFICES ASSUME NEW n \in T PROVE \E g \in B : f[g] = n
      OBVIOUS
    <3>1. PICK g \in H : Cardinality(before[g]) = n
      BY <1>4, <2>1
    <3>2. g \in B
      BY <1>3, <3>1
    <3>3. QED
      BY <3>1, <3>2
  <2>5. IsFiniteSet(B)
    BY <1>5, FS_Subset DEF HitSet
  <2>6. Cardinality(T) = k
    <3>1. 0 \in Int /\ k - 1 \in Int
      OBVIOUS
    <3>2. Cardinality(0..(k - 1)) = IF 0 > k - 1 THEN 0 ELSE (k - 1) - 0 + 1
      BY <3>1, FS_Interval
    <3>3. QED
      BY <3>2
  <2> HIDE DEF f, T
  <2>7. Cardinality(T) = Cardinality(B)
    BY <2>2, <2>3, <2>4, <2>5, BijectionCounts
  <2>8. ASSUME NEW g \in B PROVE g.score >= h.score
    <3>1. Cardinality(before[g]) < k /\ g \in H /\ g # h
      BY <1>3, <2>8
    <3>2. h \notin before[g]
      BY <1>4, <2>1, <3>1
    <3>3. g \in before[h]
      BY <1>1, <3>1, <3>2 DEF Ordered
    <3>4. Better(g, h)
      BY <1>2, <3>3
    <3>5. QED
      BY <3>1, <3>4 DEF Better, HitSet
  <2>9. QED
    BY <2>6, <2>7, <2>8
<1>8. QED
  BY <1>5, <1>6, <1>7 DEF B

LEMMA HitsAre ==
  ASSUME Numbers, LogInv, NEW S \in SUBSET DOMAIN log, NEW q
  PROVE  /\ HitSet(Hits(S, q)) /\ Len(log) \in Nat /\ Cardinality(Hits(S, q)) <= Len(log)
<1> DEFINE H == Hits(S, q)
           f == [i \in S |-> [id |-> i, score |-> Adjusted(i, q)]]
<1>1. Len(log) \in Nat /\ DOMAIN log = 1..Len(log)
  BY LengthOf DEF LogInv, Named
<1>2. \A i \in S : Adjusted(i, q) \in Int
  BY DEF Adjusted, Numbers
<1>3. IsFiniteSet(DOMAIN log) /\ Cardinality(DOMAIN log) = Len(log)
  <2>1. 1 \in Int /\ Len(log) \in Int
    BY <1>1
  <2>2. IsFiniteSet(1..Len(log))
          /\ Cardinality(1..Len(log)) = IF 1 > Len(log) THEN 0 ELSE Len(log) - 1 + 1
    BY <2>1, FS_Interval
  <2>3. QED
    BY <1>1, <2>2
<1>4. IsFiniteSet(S) /\ Cardinality(S) <= Len(log)
  BY <1>3, FS_Subset
<1>5. f \in [S -> H] /\ \A h \in H : \E i \in S : f[i] = h
  BY DEF Hits
<1>6. \A i, j \in S : f[i] = f[j] => i = j
  <2>1. \A i \in S : f[i].id = i
    OBVIOUS
  <2> HIDE DEF f
  <2>2. QED
    BY <2>1
<1>7. IsFiniteSet(H) /\ Cardinality(H) = Cardinality(S)
  <2> HIDE DEF f, H
  <2>1. QED
    BY <1>4, <1>5, <1>6, BijectionCounts
<1>8. \A h \in H : h.id \in Nat /\ h.score \in Int
  BY <1>1, <1>2 DEF Hits
<1>9. \A g, h \in H : g.id = h.id => g = h
  BY DEF Hits
<1> HIDE DEF H
<1>10. QED
  BY <1>1, <1>4, <1>7, <1>8, <1>9 DEF HitSet, H

(* Demoting changes the order of the hits and nothing else: those that     *)
(* were outlived come last, and the rest keep the order of their scores.   *)
LEMMA DemotingIs ==
  ASSUME NEW H, HitSet(H), NEW q, NEW s, s = DemoteReplaced(H, q)
  PROVE  /\ DOMAIN s \subseteq Nat /\ Elements(s) = H
         /\ LET Outlived(i) ==
                  /\ ~StillStands(i, q)
                  /\ \E h \in H : SlotOf(h.id) = SlotOf(i) /\ StillStands(h.id, q)
            IN \A m, n \in DOMAIN s : m < n =>
                 /\ Outlived(s[m].id) => Outlived(s[n].id)
                 /\ Better(s[n], s[m]) => Outlived(s[n].id) /\ ~Outlived(s[m].id)
<1> DEFINE live == {SlotOf(h.id) : h \in {g \in H : StillStands(g.id, q)}}
           demoted == {h \in H : ~StillStands(h.id, q) /\ SlotOf(h.id) \in live}
           Ahead(g, h) == IF (g \in demoted) = (h \in demoted) THEN Better(g, h)
                          ELSE h \in demoted
           before == [h \in H |-> {g \in H : Ahead(g, h)}]
           better == [h \in H |-> {g \in H : Better(g, h)}]
<1>1. s = Arranged({Placed(h, {g \in H : Ahead(g, h)}) : h \in H})
  BY DEF DemoteReplaced
<1>2. \A h \in H : before[h] = {g \in H : Ahead(g, h)}
  OBVIOUS
<1>3. before \in [H -> SUBSET H]
  OBVIOUS
<1>4. s = Arranged({Placed(h, before[h]) : h \in H})
  <2> HIDE DEF before, Ahead
  <2>1. {Placed(h, {g \in H : Ahead(g, h)}) : h \in H} = {Placed(h, before[h]) : h \in H}
    BY <1>2
  <2>2. QED
    BY <1>1, <2>1
<1>5. /\ \A o \in H : ~Better(o, o)
      /\ \A o, p \in H : o # p => Better(o, p) \/ Better(p, o)
      /\ \A o, p, x \in H : Better(o, p) /\ Better(x, o) => Better(x, p)
  <2>1. Ordered(H, better)
    BY BetterOrders
  <2>2. \A o, p \in H : o \in better[p] <=> Better(o, p)
    OBVIOUS
  <2> HIDE DEF better
  <2>3. QED
    BY <2>1, <2>2 DEF Ordered
<1>6. \A g \in H :
        g \in demoted <=>
          /\ ~StillStands(g.id, q)
          /\ \E h \in H : SlotOf(h.id) = SlotOf(g.id) /\ StillStands(h.id, q)
  OBVIOUS
<1> HIDE DEF demoted
<1>7. Ordered(H, before)
  <2>1. \A o, p \in H : o \in before[p] <=> Ahead(o, p)
    OBVIOUS
  <2>2. \A o \in H : ~Ahead(o, o)
    BY <1>5
  <2>3. \A o, p \in H : o # p => Ahead(o, p) \/ Ahead(p, o)
    BY <1>5
  <2>4. \A o, p, x \in H : Ahead(o, p) /\ Ahead(x, o) => Ahead(x, p)
    BY <1>5
  <2> HIDE DEF before, Ahead
  <2>5. \A o, p \in H : o \in before[p] => before[o] \subseteq before[p]
    BY <1>3, <2>1, <2>4
  <2>6. QED
    BY <1>3, <2>1, <2>2, <2>3, <2>5 DEF HitSet, Ordered
<1>8. /\ DOMAIN s \subseteq Nat /\ Elements(s) = H
      /\ \A m, n \in DOMAIN s : m < n => s[m] \in before[s[n]]
  <2> HIDE DEF before
  <2>1. QED
    BY <1>4, <1>7, ArrangedIs
<1>9. \A n \in DOMAIN s : s[n] \in H
  BY <1>8 DEF Elements
<1>10. ASSUME NEW m \in DOMAIN s, NEW n \in DOMAIN s, m < n
       PROVE  /\ s[m] \in demoted => s[n] \in demoted
              /\ Better(s[n], s[m]) => s[n] \in demoted /\ s[m] \notin demoted
  <2>1. s[m] \in H /\ s[n] \in H /\ Ahead(s[m], s[n])
    <3>1. s[m] \in H /\ s[n] \in H /\ s[m] \in before[s[n]]
      BY <1>8, <1>9, <1>10
    <3> HIDE DEF Ahead
    <3>2. QED
      BY <1>2, <3>1
  <2>2. ~(Better(s[m], s[n]) /\ Better(s[n], s[m]))
    BY <1>5, <2>1
  <2>3. QED
    BY <2>1, <2>2
<1>11. QED
  BY <1>6, <1>8, <1>9, <1>10

-----------------------------------------------------------------------------
(* Recall                                                                  *)

LEMMA ReachIsHeld ==
  ASSUME NEW e, NEW at
  PROVE  Reach(e, at) = Held(e, "scope", at)
<1>1. {i \in Slot(e, "scope") : log[i].at <= at.tx /\ log[i].from <= at.valid}
        = Visible(e, "scope", at)
  BY DEF Slot, Visible
<1>2. QED
  BY <1>1 DEF Reach, Held

(* What is chosen is no blank: a decision reads as having a choice where   *)
(* there is a choice to see.                                               *)
LEMMA ChosenIsSeen ==
  ASSUME LogInv, WholeInv, NEW e, NEW at
  PROVE  Held(e, "choice", at) # Absent <=> Visible(e, "choice", at) # {}
<1>1. CASE Visible(e, "choice", at) = {}
  BY <1>1 DEF Held
<1>2. CASE Visible(e, "choice", at) # {}
  <2> DEFINE h == Highest(Visible(e, "choice", at))
  <2>1. h \in Visible(e, "choice", at) /\ Held(e, "choice", at) = log[h].value
    BY <1>2, HeldIs
  <2> HIDE DEF h
  <2>2. h \in DOMAIN log /\ log[h].attribute = "choice"
    BY <2>1 DEF Visible
  <2>3. QED
    BY <1>2, <2>1, <2>2 DEF WholeInv, Whole
<1>3. QED
  BY <1>1, <1>2

LEMMA RecalledIs ==
  ASSUME Numbers, LogInv, NEW q, q.k \in Nat
  PROVE  LET S == {i \in DOMAIN log : InScope(i, q)}
         IN /\ HitSet(Hits(S, q)) /\ Cardinality(Hits(S, q)) <= Len(log)
            /\ Elements(Recalled(q)) = Best(q.k, Hits(S, q))
            /\ HitSet(Nearest(q)) /\ DOMAIN Recalled(q) \subseteq Nat
<1> DEFINE S == {i \in DOMAIN log : InScope(i, q)}
           H == Hits(S, q)
<1>1. S \in SUBSET DOMAIN log
  OBVIOUS
<1>2. Nearest(q) = Best(q.k, H)
  BY DEF Nearest
<1> HIDE DEF S
<1>3. HitSet(H) /\ Cardinality(H) <= Len(log)
  BY <1>1, HitsAre
<1> HIDE DEF H
<1>4. Nearest(q) \subseteq H
  BY <1>2, <1>3, BestIs
<1>5. HitSet(Nearest(q))
  <2>1. IsFiniteSet(Nearest(q))
    BY <1>3, <1>4, FS_Subset DEF HitSet
  <2>2. QED
    BY <1>3, <1>4, <2>1 DEF HitSet
<1>6. Elements(Recalled(q)) = Nearest(q) /\ DOMAIN Recalled(q) \subseteq Nat
  BY <1>5, DemotingIs DEF Recalled
<1>7. QED
  BY <1>2, <1>3, <1>5, <1>6 DEF H, S

(* Who is on the list is found, and nobody else is.                        *)
LEMMA ListedAreFound ==
  ASSUME Numbers, LogInv, WholeInv, NEW text, NEW here, NEW at, NEW q,
         q = AsOf(Query(text, Len(log), here), at)
  PROVE  {log[h.id].e : h \in {g \in Elements(Recalled(q)) : log[g.id].attribute = "choice"}}
           = Listed(at, here)
<1> DEFINE S == {i \in DOMAIN log : InScope(i, q)}
           H == Hits(S, q)
           hits == Elements(Recalled(q))
<1>1. /\ q.text = text /\ q.k = Len(log) /\ q.here = here /\ q.bounded = TRUE
      /\ q.at = at /\ q.entity = Absent
  BY DEF AsOf, Query
<1>2. Len(log) \in Nat /\ \A i \in DOMAIN log : log[i].e \in DOMAIN names
  BY LengthOf DEF LogInv, Named
<1>3. hits = H
  <2>1. HitSet(H) /\ Cardinality(H) <= Len(log) /\ hits = Best(q.k, H)
    BY <1>1, <1>2, RecalledIs
  <2> HIDE DEF H, hits
  <2>2. QED
    BY <1>1, <1>2, <2>1, BestIs
<1>4. \A i \in DOMAIN log :
        InScope(i, q) <=> /\ here = Nowhere \/ Held(log[i].e, "scope", at) = Absent
                               \/ AppliesAt(Held(log[i].e, "scope", at), here)
                          /\ log[i].at <= at.tx /\ log[i].from <= at.valid
  BY <1>1, ReachIsHeld DEF InScope
<1>5. \A i \in DOMAIN log :
        InScope(i, q) <=> ~OutOfReach(log[i].e, at, here) /\ log[i].at <= at.tx
                                                         /\ log[i].from <= at.valid
  BY <1>4 DEF OutOfReach
<1>6. \A h \in H : h.id \in S
  BY DEF Hits
<1>7. \A i \in S : \E h \in H : h.id = i
  <2> SUFFICES ASSUME NEW i \in S PROVE \E h \in H : h.id = i
    OBVIOUS
  <2> DEFINE h == [id |-> i, score |-> Adjusted(i, q)]
  <2>1. h \in H /\ h.id = i
    BY DEF Hits
  <2> HIDE DEF h, H
  <2>2. QED
    BY <2>1
<1> HIDE DEF H, hits
<1>8. ASSUME NEW e
      PROVE  (\E h \in hits : log[h.id].attribute = "choice" /\ e = log[h.id].e)
               <=> e \in Listed(at, here)
  <2>1. ASSUME NEW h \in hits, log[h.id].attribute = "choice", e = log[h.id].e
        PROVE  e \in Listed(at, here)
    <3>1. h.id \in DOMAIN log /\ InScope(h.id, q)
      BY <1>3, <1>6, <2>1
    <3>2. /\ ~OutOfReach(e, at, here) /\ h.id \in Visible(e, "choice", at)
          /\ e \in DOMAIN names
      BY <1>2, <1>5, <2>1, <3>1 DEF Visible
    <3>3. Held(e, "choice", at) # Absent
      BY <3>2, ChosenIsSeen
    <3>4. QED
      BY <3>2, <3>3 DEF Listed
  <2>2. ASSUME e \in Listed(at, here)
        PROVE  \E h \in hits : log[h.id].attribute = "choice" /\ e = log[h.id].e
    <3>1. ~OutOfReach(e, at, here) /\ Held(e, "choice", at) # Absent
      BY <2>2 DEF Listed
    <3>2. PICK i : i \in Visible(e, "choice", at)
      BY <3>1, ChosenIsSeen
    <3>3. /\ i \in DOMAIN log /\ log[i].e = e /\ log[i].attribute = "choice"
          /\ log[i].at <= at.tx /\ log[i].from <= at.valid
      BY <3>2 DEF Visible
    <3>4. i \in S
      BY <1>5, <3>1, <3>3
    <3>5. PICK h \in H : h.id = i
      BY <1>7, <3>4
    <3>6. QED
      BY <1>3, <3>3, <3>5
  <2>3. QED
    BY <2>1, <2>2
<1>9. QED
  BY <1>8 DEF hits

(* Of two that are asked for, neither makes room for one less near.        *)
LEMMA NearestAreFound ==
  ASSUME Numbers, LogInv, NEW text, NEW here, NEW favoured, NEW q,
         q = Boosting(Query(text, 2, here), favoured),
         NEW i \in DOMAIN log \ {h.id : h \in Elements(Recalled(q))}, InScope(i, q)
  PROVE  /\ Cardinality(Elements(Recalled(q))) = 2
         /\ \A h \in Elements(Recalled(q)) : h.score >= Adjusted(i, q)
<1> DEFINE S == {j \in DOMAIN log : InScope(j, q)}
           H == Hits(S, q)
           hits == Elements(Recalled(q))
           h == [id |-> i, score |-> Adjusted(i, q)]
<1>1. q.k = 2
  BY DEF Boosting, Query
<1>2. HitSet(H) /\ hits = Best(2, H)
  BY <1>1, RecalledIs
<1>3. h \in H /\ h.id = i /\ h.score = Adjusted(i, q)
  BY DEF Hits
<1>4. h \notin hits
  <2> HIDE DEF h, H
  <2>1. QED
    BY <1>3
<1> HIDE DEF h, H, hits
<1>5. Cardinality(hits) = 2 /\ \A g \in hits : g.score >= h.score
  BY <1>2, <1>3, <1>4, BestIs
<1>6. QED
  BY <1>3, <1>5 DEF hits

LEMMA ExactSays == Numbers /\ LogInv /\ WholeInv => RecallIsExact
<1> SUFFICES ASSUME Numbers, LogInv, WholeInv, NEW text \in Queries, NEW here \in Positions
             PROVE  /\ \A at \in Points :
                         LET hits == Recalled(AsOf(Query(text, Len(log), here), at))
                         IN {log[h.id].e : h \in {g \in Elements(hits) : log[g.id].attribute = "choice"}}
                              = Listed(at, here)
                    /\ \A favoured \in {{}} \cup {{e} : e \in DOMAIN names} :
                         LET q == Boosting(Query(text, 2, here), favoured)
                             hits == Elements(Recalled(q))
                         IN \A i \in DOMAIN log \ {h.id : h \in hits} :
                              InScope(i, q) =>
                                Cardinality(hits) = 2 /\ \A h \in hits : h.score >= Adjusted(i, q)
  BY DEF RecallIsExact
<1>1. ASSUME NEW at \in Points
      PROVE  LET hits == Recalled(AsOf(Query(text, Len(log), here), at))
             IN {log[h.id].e : h \in {g \in Elements(hits) : log[g.id].attribute = "choice"}}
                  = Listed(at, here)
  BY ListedAreFound
<1>2. ASSUME NEW favoured
      PROVE  LET q == Boosting(Query(text, 2, here), favoured)
                 hits == Elements(Recalled(q))
             IN \A i \in DOMAIN log \ {h.id : h \in hits} :
                  InScope(i, q) =>
                    Cardinality(hits) = 2 /\ \A h \in hits : h.score >= Adjusted(i, q)
  BY NearestAreFound
<1>3. QED
  BY <1>1, <1>2

LEMMA FirstSays == Numbers /\ LogInv => LiveAnswerFirst
<1> SUFFICES ASSUME Numbers, LogInv, NEW text \in Queries, NEW k \in 1..Len(log)
             PROVE  LET q == Query(text, k, Nowhere)
                        hits == Recalled(q)
                        Outlived(i) ==
                          /\ ~StillStands(i, q)
                          /\ \E h \in Elements(hits) : /\ SlotOf(h.id) = SlotOf(i)
                                                       /\ StillStands(h.id, q)
                    IN \A m, n \in DOMAIN hits : m < n =>
                         /\ Outlived(hits[m].id) => Outlived(hits[n].id)
                         /\ Better(hits[n], hits[m]) =>
                              Outlived(hits[n].id) /\ ~Outlived(hits[m].id)
  BY DEF LiveAnswerFirst
<1> DEFINE q == Query(text, k, Nowhere)
           hits == Recalled(q)
<1>1. q.k \in Nat
  <2>1. Len(log) \in Nat
    BY LengthOf DEF LogInv, Named
  <2>2. q.k = k
    BY DEF Query
  <2>3. QED
    BY <2>1, <2>2
<1> HIDE DEF q
<1>2. HitSet(Nearest(q))
  BY <1>1, RecalledIs
<1>3. hits = DemoteReplaced(Nearest(q), q)
  BY DEF Recalled
<1> HIDE DEF hits
<1>4. Elements(hits) = Nearest(q)
  BY <1>2, <1>3, DemotingIs
<1>5. QED
  BY <1>2, <1>3, <1>4, DemotingIs DEF q, hits

(* RecallIsExact, always: a scoped recall finds who is on the list at any  *)
(* point of the clocks, and with whatever numbers similarity is measured,  *)
(* nothing that applies is crowded out by what does not apply or is less   *)
(* near.                                                                   *)
THEOREM RecallAlwaysExact == NotesOfOtherThings /\ Numbers => (Spec => []RecallIsExact)
<1> SUFFICES ASSUME NotesOfOtherThings, Numbers PROVE Spec => []RecallIsExact
  OBVIOUS
<1> DEFINE Inv == LogInv /\ DatedInv /\ WholeInv
<1>1. Init => Inv
  BY InitFits, InitDated
<1>2. Inv /\ [Next]_vars => Inv'
  BY LogKeeps
<1>3. Inv => RecallIsExact
  BY ExactSays
<1>4. QED
  BY <1>1, <1>2, <1>3, PTL DEF Spec

(* LiveAnswerFirst, always: however few are asked for and whatever the     *)
(* scores, a hit is below one less near exactly when it was replaced by    *)
(* another hit of its slot that stands and the other was not.              *)
THEOREM LiveAlwaysFirst == NotesOfOtherThings /\ Numbers => (Spec => []LiveAnswerFirst)
<1> SUFFICES ASSUME NotesOfOtherThings, Numbers PROVE Spec => []LiveAnswerFirst
  OBVIOUS
<1> DEFINE Inv == LogInv /\ DatedInv /\ WholeInv
<1>1. Init => Inv
  BY InitFits, InitDated
<1>2. Inv /\ [Next]_vars => Inv'
  BY LogKeeps
<1>3. Inv => LiveAnswerFirst
  BY FirstSays
<1>4. QED
  BY <1>1, <1>2, <1>3, PTL DEF Spec
==============================================================================
