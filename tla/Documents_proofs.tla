--------------------------- MODULE Documents_proofs ---------------------------
(***************************************************************************)
(* Proofs about Documents, for every set of processes, trees, responses    *)
(* and edits: what an extraction keeps of a response, what a closure ends, *)
(* and what the ledger of a run says.                                      *)
(***************************************************************************)
EXTENDS Documents, FiniteSetTheorems, SequenceTheorems, WellFoundedInduction, TLAPS

(* How many of some places are not behind one of them.                     *)
Rank(places, i) == Cardinality({j \in places : j <= i})

-----------------------------------------------------------------------------
(* Numbers and lists                                                       *)

(* What holds of 0, and of n + 1 when it does of n, holds of every number. *)
LEMMA Climbs ==
  ASSUME NEW S, 0 \in S, \A n \in Nat : n \in S => n + 1 \in S
  PROVE  Nat \subseteq S
<1> SUFFICES ASSUME Nat \ S # {} PROVE FALSE
  OBVIOUS
<1>1. IsWellFoundedOn(OpToRel(<, Nat), Nat)
  BY NatLessThanWellFounded
<1>2. PICK x \in Nat \ S : \A y \in Nat \ S : ~(<<y, x>> \in OpToRel(<, Nat))
  BY <1>1, WFMin
<1>3. \A y \in Nat \ S : ~(y < x)
  BY <1>2 DEF OpToRel
<1>4. x # 0 /\ x - 1 \in Nat /\ x = (x - 1) + 1
  OBVIOUS
<1>5. x - 1 \in S
  BY <1>3, <1>4
<1>6. QED
  BY <1>4, <1>5

(* A set of places in a list that is not empty has a last one.             *)
LEMMA LastIs ==
  ASSUME NEW n \in Nat, NEW S \in SUBSET (1..n), S # {}
  PROVE  \E i \in S : \A j \in S : j <= i
<1> DEFINE T == {m \in Nat : (\E i \in S : i <= m) => \E i \in S : i <= m /\ \A j \in S : j <= m => j <= i}
<1>1. 0 \in T
  OBVIOUS
<1>2. ASSUME NEW m \in Nat, m \in T PROVE m + 1 \in T
  <2>1. CASE m + 1 \in S
    BY <2>1
  <2>2. CASE m + 1 \notin S
    <3>1. \A j \in S : j <= m + 1 => j <= m
      BY <2>2
    <3>2. QED
      BY <1>2, <3>1
  <2>3. QED
    BY <2>1, <2>2
<1>3. n \in T
  <2> HIDE DEF T
  <2>1. QED
    BY <1>1, <1>2, Climbs
<1>4. \A i \in S : i <= n
  OBVIOUS
<1>5. QED
  BY <1>3, <1>4

LEMMA ListOf ==
  ASSUME NEW S, NEW s \in Seq(S)
  PROVE  IsList(s)
<1> DEFINE T == {s[i] : i \in DOMAIN s}
<1>1. s \in [1..Len(s) -> T] /\ Len(s) \in Nat
  OBVIOUS
<1> HIDE DEF T
<1>2. s \in Seq(T)
  BY <1>1
<1>3. QED
  BY <1>2 DEF T, IsList

LEMMA ListIs ==
  ASSUME NEW s, IsList(s)
  PROVE  /\ Len(s) \in Nat /\ DOMAIN s = 1..Len(s) /\ s = [i \in 1..Len(s) |-> s[i]]
         /\ s = <<>> <=> Len(s) = 0
<1> DEFINE T == {s[i] : i \in DOMAIN s}
<1>1. s \in Seq(T)
  BY DEF IsList
<1> HIDE DEF T
<1>2. QED
  BY <1>1

LEMMA SequenceOf ==
  ASSUME NEW s, NEW n \in Nat, DOMAIN s = 1..n, s = [i \in 1..n |-> s[i]]
  PROVE  IsList(s) /\ Len(s) = n
<1> DEFINE S == {s[i] : i \in 1..n}
<1>1. s \in [1..n -> S]
  OBVIOUS
<1> HIDE DEF S
<1>2. s \in Seq(S) /\ Len(s) = n
  BY <1>1
<1>3. QED
  BY <1>2, ListOf

LEMMA EmptyIs == IsList(<<>>) /\ Len(<<>>) = 0 /\ DOMAIN <<>> = {}
<1>1. <<>> \in Seq({}) /\ Len(<<>>) = 0
  OBVIOUS
<1>2. IsList(<<>>)
  BY <1>1, ListOf
<1>3. DOMAIN <<>> = {}
  OBVIOUS
<1>4. QED
  BY <1>1, <1>2, <1>3

LEMMA SingleIs ==
  ASSUME NEW x
  PROVE  IsList(<<x>>) /\ Len(<<x>>) = 1 /\ DOMAIN <<x>> = {1} /\ <<x>>[1] = x
<1>1. <<x>> \in Seq({x}) /\ Len(<<x>>) = 1 /\ <<x>>[1] = x
  OBVIOUS
<1>2. IsList(<<x>>)
  BY <1>1, ListOf
<1>3. DOMAIN <<x>> = {1}
  OBVIOUS
<1>4. QED
  BY <1>1, <1>2, <1>3

LEMMA Joined ==
  ASSUME NEW s, IsList(s), NEW t, IsList(t)
  PROVE  /\ IsList(s \o t) /\ Len(s \o t) = Len(s) + Len(t)
         /\ \A i \in 1..Len(s) : (s \o t)[i] = s[i]
         /\ \A i \in 1..Len(t) : (s \o t)[Len(s) + i] = t[i]
<1> DEFINE S == {s[i] : i \in DOMAIN s}
           T == {t[i] : i \in DOMAIN t}
<1>1. s \in Seq(S) /\ t \in Seq(T)
  BY DEF IsList
<1> HIDE DEF S, T
<1>2. s \in Seq(S \cup T) /\ t \in Seq(S \cup T)
  <2>1. \A X, Y : X \subseteq Y => Seq(X) \subseteq Seq(Y)
    OBVIOUS
  <2>2. QED
    BY <1>1, <2>1
<1>3. s \o t \in Seq(S \cup T)
  BY <1>2
<1>4. IsList(s \o t)
  BY <1>3, ListOf
<1>5. QED
  BY <1>2, <1>3, <1>4

LEMMA AppendedIs ==
  ASSUME NEW s, IsList(s), NEW x
  PROVE  /\ IsList(Append(s, x)) /\ Len(Append(s, x)) = Len(s) + 1
         /\ \A i \in 1..Len(s) : Append(s, x)[i] = s[i]
         /\ Append(s, x)[Len(s) + 1] = x
<1> DEFINE S == {s[i] : i \in DOMAIN s}
<1>1. s \in Seq(S)
  BY DEF IsList
<1> HIDE DEF S
<1>2. s \in Seq(S \cup {x})
  <2>1. \A X, Y : X \subseteq Y => Seq(X) \subseteq Seq(Y)
    OBVIOUS
  <2>2. QED
    BY <1>1, <2>1
<1>3. Append(s, x) \in Seq(S \cup {x})
  BY <1>2
<1>4. IsList(Append(s, x))
  BY <1>3, ListOf
<1>5. QED
  BY <1>2, <1>3, <1>4

LEMMA TailIs ==
  ASSUME NEW s, IsList(s), s # <<>>
  PROVE  /\ Len(s) >= 1 /\ Head(s) = s[1] /\ IsList(Tail(s)) /\ Len(Tail(s)) = Len(s) - 1
         /\ \A i \in 1..(Len(s) - 1) : Tail(s)[i] = s[i + 1]
<1> DEFINE S == {s[i] : i \in DOMAIN s}
<1>1. s \in Seq(S)
  BY DEF IsList
<1> HIDE DEF S
<1>2. Tail(s) \in Seq(S)
  BY <1>1
<1>3. IsList(Tail(s))
  BY <1>2, ListOf
<1>4. QED
  BY <1>1, <1>3

-----------------------------------------------------------------------------
(* Some places of a list                                                   *)

(* Every place has a rank, and every rank is of one place.                 *)
LEMMA RanksAre ==
  ASSUME NEW n \in Nat, NEW P \in SUBSET (1..n)
  PROVE  /\ IsFiniteSet(P) /\ Cardinality(P) \in 0..n
         /\ \A i \in P : Rank(P, i) \in 1..Cardinality(P)
         /\ \A i, j \in P : i < j => Rank(P, i) < Rank(P, j)
         /\ \A k \in 1..Cardinality(P) : \E i \in P : Rank(P, i) = k
<1> DEFINE c == Cardinality(P)
           upTo(i) == {j \in P : j <= i}
           f == [i \in P |-> Rank(P, i)]
<1>1. IsFiniteSet(1..n) /\ Cardinality(1..n) = n
  <2>1. 1 \in Int /\ n \in Int
    OBVIOUS
  <2>2. IsFiniteSet(1..n) /\ Cardinality(1..n) = IF 1 > n THEN 0 ELSE n - 1 + 1
    BY <2>1, FS_Interval
  <2>3. QED
    BY <2>2
<1>2. IsFiniteSet(P) /\ c \in Nat /\ c <= n
  BY <1>1, FS_Subset, FS_CardinalityType
<1>3. \A i \in P : IsFiniteSet(upTo(i)) /\ Rank(P, i) \in Nat /\ Rank(P, i) <= c
  <2> TAKE i \in P
  <2>1. upTo(i) \in SUBSET P
    OBVIOUS
  <2>2. IsFiniteSet(upTo(i)) /\ Cardinality(upTo(i)) <= c
    BY <1>2, <2>1, FS_Subset
  <2>3. QED
    BY <2>2, FS_CardinalityType DEF Rank
<1>4. \A i \in P : Rank(P, i) # 0
  <2> TAKE i \in P
  <2>1. i \in upTo(i)
    OBVIOUS
  <2>2. Cardinality(upTo(i)) # 0
    BY <1>3, <2>1, FS_EmptySet
  <2>3. QED
    BY <2>2 DEF Rank
<1>5. ASSUME NEW i \in P, NEW j \in P, i < j PROVE Rank(P, i) < Rank(P, j)
  <2>1. i \in Nat /\ j \in Nat /\ \A k \in P : k \in Nat
    OBVIOUS
  <2>2. upTo(i) \in SUBSET upTo(j)
    <3>1. ASSUME NEW k \in P, k <= i PROVE k <= j
      <4>1. k \in Nat
        BY <2>1
      <4>2. QED
        BY <1>5, <2>1, <3>1, <4>1
    <3>2. QED
      BY <3>1
  <2>3. j \in upTo(j) /\ j \notin upTo(i)
    BY <1>5, <2>1
  <2>4. upTo(i) # upTo(j)
    BY <2>3
  <2>5. Cardinality(upTo(i)) <= Cardinality(upTo(j)) /\ Cardinality(upTo(i)) # Cardinality(upTo(j))
    BY <1>3, <2>2, <2>4, FS_Subset
  <2>6. QED
    BY <1>3, <2>5 DEF Rank
<1>6. \A i \in P : f[i] \in 1..c
  <2> TAKE i \in P
  <2> DEFINE r == Rank(P, i)
  <2>1. r \in Nat /\ r <= c /\ r # 0 /\ c \in Nat
    BY <1>2, <1>3, <1>4
  <2>2. f[i] = r
    OBVIOUS
  <2> HIDE DEF r, c, f
  <2>3. QED
    BY <2>1, <2>2
<1>7. \A i, j \in P : f[i] = f[j] => i = j
  <2> SUFFICES ASSUME NEW i \in P, NEW j \in P, f[i] = f[j], i # j PROVE FALSE
    OBVIOUS
  <2>1. i < j \/ j < i
    OBVIOUS
  <2>2. Rank(P, i) = Rank(P, j) /\ Rank(P, i) \in Nat
    BY <1>3
  <2>3. QED
    BY <1>5, <2>1, <2>2
<1>8. f \in Injection(P, 1..c)
  <2> HIDE DEF c
  <2>1. f \in [P -> 1..c]
    BY <1>6
  <2>2. QED
    BY <1>7, <2>1 DEF Injection, IsInjective
<1>9. IsFiniteSet(1..c) /\ Cardinality(1..c) = c
  <2> HIDE DEF c
  <2>1. 1 \in Int /\ c \in Int
    BY <1>2
  <2>2. IsFiniteSet(1..c) /\ Cardinality(1..c) = IF 1 > c THEN 0 ELSE c - 1 + 1
    BY <2>1, FS_Interval
  <2>3. QED
    BY <1>2, <2>2
<1>10. f \in Surjection(P, 1..c)
  <2> HIDE DEF f, c
  <2>1. Cardinality(P) = Cardinality(1..c)
    BY <1>9 DEF c
  <2>2. QED
    BY <1>8, <1>9, <2>1, FS_Injection
<1>11. \A k \in 1..c : \E i \in P : f[i] = k
  <2> HIDE DEF f, c
  <2>1. QED
    BY <1>10 DEF Surjection
<1>12. QED
  BY <1>2, <1>5, <1>6, <1>11

(* What is at them is a list: each of them once, and in their order.       *)
LEMMA ThoseAre ==
  ASSUME NEW list, IsList(list), NEW P \in SUBSET DOMAIN list
  PROVE  /\ IsFiniteSet(P) /\ Cardinality(P) \in 0..Len(list)
         /\ IsList(Those(list, P)) /\ Len(Those(list, P)) = Cardinality(P)
         /\ \A i \in P : Rank(P, i) \in 1..Cardinality(P) /\ Those(list, P)[Rank(P, i)] = list[i]
         /\ \A i, j \in P : Rank(P, i) = Rank(P, j) => i = j
         /\ \A k \in 1..Cardinality(P) : \E i \in P : Rank(P, i) = k /\ Those(list, P)[k] = list[i]
<1> DEFINE n == Len(list)
           c == Cardinality(P)
           at(k) == CHOOSE i \in P : Rank(P, i) = k
<1>1. n \in Nat /\ DOMAIN list = 1..n
  BY ListIs
<1>2. /\ IsFiniteSet(P) /\ c \in 0..n
      /\ \A i \in P : Rank(P, i) \in 1..c
      /\ \A i, j \in P : i < j => Rank(P, i) < Rank(P, j)
      /\ \A k \in 1..c : \E i \in P : Rank(P, i) = k
  BY <1>1, RanksAre
<1>3. \A i, j \in P : Rank(P, i) = Rank(P, j) => i = j
  <2> SUFFICES ASSUME NEW i \in P, NEW j \in P, Rank(P, i) = Rank(P, j), i # j PROVE FALSE
    OBVIOUS
  <2>1. i < j \/ j < i
    BY <1>1
  <2>2. Rank(P, i) \in Nat
    BY <1>2
  <2>3. QED
    BY <1>2, <2>1, <2>2
<1>4. Those(list, P) = [k \in 1..c |-> list[at(k)]]
  BY DEF Those, Rank
<1>5. \A k \in 1..c : at(k) \in P /\ Rank(P, at(k)) = k
  BY <1>2
<1> HIDE DEF at, c
<1>6. DOMAIN Those(list, P) = 1..c /\ \A k \in 1..c : Those(list, P)[k] = list[at(k)]
  BY <1>4
<1>7. Those(list, P) = [k \in 1..c |-> Those(list, P)[k]] /\ c \in Nat
  BY <1>2, <1>4, <1>6
<1>8. IsList(Those(list, P)) /\ Len(Those(list, P)) = c
  BY <1>6, <1>7, SequenceOf
<1>9. \A k \in 1..c : \E i \in P : Rank(P, i) = k /\ Those(list, P)[k] = list[i]
  BY <1>5, <1>6
<1>10. \A i \in P : Those(list, P)[Rank(P, i)] = list[i]
  BY <1>2, <1>3, <1>5, <1>6
<1>11. QED
  BY <1>2, <1>3, <1>8, <1>9, <1>10 DEF c

-----------------------------------------------------------------------------
(* What an extraction keeps of a response                                  *)

(* What ReadAsWritten says of one response and what was made of it.        *)
AsWritten(reply, kept) ==
  LET name(i) == reply.mentions[i].name
      keptName(i) == kept.mentions[i].name
  IN /\ Acceptable(kept)
     /\ \A k \in DOMAIN kept.facts : \E i \in DOMAIN reply.facts :
          /\ name(reply.facts[i].subject) = keptName(kept.facts[k].subject)
          /\ reply.facts[i].attribute = kept.facts[k].attribute
          /\ reply.facts[i].value = kept.facts[k].value
     /\ \A k \in DOMAIN kept.relations : \E i \in DOMAIN reply.relations :
          /\ name(reply.relations[i].subject) = keptName(kept.relations[k].subject)
          /\ name(reply.relations[i].object) = keptName(kept.relations[k].object)
     /\ \A k \in DOMAIN kept.closures : \E i \in DOMAIN reply.closures :
          name(reply.closures[i].subject) = keptName(kept.closures[k].subject)

(* An extraction is lists, whose relations and closures say since when.    *)
Dated(turn, x) ==
  /\ IsList(x.mentions) /\ IsList(x.facts) /\ IsList(x.relations) /\ IsList(x.closures)
  /\ \A i \in DOMAIN x.relations : x.relations[i].from \in Int
  /\ \A i \in DOMAIN x.closures : x.closures[i].at \in Int /\ x.closures[i].at <= turn.at

LEMMA ResolvedIs ==
  ASSUME NEW turn, turn.at \in Int, NEW days \in SUBSET Int, Resolves(days)
  PROVE  Resolved(days, turn) \in Int /\ Resolved(days, turn) <= turn.at
<1>1. CASE days = {}
  BY <1>1 DEF Resolved
<1>2. CASE days # {}
  <2> DEFINE d == CHOOSE d \in days : TRUE
  <2>1. d \in days
    BY <1>2
  <2>2. d \in Int /\ d >= 0
    BY <2>1 DEF Resolves
  <2>3. Resolved(days, turn) = turn.at - d
    BY <1>2 DEF Resolved
  <2> HIDE DEF d
  <2>4. QED
    BY <2>2, <2>3
<1>3. QED
  BY <1>1, <1>2

(* A mention that is kept has a slot, and is what the slot holds.          *)
LEMMA MentionsAre ==
  ASSUME NEW reply, IsResponse(reply), NEW turn
  PROVE  LET kept == Kept(reply, turn)
             mentions == Extract(reply, turn).mentions
         IN /\ IsList(mentions) /\ \A k \in DOMAIN mentions : mentions[k].name # Nameless
            /\ \A i \in kept : /\ i \in DOMAIN reply.mentions
                               /\ Slot(reply, turn, i) \in DOMAIN mentions
                               /\ mentions[Slot(reply, turn, i)].name = reply.mentions[i].name
            /\ \A i, j \in kept : Slot(reply, turn, i) = Slot(reply, turn, j) => i = j
<1> DEFINE kept == Kept(reply, turn)
           list == reply.mentions
           mentions == Extract(reply, turn).mentions
<1>1. IsList(list) /\ kept \in SUBSET DOMAIN list
  BY DEF IsResponse, Kept
<1>2. \A i \in kept : Slot(reply, turn, i) = Rank(kept, i)
  BY DEF Slot, Rank
<1>3. mentions = [k \in DOMAIN Those(list, kept) |-> [name |-> Those(list, kept)[k].name]]
  BY DEF Extract
<1>4. /\ IsFiniteSet(kept) /\ Cardinality(kept) \in 0..Len(list)
      /\ IsList(Those(list, kept)) /\ Len(Those(list, kept)) = Cardinality(kept)
      /\ \A i \in kept : Rank(kept, i) \in 1..Cardinality(kept) /\ Those(list, kept)[Rank(kept, i)] = list[i]
      /\ \A i, j \in kept : Rank(kept, i) = Rank(kept, j) => i = j
      /\ \A k \in 1..Cardinality(kept) : \E i \in kept : Rank(kept, i) = k /\ Those(list, kept)[k] = list[i]
  BY <1>1, ThoseAre
<1>5. \A i \in kept : list[i].name # Nameless
  BY DEF Kept
<1> HIDE DEF mentions, kept, list
<1>6. DOMAIN Those(list, kept) = 1..Cardinality(kept) /\ Cardinality(kept) \in Nat
  BY <1>4, ListIs
<1>7. DOMAIN mentions = 1..Cardinality(kept)
      /\ \A k \in 1..Cardinality(kept) : mentions[k].name = Those(list, kept)[k].name
  BY <1>3, <1>6
<1>8. IsList(mentions)
  <2>1. mentions = [k \in 1..Cardinality(kept) |-> mentions[k]]
    BY <1>3, <1>7
  <2>2. QED
    BY <1>6, <1>7, <2>1, SequenceOf
<1>9. \A k \in DOMAIN mentions : mentions[k].name # Nameless
  BY <1>4, <1>5, <1>7
<1>10. \A i \in kept : i \in DOMAIN list /\ Slot(reply, turn, i) \in DOMAIN mentions
                       /\ mentions[Slot(reply, turn, i)].name = list[i].name
  BY <1>1, <1>2, <1>4, <1>7
<1>11. \A i, j \in kept : Slot(reply, turn, i) = Slot(reply, turn, j) => i = j
  BY <1>2, <1>4
<1>12. QED
  BY <1>8, <1>9, <1>10, <1>11 DEF mentions, kept, list

(* A list whose items are made of some items of another, in their order.   *)
LEMMA MadeOf ==
  ASSUME NEW list, IsList(list), NEW P \in SUBSET DOMAIN list, NEW s,
         DOMAIN s = DOMAIN Those(list, P), s = [k \in DOMAIN s |-> s[k]]
  PROVE  /\ IsList(s)
         /\ \A k \in DOMAIN s : \E i \in P : Those(list, P)[k] = list[i]
         /\ \A i \in P : \E k \in DOMAIN s : Those(list, P)[k] = list[i]
<1>1. /\ Cardinality(P) \in 0..Len(list)
      /\ IsList(Those(list, P)) /\ Len(Those(list, P)) = Cardinality(P)
      /\ \A i \in P : Rank(P, i) \in 1..Cardinality(P) /\ Those(list, P)[Rank(P, i)] = list[i]
      /\ \A k \in 1..Cardinality(P) : \E i \in P : Rank(P, i) = k /\ Those(list, P)[k] = list[i]
  BY ThoseAre
<1>2. DOMAIN s = 1..Cardinality(P) /\ Cardinality(P) \in Nat
  BY <1>1, ListIs
<1>3. IsList(s)
  BY <1>2, SequenceOf
<1>4. QED
  BY <1>1, <1>2, <1>3

LEMMA FactsAre ==
  ASSUME NEW reply, IsResponse(reply), NEW turn
  PROVE  LET kept == Kept(reply, turn)
             facts == Extract(reply, turn).facts
         IN /\ IsList(facts)
            /\ \A k \in DOMAIN facts : \E i \in DOMAIN reply.facts :
                 /\ reply.facts[i].subject \in kept
                 /\ facts[k].subject = Slot(reply, turn, reply.facts[i].subject)
                 /\ facts[k].attribute = reply.facts[i].attribute
                 /\ facts[k].value = reply.facts[i].value
<1> DEFINE kept == Kept(reply, turn)
           list == reply.facts
           P == {i \in Landing(list, kept) : \A v \in list[i].value : ~EchoesTheExample(v, turn)}
           those == Those(list, P)
           facts == Extract(reply, turn).facts
<1>1. IsList(list) /\ P \in SUBSET DOMAIN list /\ \A i \in P : list[i].subject \in kept
  BY DEF IsResponse, Landing
<1>2. facts = [k \in DOMAIN those |->
                 [subject |-> Slot(reply, turn, those[k].subject), attribute |-> those[k].attribute,
                  value |-> those[k].value, from |-> Resolved(those[k].days, turn)]]
  BY DEF Extract
<1> HIDE DEF facts, P, kept, list
<1>3. DOMAIN facts = DOMAIN those /\ facts = [k \in DOMAIN facts |-> facts[k]]
  BY <1>2
<1>4. IsList(facts) /\ \A k \in DOMAIN facts : \E i \in P : those[k] = list[i]
  BY <1>1, <1>3, MadeOf
<1>5. \A k \in DOMAIN facts : /\ facts[k].subject = Slot(reply, turn, those[k].subject)
                              /\ facts[k].attribute = those[k].attribute
                              /\ facts[k].value = those[k].value
  BY <1>2
<1>6. QED
  BY <1>1, <1>4, <1>5 DEF facts, kept, list

LEMMA RelationsAre ==
  ASSUME NEW reply, IsResponse(reply), NEW turn, turn.at \in Int
  PROVE  LET kept == Kept(reply, turn)
             relations == Extract(reply, turn).relations
         IN /\ IsList(relations)
            /\ \A k \in DOMAIN relations : relations[k].from \in Int
            /\ \A k \in DOMAIN relations : \E i \in DOMAIN reply.relations :
                 /\ reply.relations[i].subject \in kept /\ reply.relations[i].object \in kept
                 /\ reply.relations[i].object # reply.relations[i].subject
                 /\ relations[k].subject = Slot(reply, turn, reply.relations[i].subject)
                 /\ relations[k].object = Slot(reply, turn, reply.relations[i].object)
<1> DEFINE kept == Kept(reply, turn)
           list == reply.relations
           P == {i \in Landing(list, kept) : list[i].object \in kept /\ list[i].object # list[i].subject}
           those == Those(list, P)
           relations == Extract(reply, turn).relations
<1>1. /\ IsList(list) /\ P \in SUBSET DOMAIN list
      /\ \A i \in P : /\ list[i].subject \in kept /\ list[i].object \in kept
                      /\ list[i].object # list[i].subject
                      /\ list[i].days \in SUBSET Int /\ Resolves(list[i].days)
  BY DEF IsResponse, Landing
<1>2. relations = [k \in DOMAIN those |->
                     [subject |-> Slot(reply, turn, those[k].subject), predicate |-> those[k].predicate,
                      object |-> Slot(reply, turn, those[k].object),
                      from |-> Resolved(those[k].days, turn)]]
  BY DEF Extract
<1> HIDE DEF relations, P, kept, list
<1>3. DOMAIN relations = DOMAIN those /\ relations = [k \in DOMAIN relations |-> relations[k]]
  BY <1>2
<1>4. IsList(relations) /\ \A k \in DOMAIN relations : \E i \in P : those[k] = list[i]
  BY <1>1, <1>3, MadeOf
<1>5. \A k \in DOMAIN relations : /\ relations[k].subject = Slot(reply, turn, those[k].subject)
                                  /\ relations[k].object = Slot(reply, turn, those[k].object)
                                  /\ relations[k].from = Resolved(those[k].days, turn)
  BY <1>2
<1>6. \A i \in P : Resolved(list[i].days, turn) \in Int
  BY <1>1, ResolvedIs
<1>7. QED
  BY <1>1, <1>4, <1>5, <1>6 DEF relations, kept, list

LEMMA ClosuresAre ==
  ASSUME NEW reply, IsResponse(reply), NEW turn, turn.at \in Int
  PROVE  LET kept == Kept(reply, turn)
             closures == Extract(reply, turn).closures
         IN /\ IsList(closures)
            /\ \A k \in DOMAIN closures : closures[k].at \in Int /\ closures[k].at <= turn.at
            /\ \A k \in DOMAIN closures : \E i \in DOMAIN reply.closures :
                 /\ reply.closures[i].subject \in kept
                 /\ closures[k].subject = Slot(reply, turn, reply.closures[i].subject)
<1> DEFINE kept == Kept(reply, turn)
           list == reply.closures
           P == Landing(list, kept)
           those == Those(list, P)
           closures == Extract(reply, turn).closures
<1>1. /\ IsList(list) /\ P \in SUBSET DOMAIN list
      /\ \A i \in P : /\ list[i].subject \in kept
                      /\ list[i].days \in SUBSET Int /\ Resolves(list[i].days)
  BY DEF IsResponse, Landing
<1>2. closures = [k \in DOMAIN those |->
                    [subject |-> Slot(reply, turn, those[k].subject), predicate |-> those[k].predicate,
                     at |-> Resolved(those[k].days, turn)]]
  BY DEF Extract
<1> HIDE DEF closures, P, kept, list
<1>3. DOMAIN closures = DOMAIN those /\ closures = [k \in DOMAIN closures |-> closures[k]]
  BY <1>2
<1>4. IsList(closures) /\ \A k \in DOMAIN closures : \E i \in P : those[k] = list[i]
  BY <1>1, <1>3, MadeOf
<1>5. \A k \in DOMAIN closures : /\ closures[k].subject = Slot(reply, turn, those[k].subject)
                                 /\ closures[k].at = Resolved(those[k].days, turn)
  BY <1>2
<1>6. \A i \in P : Resolved(list[i].days, turn) \in Int /\ Resolved(list[i].days, turn) <= turn.at
  BY <1>1, ResolvedIs
<1>7. QED
  BY <1>1, <1>4, <1>5, <1>6 DEF closures, kept, list

(* Whatever a response is, what is kept of it is about what it was about.  *)
LEMMA ExtractIs ==
  ASSUME NEW reply, IsResponse(reply), NEW turn, turn.at \in Int
  PROVE  AsWritten(reply, Extract(reply, turn)) /\ Dated(turn, Extract(reply, turn))
<1> DEFINE kept == Kept(reply, turn)
           x == Extract(reply, turn)
           slot(i) == Slot(reply, turn, i)
<1>1. /\ IsList(x.mentions) /\ \A k \in DOMAIN x.mentions : x.mentions[k].name # Nameless
      /\ \A i \in kept : slot(i) \in DOMAIN x.mentions
      /\ \A i \in kept : x.mentions[slot(i)].name = reply.mentions[i].name
      /\ \A i, j \in kept : slot(i) = slot(j) => i = j
  BY MentionsAre
<1>2. /\ IsList(x.facts)
      /\ \A k \in DOMAIN x.facts : \E i \in DOMAIN reply.facts :
                 /\ reply.facts[i].subject \in kept
                 /\ x.facts[k].subject = slot(reply.facts[i].subject)
                 /\ x.facts[k].attribute = reply.facts[i].attribute
                 /\ x.facts[k].value = reply.facts[i].value
  BY FactsAre
<1>3. /\ IsList(x.relations)
      /\ \A k \in DOMAIN x.relations : x.relations[k].from \in Int
      /\ \A k \in DOMAIN x.relations : \E i \in DOMAIN reply.relations :
                 /\ reply.relations[i].subject \in kept /\ reply.relations[i].object \in kept
                 /\ reply.relations[i].object # reply.relations[i].subject
                 /\ x.relations[k].subject = slot(reply.relations[i].subject)
                 /\ x.relations[k].object = slot(reply.relations[i].object)
  BY RelationsAre
<1>4. /\ IsList(x.closures)
      /\ \A k \in DOMAIN x.closures : x.closures[k].at \in Int /\ x.closures[k].at <= turn.at
      /\ \A k \in DOMAIN x.closures : \E i \in DOMAIN reply.closures :
                 /\ reply.closures[i].subject \in kept
                 /\ x.closures[k].subject = slot(reply.closures[i].subject)
  BY ClosuresAre
<1> HIDE DEF x, kept, slot
<1>5. Dated(turn, x)
  BY <1>1, <1>2, <1>3, <1>4 DEF Dated
<1>6. \A k \in DOMAIN x.facts : x.facts[k].subject \in DOMAIN x.mentions
  BY <1>1, <1>2
<1>7. \A k \in DOMAIN x.relations : /\ x.relations[k].subject \in DOMAIN x.mentions
                                    /\ x.relations[k].object \in DOMAIN x.mentions
                                    /\ x.relations[k].subject # x.relations[k].object
  BY <1>1, <1>3
<1>8. \A k \in DOMAIN x.closures : x.closures[k].subject \in DOMAIN x.mentions
  BY <1>1, <1>4
<1>9. Acceptable(x)
  BY <1>1, <1>6, <1>7, <1>8 DEF Acceptable
<1>10. \A k \in DOMAIN x.facts : \E i \in DOMAIN reply.facts :
          /\ reply.mentions[reply.facts[i].subject].name = x.mentions[x.facts[k].subject].name
          /\ reply.facts[i].attribute = x.facts[k].attribute
          /\ reply.facts[i].value = x.facts[k].value
  BY <1>1, <1>2
<1>11. \A k \in DOMAIN x.relations : \E i \in DOMAIN reply.relations :
          /\ reply.mentions[reply.relations[i].subject].name = x.mentions[x.relations[k].subject].name
          /\ reply.mentions[reply.relations[i].object].name = x.mentions[x.relations[k].object].name
  BY <1>1, <1>3
<1>12. \A k \in DOMAIN x.closures : \E i \in DOMAIN reply.closures :
          reply.mentions[reply.closures[i].subject].name = x.mentions[x.closures[k].subject].name
  BY <1>1, <1>4
<1>13. AsWritten(reply, x)
  BY <1>9, <1>10, <1>11, <1>12 DEF AsWritten
<1>14. QED
  BY <1>5, <1>13 DEF x

(* Leaving out what says that there is none changes no reference.          *)
LEMMA WithoutAbsencesIs ==
  ASSUME NEW reply, IsResponse(reply), NEW turn, turn.at \in Int
  PROVE  LET x == WithoutAbsences(Extract(reply, turn))
         IN /\ AsWritten(reply, x) /\ Dated(turn, x)
            /\ \A k \in DOMAIN x.facts : x.facts[k].value # {}
<1> DEFINE e == Extract(reply, turn)
           P == {i \in DOMAIN e.facts : e.facts[i].value # {}}
           x == WithoutAbsences(e)
<1>1. AsWritten(reply, e) /\ Dated(turn, e)
  BY ExtractIs
<1>2. /\ x.mentions = e.mentions /\ x.relations = e.relations /\ x.closures = e.closures
      /\ x.facts = Those(e.facts, P)
  BY DEF WithoutAbsences, Extract
<1>3. IsList(e.facts) /\ P \in SUBSET DOMAIN e.facts /\ \A i \in P : e.facts[i].value # {}
  BY <1>1 DEF Dated
<1> HIDE DEF x, e, P
<1>4. IsList(x.facts) /\ \A k \in DOMAIN x.facts : \E i \in P : x.facts[k] = e.facts[i]
  <2>1. IsList(Those(e.facts, P))
    BY <1>3, ThoseAre
  <2>2. DOMAIN x.facts = DOMAIN Those(e.facts, P) /\ x.facts = [k \in DOMAIN x.facts |-> x.facts[k]]
    BY <1>2, <2>1, ListIs
  <2>3. QED
    BY <1>2, <1>3, <2>2, MadeOf
<1>5. Acceptable(x)
  BY <1>1, <1>2, <1>3, <1>4 DEF Acceptable, AsWritten
<1>6. \A k \in DOMAIN x.facts : x.facts[k].value # {}
  BY <1>3, <1>4
<1>7. \A k \in DOMAIN x.facts : \E i \in DOMAIN e.facts : x.facts[k] = e.facts[i]
  BY <1>3, <1>4
<1>8. AsWritten(reply, x)
  BY <1>1, <1>2, <1>5, <1>7 DEF AsWritten
<1>9. Dated(turn, x)
  BY <1>1, <1>2, <1>4 DEF Dated
<1>10. QED
  BY <1>6, <1>8, <1>9 DEF x, e

-----------------------------------------------------------------------------
(* What is defined by recursion exists                                     *)

Unopened == [path |-> <<>>, body |-> <<>>, fenced |-> FALSE, out |-> <<>>]
IsReading(f, document, n) ==
  f = [k \in 0..n |-> IF k = 0 THEN Unopened ELSE ReadLine(f[k - 1], document[k])]

LEMMA ReadingExists ==
  ASSUME NEW document, NEW n \in Nat
  PROVE  \E f : IsReading(f, document, n)
<1> DEFINE S == {m \in Nat : \E f : IsReading(f, document, m)}
<1>1. 0 \in S
  <2> DEFINE f == [k \in 0..0 |-> Unopened]
  <2>1. f = [k \in 0..0 |-> IF k = 0 THEN Unopened ELSE ReadLine(f[k - 1], document[k])]
    OBVIOUS
  <2> HIDE DEF f
  <2>2. QED
    BY <2>1 DEF IsReading
<1>2. ASSUME NEW m \in Nat, m \in S PROVE m + 1 \in S
  <2>1. PICK f : IsReading(f, document, m)
    BY <1>2
  <2> DEFINE g == [k \in 0..(m + 1) |-> IF k = m + 1 THEN ReadLine(f[m], document[m + 1]) ELSE f[k]]
  <2>2. \A k \in 0..m : g[k] = f[k]
    OBVIOUS
  <2>3. \A k \in 0..m : f[k] = IF k = 0 THEN Unopened ELSE ReadLine(f[k - 1], document[k])
    BY <2>1 DEF IsReading
  <2>4. g[m + 1] = ReadLine(f[m], document[m + 1])
    OBVIOUS
  <2>5. g = [k \in 0..(m + 1) |-> g[k]]
    OBVIOUS
  <2> HIDE DEF g
  <2>6. \A k \in 0..(m + 1) : g[k] = IF k = 0 THEN Unopened ELSE ReadLine(g[k - 1], document[k])
    <3> TAKE k \in 0..(m + 1)
    <3>1. CASE k = 0
      BY <2>2, <2>3, <3>1
    <3>2. CASE k \in 1..m
      <4>1. k - 1 \in 0..m /\ k \in 0..m /\ k # 0
        BY <3>2
      <4>2. QED
        BY <2>2, <2>3, <4>1
    <3>3. CASE k = m + 1
      <4>1. k - 1 = m /\ m \in 0..m /\ k # 0
        BY <3>3
      <4>2. QED
        BY <2>2, <2>4, <3>3, <4>1
    <3>4. QED
      BY <3>1, <3>2, <3>3
  <2>7. g = [k \in 0..(m + 1) |-> IF k = 0 THEN Unopened ELSE ReadLine(g[k - 1], document[k])]
    BY <2>5, <2>6
  <2>8. IsReading(g, document, m + 1)
    BY <2>7 DEF IsReading
  <2>9. QED
    BY <2>8
<1>3. n \in S
  <2> HIDE DEF S
  <2>1. QED
    BY <1>1, <1>2, Climbs
<1>4. QED
  BY <1>3

(* The sections of a document are a list.                                  *)
LEMMA SectionsAre ==
  ASSUME NEW document, IsList(document)
  PROVE  IsList(Sections(document))
<1> DEFINE n == Len(document)
           f == CHOOSE f : IsReading(f, document, n)
           Fits(s) == DOMAIN s = {"path", "body", "fenced", "out"} /\ IsList(s.out)
<1>1. n \in Nat
  BY ListIs
<1>2. IsReading(f, document, n)
  BY <1>1, ReadingExists
<1>3. AllRead(document) = f[n]
  BY DEF AllRead, IsReading, Unopened
<1> HIDE DEF f, n
<1>4. \A s : Fits(s) => IsList(Flushed(s))
  <2> SUFFICES ASSUME NEW s, Fits(s) PROVE IsList(Flushed(s))
    OBVIOUS
  <2>1. IsList(Append(s.out, [heading |-> s.path, text |-> Trimmed(s.body)]))
    BY AppendedIs
  <2>2. QED
    BY <2>1 DEF Flushed
<1>5. \A s, line : Fits(s) => Fits(ReadLine(s, line))
  <2> SUFFICES ASSUME NEW s, NEW line, Fits(s) PROVE Fits(ReadLine(s, line))
    OBVIOUS
  <2>1. IsList(Flushed(s))
    BY <1>4
  <2>2. CASE line.is = "heading" /\ ~s.fenced
    <3>1. DOMAIN ReadLine(s, line) = DOMAIN s /\ ReadLine(s, line).out = Flushed(s)
      BY <2>2 DEF ReadLine
    <3>2. QED
      BY <2>1, <3>1
  <2>3. CASE ~(line.is = "heading" /\ ~s.fenced)
    <3>1. DOMAIN ReadLine(s, line) = DOMAIN s /\ ReadLine(s, line).out = s.out
      BY <2>3 DEF ReadLine
    <3>2. QED
      BY <3>1
  <2>4. QED
    BY <2>2, <2>3
<1>6. Fits(Unopened)
  BY EmptyIs DEF Unopened
<1>7. Fits(f[n])
  <2> DEFINE S == {m \in Nat : m <= n => Fits(f[m])}
  <2>1. 0 \in S
    BY <1>1, <1>2, <1>6 DEF IsReading
  <2>2. ASSUME NEW m \in Nat, m \in S PROVE m + 1 \in S
    <3> SUFFICES ASSUME m + 1 <= n PROVE Fits(f[m + 1])
      OBVIOUS
    <3>1. Fits(f[m])
      BY <1>1, <2>2
    <3>2. m + 1 \in 0..n /\ m + 1 # 0 /\ (m + 1) - 1 = m
      BY <1>1
    <3>3. f[m + 1] = ReadLine(f[m], document[m + 1])
      BY <1>2, <3>2 DEF IsReading
    <3> HIDE DEF Fits
    <3>4. QED
      BY <1>5, <3>1, <3>3
  <2>3. n \in S
    <3> HIDE DEF S
    <3>1. QED
      BY <1>1, <2>1, <2>2, Climbs
  <2>4. QED
    BY <1>1, <2>3
<1>8. QED
  BY <1>3, <1>4, <1>7 DEF Sections

(* The store, plan after plan.                                             *)
IsWriting(f, s, planned, n) ==
  f = [m \in 0..n |-> IF m = 0 THEN s ELSE Committed(f[m - 1], planned[m])]

LEMMA WritingExists ==
  ASSUME NEW s, NEW planned, NEW n \in Nat
  PROVE  \E f : IsWriting(f, s, planned, n)
<1> DEFINE S == {m \in Nat : \E f : IsWriting(f, s, planned, m)}
<1>1. 0 \in S
  <2> DEFINE f == [k \in 0..0 |-> s]
  <2>1. f = [k \in 0..0 |-> IF k = 0 THEN s ELSE Committed(f[k - 1], planned[k])]
    OBVIOUS
  <2> HIDE DEF f
  <2>2. QED
    BY <2>1 DEF IsWriting
<1>2. ASSUME NEW m \in Nat, m \in S PROVE m + 1 \in S
  <2>1. PICK f : IsWriting(f, s, planned, m)
    BY <1>2
  <2> DEFINE g == [k \in 0..(m + 1) |-> IF k = m + 1 THEN Committed(f[m], planned[m + 1]) ELSE f[k]]
  <2>2. \A k \in 0..m : g[k] = f[k]
    OBVIOUS
  <2>3. \A k \in 0..m : f[k] = IF k = 0 THEN s ELSE Committed(f[k - 1], planned[k])
    BY <2>1 DEF IsWriting
  <2>4. g[m + 1] = Committed(f[m], planned[m + 1])
    OBVIOUS
  <2>5. g = [k \in 0..(m + 1) |-> g[k]]
    OBVIOUS
  <2> HIDE DEF g
  <2>6. \A k \in 0..(m + 1) : g[k] = IF k = 0 THEN s ELSE Committed(g[k - 1], planned[k])
    <3> TAKE k \in 0..(m + 1)
    <3>1. CASE k = 0
      BY <2>2, <2>3, <3>1
    <3>2. CASE k \in 1..m
      <4>1. k - 1 \in 0..m /\ k \in 0..m /\ k # 0
        BY <3>2
      <4>2. QED
        BY <2>2, <2>3, <4>1
    <3>3. CASE k = m + 1
      <4>1. k - 1 = m /\ m \in 0..m /\ k # 0
        BY <3>3
      <4>2. QED
        BY <2>2, <2>4, <3>3, <4>1
    <3>4. QED
      BY <3>1, <3>2, <3>3
  <2>7. g = [k \in 0..(m + 1) |-> IF k = 0 THEN s ELSE Committed(g[k - 1], planned[k])]
    BY <2>5, <2>6
  <2>8. IsWriting(g, s, planned, m + 1)
    BY <2>7 DEF IsWriting
  <2>9. QED
    BY <2>8
<1>3. n \in S
  <2> HIDE DEF S
  <2>1. QED
    BY <1>1, <1>2, Climbs
<1>4. QED
  BY <1>3

LEMMA StoreAfterIs ==
  ASSUME NEW s, NEW planned, IsList(planned)
  PROVE  /\ StoreAfter(s, planned, 0) = s
         /\ \A n \in 1..Len(planned) :
              StoreAfter(s, planned, n) = Committed(StoreAfter(s, planned, n - 1), planned[n])
<1> DEFINE c == Len(planned)
           f == CHOOSE f : IsWriting(f, s, planned, c)
<1>1. c \in Nat
  BY ListIs
<1>2. IsWriting(f, s, planned, c)
  BY <1>1, WritingExists
<1>3. \A n : StoreAfter(s, planned, n) = f[n]
  BY DEF StoreAfter, IsWriting
<1> HIDE DEF f, c
<1>4. f[0] = s /\ \A n \in 1..c : f[n] = Committed(f[n - 1], planned[n])
  BY <1>1, <1>2 DEF IsWriting
<1>5. QED
  BY <1>3, <1>4 DEF c

(* The edges, closure after closure.                                       *)
IsClosing(f, edges, turn, x, n) ==
  f = [m \in 0..n |-> IF m = 0 THEN edges ELSE Ended(f[m - 1], turn, x, x.closures[m])]

LEMMA ClosingExists ==
  ASSUME NEW edges, NEW turn, NEW x, NEW n \in Nat
  PROVE  \E f : IsClosing(f, edges, turn, x, n)
<1> DEFINE S == {m \in Nat : \E f : IsClosing(f, edges, turn, x, m)}
           step(e, k) == Ended(e, turn, x, x.closures[k])
<1>1. 0 \in S
  <2> DEFINE f == [k \in 0..0 |-> edges]
  <2>1. f = [k \in 0..0 |-> IF k = 0 THEN edges ELSE step(f[k - 1], k)]
    OBVIOUS
  <2> HIDE DEF f
  <2>2. QED
    BY <2>1 DEF IsClosing
<1>2. ASSUME NEW m \in Nat, m \in S PROVE m + 1 \in S
  <2>1. PICK f : IsClosing(f, edges, turn, x, m)
    BY <1>2
  <2> DEFINE g == [k \in 0..(m + 1) |-> IF k = m + 1 THEN step(f[m], m + 1) ELSE f[k]]
  <2>2. \A k \in 0..m : g[k] = f[k]
    OBVIOUS
  <2>3. \A k \in 0..m : f[k] = IF k = 0 THEN edges ELSE step(f[k - 1], k)
    BY <2>1 DEF IsClosing
  <2>4. g[m + 1] = step(f[m], m + 1)
    OBVIOUS
  <2>5. g = [k \in 0..(m + 1) |-> g[k]]
    OBVIOUS
  <2> HIDE DEF g
  <2>6. \A k \in 0..(m + 1) : g[k] = IF k = 0 THEN edges ELSE step(g[k - 1], k)
    <3> TAKE k \in 0..(m + 1)
    <3>1. CASE k = 0
      BY <2>2, <2>3, <3>1
    <3>2. CASE k \in 1..m
      <4>1. k - 1 \in 0..m /\ k \in 0..m /\ k # 0
        BY <3>2
      <4>2. QED
        BY <2>2, <2>3, <4>1
    <3>3. CASE k = m + 1
      <4>1. k - 1 = m /\ m \in 0..m /\ k # 0
        BY <3>3
      <4>2. QED
        BY <2>2, <2>4, <3>3, <4>1
    <3>4. QED
      BY <3>1, <3>2, <3>3
  <2>7. g = [k \in 0..(m + 1) |-> IF k = 0 THEN edges ELSE step(g[k - 1], k)]
    BY <2>5, <2>6
  <2>8. IsClosing(g, edges, turn, x, m + 1)
    BY <2>7 DEF IsClosing
  <2>9. QED
    BY <2>8
<1>3. n \in S
  <2> HIDE DEF S
  <2>1. QED
    BY <1>1, <1>2, Climbs
<1>4. QED
  BY <1>3

LEMMA ClosedIs ==
  ASSUME NEW edges, NEW turn, NEW x, IsList(x.closures)
  PROVE  \E f : /\ f[0] = edges /\ f[Len(x.closures)] = Closed(edges, turn, x)
                /\ \A n \in 1..Len(x.closures) : f[n] = Ended(f[n - 1], turn, x, x.closures[n])
<1> DEFINE c == Len(x.closures)
           f == CHOOSE f : IsClosing(f, edges, turn, x, c)
<1>1. c \in Nat
  BY ListIs
<1>2. IsClosing(f, edges, turn, x, c)
  BY <1>1, ClosingExists
<1>3. Closed(edges, turn, x) = f[c]
  BY DEF Closed, IsClosing
<1> HIDE DEF f, c
<1>4. f[0] = edges /\ \A n \in 1..c : f[n] = Ended(f[n - 1], turn, x, x.closures[n])
  BY <1>1, <1>2 DEF IsClosing
<1>5. QED
  BY <1>3, <1>4 DEF c

-----------------------------------------------------------------------------
(* What a turn does to the edges                                           *)

LogOk(log) ==
  /\ IsList(log)
  /\ \A i \in DOMAIN log : /\ log[i].at \in 0..MaxCommands /\ log[i].from \in Int
                           /\ log[i].present \in BOOLEAN

EdgesOk(edges) ==
  \A t \in DOMAIN edges : t = <<t[1], t[2], t[3]>> /\ LogOk(edges[t])

(* Whether the first n versions of a log say that it holds at an instant.  *)
Stands(log, n, valid_t) ==
  \E i \in 1..n :
    /\ log[i].present /\ log[i].from <= valid_t
    /\ \A j \in 1..n : log[j].from <= valid_t =>
         log[j].at < log[i].at \/ (log[j].at = log[i].at /\ j <= i)

Extends(log, longer) ==
  Len(log) <= Len(longer) /\ \A i \in 1..Len(log) : longer[i] = log[i]

(* The versions of a longer log that are new.                              *)
New(log, longer) == (Len(log) + 1)..Len(longer)

(* What a turn relates.                                                    *)
Told(x) == {TripleOf(x, x.relations[i]) : i \in DOMAIN x.relations}

(* A closure speaks of an edge.                                            *)
Covers(x, c, t) == t[1] = EntityOf(x, c.subject) /\ t[2] = c.predicate

LEMMA LogsAre ==
  ASSUME NEW edges, EdgesOk(edges), NEW t
  PROVE  LogOk(LogOf(edges, t))
<1>1. LogOk(<<>>)
  BY EmptyIs DEF LogOk
<1>2. QED
  BY <1>1 DEF EdgesOk, LogOf

(* All that is in a log was known before Forever.                          *)
LEMMA InForceIs ==
  ASSUME NEW edges, EdgesOk(edges), NEW t, NEW v \in Int
  PROVE  InForce(edges, t, v, Forever) <=> Stands(LogOf(edges, t), Len(LogOf(edges, t)), v)
<1> DEFINE log == LogOf(edges, t)
           seen == {i \in DOMAIN log : log[i].at <= Forever /\ log[i].from <= v}
<1>1. LogOk(log)
  BY LogsAre
<1>2. DOMAIN log = 1..Len(log) /\ Len(log) \in Nat
  BY <1>1, ListIs DEF LogOk
<1>3. \A i \in DOMAIN log : log[i].at <= Forever
  BY <1>1, DocumentsAssumption DEF LogOk, Forever
<1>4. seen = {i \in 1..Len(log) : log[i].from <= v}
  BY <1>2, <1>3
<1>5. InForce(edges, t, v, Forever) <=>
        \E i \in seen : /\ log[i].present
                        /\ \A j \in seen : log[j].at < log[i].at \/ (log[j].at = log[i].at /\ j <= i)
  BY DEF InForce
<1> HIDE DEF seen, log
<1>6. QED
  BY <1>4, <1>5 DEF Stands, log

LEMMA LogAppended ==
  ASSUME NEW log, LogOk(log), NEW v, v.at \in 0..MaxCommands, v.from \in Int, v.present \in BOOLEAN
  PROVE  /\ LogOk(Append(log, v)) /\ Extends(log, Append(log, v))
         /\ Len(Append(log, v)) = Len(log) + 1 /\ Append(log, v)[Len(log) + 1] = v
<1>1. IsList(log) /\ Len(log) \in Nat /\ DOMAIN log = 1..Len(log)
  BY ListIs DEF LogOk
<1> DEFINE longer == Append(log, v)
<1>2. /\ IsList(longer) /\ Len(longer) = Len(log) + 1
      /\ \A i \in 1..Len(log) : longer[i] = log[i]
      /\ longer[Len(log) + 1] = v
  BY <1>1, AppendedIs
<1>3. DOMAIN longer = 1..(Len(log) + 1)
  BY <1>2, ListIs
<1> HIDE DEF longer
<1>4. \A i \in DOMAIN longer : i \in DOMAIN log \/ i = Len(log) + 1
  BY <1>1, <1>3
<1>5. \A i \in DOMAIN longer : /\ longer[i].at \in 0..MaxCommands /\ longer[i].from \in Int
                               /\ longer[i].present \in BOOLEAN
  BY <1>1, <1>2, <1>4 DEF LogOk
<1>6. Extends(log, longer)
  BY <1>1, <1>2 DEF Extends
<1>7. QED
  BY <1>2, <1>5, <1>6 DEF LogOk, longer

LEMMA LogJoined ==
  ASSUME NEW log, LogOk(log), NEW more, LogOk(more)
  PROVE  /\ LogOk(log \o more) /\ Extends(log, log \o more)
         /\ Len(log \o more) = Len(log) + Len(more)
         /\ \A i \in 1..Len(more) : (log \o more)[Len(log) + i] = more[i]
<1> DEFINE longer == log \o more
<1>1. /\ IsList(log) /\ Len(log) \in Nat /\ DOMAIN log = 1..Len(log)
      /\ IsList(more) /\ Len(more) \in Nat /\ DOMAIN more = 1..Len(more)
  BY ListIs DEF LogOk
<1>2. /\ IsList(longer) /\ Len(longer) = Len(log) + Len(more)
      /\ \A i \in 1..Len(log) : longer[i] = log[i]
      /\ \A i \in 1..Len(more) : longer[Len(log) + i] = more[i]
  BY <1>1, Joined
<1>3. DOMAIN longer = 1..(Len(log) + Len(more))
  BY <1>2, ListIs
<1> HIDE DEF longer
<1>4. \A i \in DOMAIN longer : i \in DOMAIN log \/ (i - Len(log) \in DOMAIN more
                                                    /\ Len(log) + (i - Len(log)) = i)
  BY <1>1, <1>3
<1>5. ASSUME NEW i \in DOMAIN longer
      PROVE  /\ longer[i].at \in 0..MaxCommands /\ longer[i].from \in Int
             /\ longer[i].present \in BOOLEAN
  <2>1. CASE i \in DOMAIN log
    BY <1>1, <1>2, <2>1 DEF LogOk
  <2>2. CASE i \notin DOMAIN log
    <3> DEFINE k == i - Len(log)
    <3>1. k \in DOMAIN more /\ Len(log) + k = i
      BY <1>4, <2>2
    <3>2. longer[i] = more[k]
      BY <1>1, <1>2, <3>1
    <3> HIDE DEF k
    <3>3. QED
      BY <3>1, <3>2 DEF LogOk
  <2>3. QED
    BY <2>1, <2>2
<1>6. Extends(log, longer)
  BY <1>1, <1>2 DEF Extends
<1>7. QED
  BY <1>2, <1>5, <1>6 DEF LogOk, longer

(* The relations of a turn: each is a new version of its edge, there from  *)
(* the instant it says, and no other edge has one.                         *)
OnlyRelated(edges, turn, x, e) ==
  /\ DOMAIN e = DOMAIN edges \cup Told(x) /\ EdgesOk(e)
  /\ \A t \in DOMAIN e : /\ Extends(LogOf(edges, t), e[t])
                         /\ \A i \in New(LogOf(edges, t), e[t]) :
                              e[t][i].present /\ e[t][i].at = turn.at
  /\ \A t \in DOMAIN e \ Told(x) : Len(e[t]) = Len(LogOf(edges, t))
  /\ \A r \in DOMAIN x.relations :
       LET t == TripleOf(x, x.relations[r])
       IN \E i \in New(LogOf(edges, t), e[t]) : e[t][i].from = x.relations[r].from

LEMMA RelatedIs ==
  ASSUME NEW edges, EdgesOk(edges), NEW turn, turn.at \in 0..MaxCommands, NEW x, Dated(turn, x)
  PROVE  OnlyRelated(edges, turn, x, Related(edges, turn, x))
<1> DEFINE R == DOMAIN x.relations
           triple == [i \in R |-> TripleOf(x, x.relations[i])]
           at(t) == {i \in R : triple[i] = t}
           of(t) == Those(x.relations, at(t))
           more(t) == [k \in DOMAIN of(t) |->
                         [present |-> TRUE, from |-> of(t)[k].from, at |-> turn.at]]
           e == Related(edges, turn, x)
<1>1. IsList(x.relations) /\ \A i \in R : x.relations[i].from \in Int
  BY DEF Dated
<1>2. {triple[i] : i \in DOMAIN triple} = Told(x)
  BY DEF Told
<1>3. e = [t \in DOMAIN edges \cup {triple[i] : i \in DOMAIN triple} |-> LogOf(edges, t) \o more(t)]
  <2>1. \A t : {i \in DOMAIN triple : triple[i] = t} = at(t)
    OBVIOUS
  <2> HIDE DEF at
  <2>2. QED
    BY <2>1 DEF Related
<1>4. DOMAIN e = DOMAIN edges \cup Told(x) /\ \A t \in DOMAIN e : e[t] = LogOf(edges, t) \o more(t)
  <2> HIDE DEF more, triple, e
  <2>1. QED
    BY <1>2, <1>3
<1>5. ASSUME NEW t
      PROVE  /\ LogOk(more(t)) /\ Len(more(t)) = Cardinality(at(t)) /\ Cardinality(at(t)) \in Nat
             /\ \A k \in 1..Len(more(t)) : more(t)[k].present /\ more(t)[k].at = turn.at
             /\ \A i \in at(t) : \E k \in 1..Len(more(t)) : more(t)[k].from = x.relations[i].from
             /\ IsFiniteSet(at(t))
  <2> DEFINE P == at(t)
             M == more(t)
             s == Those(x.relations, P)
  <2>1. P \in SUBSET DOMAIN x.relations
    OBVIOUS
  <2> HIDE DEF at, P
  <2>2. /\ IsFiniteSet(P) /\ Cardinality(P) \in 0..Len(x.relations)
        /\ IsList(s) /\ Len(s) = Cardinality(P)
        /\ \A i \in P : Rank(P, i) \in 1..Cardinality(P) /\ s[Rank(P, i)] = x.relations[i]
        /\ \A k \in 1..Cardinality(P) : \E i \in P : Rank(P, i) = k /\ s[k] = x.relations[i]
    BY <1>1, <2>1, ThoseAre
  <2>3. M = [k \in DOMAIN s |-> [present |-> TRUE, from |-> s[k].from, at |-> turn.at]]
    BY DEF P
  <2> HIDE DEF M, s
  <2>4. DOMAIN s = 1..Cardinality(P) /\ Cardinality(P) \in Nat
    BY <2>2, ListIs
  <2>5. DOMAIN M = 1..Cardinality(P) /\ M = [k \in 1..Cardinality(P) |-> M[k]]
    BY <2>3, <2>4
  <2>6. IsList(M) /\ Len(M) = Cardinality(P)
    BY <2>4, <2>5, SequenceOf
  <2>7. \A k \in DOMAIN s : M[k].present = TRUE /\ M[k].from = s[k].from /\ M[k].at = turn.at
    BY <2>3
  <2>8. \A k \in DOMAIN s : s[k].from \in Int
    BY <1>1, <2>1, <2>2, <2>4
  <2>9. LogOk(M)
    BY <2>4, <2>5, <2>6, <2>7, <2>8 DEF LogOk
  <2>10. \A i \in P : \E k \in 1..Len(M) : M[k].from = x.relations[i].from
    BY <2>2, <2>4, <2>6, <2>7
  <2>11. QED
    BY <2>2, <2>4, <2>6, <2>7, <2>9, <2>10 DEF P, M
<1> HIDE DEF more, of, e
<1>6. ASSUME NEW t \in DOMAIN e
      PROVE  /\ LogOk(e[t]) /\ Extends(LogOf(edges, t), e[t])
             /\ Len(e[t]) = Len(LogOf(edges, t)) + Len(more(t))
             /\ \A i \in 1..Len(more(t)) : e[t][Len(LogOf(edges, t)) + i] = more(t)[i]
  <2> DEFINE L == LogOf(edges, t)
             M == more(t)
  <2>1. LogOk(L) /\ LogOk(M)
    BY <1>5, LogsAre
  <2>2. e[t] = L \o M
    BY <1>4
  <2> HIDE DEF L, M
  <2>3. LogOk(L \o M) /\ Extends(L, L \o M) /\ Len(L \o M) = Len(L) + Len(M)
        /\ \A i \in 1..Len(M) : (L \o M)[Len(L) + i] = M[i]
    BY <2>1, LogJoined
  <2>4. QED
    BY <2>2, <2>3 DEF L, M
<1>7. EdgesOk(e)
  <2>1. \A t \in Told(x) : t = <<t[1], t[2], t[3]>>
    BY DEF Told, TripleOf
  <2>2. QED
    BY <1>4, <1>6, <2>1 DEF EdgesOk
<1>8. \A t : Len(LogOf(edges, t)) \in Nat
  BY LogsAre, ListIs DEF LogOk
<1>9. ASSUME NEW t \in DOMAIN e, NEW i \in New(LogOf(edges, t), e[t])
      PROVE  e[t][i].present /\ e[t][i].at = turn.at
  <2> DEFINE l == Len(LogOf(edges, t))
             m == Len(more(t))
             k == i - l
  <2>1. m \in Nat /\ l \in Nat /\ Len(e[t]) = l + m
    BY <1>5, <1>6, <1>8
  <2>2. k \in 1..m /\ l + k = i
    BY <2>1 DEF New
  <2>3. e[t][i] = more(t)[k]
    BY <1>6, <2>2
  <2> HIDE DEF k
  <2>4. QED
    BY <1>5, <2>2, <2>3
<1>10. ASSUME NEW t \in DOMAIN e \ Told(x) PROVE Len(e[t]) = Len(LogOf(edges, t))
  <2>1. at(t) = {}
    BY <1>10 DEF Told
  <2>2. Len(more(t)) = 0
    BY <1>5, <2>1, FS_EmptySet
  <2>3. QED
    BY <1>6, <1>8, <2>2
<1>11. ASSUME NEW r \in R
       PROVE  LET t == TripleOf(x, x.relations[r])
              IN \E i \in New(LogOf(edges, t), e[t]) : e[t][i].from = x.relations[r].from
  <2> DEFINE t == TripleOf(x, x.relations[r])
             l == Len(LogOf(edges, t))
             m == Len(more(t))
  <2>1. r \in at(t) /\ t \in DOMAIN e
    BY <1>4 DEF Told
  <2> HIDE DEF at, t
  <2>2. PICK k \in 1..m : more(t)[k].from = x.relations[r].from
    BY <1>5, <2>1
  <2>3. m \in Nat /\ l \in Nat /\ Len(e[t]) = l + m
    BY <1>5, <1>6, <1>8, <2>1
  <2>4. l + k \in New(LogOf(edges, t), e[t])
    BY <2>3 DEF New
  <2>5. e[t][l + k].from = x.relations[r].from
    BY <1>6, <2>1, <2>2
  <2>6. QED
    BY <2>4, <2>5 DEF t
<1>12. OnlyRelated(edges, turn, x, e)
  BY <1>4, <1>6, <1>7, <1>9, <1>10, <1>11 DEF OnlyRelated
<1>13. QED
  BY <1>12 DEF e

LEMMA StandsStays ==
  ASSUME NEW log, NEW longer, Extends(log, longer), Len(log) \in Nat, NEW l \in 0..Len(log), NEW v
  PROVE  Stands(longer, l, v) <=> Stands(log, l, v)
<1>1. \A i \in 1..l : longer[i] = log[i]
  BY DEF Extends
<1>2. QED
  BY <1>1 DEF Stands

LEMMA ExtendsFurther ==
  ASSUME NEW log, Len(log) \in Nat, NEW longer, Len(longer) \in Nat, NEW longest, Len(longest) \in Nat,
         Extends(log, longer), Extends(longer, longest)
  PROVE  Extends(log, longest)
  BY DEF Extends

(* What a turn relates is what its closures spare.                         *)
LEMMA SparedIs ==
  ASSUME NEW x, NEW c, NEW t, t = <<t[1], t[2], t[3]>>, Covers(x, c, t)
  PROVE  t[3] \in Spared(x, c) <=> t \in Told(x)
<1> DEFINE R == DOMAIN x.relations
<1>1. \A i \in R : LET u == TripleOf(x, x.relations[i])
                   IN /\ u[1] = EntityOf(x, x.relations[i].subject)
                      /\ u[2] = x.relations[i].predicate
                      /\ u[3] = EntityOf(x, x.relations[i].object)
                      /\ u = <<u[1], u[2], u[3]>>
  BY DEF TripleOf
<1>2. ASSUME t[3] \in Spared(x, c) PROVE t \in Told(x)
  <2>1. PICK i \in R : /\ x.relations[i].predicate = c.predicate
                       /\ EntityOf(x, x.relations[i].subject) = EntityOf(x, c.subject)
                       /\ t[3] = EntityOf(x, x.relations[i].object)
    BY <1>2 DEF Spared
  <2> DEFINE u == TripleOf(x, x.relations[i])
  <2>2. u[1] = t[1] /\ u[2] = t[2] /\ u[3] = t[3] /\ u = <<u[1], u[2], u[3]>>
    BY <1>1, <2>1 DEF Covers
  <2> HIDE DEF u
  <2>3. u = t
    BY <2>2
  <2>4. QED
    BY <2>3 DEF Told, u
<1>3. ASSUME t \in Told(x) PROVE t[3] \in Spared(x, c)
  <2>1. PICK i \in R : t = TripleOf(x, x.relations[i])
    BY <1>3 DEF Told
  <2>2. /\ t[1] = EntityOf(x, x.relations[i].subject)
        /\ t[2] = x.relations[i].predicate
        /\ t[3] = EntityOf(x, x.relations[i].object)
    BY <1>1, <2>1
  <2>3. QED
    BY <2>2 DEF Covers, Spared
<1>4. QED
  BY <1>2, <1>3

LEMMA EndedIs ==
  ASSUME NEW edges, EdgesOk(edges), NEW turn, turn.at \in 0..MaxCommands, NEW x, NEW c, c.at \in Int
  PROVE  LET e == Ended(edges, turn, x, c)
             doomed(t) == /\ Covers(x, c, t) /\ t[3] \notin Spared(x, c)
                          /\ Stands(edges[t], Len(edges[t]), c.at)
         IN /\ DOMAIN e = DOMAIN edges /\ EdgesOk(e)
            /\ \A t \in DOMAIN edges :
                 /\ Extends(edges[t], e[t])
                 /\ doomed(t) => /\ Len(e[t]) = Len(edges[t]) + 1
                                 /\ ~e[t][Len(edges[t]) + 1].present
                                 /\ e[t][Len(edges[t]) + 1].from = c.at
                                 /\ e[t][Len(edges[t]) + 1].at = turn.at
                 /\ ~doomed(t) => e[t] = edges[t]
<1> DEFINE e == Ended(edges, turn, x, c)
           v == [present |-> FALSE, from |-> c.at, at |-> turn.at]
           doomed(t) == /\ Covers(x, c, t) /\ t[3] \notin Spared(x, c)
                        /\ Stands(edges[t], Len(edges[t]), c.at)
           D == Doomed(edges, x, c)
<1>1. \A t \in DOMAIN edges : t \in D <=> doomed(t)
  <2> TAKE t \in DOMAIN edges
  <2>1. LogOf(edges, t) = edges[t]
    BY DEF LogOf
  <2>2. InForce(edges, t, c.at, Forever) <=> Stands(edges[t], Len(edges[t]), c.at)
    BY <2>1, InForceIs
  <2>3. t \in D <=> /\ t[1] = EntityOf(x, c.subject) /\ t[2] = c.predicate
                    /\ InForce(edges, t, c.at, Forever) /\ t[3] \notin Spared(x, c)
    BY DEF Doomed, AsKnownAt
  <2> HIDE DEF D
  <2>4. QED
    BY <2>2, <2>3 DEF Covers
<1>2. e = [t \in DOMAIN edges |-> IF t \in D THEN Append(edges[t], v) ELSE edges[t]]
  BY DEF Ended
<1>3. v.at \in 0..MaxCommands /\ v.from \in Int /\ v.present \in BOOLEAN
      /\ ~v.present /\ v.from = c.at /\ v.at = turn.at
  OBVIOUS
<1> HIDE DEF e, v, D, doomed
<1>4. DOMAIN e = DOMAIN edges
  BY <1>2
<1>5. ASSUME NEW t \in DOMAIN edges
      PROVE  /\ Extends(edges[t], e[t]) /\ LogOk(e[t])
             /\ doomed(t) => Len(e[t]) = Len(edges[t]) + 1 /\ e[t][Len(edges[t]) + 1] = v
             /\ ~doomed(t) => e[t] = edges[t]
  <2>1. LogOk(edges[t])
    BY DEF EdgesOk
  <2>2. CASE t \in D
    <3>1. e[t] = Append(edges[t], v) /\ doomed(t)
      BY <1>1, <1>2, <2>2
    <3>2. QED
      BY <1>3, <2>1, <3>1, LogAppended
  <2>3. CASE t \notin D
    <3>1. e[t] = edges[t] /\ ~doomed(t)
      BY <1>1, <1>2, <2>3
    <3>2. Len(edges[t]) \in Nat
      BY <2>1, ListIs DEF LogOk
    <3>3. QED
      BY <2>1, <3>1, <3>2 DEF Extends
  <2>4. QED
    BY <2>2, <2>3
<1>6. EdgesOk(e)
  BY <1>4, <1>5 DEF EdgesOk
<1>7. QED
  BY <1>3, <1>4, <1>5, <1>6 DEF e, doomed

(* A log to which the first m closures of a turn added what they ended.    *)
OnlyEnded(turn, x, t, log, longer, m) ==
  /\ Extends(log, longer)
  /\ \A i \in New(log, longer) :
       /\ ~longer[i].present /\ longer[i].at = turn.at
       /\ \E n \in 1..m : /\ Covers(x, x.closures[n], t) /\ t[3] \notin Spared(x, x.closures[n])
                          /\ longer[i].from = x.closures[n].at
  /\ \A n \in 1..m :
       Covers(x, x.closures[n], t) /\ t[3] \notin Spared(x, x.closures[n]) =>
         \/ \E i \in New(log, longer) : longer[i].from = x.closures[n].at
         \/ \E l \in Len(log)..Len(longer) : ~Stands(longer, l, x.closures[n].at)

LEMMA OneMoreEnded ==
  ASSUME NEW turn, turn.at \in 0..MaxCommands, NEW x, NEW t, NEW m \in Nat, NEW log, NEW longer,
         Len(log) \in Nat, Len(longer) \in Nat, OnlyEnded(turn, x, t, log, longer, m),
         NEW longest, Len(longest) \in Nat, Extends(longer, longest), x.closures[m + 1].at \in Int,
         LET c == x.closures[m + 1]
             doomed == /\ Covers(x, c, t) /\ t[3] \notin Spared(x, c)
                       /\ Stands(longer, Len(longer), c.at)
         IN /\ doomed => /\ Len(longest) = Len(longer) + 1
                         /\ ~longest[Len(longer) + 1].present
                         /\ longest[Len(longer) + 1].from = c.at
                         /\ longest[Len(longer) + 1].at = turn.at
            /\ ~doomed => longest = longer
  PROVE  OnlyEnded(turn, x, t, log, longest, m + 1)
<1> DEFINE c == x.closures[m + 1]
           covered == Covers(x, c, t) /\ t[3] \notin Spared(x, c)
           doomed == covered /\ Stands(longer, Len(longer), c.at)
           about(n) == Covers(x, x.closures[n], t) /\ t[3] \notin Spared(x, x.closures[n])
<1>1. /\ doomed => /\ Len(longest) = Len(longer) + 1
                   /\ ~longest[Len(longer) + 1].present
                   /\ longest[Len(longer) + 1].from = c.at
                   /\ longest[Len(longer) + 1].at = turn.at
      /\ ~doomed => longest = longer
  OBVIOUS
<1>2. Extends(log, longer) /\ Extends(log, longest)
  BY ExtendsFurther DEF OnlyEnded
<1>3. \A i \in New(log, longer) :
        /\ ~longer[i].present /\ longer[i].at = turn.at
        /\ \E n \in 1..m : about(n) /\ longer[i].from = x.closures[n].at
  BY DEF OnlyEnded
<1>4. \A n \in 1..m : about(n) =>
        \/ \E i \in New(log, longer) : longer[i].from = x.closures[n].at
        \/ \E l \in Len(log)..Len(longer) : ~Stands(longer, l, x.closures[n].at)
  BY DEF OnlyEnded
<1>5. about(m + 1) <=> covered
  OBVIOUS
<1> HIDE DEF doomed, about, c
<1>6. Len(log) <= Len(longer) /\ Len(longer) <= Len(longest)
  BY <1>2 DEF Extends
<1>7. \A i \in New(log, longer) : i \in New(log, longest) /\ longest[i] = longer[i]
  <2> TAKE i \in New(log, longer)
  <2>1. i \in 1..Len(longer) /\ i \in New(log, longest)
    BY <1>6 DEF New
  <2>2. QED
    BY <2>1 DEF Extends
<1>8. ASSUME NEW i \in New(log, longest)
      PROVE  /\ ~longest[i].present /\ longest[i].at = turn.at
             /\ \E n \in 1..(m + 1) : about(n) /\ longest[i].from = x.closures[n].at
  <2>1. CASE i \in New(log, longer)
    <3>1. longest[i] = longer[i]
      BY <1>7, <2>1
    <3>2. PICK n \in 1..m : about(n) /\ longer[i].from = x.closures[n].at
      BY <1>3, <2>1
    <3>3. n \in 1..(m + 1)
      OBVIOUS
    <3>4. QED
      BY <1>3, <2>1, <3>1, <3>2, <3>3
  <2>2. CASE i \notin New(log, longer)
    <3>1. i \in Nat /\ i > Len(longer) /\ i <= Len(longest)
      BY <1>6, <2>2 DEF New
    <3>2. doomed
      BY <1>1, <3>1
    <3>3. i = Len(longer) + 1
      BY <1>1, <3>1, <3>2
    <3>4. about(m + 1) /\ m + 1 \in 1..(m + 1)
      BY <1>5, <3>2 DEF doomed
    <3>5. QED
      BY <1>1, <3>2, <3>3, <3>4 DEF c
  <2>3. QED
    BY <2>1, <2>2
<1>9. ASSUME NEW n \in 1..(m + 1), about(n)
      PROVE  \/ \E i \in New(log, longest) : longest[i].from = x.closures[n].at
             \/ \E l \in Len(log)..Len(longest) : ~Stands(longest, l, x.closures[n].at)
  <2>1. CASE n \in 1..m
    <3>1. CASE \E i \in New(log, longer) : longer[i].from = x.closures[n].at
      BY <1>7, <3>1
    <3>2. CASE \E l \in Len(log)..Len(longer) : ~Stands(longer, l, x.closures[n].at)
      <4>1. PICK l \in Len(log)..Len(longer) : ~Stands(longer, l, x.closures[n].at)
        BY <3>2
      <4>2. l \in 0..Len(longer) /\ l \in Len(log)..Len(longest)
        BY <1>6
      <4>3. ~Stands(longest, l, x.closures[n].at)
        BY <4>1, <4>2, StandsStays
      <4>4. QED
        BY <4>2, <4>3
    <3>3. QED
      BY <1>4, <1>9, <2>1, <3>1, <3>2
  <2>2. CASE n = m + 1
    <3>1. CASE doomed
      <4>1. Len(longer) + 1 \in New(log, longest)
        BY <1>1, <1>6, <3>1 DEF New
      <4>2. longest[Len(longer) + 1].from = x.closures[n].at
        BY <1>1, <2>2, <3>1 DEF c
      <4>3. QED
        BY <4>1, <4>2
    <3>2. CASE ~doomed
      <4>1. ~Stands(longer, Len(longer), c.at) /\ longest = longer
        BY <1>1, <1>5, <1>9, <2>2, <3>2 DEF doomed
      <4>2. Len(longer) \in Len(log)..Len(longest)
        BY <1>6
      <4>3. QED
        BY <2>2, <4>1, <4>2 DEF c
    <3>3. QED
      BY <3>1, <3>2
  <2>3. QED
    BY <2>1, <2>2
<1>10. QED
  BY <1>2, <1>8, <1>9 DEF OnlyEnded, about

LEMMA ClosedSays ==
  ASSUME NEW edges, EdgesOk(edges), NEW turn, turn.at \in 0..MaxCommands, NEW x, Dated(turn, x)
  PROVE  LET e == Closed(edges, turn, x)
         IN /\ DOMAIN e = DOMAIN edges /\ EdgesOk(e)
            /\ \A t \in DOMAIN e : OnlyEnded(turn, x, t, edges[t], e[t], Len(x.closures))
<1> DEFINE c == Len(x.closures)
<1>1. PICK f : /\ f[0] = edges /\ f[c] = Closed(edges, turn, x)
               /\ \A n \in 1..c : f[n] = Ended(f[n - 1], turn, x, x.closures[n])
  BY ClosedIs DEF Dated
<1>2. c \in Nat /\ DOMAIN x.closures = 1..c /\ \A n \in 1..c : x.closures[n].at \in Int
  BY ListIs DEF Dated
<1> HIDE DEF c
<1> DEFINE Ok(m) == /\ DOMAIN f[m] = DOMAIN edges /\ EdgesOk(f[m])
                    /\ \A t \in DOMAIN edges : OnlyEnded(turn, x, t, edges[t], f[m][t], m)
           S == {m \in Nat : m <= c => Ok(m)}
<1>3. \A t \in DOMAIN edges : Len(edges[t]) \in Nat
  BY ListIs DEF EdgesOk, LogOk
<1>4. 0 \in S
  <2>1. \A t \in DOMAIN edges : OnlyEnded(turn, x, t, edges[t], edges[t], 0)
    BY <1>3 DEF OnlyEnded, Extends, New
  <2>2. QED
    BY <1>1, <2>1
<1>5. ASSUME NEW m \in Nat, m \in S PROVE m + 1 \in S
  <2> SUFFICES ASSUME m + 1 <= c PROVE Ok(m + 1)
    OBVIOUS
  <2>1. Ok(m)
    BY <1>2, <1>5
  <2>2. m + 1 \in 1..c /\ (m + 1) - 1 = m
    BY <1>2
  <2> DEFINE k == x.closures[m + 1]
             e == f[m]
             g == f[m + 1]
             doomed(t) == /\ Covers(x, k, t) /\ t[3] \notin Spared(x, k)
                          /\ Stands(e[t], Len(e[t]), k.at)
  <2>3. g = Ended(e, turn, x, k) /\ k.at \in Int /\ EdgesOk(e) /\ DOMAIN e = DOMAIN edges
    BY <1>1, <1>2, <2>1, <2>2
  <2> HIDE DEF k, e, g
  <2>4. /\ DOMAIN g = DOMAIN e /\ EdgesOk(g)
        /\ \A t \in DOMAIN e :
             /\ Extends(e[t], g[t])
             /\ doomed(t) => /\ Len(g[t]) = Len(e[t]) + 1
                             /\ ~g[t][Len(e[t]) + 1].present
                             /\ g[t][Len(e[t]) + 1].from = k.at
                             /\ g[t][Len(e[t]) + 1].at = turn.at
             /\ ~doomed(t) => g[t] = e[t]
    BY <2>3, EndedIs
  <2>5. ASSUME NEW t \in DOMAIN edges PROVE OnlyEnded(turn, x, t, edges[t], g[t], m + 1)
    <3> DEFINE log == edges[t]
               longer == e[t]
               longest == g[t]
    <3>1. /\ Len(log) \in Nat /\ Len(longer) \in Nat /\ Len(longest) \in Nat
      BY <1>3, <2>3, <2>4, ListIs DEF EdgesOk, LogOk
    <3>2. OnlyEnded(turn, x, t, log, longer, m)
      BY <2>1 DEF e
    <3>3. Extends(longer, longest) /\ x.closures[m + 1].at \in Int
      BY <2>3, <2>4 DEF k
    <3>4. LET cl == x.closures[m + 1]
              d == /\ Covers(x, cl, t) /\ t[3] \notin Spared(x, cl)
                   /\ Stands(longer, Len(longer), cl.at)
          IN /\ d => /\ Len(longest) = Len(longer) + 1
                     /\ ~longest[Len(longer) + 1].present
                     /\ longest[Len(longer) + 1].from = cl.at
                     /\ longest[Len(longer) + 1].at = turn.at
             /\ ~d => longest = longer
      BY <2>3, <2>4 DEF k
    <3> HIDE DEF log, longer, longest
    <3>5. OnlyEnded(turn, x, t, log, longest, m + 1)
      BY <3>1, <3>2, <3>3, <3>4, OneMoreEnded
    <3>6. QED
      BY <3>5 DEF log, longest
  <2>6. QED
    BY <2>3, <2>4, <2>5 DEF g
<1>6. c \in S
  <2> HIDE DEF S
  <2>1. QED
    BY <1>2, <1>4, <1>5, Climbs
<1>7. Ok(c)
  BY <1>2, <1>6
<1>8. QED
  BY <1>1, <1>7 DEF c

(* What a turn makes of each log: what it relates is there in new versions,*)
(* and of the rest what a closure covers gets one that it is not, unless it*)
(* did not stand when the closure was reached.                             *)
TurnedInto(edges, turn, x, e) ==
  /\ DOMAIN e = DOMAIN edges \cup Told(x) /\ EdgesOk(e)
  /\ \A t \in DOMAIN e : /\ Extends(LogOf(edges, t), e[t])
                         /\ \A i \in New(LogOf(edges, t), e[t]) : e[t][i].at = turn.at
  /\ \A t \in Told(x) : \A i \in New(LogOf(edges, t), e[t]) : e[t][i].present
  /\ \A r \in DOMAIN x.relations :
       LET t == TripleOf(x, x.relations[r])
       IN \E i \in New(LogOf(edges, t), e[t]) : e[t][i].from = x.relations[r].from
  /\ \A t \in DOMAIN e \ Told(x) :
       /\ \A i \in New(LogOf(edges, t), e[t]) :
            /\ ~e[t][i].present
            /\ \E n \in DOMAIN x.closures :
                 Covers(x, x.closures[n], t) /\ e[t][i].from = x.closures[n].at
       /\ \A n \in DOMAIN x.closures : Covers(x, x.closures[n], t) =>
            \/ \E i \in New(LogOf(edges, t), e[t]) : e[t][i].from = x.closures[n].at
            \/ \E l \in Len(LogOf(edges, t))..Len(e[t]) : ~Stands(e[t], l, x.closures[n].at)

LEMMA EdgesAfterIs ==
  ASSUME NEW edges, EdgesOk(edges), NEW turn, turn.at \in 0..MaxCommands, NEW x, Dated(turn, x)
  PROVE  TurnedInto(edges, turn, x, EdgesAfter(edges, turn, x))
<1> DEFINE r == Related(edges, turn, x)
           e == EdgesAfter(edges, turn, x)
           c == Len(x.closures)
<1>0. OnlyRelated(edges, turn, x, r)
  BY RelatedIs
<1> HIDE DEF r
<1>1. /\ DOMAIN r = DOMAIN edges \cup Told(x) /\ EdgesOk(r)
      /\ \A t \in DOMAIN r : /\ Extends(LogOf(edges, t), r[t])
                             /\ \A i \in New(LogOf(edges, t), r[t]) :
                                  r[t][i].present /\ r[t][i].at = turn.at
      /\ \A t \in DOMAIN r \ Told(x) : Len(r[t]) = Len(LogOf(edges, t))
      /\ \A k \in DOMAIN x.relations :
           LET t == TripleOf(x, x.relations[k])
           IN \E i \in New(LogOf(edges, t), r[t]) : r[t][i].from = x.relations[k].from
  BY <1>0 DEF OnlyRelated
<1>2. e = Closed(r, turn, x)
  BY DEF EdgesAfter, r
<1> HIDE DEF e
<1>3. /\ DOMAIN e = DOMAIN r /\ EdgesOk(e)
      /\ \A t \in DOMAIN e : OnlyEnded(turn, x, t, r[t], e[t], c)
  BY <1>1, <1>2, ClosedSays
<1>4. DOMAIN x.closures = 1..c /\ c \in Nat
  BY ListIs DEF Dated
<1> HIDE DEF c
<1>5. \A t \in DOMAIN e : /\ Len(LogOf(edges, t)) \in Nat /\ Len(r[t]) \in Nat /\ Len(e[t]) \in Nat
                          /\ t = <<t[1], t[2], t[3]>>
  <2>1. \A t : LogOk(LogOf(edges, t))
    BY LogsAre
  <2>2. QED
    BY <1>1, <1>3, <2>1, ListIs DEF EdgesOk, LogOk
<1>6. \A t \in DOMAIN e : Extends(r[t], e[t]) /\ Extends(LogOf(edges, t), e[t])
  BY <1>1, <1>3, <1>5, ExtendsFurther DEF OnlyEnded
<1>7. ASSUME NEW t \in Told(x)
      PROVE  /\ t \in DOMAIN e /\ Len(e[t]) = Len(r[t])
             /\ \A i \in New(LogOf(edges, t), e[t]) :
                  i \in New(LogOf(edges, t), r[t]) /\ e[t][i] = r[t][i]
             /\ \A i \in New(LogOf(edges, t), r[t]) : i \in New(LogOf(edges, t), e[t])
  <2>1. t \in DOMAIN e
    BY <1>1, <1>3
  <2>2. \A n \in 1..c : Covers(x, x.closures[n], t) => t[3] \in Spared(x, x.closures[n])
    BY <1>5, <2>1, SparedIs
  <2>3. New(r[t], e[t]) = {}
    BY <1>3, <2>1, <2>2 DEF OnlyEnded
  <2>4. Len(r[t]) <= Len(e[t]) /\ Len(LogOf(edges, t)) <= Len(r[t])
    BY <1>1, <1>3, <1>6, <2>1 DEF Extends
  <2>5. Len(e[t]) = Len(r[t])
    <3>1. SUFFICES ASSUME Len(r[t]) < Len(e[t]) PROVE FALSE
      BY <1>5, <2>1, <2>4
    <3>2. Len(e[t]) \in New(r[t], e[t])
      BY <1>5, <2>1, <3>1 DEF New
    <3>3. QED
      BY <2>3, <3>2
  <2>6. New(LogOf(edges, t), e[t]) = New(LogOf(edges, t), r[t])
    BY <2>5 DEF New
  <2>7. \A i \in New(LogOf(edges, t), r[t]) : i \in 1..Len(r[t])
    BY <1>5, <2>1 DEF New
  <2>8. QED
    BY <1>6, <2>1, <2>5, <2>6, <2>7 DEF Extends
<1>8. ASSUME NEW t \in DOMAIN e \ Told(x)
      PROVE  /\ New(LogOf(edges, t), e[t]) = New(r[t], e[t])
             /\ Len(LogOf(edges, t)) = Len(r[t])
             /\ \A n \in 1..c : Covers(x, x.closures[n], t) => t[3] \notin Spared(x, x.closures[n])
  <2>1. Len(LogOf(edges, t)) = Len(r[t])
    BY <1>1, <1>3
  <2>2. \A n \in 1..c : Covers(x, x.closures[n], t) => t[3] \notin Spared(x, x.closures[n])
    BY <1>5, SparedIs
  <2>3. QED
    BY <2>1, <2>2 DEF New
<1>9. ASSUME NEW t \in DOMAIN e, NEW i \in New(LogOf(edges, t), e[t]) PROVE e[t][i].at = turn.at
  <2>1. CASE t \in Told(x)
    BY <1>1, <1>3, <1>7, <2>1
  <2>2. CASE t \notin Told(x)
    BY <1>3, <1>8, <2>2 DEF OnlyEnded
  <2>3. QED
    BY <2>1, <2>2
<1>10. ASSUME NEW t \in Told(x), NEW i \in New(LogOf(edges, t), e[t]) PROVE e[t][i].present
  BY <1>1, <1>3, <1>7
<1>11. ASSUME NEW k \in DOMAIN x.relations
       PROVE  LET t == TripleOf(x, x.relations[k])
              IN \E i \in New(LogOf(edges, t), e[t]) : e[t][i].from = x.relations[k].from
  <2> DEFINE t == TripleOf(x, x.relations[k])
  <2>1. t \in Told(x)
    BY DEF Told
  <2>2. PICK i \in New(LogOf(edges, t), r[t]) : r[t][i].from = x.relations[k].from
    BY <1>1
  <2> HIDE DEF t
  <2>3. i \in New(LogOf(edges, t), e[t]) /\ e[t][i] = r[t][i]
    BY <1>7, <2>1, <2>2
  <2>4. QED
    BY <2>2, <2>3 DEF t
<1>12. ASSUME NEW t \in DOMAIN e \ Told(x), NEW i \in New(LogOf(edges, t), e[t])
       PROVE  /\ ~e[t][i].present
              /\ \E n \in DOMAIN x.closures :
                   Covers(x, x.closures[n], t) /\ e[t][i].from = x.closures[n].at
  <2>1. OnlyEnded(turn, x, t, r[t], e[t], c)
    BY <1>3
  <2>2. i \in New(r[t], e[t])
    BY <1>8
  <2>3. QED
    BY <1>4, <2>1, <2>2 DEF OnlyEnded
<1>13. ASSUME NEW t \in DOMAIN e \ Told(x), NEW n \in DOMAIN x.closures, Covers(x, x.closures[n], t)
       PROVE  \/ \E i \in New(LogOf(edges, t), e[t]) : e[t][i].from = x.closures[n].at
              \/ \E l \in Len(LogOf(edges, t))..Len(e[t]) : ~Stands(e[t], l, x.closures[n].at)
  <2>1. n \in 1..c /\ t[3] \notin Spared(x, x.closures[n])
    BY <1>4, <1>8, <1>13
  <2>2. OnlyEnded(turn, x, t, r[t], e[t], c)
    BY <1>3
  <2>3. \/ \E i \in New(r[t], e[t]) : e[t][i].from = x.closures[n].at
        \/ \E l \in Len(r[t])..Len(e[t]) : ~Stands(e[t], l, x.closures[n].at)
    BY <1>13, <2>1, <2>2 DEF OnlyEnded
  <2>4. QED
    BY <1>8, <2>3
<1>14. /\ DOMAIN e = DOMAIN edges \cup Told(x) /\ EdgesOk(e)
       /\ \A t \in DOMAIN e : /\ Extends(LogOf(edges, t), e[t])
                              /\ \A i \in New(LogOf(edges, t), e[t]) : e[t][i].at = turn.at
       /\ \A t \in Told(x) : \A i \in New(LogOf(edges, t), e[t]) : e[t][i].present
  BY <1>1, <1>3, <1>6, <1>9, <1>10
<1>15. \A t \in DOMAIN e \ Told(x) :
                 /\ \A i \in New(LogOf(edges, t), e[t]) :
                      /\ ~e[t][i].present
                      /\ \E n \in DOMAIN x.closures :
                           Covers(x, x.closures[n], t) /\ e[t][i].from = x.closures[n].at
                 /\ \A n \in DOMAIN x.closures : Covers(x, x.closures[n], t) =>
                      \/ \E i \in New(LogOf(edges, t), e[t]) : e[t][i].from = x.closures[n].at
                      \/ \E l \in Len(LogOf(edges, t))..Len(e[t]) :
                           ~Stands(e[t], l, x.closures[n].at)
  BY <1>12, <1>13
<1>16. TurnedInto(edges, turn, x, e)
  BY <1>11, <1>14, <1>15 DEF TurnedInto
<1>17. QED
  BY <1>16 DEF e

-----------------------------------------------------------------------------
(* What stands in a log that was added to                                  *)

(* What did not say that it holds does not make it hold.                   *)
LEMMA StoodBefore ==
  ASSUME NEW log, LogOk(log), NEW longer, LogOk(longer), Extends(log, longer), NEW v \in Int,
         \A i \in New(log, longer) : ~longer[i].present, Stands(longer, Len(longer), v),
         NEW l \in Len(log)..Len(longer)
  PROVE  Stands(longer, l, v)
<1>1. Len(log) \in Nat /\ Len(longer) \in Nat /\ Len(log) <= Len(longer)
  BY ListIs DEF LogOk, Extends
<1>2. PICK i \in 1..Len(longer) :
        /\ longer[i].present /\ longer[i].from <= v
        /\ \A j \in 1..Len(longer) : longer[j].from <= v =>
             longer[j].at < longer[i].at \/ (longer[j].at = longer[i].at /\ j <= i)
  BY DEF Stands
<1>3. i \in 1..l
  BY <1>1, <1>2 DEF New
<1>4. \A j \in 1..l : j \in 1..Len(longer)
  BY <1>1
<1>5. QED
  BY <1>2, <1>3, <1>4 DEF Stands

(* The last of what was just said at an instant decides, if nothing in the *)
(* log is of a later time.                                                 *)
LEMMA SaidLast ==
  ASSUME NEW log, LogOk(log), NEW longer, LogOk(longer), Extends(log, longer), NEW v \in Int,
         NEW now \in Nat, \A i \in New(log, longer) : longer[i].present /\ longer[i].at = now,
         \A i \in 1..Len(longer) : longer[i].from <= v => longer[i].at <= now,
         NEW k \in New(log, longer), longer[k].from <= v
  PROVE  Stands(longer, Len(longer), v)
<1> DEFINE n == Len(longer)
           N == {i \in New(log, longer) : longer[i].from <= v}
<1>1. Len(log) \in Nat /\ n \in Nat /\ Len(log) <= n
  BY ListIs DEF LogOk, Extends
<1>2. N \in SUBSET (1..n) /\ k \in N
  BY <1>1 DEF New
<1> HIDE DEF n
<1>3. PICK i \in N : \A j \in N : j <= i
  <2> HIDE DEF N
  <2>1. N # {}
    BY <1>2
  <2>2. QED
    BY <1>1, <1>2, <2>1, LastIs
<1>4. i \in 1..n /\ i > Len(log) /\ longer[i].present /\ longer[i].from <= v /\ longer[i].at = now
  BY <1>1, <1>2, <1>3 DEF New, n
<1>5. ASSUME NEW j \in 1..n, longer[j].from <= v
      PROVE  longer[j].at < longer[i].at \/ (longer[j].at = longer[i].at /\ j <= i)
  <2>1. j <= Len(log) \/ j \in New(log, longer)
    BY <1>1 DEF New, n
  <2>2. j <= i
    <3>1. CASE j \in New(log, longer)
      BY <1>3, <1>5, <3>1
    <3>2. CASE j <= Len(log)
      BY <1>1, <1>4, <3>2
    <3>3. QED
      BY <2>1, <3>1, <3>2
  <2>3. longer[j].at <= now
    BY <1>5 DEF n
  <2>4. longer[j].at \in Int
    <3>1. j \in DOMAIN longer
      BY ListIs DEF LogOk, n
    <3>2. QED
      BY <3>1 DEF LogOk
  <2>5. QED
    BY <1>4, <2>2, <2>3, <2>4
<1>6. QED
  BY <1>4, <1>5 DEF Stands, n

(* What stood stands if nothing that is new speaks about that instant.     *)
LEMMA StandsOn ==
  ASSUME NEW log, LogOk(log), NEW longer, LogOk(longer), Extends(log, longer), NEW v \in Int,
         \A i \in New(log, longer) : ~(longer[i].from <= v), Stands(log, Len(log), v)
  PROVE  Stands(longer, Len(longer), v)
<1>1. Len(log) \in Nat /\ Len(longer) \in Nat /\ Len(log) <= Len(longer)
      /\ \A i \in 1..Len(log) : longer[i] = log[i]
  BY ListIs DEF LogOk, Extends
<1>2. PICK i \in 1..Len(log) :
        /\ log[i].present /\ log[i].from <= v
        /\ \A j \in 1..Len(log) : log[j].from <= v =>
             log[j].at < log[i].at \/ (log[j].at = log[i].at /\ j <= i)
  BY DEF Stands
<1>3. i \in 1..Len(longer) /\ longer[i] = log[i]
  BY <1>1
<1>4. \A j \in 1..Len(longer) : longer[j].from <= v => j \in 1..Len(log) /\ longer[j] = log[j]
  BY <1>1 DEF New
<1>5. QED
  BY <1>2, <1>3, <1>4 DEF Stands

(* The store's edges are what the last turn made of what was there.        *)
LastOk ==
  /\ last.turn.at \in 0..MaxCommands /\ Dated(last.turn, last.extraction)
  /\ EdgesOk(last.before)
  /\ store.edges = EdgesAfter(last.before, last.turn, last.extraction)

LEMMA ClosesSays == LastOk => ClosesTheRest
<1> SUFFICES ASSUME LastOk PROVE ClosesTheRest
  OBVIOUS
<1> DEFINE e == last.before
           x == last.extraction
           now == last.turn.at
           g == store.edges
           old(t) == LogOf(e, t)
           new(t) == New(old(t), g[t])
           was(t, v) == InForce(e, t, v, Forever)
           is(t, v) == InForce(g, t, v, Forever)
<1>1. TurnedInto(e, last.turn, x, g) /\ EdgesOk(e) /\ now \in 0..MaxCommands
  BY EdgesAfterIs DEF LastOk
<1>2. /\ Asserted = Told(x)
      /\ \A i \in DOMAIN x.relations : x.relations[i].from \in Int
      /\ IsList(x.closures) /\ \A i \in DOMAIN x.closures : x.closures[i].at \in Int
  BY DEF Asserted, Told, LastOk, Dated
<1>3. \A t : SaidSince(t) <=> \E i \in DOMAIN LogOf(g, t) : LogOf(g, t)[i].at > now
  BY DEF SaidSince
<1>4. \A t \in DOMAIN g : LogOf(g, t) = g[t] /\ LogOk(g[t]) /\ LogOk(old(t))
  BY <1>1, LogsAre DEF TurnedInto, EdgesOk, LogOf
<1>5. \A t \in DOMAIN g : DOMAIN g[t] = 1..Len(g[t]) /\ Len(g[t]) \in Nat /\ Len(old(t)) \in Nat
                          /\ Len(old(t)) <= Len(g[t])
  BY <1>1, <1>4, ListIs DEF LogOk, TurnedInto, Extends
<1> HIDE DEF e, x, now, g
<1>6. \A t \in DOMAIN g : \A v \in Int : /\ was(t, v) <=> Stands(old(t), Len(old(t)), v)
                                         /\ is(t, v) <=> Stands(g[t], Len(g[t]), v)
  <2> TAKE t \in DOMAIN g
  <2> TAKE v \in Int
  <2>1. was(t, v) <=> Stands(old(t), Len(old(t)), v)
    BY <1>1, InForceIs
  <2>2. EdgesOk(g) /\ LogOf(g, t) = g[t]
    BY <1>1, <1>4 DEF TurnedInto
  <2>3. is(t, v) <=> Stands(g[t], Len(g[t]), v)
    BY <2>2, InForceIs
  <2>4. QED
    BY <2>1, <2>3
<1>7. \A t \in DOMAIN g : /\ Extends(old(t), g[t])
                          /\ \A i \in new(t) : g[t][i].at = now
  BY <1>1 DEF TurnedInto, now
<1> HIDE DEF was, is, old
<1>8. ASSUME NEW i \in DOMAIN x.relations, NEW t, t = TripleOf(x, x.relations[i]),
             NEW v \in Int, v >= x.relations[i].from, ~SaidSince(t)
      PROVE  is(t, v)
  <2>1. t \in Told(x) /\ t \in DOMAIN g
    BY <1>1, <1>8 DEF Told, TurnedInto
  <2>2. PICK k \in new(t) : g[t][k].from = x.relations[i].from
    BY <1>1, <1>8 DEF TurnedInto, old
  <2>3. \A j \in new(t) : g[t][j].present /\ g[t][j].at = now
    BY <1>1, <1>7, <2>1 DEF TurnedInto, old
  <2>4. \A j \in 1..Len(g[t]) : g[t][j].at <= now
    <3> TAKE j \in 1..Len(g[t])
    <3>1. j \in DOMAIN g[t] /\ ~(g[t][j].at > now) /\ g[t][j].at \in 0..MaxCommands
      BY <1>3, <1>4, <1>5, <1>8, <2>1 DEF LogOk
    <3>2. now \in Int
      BY <1>1
    <3>3. QED
      BY <3>1, <3>2
  <2>5. g[t][k].from <= v
    BY <1>2, <1>8, <2>2
  <2>6. LogOk(old(t)) /\ LogOk(g[t]) /\ Extends(old(t), g[t]) /\ now \in Nat
    BY <1>1, <1>4, <1>7, <2>1
  <2>7. Stands(g[t], Len(g[t]), v)
    BY <2>2, <2>3, <2>4, <2>5, <2>6, SaidLast
  <2>8. QED
    BY <1>6, <2>1, <2>7
<1>9. ASSUME NEW t \in DOMAIN g, t \notin Told(x), NEW n \in DOMAIN x.closures,
             Covers(x, x.closures[n], t), is(t, x.closures[n].at)
      PROVE  SaidSince(t)
  <2> DEFINE v == x.closures[n].at
             log == g[t]
  <2>1. v \in Int /\ Stands(log, Len(log), v)
    BY <1>2, <1>6, <1>9
  <2>2. \A i \in new(t) : ~log[i].present
    BY <1>1, <1>9 DEF TurnedInto, old
  <2>3. LogOk(old(t)) /\ LogOk(log) /\ Extends(old(t), log)
    BY <1>4, <1>7
  <2>4. \A l \in Len(old(t))..Len(log) : Stands(log, l, v)
    <3> HIDE DEF v, log
    <3>1. QED
      BY <2>1, <2>2, <2>3, StoodBefore DEF log
  <2>5. PICK k \in new(t) : log[k].from = v
    BY <1>1, <1>9, <2>4 DEF TurnedInto, old
  <2>6. PICK i \in 1..Len(log) :
          /\ log[i].present /\ log[i].from <= v
          /\ \A j \in 1..Len(log) : log[j].from <= v =>
               log[j].at < log[i].at \/ (log[j].at = log[i].at /\ j <= i)
    BY <2>1 DEF Stands
  <2>7. k \in 1..Len(log) /\ k > Len(old(t)) /\ i <= Len(old(t))
    BY <1>5, <2>2, <2>5, <2>6 DEF New
  <2>8. log[k].at < log[i].at \/ (log[k].at = log[i].at /\ k <= i)
    BY <2>1, <2>5, <2>6, <2>7
  <2>9. ~(k <= i)
    BY <1>5, <2>7
  <2>10. log[k].at = now /\ log[k].at < log[i].at
    BY <1>7, <2>5, <2>8, <2>9
  <2>11. i \in DOMAIN LogOf(g, t) /\ LogOf(g, t)[i].at > now
    <3>1. log[i].at \in 0..MaxCommands /\ LogOf(g, t) = log /\ i \in DOMAIN log
      BY <1>4, <1>5 DEF LogOk
    <3>2. now \in Int
      BY <1>1
    <3>3. QED
      BY <2>10, <3>1, <3>2
  <2>12. QED
    BY <1>3, <2>11
<1>10. ASSUME NEW t \in DOMAIN g, NEW v \in Int, was(t, v), ~is(t, v)
       PROVE  /\ t \notin Told(x)
              /\ \E n \in DOMAIN x.closures : Covers(x, x.closures[n], t) /\ x.closures[n].at <= v
  <2> DEFINE log == g[t]
  <2>1. LogOk(old(t)) /\ LogOk(log) /\ Extends(old(t), log) /\ now \in Nat
    BY <1>1, <1>4, <1>7
  <2>2. Stands(old(t), Len(old(t)), v) /\ ~Stands(log, Len(log), v)
    BY <1>6, <1>10
  <2>3. PICK k \in new(t) : log[k].from <= v
    <3> HIDE DEF log
    <3>1. QED
      BY <2>1, <2>2, StandsOn DEF log
  <2>4. t \notin Told(x)
    <3> SUFFICES ASSUME t \in Told(x) PROVE FALSE
      OBVIOUS
    <3>1. \A j \in new(t) : log[j].present /\ log[j].at = now
      BY <1>1, <1>7 DEF TurnedInto, old
    <3>2. PICK i \in 1..Len(old(t)) :
            /\ old(t)[i].present /\ old(t)[i].from <= v
            /\ \A j \in 1..Len(old(t)) : old(t)[j].from <= v =>
                 old(t)[j].at < old(t)[i].at \/ (old(t)[j].at = old(t)[i].at /\ j <= i)
      BY <2>2 DEF Stands
    <3>3. /\ i \in 1..Len(log) /\ i \in DOMAIN log
          /\ \A j \in 1..Len(old(t)) : log[j] = old(t)[j] /\ j \in 1..Len(log) /\ j \in DOMAIN log
          /\ \A j \in 1..Len(log) : j \in 1..Len(old(t)) \/ j \in new(t)
      BY <1>5, <2>1 DEF Extends, New
    <3>4. \A j \in DOMAIN log : log[j].at \in Int
      BY <2>1 DEF LogOk
    <3>5. CASE log[i].at <= now
      <4>1. \A j \in 1..Len(log) : log[j].from <= v => log[j].at <= now
        BY <3>1, <3>2, <3>3, <3>4, <3>5, <2>1
      <4>2. Stands(log, Len(log), v)
        <5> HIDE DEF log
        <5>1. QED
          BY <2>1, <2>3, <3>1, <4>1, SaidLast DEF log
      <4>3. QED
        BY <2>2, <4>2
    <3>6. CASE ~(log[i].at <= now)
      <4>1. now < log[i].at
        BY <2>1, <3>3, <3>4, <3>6
      <4>2. \A j \in 1..Len(log) : log[j].from <= v =>
              log[j].at < log[i].at \/ (log[j].at = log[i].at /\ j <= i)
        BY <3>1, <3>2, <3>3, <4>1
      <4>3. log[i].present /\ log[i].from <= v
        BY <3>2, <3>3
      <4>4. Stands(log, Len(log), v)
        BY <3>3, <4>2, <4>3 DEF Stands
      <4>5. QED
        BY <2>2, <4>4
    <3>7. QED
      BY <3>5, <3>6
  <2>5. PICK n \in DOMAIN x.closures : Covers(x, x.closures[n], t) /\ log[k].from = x.closures[n].at
    BY <1>1, <2>3, <2>4 DEF TurnedInto, old
  <2>6. QED
    BY <2>3, <2>4, <2>5
<1>11. ASSUME NEW t \in DOMAIN g, NEW v \in Int, ~was(t, v), is(t, v)
       PROVE  t \in Told(x)
  <2> SUFFICES ASSUME t \notin Told(x) PROVE FALSE
    OBVIOUS
  <2> DEFINE log == g[t]
             l == Len(old(t))
  <2>1. LogOk(old(t)) /\ LogOk(log) /\ Extends(old(t), log)
    BY <1>4, <1>7
  <2>2. ~Stands(old(t), l, v) /\ Stands(log, Len(log), v)
    BY <1>6, <1>11
  <2>3. \A i \in new(t) : ~log[i].present
    BY <1>1 DEF TurnedInto, old
  <2>4. l \in l..Len(log) /\ l \in Nat /\ l \in 0..l
    BY <1>5
  <2>5. Stands(log, l, v)
    <3> HIDE DEF log, l
    <3>1. QED
      BY <2>1, <2>2, <2>3, <2>4, StoodBefore DEF log, l
  <2>6. Stands(old(t), l, v)
    BY <2>1, <2>4, <2>5, StandsStays
  <2>7. QED
    BY <2>2, <2>6
<1>12. ASSUME NEW i \in DOMAIN last.extraction.relations, NEW r \in {last.extraction.relations[i]},
              NEW t \in {TripleOf(last.extraction, r)}, NEW at \in 0..MaxCommands, at >= r.from
       PROVE  InForce(store.edges, t, at, Forever) \/ SaidSince(t)
  <2>1. at \in Int
    OBVIOUS
  <2>2. is(t, at) \/ SaidSince(t)
    BY <1>8, <1>12, <2>1 DEF x
  <2>3. QED
    BY <2>2 DEF is, g
<1>13. ASSUME NEW t \in DOMAIN store.edges
       PROVE  LET closures == {c \in {last.extraction.closures[i] : i \in DOMAIN last.extraction.closures} :
                                 t[1] = EntityOf(last.extraction, c.subject) /\ t[2] = c.predicate}
                  before(at) == InForce(last.before, t, at, Forever)
                  after(at) == InForce(store.edges, t, at, Forever)
              IN /\ \A c \in closures :
                      t \notin Asserted /\ before(c.at) => ~after(c.at) \/ SaidSince(t)
                 /\ \A at \in (-1)..MaxCommands :
                      /\ before(at) /\ ~after(at) => t \notin Asserted /\ \E c \in closures : c.at <= at
                      /\ ~before(at) /\ after(at) => t \in Asserted
  <2> DEFINE C == {c \in {x.closures[i] : i \in DOMAIN x.closures} :
                     t[1] = EntityOf(x, c.subject) /\ t[2] = c.predicate}
  <2>1. t \in DOMAIN g
    BY DEF g
  <2>2. \A c \in C : \E n \in DOMAIN x.closures : c = x.closures[n] /\ Covers(x, x.closures[n], t)
    BY DEF Covers
  <2>3. \A n \in DOMAIN x.closures : Covers(x, x.closures[n], t) => x.closures[n] \in C
    BY DEF Covers
  <2> HIDE DEF C
  <2>4. ASSUME NEW c \in C, t \notin Asserted, was(t, c.at) PROVE ~is(t, c.at) \/ SaidSince(t)
    BY <1>2, <1>9, <2>1, <2>2, <2>4
  <2>5. ASSUME NEW at \in (-1)..MaxCommands
        PROVE  /\ was(t, at) /\ ~is(t, at) => t \notin Asserted /\ \E c \in C : c.at <= at
               /\ ~was(t, at) /\ is(t, at) => t \in Asserted
    <3>1. at \in Int
      OBVIOUS
    <3>2. QED
      BY <1>2, <1>10, <1>11, <2>1, <2>3, <3>1
  <2>6. QED
    BY <2>4, <2>5 DEF C, was, is, x, e, g
<1>14. QED
  BY <1>12, <1>13 DEF ClosesTheRest

-----------------------------------------------------------------------------
(* What is planned, and what the store holds                               *)

PlanOk(plan, said) ==
  /\ plan.turn.at \in 0..MaxCommands
  /\ AsWritten(plan.reply, plan.extraction) /\ Dated(plan.turn, plan.extraction)
  /\ IsDocument(plan.turn.ref) =>
       /\ plan.turn.ref \in said
       /\ \A k \in DOMAIN plan.extraction.facts : plan.extraction.facts[k].value # {}

StoreOk(s, said) ==
  /\ s.read \subseteq said
  /\ \A f \in s.facts : IsDocument(f.ref) => f.ref \in s.read /\ f.value # {}
  /\ EdgesOk(s.edges)

LEMMA CommittedIs ==
  ASSUME NEW said, NEW s, StoreOk(s, said), NEW plan, PlanOk(plan, said)
  PROVE  /\ StoreOk(Committed(s, plan), said)
         /\ Committed(s, plan).edges = EdgesAfter(s.edges, plan.turn, plan.extraction)
<1> DEFINE turn == plan.turn
           x == plan.extraction
           c == Committed(s, plan)
           read == {ref \in {turn.ref} : IsDocument(ref)}
<1>1. /\ c.facts = s.facts \cup FactsOf(turn, x)
      /\ c.edges = EdgesAfter(s.edges, turn, x)
      /\ c.read = s.read \cup read
  BY DEF Committed
<1>2. turn.at \in 0..MaxCommands /\ Dated(turn, x)
      /\ (IsDocument(turn.ref) => turn.ref \in said /\ \A k \in DOMAIN x.facts : x.facts[k].value # {})
  BY DEF PlanOk
<1> HIDE DEF c, turn, x
<1>3. EdgesOk(c.edges)
  <2>1. EdgesOk(s.edges)
    BY DEF StoreOk
  <2>2. TurnedInto(s.edges, turn, x, EdgesAfter(s.edges, turn, x))
    BY <1>2, <2>1, EdgesAfterIs
  <2>3. QED
    BY <1>1, <2>2 DEF TurnedInto
<1>4. c.read \subseteq said
  BY <1>1, <1>2 DEF StoreOk
<1>5. ASSUME NEW f \in FactsOf(turn, x), IsDocument(f.ref) PROVE f.ref \in read /\ f.value # {}
  <2>1. f.ref = turn.ref
    BY DEF FactsOf
  <2>2. \/ f.value = {"thing"}
        \/ \E k \in DOMAIN x.facts : f.value = x.facts[k].value
    BY DEF FactsOf
  <2>3. f.value # {}
    BY <1>2, <1>5, <2>1, <2>2
  <2>4. QED
    BY <1>5, <2>1, <2>3
<1>6. \A f \in c.facts : IsDocument(f.ref) => f.ref \in c.read /\ f.value # {}
  <2> HIDE DEF read
  <2>1. QED
    BY <1>1, <1>5 DEF StoreOk
<1>7. QED
  BY <1>1, <1>3, <1>4, <1>6 DEF StoreOk, c, turn, x

LEMMA StoreAfterOk ==
  ASSUME NEW said, NEW s, StoreOk(s, said), NEW planned, IsList(planned),
         \A i \in DOMAIN planned : PlanOk(planned[i], said)
  PROVE  \A n \in 0..Len(planned) : StoreOk(StoreAfter(s, planned, n), said)
<1> DEFINE c == Len(planned)
           at(n) == StoreAfter(s, planned, n)
           S == {n \in Nat : n <= c => StoreOk(at(n), said)}
<1>1. c \in Nat /\ DOMAIN planned = 1..c
  BY ListIs
<1>2. at(0) = s /\ \A n \in 1..c : at(n) = Committed(at(n - 1), planned[n])
  BY StoreAfterIs
<1> HIDE DEF c, at
<1>3. 0 \in S
  BY <1>2
<1>4. ASSUME NEW n \in Nat, n \in S PROVE n + 1 \in S
  <2> SUFFICES ASSUME n + 1 <= c PROVE StoreOk(at(n + 1), said)
    OBVIOUS
  <2>1. StoreOk(at(n), said)
    BY <1>1, <1>4
  <2>2. n + 1 \in 1..c /\ (n + 1) - 1 = n
    BY <1>1
  <2>3. at(n + 1) = Committed(at(n), planned[n + 1]) /\ PlanOk(planned[n + 1], said)
    BY <1>1, <1>2, <2>2
  <2>4. QED
    BY <2>1, <2>3, CommittedIs
<1>5. Nat \subseteq S
  <2> HIDE DEF S
  <2>1. QED
    BY <1>3, <1>4, Climbs
<1>6. QED
  BY <1>1, <1>5 DEF c, at

-----------------------------------------------------------------------------
(* Where a run is in the tree                                              *)

Fields == {"pc", "kind", "at", "seen", "files", "left", "planned", "failing", "tries", "began"}

JobOk(j, said, n) ==
  /\ DOMAIN j = Fields
  /\ j.at \in 0..MaxCommands /\ j.began \in 0..n
  /\ IsList(j.files) /\ IsList(j.left) /\ IsList(j.planned) /\ IsList(j.tries)
  /\ \A i \in DOMAIN j.files : j.files[i] \in {Files[k] : k \in DOMAIN Files}
  /\ \A i \in DOMAIN j.left : j.left[i].text \in DOMAIN Replies
  /\ \A i \in DOMAIN j.planned : PlanOk(j.planned[i], said)

(* The sections of the i-th file.                                          *)
RefsIn(documents, i) == RefsOf(Files[i], documents[Files[i]])

(* What is unread of the first files, and of the next one up to a section. *)
Passed(seen, documents, done, k) ==
  {x \in Unread(seen, documents) : x[1] < done \/ (x[1] = done /\ x[2] <= k)}

(* A run has opened so many files, gone over so many sections of the last, *)
(* and asked about each that is unread.                                    *)
IsAt(j, documents, done, k) ==
  /\ Len(j.files) = Len(Files) - done
  /\ \A i \in 1..Len(j.files) : j.files[i] = Files[done + i]
  /\ done = 0 => k = 0 /\ j.left = <<>>
  /\ done > 0 => /\ k <= Len(RefsIn(documents, done))
                 /\ Len(j.left) = Len(RefsIn(documents, done)) - k
                 /\ \A i \in 1..Len(j.left) : j.left[i] = RefsIn(documents, done)[k + i]
  /\ IsFiniteSet(Passed(j.seen, documents, done, k))
  /\ Len(j.tries) = Cardinality(Passed(j.seen, documents, done, k))

Walked(j, documents, n) ==
  j.kind = "ingest" /\ j.began = n =>
    \E done \in 0..Len(Files), k \in Nat : IsAt(j, documents, done, k)

LEMMA FilesAre == IsList(Files) /\ Len(Files) \in Nat /\ DOMAIN Files = 1..Len(Files)
  BY DocumentsAssumption, ListIs

LEMMA RefsAre ==
  ASSUME NEW documents \in Trees, NEW i \in DOMAIN Files
  PROVE  LET refs == RefsIn(documents, i)
         IN /\ IsList(refs) /\ Len(refs) \in Nat /\ DOMAIN refs = 1..Len(refs)
            /\ \A k \in DOMAIN refs : refs[k].text \in DOMAIN Replies
<1> DEFINE document == documents[Files[i]]
           s == Sections(document)
           refs == RefsIn(documents, i)
<1>1. IsList(document) /\ \A k \in DOMAIN s : s[k].text \in DOMAIN Replies
  BY DocumentsAssumption
<1>2. IsList(s)
  BY <1>1, SectionsAre
<1>3. refs = [k \in DOMAIN s |-> [path |-> Files[i], heading |-> s[k].heading, text |-> s[k].text]]
  BY DEF RefsIn, RefsOf, SourceRef
<1> HIDE DEF s, refs
<1>4. DOMAIN s = 1..Len(s) /\ Len(s) \in Nat
  BY <1>2, ListIs
<1>5. DOMAIN refs = 1..Len(s) /\ refs = [k \in 1..Len(s) |-> refs[k]]
      /\ \A k \in 1..Len(s) : refs[k].text = s[k].text
  BY <1>3, <1>4
<1>6. IsList(refs) /\ Len(refs) = Len(s)
  BY <1>4, <1>5, SequenceOf
<1>7. QED
  BY <1>1, <1>4, <1>5, <1>6 DEF refs, s

LEMMA UnreadIs ==
  ASSUME NEW seen, NEW documents
  PROVE  /\ \A x \in Unread(seen, documents) :
              /\ x = <<x[1], x[2]>> /\ x[1] \in DOMAIN Files
              /\ x[2] \in DOMAIN RefsIn(documents, x[1])
              /\ RefsIn(documents, x[1])[x[2]] \notin seen
         /\ \A i \in DOMAIN Files : \A k \in DOMAIN RefsIn(documents, i) :
              RefsIn(documents, i)[k] \notin seen => <<i, k>> \in Unread(seen, documents)
<1> DEFINE of(i) == {<<i, k>> : k \in {n \in DOMAIN RefsIn(documents, i) : RefsIn(documents, i)[n] \notin seen}}
<1>1. Unread(seen, documents) = UNION {of(i) : i \in DOMAIN Files}
  BY DEF Unread, RefsIn
<1>2. \A i \in DOMAIN Files : \A x \in of(i) :
        /\ x = <<x[1], x[2]>> /\ x[1] = i
        /\ x[2] \in DOMAIN RefsIn(documents, i) /\ RefsIn(documents, i)[x[2]] \notin seen
  OBVIOUS
<1>3. \A i \in DOMAIN Files : \A k \in DOMAIN RefsIn(documents, i) :
        RefsIn(documents, i)[k] \notin seen => <<i, k>> \in of(i)
  OBVIOUS
<1> HIDE DEF of
<1>4. ASSUME NEW x \in Unread(seen, documents)
      PROVE  /\ x = <<x[1], x[2]>> /\ x[1] \in DOMAIN Files
             /\ x[2] \in DOMAIN RefsIn(documents, x[1])
             /\ RefsIn(documents, x[1])[x[2]] \notin seen
  <2>1. PICK i \in DOMAIN Files : x \in of(i)
    BY <1>1
  <2>2. QED
    BY <1>2, <2>1
<1>5. QED
  BY <1>1, <1>3, <1>4

(* Going past one section.                                                 *)
LEMMA PassedOne ==
  ASSUME NEW seen, NEW documents \in Trees, NEW done \in DOMAIN Files, NEW k \in Nat,
         k + 1 \in DOMAIN RefsIn(documents, done)
  PROVE  LET refs == RefsIn(documents, done)
             before == Passed(seen, documents, done, k)
             after == Passed(seen, documents, done, k + 1)
         IN /\ refs[k + 1] \in seen => after = before
            /\ refs[k + 1] \notin seen => <<done, k + 1>> \notin before /\ after = before \cup {<<done, k + 1>>}
<1> DEFINE refs == RefsIn(documents, done)
           before == Passed(seen, documents, done, k)
           after == Passed(seen, documents, done, k + 1)
           here == <<done, k + 1>>
           U == Unread(seen, documents)
<1>1. \A x \in U : x = <<x[1], x[2]>> /\ x[1] \in Nat /\ x[2] \in Nat
                   /\ (x[1] = done => x[2] \in DOMAIN refs /\ refs[x[2]] \notin seen)
  <2> TAKE x \in U
  <2>1. /\ x = <<x[1], x[2]>> /\ x[1] \in DOMAIN Files
        /\ x[2] \in DOMAIN RefsIn(documents, x[1])
        /\ RefsIn(documents, x[1])[x[2]] \notin seen
    BY UnreadIs
  <2>2. Len(RefsIn(documents, x[1])) \in Nat
        /\ DOMAIN RefsIn(documents, x[1]) = 1..Len(RefsIn(documents, x[1]))
    BY <2>1, RefsAre
  <2>3. x[1] \in Nat /\ x[2] \in Nat
    BY <2>1, <2>2, FilesAre
  <2>4. QED
    BY <2>1, <2>3
<1>2. refs[k + 1] \notin seen => here \in U
  BY UnreadIs
<1>3. here[1] = done /\ here[2] = k + 1 /\ done \in Nat
  BY FilesAre
<1>4. /\ before = {x \in U : x[1] < done \/ (x[1] = done /\ x[2] <= k)}
      /\ after = {x \in U : x[1] < done \/ (x[1] = done /\ x[2] <= k + 1)}
  BY DEF Passed
<1>5. \A x \in U : x \in after <=> x \in before \/ (x[1] = done /\ x[2] = k + 1)
  BY <1>1, <1>3, <1>4
<1>6. \A x \in U : x[1] = done /\ x[2] = k + 1 <=> x = here
  BY <1>1, <1>3
<1> HIDE DEF here, U
<1>7. here \notin before
  BY <1>3, <1>4
<1>8. CASE refs[k + 1] \in seen
  <2>1. here \notin U
    BY <1>1, <1>3, <1>8
  <2>2. after = before
    BY <1>4, <1>5, <1>6, <2>1
  <2>3. QED
    BY <1>8, <2>2
<1>9. CASE refs[k + 1] \notin seen
  <2>1. here \in U
    BY <1>2, <1>9
  <2>2. after = before \cup {here}
    BY <1>4, <1>5, <1>6, <2>1
  <2>3. QED
    BY <1>7, <1>9, <2>2 DEF here
<1>10. QED
  BY <1>8, <1>9

(* Opening the next file passes nothing.                                   *)
LEMMA PassedFile ==
  ASSUME NEW seen, NEW documents \in Trees, NEW done \in Nat, NEW k \in Nat,
         done = 0 => k = 0, done > 0 => done \in DOMAIN Files /\ k = Len(RefsIn(documents, done))
  PROVE  Passed(seen, documents, done + 1, 0) = Passed(seen, documents, done, k)
<1> DEFINE U == Unread(seen, documents)
<1>1. ASSUME NEW x \in U
      PROVE  /\ x[1] \in Nat /\ x[1] >= 1 /\ x[2] \in Nat /\ x[2] >= 1
             /\ (x[1] = done => x[2] <= k)
  <2>1. x[1] \in DOMAIN Files /\ x[2] \in DOMAIN RefsIn(documents, x[1])
    BY UnreadIs
  <2>2. Len(RefsIn(documents, x[1])) \in Nat
        /\ DOMAIN RefsIn(documents, x[1]) = 1..Len(RefsIn(documents, x[1]))
    BY <2>1, RefsAre
  <2>3. QED
    BY <2>1, <2>2, FilesAre
<1>2. \A x \in U : x[1] < done + 1 \/ (x[1] = done + 1 /\ x[2] <= 0)
                     <=> x[1] < done \/ (x[1] = done /\ x[2] <= k)
  BY <1>1
<1>3. QED
  BY <1>2 DEF Passed

(* Past the last section of the last file, there is nothing left unread.   *)
LEMMA PassedAll ==
  ASSUME NEW seen, NEW documents \in Trees, NEW k \in Nat,
         Len(Files) > 0 => k = Len(RefsIn(documents, Len(Files)))
  PROVE  Passed(seen, documents, Len(Files), k) = Unread(seen, documents)
<1>1. ASSUME NEW x \in Unread(seen, documents)
      PROVE  x[1] < Len(Files) \/ (x[1] = Len(Files) /\ x[2] <= k)
  <2>1. x[1] \in DOMAIN Files /\ x[2] \in DOMAIN RefsIn(documents, x[1])
    BY UnreadIs
  <2>2. Len(RefsIn(documents, x[1])) \in Nat
        /\ DOMAIN RefsIn(documents, x[1]) = 1..Len(RefsIn(documents, x[1]))
    BY <2>1, RefsAre
  <2>3. QED
    BY <2>1, <2>2, FilesAre
<1>2. QED
  BY <1>1 DEF Passed

-----------------------------------------------------------------------------
(* Documents as a state machine                                            *)

JobsOk == \A p \in Procs : JobOk(job[p], answered, edits) /\ Walked(job[p], tree, edits)

DocInv ==
  /\ tree \in Trees /\ clock \in 0..MaxCommands /\ edits \in Nat
  /\ DOMAIN job = Procs /\ JobsOk
  /\ StoreOk(store, answered) /\ LastOk

LEMMA JobWidens ==
  ASSUME NEW j, NEW said, NEW more, said \subseteq more, NEW n \in Nat, NEW m \in Nat, n <= m, JobOk(j, said, n)
  PROVE  JobOk(j, more, m)
<1>1. \A plan : PlanOk(plan, said) => PlanOk(plan, more)
  BY DEF PlanOk
<1>2. QED
  BY <1>1 DEF JobOk

LEMMA IdleOk ==
  ASSUME NEW said, NEW n \in Nat
  PROVE  JobOk(Idle, said, n) /\ Idle.kind = "none"
<1>1. DOMAIN Idle = Fields
  BY DEF Idle, Fields
<1>2. /\ Idle.at = 0 /\ Idle.began = 0 /\ Idle.files = <<>> /\ Idle.left = <<>>
      /\ Idle.planned = <<>> /\ Idle.tries = <<>> /\ Idle.kind = "none"
  BY DEF Idle
<1>3. QED
  BY <1>1, <1>2, EmptyIs, DocumentsAssumption DEF JobOk

(* A step that touches one job, and neither the tree nor the store.        *)
LEMMA OneJob ==
  ASSUME DocInv, NEW p \in Procs, job' = [job EXCEPT ![p] = job'[p]],
         UNCHANGED <<tree, edits, store, last>>, clock' \in 0..MaxCommands,
         answered \subseteq answered',
         JobOk(job'[p], answered', edits), Walked(job'[p], tree, edits)
  PROVE  DocInv'
<1>1. DOMAIN job' = Procs /\ \A q \in Procs : q # p => job'[q] = job[q]
  BY DEF DocInv
<1>2. \A q \in Procs : JobOk(job[q], answered, edits) /\ Walked(job[q], tree, edits)
  BY DEF DocInv, JobsOk
<1>3. \A q \in Procs : JobOk(job[q], answered', edits)
  BY <1>2, JobWidens DEF DocInv
<1>4. \A q \in Procs : JobOk(job'[q], answered', edits) /\ Walked(job'[q], tree, edits)
  BY <1>1, <1>2, <1>3
<1>5. JobsOk'
  BY <1>4 DEF JobsOk
<1>6. StoreOk(store, answered')
  BY DEF DocInv, StoreOk
<1>7. LastOk'
  BY DEF DocInv, LastOk
<1>8. QED
  BY <1>1, <1>5, <1>6, <1>7 DEF DocInv

LEMMA InitDocs == Init => DocInv
<1> SUFFICES ASSUME Init PROVE DocInv
  OBVIOUS
<1>1. JobsOk /\ DOMAIN job = Procs
  <2>1. \A p \in Procs : job[p] = Idle /\ edits = 0
    BY DEF Init
  <2>2. JobOk(Idle, answered, 0) /\ Idle.kind # "ingest"
    BY IdleOk
  <2>3. QED
    BY <2>1, <2>2 DEF Init, JobsOk, Walked
<1>2. store.facts = {} /\ store.read = {} /\ store.edges = [t \in {} |-> <<>>] /\ DOMAIN store.edges = {}
  BY DEF Init
<1>3. StoreOk(store, answered) /\ EdgesOk(store.edges)
  BY <1>2 DEF StoreOk, EdgesOk
<1>4. LastOk
  <2>1. last.turn = NoTurn /\ last.extraction = Nothing /\ last.before = store.edges
    BY DEF Init
  <2>2. NoTurn.at = 0 /\ Nothing.mentions = <<>> /\ Nothing.facts = <<>>
        /\ Nothing.relations = <<>> /\ Nothing.closures = <<>>
    BY DEF NoTurn, Nothing
  <2>3. Dated(NoTurn, Nothing) /\ NoTurn.at \in 0..MaxCommands
    BY <2>2, EmptyIs, DocumentsAssumption DEF Dated
  <2>4. TurnedInto(store.edges, NoTurn, Nothing, EdgesAfter(store.edges, NoTurn, Nothing))
    BY <1>3, <2>3, EdgesAfterIs
  <2>5. DOMAIN EdgesAfter(store.edges, NoTurn, Nothing) = {}
    <3>1. Told(Nothing) = {}
      BY <2>2, EmptyIs DEF Told
    <3>2. QED
      BY <1>2, <2>4, <3>1 DEF TurnedInto
  <2>6. EdgesAfter(store.edges, NoTurn, Nothing) = Related(store.edges, NoTurn, Nothing)
    <3>1. PICK f : /\ f[0] = Related(store.edges, NoTurn, Nothing)
                   /\ f[Len(Nothing.closures)] = Closed(Related(store.edges, NoTurn, Nothing), NoTurn, Nothing)
      BY <2>2, EmptyIs, ClosedIs
    <3>2. Len(Nothing.closures) = 0
      BY <2>2, EmptyIs
    <3>3. QED
      BY <3>1, <3>2 DEF EdgesAfter
  <2>7. EdgesAfter(store.edges, NoTurn, Nothing) = store.edges
    <3> DEFINE r == Related(store.edges, NoTurn, Nothing)
    <3>1. r = [t \in DOMAIN r |-> r[t]]
      BY DEF Related
    <3> HIDE DEF r
    <3>2. r = [t \in {} |-> r[t]]
      BY <2>5, <2>6, <3>1 DEF r
    <3>3. r = [t \in {} |-> <<>>]
      BY <3>2
    <3>4. QED
      BY <1>2, <2>6, <3>3 DEF r
  <2>8. QED
    BY <1>3, <2>1, <2>3, <2>7 DEF LastOk
<1>5. clock \in 0..MaxCommands
  BY DocumentsAssumption DEF Init
<1>6. QED
  BY <1>1, <1>3, <1>4, <1>5 DEF DocInv, Init

LEMMA EditKeeps == DocInv /\ Edit => DocInv'
<1> SUFFICES ASSUME DocInv, Edit PROVE DocInv'
  OBVIOUS
<1>1. edits' = edits + 1 /\ edits \in Nat /\ tree' \in Trees
  BY DEF DocInv, Edit
<1>2. ASSUME NEW p \in Procs PROVE JobOk(job[p], answered, edits') /\ Walked(job[p], tree', edits')
  <2>1. JobOk(job[p], answered, edits)
    BY DEF DocInv, JobsOk
  <2>2. JobOk(job[p], answered, edits')
    BY <1>1, <2>1, JobWidens
  <2>3. job[p].began # edits'
    BY <1>1, <2>1 DEF JobOk
  <2>4. QED
    BY <2>2, <2>3 DEF Walked
<1>3. JobsOk'
  BY <1>2 DEF Edit, JobsOk
<1>4. LastOk'
  BY DEF DocInv, Edit, LastOk
<1>5. QED
  BY <1>1, <1>3, <1>4 DEF DocInv, Edit

LEMMA LedgerRead ==
  ASSUME DocInv, NEW p \in Procs, ReadLedger(p)
  PROVE  DocInv'
<1> DEFINE j == job'[p]
<1>1. /\ clock' \in 0..MaxCommands
      /\ job' = [job EXCEPT ![p] = [Idle EXCEPT !.pc = "planning", !.kind = "ingest",
                                      !.at = clock', !.seen = store.read, !.files = Files,
                                      !.began = edits]]
      /\ UNCHANGED <<tree, edits, store, answered, last>>
  BY DocumentsAssumption DEF DocInv, ReadLedger
<1>2. j = [Idle EXCEPT !.pc = "planning", !.kind = "ingest", !.at = clock',
                       !.seen = store.read, !.files = Files, !.began = edits]
      /\ job' = [job EXCEPT ![p] = j]
  BY <1>1 DEF DocInv
<1>3. /\ DOMAIN j = Fields
      /\ j.kind = "ingest" /\ j.at = clock' /\ j.seen = store.read /\ j.files = Files
      /\ j.began = edits /\ j.left = <<>> /\ j.planned = <<>> /\ j.tries = <<>>
  BY <1>2 DEF Idle, Fields
<1> HIDE DEF j
<1>4. JobOk(j, answered', edits)
  BY <1>1, <1>3, EmptyIs, FilesAre DEF JobOk, DocInv
<1>5. IsAt(j, tree, 0, 0)
  <2>1. Passed(j.seen, tree, 0, 0) = {}
    <3>1. \A x \in Unread(j.seen, tree) : ~(x[1] < 0 \/ (x[1] = 0 /\ x[2] <= 0))
      BY UnreadIs, FilesAre
    <3>2. QED
      BY <3>1 DEF Passed
  <2>2. IsFiniteSet(Passed(j.seen, tree, 0, 0)) /\ Cardinality(Passed(j.seen, tree, 0, 0)) = 0
    BY <2>1, FS_EmptySet
  <2>3. QED
    BY <1>3, <2>2, EmptyIs, FilesAre DEF IsAt
<1>6. Walked(j, tree, edits)
  BY <1>5, FilesAre DEF Walked
<1>7. answered \subseteq answered'
  BY <1>1
<1>8. QED
  BY <1>1, <1>2, <1>4, <1>6, <1>7, OneJob DEF j

LEMMA FileOpened ==
  ASSUME DocInv, NEW p \in Procs, OpenFile(p)
  PROVE  DocInv'
<1> DEFINE i == job[p]
           j == job'[p]
           refs == RefsOf(Head(i.files), tree[Head(i.files)])
<1>1. JobOk(i, answered, edits) /\ Walked(i, tree, edits) /\ tree \in Trees /\ edits \in Nat
  BY DEF DocInv, JobsOk
<1>2. i.left = <<>> /\ i.files # <<>> /\ UNCHANGED <<tree, clock, edits, store, answered, last>>
  BY DEF OpenFile
<1>3. /\ job' = [job EXCEPT ![p] = j]
      /\ DOMAIN j = DOMAIN i
      /\ j.left = refs /\ j.files = Tail(i.files)
      /\ \A f \in Fields \ {"left", "files"} : j[f] = i[f]
  BY <1>1 DEF DocInv, OpenFile, JobOk, Fields
<1> HIDE DEF i, j, refs
<1>4. /\ j.kind = i.kind /\ j.at = i.at /\ j.seen = i.seen /\ j.began = i.began
      /\ j.planned = i.planned /\ j.tries = i.tries
  BY <1>3 DEF Fields
<1>5. /\ Len(i.files) >= 1 /\ Head(i.files) = i.files[1]
      /\ IsList(Tail(i.files)) /\ Len(Tail(i.files)) = Len(i.files) - 1
      /\ \A k \in 1..(Len(i.files) - 1) : Tail(i.files)[k] = i.files[k + 1]
      /\ DOMAIN i.files = 1..Len(i.files) /\ Len(i.files) \in Nat
      /\ DOMAIN Tail(i.files) = 1..(Len(i.files) - 1)
  <2>1. IsList(i.files)
    BY <1>1 DEF JobOk
  <2>2. /\ Len(i.files) >= 1 /\ Head(i.files) = i.files[1]
        /\ IsList(Tail(i.files)) /\ Len(Tail(i.files)) = Len(i.files) - 1
        /\ \A k \in 1..(Len(i.files) - 1) : Tail(i.files)[k] = i.files[k + 1]
    BY <1>2, <2>1, TailIs
  <2>3. DOMAIN Tail(i.files) = 1..Len(Tail(i.files)) /\ DOMAIN i.files = 1..Len(i.files) /\ Len(i.files) \in Nat
    BY <2>1, <2>2, ListIs
  <2>4. QED
    BY <2>2, <2>3
<1>6. PICK f \in DOMAIN Files : i.files[1] = Files[f]
  <2>1. 1 \in DOMAIN i.files
    BY <1>5
  <2>2. QED
    BY <1>1, <2>1 DEF JobOk
<1>7. /\ refs = RefsIn(tree, f) /\ IsList(refs) /\ Len(refs) \in Nat /\ DOMAIN refs = 1..Len(refs)
      /\ \A k \in DOMAIN refs : refs[k].text \in DOMAIN Replies
  <2>1. refs = RefsIn(tree, f)
    BY <1>5, <1>6 DEF refs, RefsIn
  <2>2. QED
    BY <1>1, <2>1, RefsAre
<1>8. JobOk(j, answered', edits)
  <2>1. \A k \in DOMAIN j.files : j.files[k] \in {Files[n] : n \in DOMAIN Files}
    <3> TAKE k \in DOMAIN j.files
    <3>1. k + 1 \in DOMAIN i.files /\ j.files[k] = i.files[k + 1]
      BY <1>3, <1>5
    <3>2. QED
      BY <1>1, <3>1 DEF JobOk
  <2>2. QED
    BY <1>1, <1>2, <1>3, <1>4, <1>5, <1>7, <2>1 DEF JobOk
<1>9. ASSUME i.kind = "ingest", i.began = edits
      PROVE  \E done \in 0..Len(Files), k \in Nat : IsAt(j, tree, done, k)
  <2>1. PICK done \in 0..Len(Files), k \in Nat : IsAt(i, tree, done, k)
    BY <1>1, <1>9 DEF Walked
  <2>2. /\ Len(i.files) = Len(Files) - done
        /\ \A n \in 1..Len(i.files) : i.files[n] = Files[done + n]
        /\ done = 0 => k = 0
        /\ done > 0 => /\ k <= Len(RefsIn(tree, done))
                       /\ 0 = Len(RefsIn(tree, done)) - k
        /\ IsFiniteSet(Passed(i.seen, tree, done, k))
        /\ Len(i.tries) = Cardinality(Passed(i.seen, tree, done, k))
    BY <1>2, <2>1, EmptyIs DEF IsAt
  <2> DEFINE all == Len(Files)
             rest == Len(i.files)
  <2>0. /\ rest \in Nat /\ rest >= 1 /\ all \in Nat /\ Len(j.files) = rest - 1
        /\ DOMAIN Files = 1..all /\ done \in 0..all /\ rest = all - done
    BY <1>3, <1>5, <2>2, FilesAre
  <2> HIDE DEF all, rest
  <2>3. done + 1 \in 0..all /\ done + 1 \in DOMAIN Files /\ done \in Nat
        /\ (done > 0 => done \in DOMAIN Files)
    BY <2>0
  <2>4. done > 0 => k = Len(RefsIn(tree, done))
    <3> SUFFICES ASSUME done > 0 PROVE k = Len(RefsIn(tree, done))
      OBVIOUS
    <3>1. Len(RefsIn(tree, done)) \in Nat
      BY <1>1, <2>3, RefsAre
    <3>2. QED
      BY <2>2, <3>1
  <2>5. Passed(i.seen, tree, done + 1, 0) = Passed(i.seen, tree, done, k)
    BY <1>1, <2>2, <2>3, <2>4, PassedFile
  <2>6. Files[done + 1] = i.files[1]
    BY <1>5, <2>2
  <2>7. refs = RefsIn(tree, done + 1)
    BY <1>5, <2>6 DEF refs, RefsIn
  <2>8. \A n \in 1..Len(j.files) : j.files[n] = Files[(done + 1) + n]
    <3> TAKE n \in 1..Len(j.files)
    <3>1. n + 1 \in 1..Len(i.files) /\ j.files[n] = i.files[n + 1] /\ done + (n + 1) = (done + 1) + n
      BY <1>3, <1>5
    <3>2. QED
      BY <2>2, <3>1
  <2>9. Len(j.files) = all - (done + 1) /\ done + 1 > 0 /\ done + 1 # 0
    BY <2>0
  <2>10. \A n \in 1..Len(j.left) : j.left[n] = RefsIn(tree, done + 1)[0 + n]
    BY <1>3, <2>7
  <2>11. 0 <= Len(RefsIn(tree, done + 1)) /\ Len(j.left) = Len(RefsIn(tree, done + 1)) - 0
    BY <1>3, <1>7, <2>7
  <2>12. IsAt(j, tree, done + 1, 0)
    BY <1>4, <2>2, <2>5, <2>8, <2>9, <2>10, <2>11 DEF IsAt, all
  <2>13. QED
    BY <2>3, <2>12 DEF all
<1>10. Walked(j, tree, edits)
  BY <1>4, <1>9 DEF Walked
<1>11. clock' \in 0..MaxCommands /\ answered \subseteq answered'
  BY <1>2 DEF DocInv
<1>12. QED
  BY <1>2, <1>3, <1>8, <1>10, <1>11, OneJob DEF j

(* What is left of the sections that a job goes through, after one more.   *)
LEMMA OneLess ==
  ASSUME NEW i, NEW said, NEW n, JobOk(i, said, n), i.left # <<>>
  PROVE  /\ IsList(Tail(i.left)) /\ Head(i.left) = i.left[1] /\ Len(i.left) \in Nat /\ Len(i.left) >= 1
         /\ Len(Tail(i.left)) = Len(i.left) - 1
         /\ \A k \in 1..(Len(i.left) - 1) : Tail(i.left)[k] = i.left[k + 1]
         /\ i.left[1].text \in DOMAIN Replies
         /\ \A k \in DOMAIN Tail(i.left) : Tail(i.left)[k].text \in DOMAIN Replies
<1>1. IsList(i.left)
  BY DEF JobOk
<1>2. /\ Len(i.left) >= 1 /\ Head(i.left) = i.left[1]
      /\ IsList(Tail(i.left)) /\ Len(Tail(i.left)) = Len(i.left) - 1
      /\ \A k \in 1..(Len(i.left) - 1) : Tail(i.left)[k] = i.left[k + 1]
  BY <1>1, TailIs
<1>3. DOMAIN i.left = 1..Len(i.left) /\ Len(i.left) \in Nat
      /\ DOMAIN Tail(i.left) = 1..Len(Tail(i.left))
  BY <1>1, <1>2, ListIs
<1>4. \A k \in DOMAIN i.left : i.left[k].text \in DOMAIN Replies
  BY DEF JobOk
<1>5. 1 \in DOMAIN i.left /\ \A k \in DOMAIN Tail(i.left) : k + 1 \in DOMAIN i.left /\ k \in 1..(Len(i.left) - 1)
  BY <1>2, <1>3
<1>6. \A k \in DOMAIN Tail(i.left) : Tail(i.left)[k].text \in DOMAIN Replies
  BY <1>2, <1>4, <1>5
<1>7. QED
  BY <1>2, <1>3, <1>4, <1>5, <1>6

(* A run that goes past a section asks about it if and only if it is       *)
(* unread.                                                                 *)
LEMMA MovesOn ==
  ASSUME NEW documents \in Trees, NEW i, NEW said, NEW n, JobOk(i, said, n), i.left # <<>>,
         NEW m, Walked(i, documents, m), NEW j,
         j.kind = i.kind, j.began = i.began, j.seen = i.seen, j.files = i.files, j.left = Tail(i.left),
         Head(i.left) \in i.seen => j.tries = i.tries,
         Head(i.left) \notin i.seen => \E usable : j.tries = Append(i.tries, usable)
  PROVE  Walked(j, documents, m)
<1> SUFFICES ASSUME i.kind = "ingest", i.began = m
             PROVE  \E done \in 0..Len(Files), k \in Nat : IsAt(j, documents, done, k)
  BY DEF Walked
<1>1. PICK done \in 0..Len(Files), k \in Nat : IsAt(i, documents, done, k)
  BY DEF Walked
<1> DEFINE refs == RefsIn(documents, done)
           P(o) == Passed(i.seen, documents, done, o)
<1>2. /\ Len(i.files) = Len(Files) - done
      /\ \A o \in 1..Len(i.files) : i.files[o] = Files[done + o]
      /\ done = 0 => k = 0 /\ i.left = <<>>
      /\ done > 0 => /\ k <= Len(refs)
                     /\ Len(i.left) = Len(refs) - k
                     /\ \A o \in 1..Len(i.left) : i.left[o] = refs[k + o]
      /\ IsFiniteSet(P(k)) /\ Len(i.tries) = Cardinality(P(k))
  BY <1>1 DEF IsAt
<1> HIDE DEF refs, P
<1>3. done > 0 /\ done # 0 /\ done \in DOMAIN Files
  BY <1>2, FilesAre
<1>4. IsList(refs) /\ Len(refs) \in Nat /\ DOMAIN refs = 1..Len(refs)
  BY <1>3, RefsAre DEF refs
<1>5. /\ Head(i.left) = i.left[1] /\ Len(i.left) \in Nat /\ Len(i.left) >= 1
      /\ Len(j.left) = Len(i.left) - 1
      /\ \A o \in 1..(Len(i.left) - 1) : j.left[o] = i.left[o + 1]
  BY OneLess
<1>6. k + 1 \in DOMAIN refs /\ Head(i.left) = refs[k + 1] /\ k + 1 <= Len(refs)
  <2>1. Len(i.left) = Len(refs) - k /\ 1 \in 1..Len(i.left)
    BY <1>2, <1>3, <1>5
  <2>2. k + 1 \in 1..Len(refs)
    BY <1>4, <1>5, <2>1
  <2>3. i.left[1] = refs[k + 1]
    BY <1>2, <1>3, <2>1
  <2>4. QED
    BY <1>4, <1>5, <2>2, <2>3
<1>7. Len(j.left) = Len(refs) - (k + 1) /\ \A o \in 1..Len(j.left) : j.left[o] = refs[(k + 1) + o]
  <2>1. Len(j.left) = Len(refs) - (k + 1)
    <3>1. Len(i.left) = Len(refs) - k
      BY <1>2, <1>3
    <3>2. Len(refs) \in Nat /\ Len(j.left) = Len(i.left) - 1
      BY <1>4, <1>5
    <3>3. QED
      BY <3>1, <3>2
  <2>2. ASSUME NEW o \in 1..Len(j.left) PROVE j.left[o] = refs[(k + 1) + o]
    <3>1. o + 1 \in 1..Len(i.left) /\ j.left[o] = i.left[o + 1] /\ k + (o + 1) = (k + 1) + o
      BY <1>5
    <3>2. QED
      BY <1>2, <1>3, <3>1
  <2>3. QED
    BY <2>1, <2>2
<1>8. /\ refs[k + 1] \in i.seen => P(k + 1) = P(k)
      /\ refs[k + 1] \notin i.seen => <<done, k + 1>> \notin P(k) /\ P(k + 1) = P(k) \cup {<<done, k + 1>>}
  BY <1>3, <1>6, PassedOne DEF refs, P
<1>9. IsFiniteSet(P(k + 1)) /\ Len(j.tries) = Cardinality(P(k + 1))
  <2>1. CASE Head(i.left) \in i.seen
    BY <1>2, <1>6, <1>8, <2>1
  <2>2. CASE Head(i.left) \notin i.seen
    <3>1. PICK usable : j.tries = Append(i.tries, usable)
      BY <2>2
    <3>2. IsList(i.tries)
      BY DEF JobOk
    <3>3. Len(j.tries) = Len(i.tries) + 1
      BY <3>1, <3>2, AppendedIs
    <3>4. IsFiniteSet(P(k + 1)) /\ Cardinality(P(k + 1)) = Cardinality(P(k)) + 1
      BY <1>2, <1>6, <1>8, <2>2, FS_AddElement
    <3>5. QED
      BY <1>2, <3>3, <3>4
  <2>3. QED
    BY <2>1, <2>2
<1>10. IsAt(j, documents, done, k + 1)
  BY <1>2, <1>3, <1>6, <1>7, <1>9 DEF IsAt, refs, P
<1>11. QED
  BY <1>10

LEMMA SectionSkipped ==
  ASSUME DocInv, NEW p \in Procs, Skip(p)
  PROVE  DocInv'
<1> DEFINE i == job[p]
           j == job'[p]
<1>1. JobOk(i, answered, edits) /\ Walked(i, tree, edits) /\ tree \in Trees
  BY DEF DocInv, JobsOk
<1>2. /\ i.left # <<>> /\ Head(i.left) \in i.seen /\ UNCHANGED <<tree, clock, edits, store, answered, last>>
  BY DEF Skip
<1>3. /\ job' = [job EXCEPT ![p] = j]
      /\ DOMAIN j = DOMAIN i /\ j.left = Tail(i.left)
      /\ \A f \in Fields \ {"left"} : j[f] = i[f]
  BY <1>1 DEF DocInv, Skip, JobOk, Fields
<1> HIDE DEF i, j
<1>4. /\ j.kind = i.kind /\ j.at = i.at /\ j.seen = i.seen /\ j.began = i.began
      /\ j.planned = i.planned /\ j.tries = i.tries /\ j.files = i.files
  BY <1>3 DEF Fields
<1>5. IsList(j.left) /\ \A k \in DOMAIN j.left : j.left[k].text \in DOMAIN Replies
  BY <1>1, <1>2, <1>3, OneLess
<1>6. JobOk(j, answered', edits)
  BY <1>1, <1>2, <1>3, <1>4, <1>5 DEF JobOk
<1>7. Walked(j, tree, edits)
  BY <1>1, <1>2, <1>3, <1>4, MovesOn
<1>8. clock' \in 0..MaxCommands /\ answered \subseteq answered'
  BY <1>2 DEF DocInv
<1>9. QED
  BY <1>2, <1>3, <1>6, <1>7, <1>8, OneJob DEF j

(* One more section was asked about, and this much was planned of it.      *)
LEMMA SectionAnswered ==
  ASSUME DocInv, NEW p \in Procs, NEW ref, NEW usable, NEW planned, IsList(planned),
         job[p].left # <<>>, Head(job[p].left) \notin job[p].seen,
         answered \subseteq answered', \A k \in DOMAIN planned : PlanOk(planned[k], answered'),
         Answer(p, ref, usable, planned)
  PROVE  DocInv'
<1> DEFINE i == job[p]
           j == job'[p]
<1>1. JobOk(i, answered, edits) /\ Walked(i, tree, edits) /\ tree \in Trees /\ edits \in Nat
  BY DEF DocInv, JobsOk
<1>2. UNCHANGED <<tree, clock, edits, store, last>>
  BY DEF Answer
<1>3. /\ job' = [job EXCEPT ![p] = j]
      /\ DOMAIN j = DOMAIN i /\ j.left = Tail(i.left) /\ j.planned = i.planned \o planned
      /\ j.tries = Append(i.tries, usable)
      /\ \A f \in Fields \ {"left", "planned", "failing", "tries"} : j[f] = i[f]
  BY <1>1 DEF DocInv, Answer, JobOk, Fields
<1>4. i.left # <<>> /\ Head(i.left) \notin i.seen
  OBVIOUS
<1> HIDE DEF i, j
<1>5. j.kind = i.kind /\ j.at = i.at /\ j.seen = i.seen /\ j.began = i.began /\ j.files = i.files
  BY <1>3 DEF Fields
<1>6. IsList(j.left) /\ \A k \in DOMAIN j.left : j.left[k].text \in DOMAIN Replies
  BY <1>1, <1>3, <1>4, OneLess
<1>7. JobOk(i, answered', edits)
  BY <1>1, JobWidens
<1>8. IsList(j.planned) /\ \A k \in DOMAIN j.planned : PlanOk(j.planned[k], answered')
  <2> DEFINE s == i.planned
             l == Len(s)
  <2>1. IsList(s) /\ \A k \in DOMAIN s : PlanOk(s[k], answered')
    BY <1>7 DEF JobOk
  <2>2. /\ IsList(s \o planned) /\ Len(s \o planned) = l + Len(planned)
        /\ \A k \in 1..l : (s \o planned)[k] = s[k]
        /\ \A k \in 1..Len(planned) : (s \o planned)[l + k] = planned[k]
    BY <2>1, Joined
  <2>3. /\ l \in Nat /\ DOMAIN s = 1..l /\ Len(planned) \in Nat /\ DOMAIN planned = 1..Len(planned)
        /\ DOMAIN (s \o planned) = 1..(l + Len(planned))
    BY <2>1, <2>2, ListIs
  <2> HIDE DEF s, l
  <2>4. ASSUME NEW k \in DOMAIN (s \o planned) PROVE PlanOk((s \o planned)[k], answered')
    <3>1. CASE k \in 1..l
      BY <2>1, <2>2, <2>3, <3>1
    <3>2. CASE k \notin 1..l
      <4>1. k - l \in 1..Len(planned) /\ l + (k - l) = k
        BY <2>3, <3>2
      <4>2. (s \o planned)[k] = planned[k - l]
        BY <2>2, <4>1
      <4>3. QED
        BY <2>3, <4>1, <4>2
    <3>3. QED
      BY <3>1, <3>2
  <2>5. QED
    BY <1>3, <2>2, <2>4 DEF s
<1>9. IsList(j.tries)
  BY <1>1, <1>3, AppendedIs DEF JobOk
<1>10. JobOk(j, answered', edits)
  BY <1>3, <1>5, <1>6, <1>7, <1>8, <1>9 DEF JobOk
<1>11. Walked(j, tree, edits)
  BY <1>1, <1>3, <1>4, <1>5, MovesOn
<1>12. clock' \in 0..MaxCommands
  BY <1>2 DEF DocInv
<1>13. QED
  BY <1>2, <1>3, <1>10, <1>11, <1>12, OneJob DEF j

LEMMA SectionRead ==
  ASSUME DocInv, NEW p \in Procs, Read(p)
  PROVE  DocInv'
<1> DEFINE ref == Head(job[p].left)
           turn == Turn(p, ref, ref.text)
<1>1. PICK reply \in Replies[ref.text] :
        /\ Answer(p, ref, TRUE, <<Planned(turn, reply)>>)
        /\ answered' = answered \cup {ref}
  BY DEF Read
<1>2. job[p].left # <<>> /\ Head(job[p].left) \notin job[p].seen
  BY DEF Read
<1>3. JobOk(job[p], answered, edits)
  BY DEF DocInv, JobsOk
<1>4. ref.text \in DOMAIN Replies
  BY <1>2, <1>3, OneLess
<1>5. IsResponse(reply)
  BY <1>4, DocumentsAssumption
<1>6. turn.at \in 0..MaxCommands /\ turn.ref = ref
  BY <1>3 DEF JobOk, Turn
<1> DEFINE plan == Planned(turn, reply)
<1>7. /\ plan.turn = turn /\ plan.reply = reply
      /\ plan.extraction = WithoutAbsences(Extract(reply, turn))
  BY DEF Planned
<1> HIDE DEF ref, turn, plan
<1>8. PlanOk(plan, answered')
  BY <1>1, <1>5, <1>6, <1>7, WithoutAbsencesIs DEF PlanOk
<1>9. IsList(<<plan>>) /\ DOMAIN <<plan>> = {1} /\ <<plan>>[1] = plan
  BY SingleIs
<1>10. \A k \in DOMAIN <<plan>> : PlanOk(<<plan>>[k], answered')
  BY <1>8, <1>9
<1>11. Answer(p, ref, TRUE, <<plan>>) /\ answered \subseteq answered'
  BY <1>1 DEF plan
<1>12. QED
  BY <1>2, <1>9, <1>10, <1>11, SectionAnswered

LEMMA SectionFailed ==
  ASSUME DocInv, NEW p \in Procs, Fail(p)
  PROVE  DocInv'
<1>1. /\ job[p].left # <<>> /\ Head(job[p].left) \notin job[p].seen /\ answered' = answered
      /\ Answer(p, Head(job[p].left), FALSE, <<>>)
  BY DEF Fail, PlannedOfFailure
<1>2. answered \subseteq answered' /\ \A k \in DOMAIN <<>> : PlanOk(<<>>[k], answered')
  BY <1>1, EmptyIs
<1>3. QED
  BY <1>1, <1>2, EmptyIs, SectionAnswered

LEMMA RunGivenUp ==
  ASSUME DocInv, NEW p \in Procs, GiveUp(p)
  PROVE  DocInv'
<1> DEFINE j == job'[p]
           t == Append(job[p].tries, FALSE)
<1>1. UNCHANGED <<tree, clock, edits, store, answered, last>>
      /\ job' = [job EXCEPT ![p] = [Idle EXCEPT !.kind = "gave up", !.tries = t]]
  BY DEF GiveUp
<1>2. JobOk(job[p], answered, edits) /\ edits \in Nat
  BY DEF DocInv, JobsOk
<1>3. IsList(t)
  BY <1>2, AppendedIs DEF JobOk
<1> HIDE DEF t
<1>4. j = [Idle EXCEPT !.kind = "gave up", !.tries = t] /\ job' = [job EXCEPT ![p] = j]
  BY <1>1 DEF DocInv
<1>5. /\ DOMAIN j = Fields /\ j.kind = "gave up" /\ j.at = 0 /\ j.files = <<>> /\ j.began = 0
      /\ j.left = <<>> /\ j.planned = <<>> /\ j.tries = t
  BY <1>4 DEF Idle, Fields
<1> HIDE DEF j
<1>6. JobOk(j, answered', edits) /\ Walked(j, tree, edits)
  <2>1. 0 \in 0..MaxCommands /\ 0 \in 0..edits
    BY <1>2, DocumentsAssumption
  <2>2. JobOk(j, answered', edits)
    BY <1>3, <1>5, <2>1, EmptyIs DEF JobOk
  <2>3. QED
    BY <1>5, <2>2 DEF Walked
<1>7. clock' \in 0..MaxCommands /\ answered \subseteq answered'
  BY <1>1 DEF DocInv
<1>8. QED
  BY <1>1, <1>4, <1>6, <1>7, OneJob DEF j

LEMMA ToldSomething ==
  ASSUME DocInv, NEW p \in Procs, NEW text \in Lines, Remember(p, text)
  PROVE  DocInv'
<1> DEFINE j == job'[p]
           turn == [at |-> clock', ref |-> Author, names |-> NamesIn[text]]
           plan(reply) == [turn |-> turn, reply |-> reply, extraction |-> Extract(reply, turn)]
<1>1. PICK reply \in Replies[text] :
        job' = [job EXCEPT ![p] = [Idle EXCEPT !.pc = "planning", !.kind = "remember", !.at = clock',
                                     !.planned = <<plan(reply)>>]]
  BY DEF Remember
<1>2. clock' \in 0..MaxCommands /\ UNCHANGED <<tree, edits, store, answered, last>> /\ edits \in Nat
  BY DocumentsAssumption DEF DocInv, Remember
<1>3. IsResponse(reply) /\ turn.at \in 0..MaxCommands /\ ~IsDocument(turn.ref)
  BY <1>2, DocumentsAssumption DEF IsDocument
<1> DEFINE pl == plan(reply)
<1>4. pl.turn = turn /\ pl.reply = reply /\ pl.extraction = Extract(reply, turn)
  OBVIOUS
<1>5. j = [Idle EXCEPT !.pc = "planning", !.kind = "remember", !.at = clock', !.planned = <<pl>>]
      /\ job' = [job EXCEPT ![p] = j]
  BY <1>1 DEF DocInv
<1> HIDE DEF turn, pl
<1>6. /\ DOMAIN j = Fields /\ j.kind = "remember" /\ j.at = clock' /\ j.files = <<>> /\ j.began = 0
      /\ j.left = <<>> /\ j.planned = <<pl>> /\ j.tries = <<>>
  BY <1>5 DEF Idle, Fields
<1> HIDE DEF j
<1>7. PlanOk(pl, answered')
  BY <1>3, <1>4, ExtractIs DEF PlanOk
<1>8. IsList(<<pl>>) /\ DOMAIN <<pl>> = {1} /\ <<pl>>[1] = pl
  BY SingleIs
<1>9. JobOk(j, answered', edits) /\ Walked(j, tree, edits)
  BY <1>2, <1>6, <1>7, <1>8, EmptyIs DEF JobOk, Walked
<1>10. QED
  BY <1>2, <1>5, <1>9, OneJob DEF j

LEMMA RunRefused ==
  ASSUME DocInv, NEW p \in Procs, Refuse(p)
  PROVE  DocInv'
<1>1. job' = [job EXCEPT ![p] = Idle] /\ UNCHANGED <<tree, clock, edits, store, answered, last>>
  BY DEF Refuse
<1>2. job'[p] = Idle /\ job' = [job EXCEPT ![p] = job'[p]]
  BY <1>1 DEF DocInv
<1>3. JobOk(Idle, answered, edits) /\ Walked(Idle, tree, edits)
  BY IdleOk DEF DocInv, Walked
<1>4. clock' \in 0..MaxCommands /\ answered \subseteq answered'
  BY <1>1 DEF DocInv
<1>5. QED
  BY <1>1, <1>2, <1>3, <1>4, OneJob

LEMMA PlansCommitted ==
  ASSUME DocInv, NEW p \in Procs, Commit(p)
  PROVE  DocInv'
<1> DEFINE planned == job[p].planned
           n == Len(planned)
           at(k) == StoreAfter(store, planned, k)
<1>1. /\ store' = at(n)
      /\ last' = IF n = 0 THEN last
                 ELSE [turn |-> planned[n].turn, extraction |-> planned[n].extraction,
                       before |-> at(n - 1).edges]
      /\ job' = [job EXCEPT ![p] = Idle] /\ UNCHANGED <<tree, clock, edits, answered>>
  BY DEF Commit
<1>2. /\ IsList(planned) /\ \A k \in DOMAIN planned : PlanOk(planned[k], answered)
      /\ StoreOk(store, answered) /\ LastOk
  BY DEF DocInv, JobsOk, JobOk
<1> HIDE DEF planned
<1>3. n \in Nat /\ DOMAIN planned = 1..n
  BY <1>2, ListIs
<1>4. \A k \in 0..n : StoreOk(at(k), answered)
  BY <1>2, StoreAfterOk
<1>5. at(0) = store /\ \A k \in 1..n : at(k) = Committed(at(k - 1), planned[k])
  BY <1>2, StoreAfterIs
<1> HIDE DEF n, at
<1>6. StoreOk(store', answered')
  BY <1>1, <1>3, <1>4
<1>7. LastOk'
  <2>1. CASE n = 0
    <3>1. store' = store /\ last' = last
      BY <1>1, <1>5, <2>1
    <3>2. QED
      BY <1>2, <3>1 DEF LastOk
  <2>2. CASE n # 0
    <3> DEFINE plan == planned[n]
               s == at(n - 1)
    <3>1. n - 1 \in 0..n /\ n \in 1..n
      BY <1>3, <2>2
    <3>2. StoreOk(s, answered) /\ PlanOk(plan, answered) /\ store' = Committed(s, plan)
      BY <1>1, <1>2, <1>3, <1>4, <1>5, <3>1
    <3>3. last'.turn = plan.turn /\ last'.extraction = plan.extraction /\ last'.before = s.edges
      BY <1>1, <2>2
    <3> HIDE DEF plan, s
    <3>4. store'.edges = EdgesAfter(s.edges, plan.turn, plan.extraction)
      BY <3>2, CommittedIs
    <3>5. QED
      BY <3>2, <3>3, <3>4 DEF LastOk, PlanOk, StoreOk
  <2>3. QED
    BY <2>1, <2>2
<1>8. JobsOk' /\ DOMAIN job' = Procs
  <2>1. JobOk(Idle, answered, edits) /\ Walked(Idle, tree, edits)
    BY IdleOk DEF DocInv, Walked
  <2>2. \A q \in Procs : job'[q] = Idle \/ job'[q] = job[q]
    BY <1>1 DEF DocInv
  <2>3. QED
    BY <1>1, <2>1, <2>2 DEF DocInv, JobsOk
<1>9. QED
  BY <1>1, <1>6, <1>7, <1>8 DEF DocInv

LEMMA DocStep == DocInv /\ [Next]_vars => DocInv'
<1> SUFFICES ASSUME DocInv, [Next]_vars PROVE DocInv'
  OBVIOUS
<1>1. CASE Edit
  BY <1>1, EditKeeps
<1>2. ASSUME NEW p \in Procs,
             \/ ReadLedger(p) \/ OpenFile(p) \/ Skip(p) \/ Read(p) \/ Fail(p) \/ GiveUp(p)
             \/ Refuse(p) \/ Commit(p)
             \/ \E text \in Lines : Remember(p, text)
      PROVE  DocInv'
  BY <1>2, LedgerRead, FileOpened, SectionSkipped, SectionRead, SectionFailed, RunGivenUp,
     RunRefused, PlansCommitted, ToldSomething
<1>3. CASE UNCHANGED vars
  <2>1. UNCHANGED <<tree, clock, edits, store, job, answered, last>>
    BY <1>3 DEF vars
  <2>2. QED
    BY <2>1 DEF DocInv, JobsOk, LastOk
<1>4. QED
  BY <1>1, <1>2, <1>3 DEF Next

-----------------------------------------------------------------------------
(* What follows of every state                                             *)

LEMMA ReadSays == DocInv => ReadAsWritten
<1> SUFFICES ASSUME DocInv PROVE ReadAsWritten
  OBVIOUS
<1>1. ASSUME NEW p \in Procs, NEW planned \in {job[p].planned[i] : i \in DOMAIN job[p].planned}
      PROVE  AsWritten(planned.reply, planned.extraction)
  BY DEF DocInv, JobsOk, JobOk, PlanOk
<1>2. QED
  BY <1>1 DEF ReadAsWritten, AsWritten

LEMMA LedgerSays == DocInv => LedgerIsTrue
<1> SUFFICES ASSUME DocInv PROVE LedgerIsTrue
  OBVIOUS
<1>1. /\ store.read \subseteq answered
      /\ \A f \in store.facts : IsDocument(f.ref) => f.ref \in store.read /\ f.value # {}
  BY DEF DocInv, StoreOk
<1>2. ASSUME NEW p \in Procs, Ready(p), job[p].kind = "ingest", job[p].began = edits
      PROVE  Len(job[p].tries) = Survey(job[p].seen, tree)
  <2> DEFINE j == job[p]
  <2>1. tree \in Trees /\ Walked(j, tree, edits)
    BY DEF DocInv, JobsOk
  <2>2. j.left = <<>> /\ j.files = <<>>
    BY <1>2 DEF Ready
  <2>3. PICK done \in 0..Len(Files), k \in Nat : IsAt(j, tree, done, k)
    BY <1>2, <2>1 DEF Walked
  <2> HIDE DEF j
  <2>4. /\ 0 = Len(Files) - done
        /\ done > 0 => /\ k <= Len(RefsIn(tree, done))
                       /\ 0 = Len(RefsIn(tree, done)) - k
        /\ Len(j.tries) = Cardinality(Passed(j.seen, tree, done, k))
    BY <2>2, <2>3, EmptyIs DEF IsAt
  <2>5. done = Len(Files)
    BY <2>4, FilesAre
  <2>6. Len(Files) > 0 => k = Len(RefsIn(tree, Len(Files)))
    <3> SUFFICES ASSUME Len(Files) > 0 PROVE k = Len(RefsIn(tree, Len(Files)))
      OBVIOUS
    <3>1. Len(Files) \in DOMAIN Files
      BY FilesAre
    <3>2. Len(RefsIn(tree, Len(Files))) \in Nat
      BY <2>1, <3>1, RefsAre
    <3>3. QED
      BY <2>4, <2>5, <3>2
  <2>7. Passed(j.seen, tree, Len(Files), k) = Unread(j.seen, tree)
    BY <2>1, <2>6, PassedAll
  <2>8. QED
    BY <2>4, <2>5, <2>7 DEF Survey, j
<1>3. QED
  BY <1>1, <1>2 DEF LedgerIsTrue

(* Whatever a model answers, in whatever shape, what is kept of it is about*)
(* the mention that it was about, in every plan of every command.          *)
THEOREM AlwaysReadAsWritten == Spec => []ReadAsWritten
<1>1. Init => DocInv
  BY InitDocs
<1>2. DocInv /\ [Next]_vars => DocInv'
  BY DocStep
<1>3. DocInv => ReadAsWritten
  BY ReadSays
<1>4. QED
  BY <1>1, <1>2, <1>3, PTL DEF Spec

(* Over any tree, edited at any time, and any number of commands, the      *)
(* ledger tells the truth: only what was answered is marked read, nothing  *)
(* is kept of what is not marked, and a dry run counts what a run asks.    *)
THEOREM LedgerAlwaysTrue == Spec => []LedgerIsTrue
<1>1. Init => DocInv
  BY InitDocs
<1>2. DocInv /\ [Next]_vars => DocInv'
  BY DocStep
<1>3. DocInv => LedgerIsTrue
  BY LedgerSays
<1>4. QED
  BY <1>1, <1>2, <1>3, PTL DEF Spec

(* However many relations and closures a turn has, and in whatever order   *)
(* turns are committed, a closure ends the other edges of its subject and  *)
(* predicate, and ends and begins nothing else.                            *)
THEOREM AlwaysClosesTheRest == Spec => []ClosesTheRest
<1>1. Init => DocInv
  BY InitDocs
<1>2. DocInv /\ [Next]_vars => DocInv'
  BY DocStep
<1>3. DocInv => ClosesTheRest
  BY ClosesSays DEF DocInv
<1>4. QED
  BY <1>1, <1>2, <1>3, PTL DEF Spec

-----------------------------------------------------------------------------
(* Sequences end to end                                                    *)

LEMMA OneUniverse ==
  ASSUME NEW s, IsList(s), NEW t, IsList(t), NEW u, IsList(u)
  PROVE  \E S : s \in Seq(S) /\ t \in Seq(S) /\ u \in Seq(S)
<1> DEFINE A == {s[i] : i \in DOMAIN s}
           B == {t[i] : i \in DOMAIN t}
           C == {u[i] : i \in DOMAIN u}
           S == A \cup (B \cup C)
<1>1. s \in Seq(A) /\ t \in Seq(B) /\ u \in Seq(C)
  BY DEF IsList
<1>2. A \subseteq S /\ B \subseteq S /\ C \subseteq S
  OBVIOUS
<1> HIDE DEF A, B, C, S
<1>3. Seq(A) \subseteq Seq(S) /\ Seq(B) \subseteq Seq(S) /\ Seq(C) \subseteq Seq(S)
  BY <1>2
<1>4. QED
  BY <1>1, <1>3

LEMMA JoinNothing ==
  ASSUME NEW s, IsList(s)
  PROVE  s \o <<>> = s /\ <<>> \o s = s
BY ConcatEmptySeq DEF IsList

(* The prefixes that Gathered goes through.                                *)
IsGathering(f, parts, n) ==
  f = [k \in 0..n |-> IF k = 0 THEN <<>> ELSE f[k - 1] \o parts[k]]

LEMMA GatheringExists ==
  ASSUME NEW parts, NEW n \in Nat
  PROVE  \E f : IsGathering(f, parts, n)
<1> DEFINE S == {m \in Nat : \E f : IsGathering(f, parts, m)}
<1>1. 0 \in S
  <2> DEFINE f == [k \in 0..0 |-> <<>>]
  <2>1. f = [k \in 0..0 |-> IF k = 0 THEN <<>> ELSE f[k - 1] \o parts[k]]
    OBVIOUS
  <2> HIDE DEF f
  <2>2. QED
    BY <2>1 DEF IsGathering
<1>2. ASSUME NEW m \in Nat, m \in S PROVE m + 1 \in S
  <2>1. PICK f : IsGathering(f, parts, m)
    BY <1>2
  <2> DEFINE g == [k \in 0..(m + 1) |-> IF k = m + 1 THEN f[m] \o parts[m + 1] ELSE f[k]]
  <2>2. \A k \in 0..m : g[k] = f[k]
    OBVIOUS
  <2>3. \A k \in 0..m : f[k] = IF k = 0 THEN <<>> ELSE f[k - 1] \o parts[k]
    BY <2>1 DEF IsGathering
  <2>4. g[m + 1] = f[m] \o parts[m + 1]
    OBVIOUS
  <2>5. g = [k \in 0..(m + 1) |-> g[k]]
    OBVIOUS
  <2> HIDE DEF g
  <2>6. \A k \in 0..(m + 1) : g[k] = IF k = 0 THEN <<>> ELSE g[k - 1] \o parts[k]
    <3> TAKE k \in 0..(m + 1)
    <3>1. CASE k = 0
      BY <2>2, <2>3, <3>1
    <3>2. CASE k \in 1..m
      <4>1. k - 1 \in 0..m /\ k \in 0..m /\ k # 0
        BY <3>2
      <4>2. QED
        BY <2>2, <2>3, <4>1
    <3>3. CASE k = m + 1
      <4>1. k - 1 = m /\ m \in 0..m /\ k # 0
        BY <3>3
      <4>2. QED
        BY <2>2, <2>4, <3>3, <4>1
    <3>4. QED
      BY <3>1, <3>2, <3>3
  <2>7. g = [k \in 0..(m + 1) |-> IF k = 0 THEN <<>> ELSE g[k - 1] \o parts[k]]
    BY <2>5, <2>6
  <2>8. IsGathering(g, parts, m + 1)
    BY <2>7 DEF IsGathering
  <2>9. QED
    BY <2>8
<1>3. n \in S
  <2> HIDE DEF S
  <2>1. QED
    BY <1>1, <1>2, Climbs
<1>4. QED
  BY <1>3

(* What is gathered of the first so many parts.                            *)
Upto(parts, n) == (CHOOSE f : IsGathering(f, parts, n))[n]

LEMMA UptoIs ==
  ASSUME NEW parts, NEW n \in Nat
  PROVE  /\ Upto(parts, 0) = <<>>
         /\ Upto(parts, n + 1) = Upto(parts, n) \o parts[n + 1]
<1>1. ASSUME NEW m \in Nat, NEW l \in Nat, m <= l,
             NEW f, IsGathering(f, parts, m), NEW g, IsGathering(g, parts, l)
      PROVE  f[m] = g[m]
  <2> DEFINE S == {k \in Nat : k <= m => f[k] = g[k]}
  <2>1. \A k \in 0..m : f[k] = IF k = 0 THEN <<>> ELSE f[k - 1] \o parts[k]
    BY <1>1 DEF IsGathering
  <2>2. \A k \in 0..l : g[k] = IF k = 0 THEN <<>> ELSE g[k - 1] \o parts[k]
    BY <1>1 DEF IsGathering
  <2>3. 0 \in S
    <3>1. 0 \in 0..m /\ 0 \in 0..l
      OBVIOUS
    <3>2. QED
      BY <2>1, <2>2, <3>1
  <2>4. ASSUME NEW k \in Nat, k \in S PROVE k + 1 \in S
    <3> SUFFICES ASSUME k + 1 <= m PROVE f[k + 1] = g[k + 1]
      OBVIOUS
    <3>1. k + 1 \in 0..m /\ k + 1 \in 0..l /\ k + 1 # 0 /\ (k + 1) - 1 = k /\ k <= m
      BY <1>1
    <3>2. f[k] = g[k]
      BY <2>4, <3>1
    <3>3. QED
      BY <2>1, <2>2, <3>1, <3>2
  <2>5. m \in S
    <3> HIDE DEF S
    <3>1. QED
      BY <2>3, <2>4, Climbs
  <2>6. QED
    BY <2>5
<1> DEFINE at(m) == CHOOSE f : IsGathering(f, parts, m)
<1>2. \A m \in Nat : IsGathering(at(m), parts, m)
  BY GatheringExists
<1>3. \A m \in Nat : Upto(parts, m) = at(m)[m]
  BY DEF Upto
<1> HIDE DEF at
<1>4. at(0)[0] = <<>>
  <2>1. at(0) = [k \in 0..0 |-> IF k = 0 THEN <<>> ELSE at(0)[k - 1] \o parts[k]]
    BY <1>2 DEF IsGathering
  <2>2. QED
    BY <2>1
<1>5. at(n + 1)[n + 1] = at(n + 1)[n] \o parts[n + 1]
  <2>1. at(n + 1) = [k \in 0..(n + 1) |-> IF k = 0 THEN <<>> ELSE at(n + 1)[k - 1] \o parts[k]]
    BY <1>2 DEF IsGathering
  <2>2. n + 1 \in 0..(n + 1) /\ n + 1 # 0 /\ (n + 1) - 1 = n
    OBVIOUS
  <2>3. QED
    BY <2>1, <2>2
<1>6. at(n)[n] = at(n + 1)[n]
  <2>1. IsGathering(at(n), parts, n) /\ IsGathering(at(n + 1), parts, n + 1) /\ n <= n + 1 /\ n + 1 \in Nat
    BY <1>2
  <2>2. QED
    BY <1>1, <2>1
<1>7. /\ Upto(parts, 0) = at(0)[0] /\ Upto(parts, n) = at(n)[n]
      /\ Upto(parts, n + 1) = at(n + 1)[n + 1]
  <2>1. 0 \in Nat /\ n + 1 \in Nat
    OBVIOUS
  <2>2. QED
    BY <1>3, <2>1
<1>8. QED
  BY <1>4, <1>5, <1>6, <1>7

LEMMA GatheredIs ==
  ASSUME NEW parts, NEW n \in Nat, Len(parts) = n
  PROVE  Gathered(parts) = Upto(parts, n)
BY DEF Gathered, Upto, IsGathering

(* Parts that are lists make a list, and the first parts make the same     *)
(* whatever comes after them.                                              *)
LEMMA UptoListed ==
  ASSUME NEW parts, NEW n \in Nat, \A k \in 1..n : IsList(parts[k])
  PROVE  IsList(Upto(parts, n))
<1> DEFINE S == {m \in Nat : m <= n => IsList(Upto(parts, m))}
<1>1. 0 \in S
  BY UptoIs, EmptyIs
<1>2. ASSUME NEW m \in Nat, m \in S PROVE m + 1 \in S
  <2> SUFFICES ASSUME m + 1 <= n PROVE IsList(Upto(parts, m + 1))
    OBVIOUS
  <2>1. IsList(Upto(parts, m)) /\ IsList(parts[m + 1])
    BY <1>2
  <2>2. Upto(parts, m + 1) = Upto(parts, m) \o parts[m + 1]
    BY UptoIs
  <2>3. IsList(Upto(parts, m) \o parts[m + 1])
    BY <2>1, Joined
  <2>4. QED
    BY <2>2, <2>3
<1>3. n \in S
  <2> HIDE DEF S
  <2>1. QED
    BY <1>1, <1>2, Climbs
<1>4. QED
  BY <1>3

LEMMA UptoAgree ==
  ASSUME NEW parts, NEW others, NEW n \in Nat, \A k \in 1..n : parts[k] = others[k]
  PROVE  Upto(parts, n) = Upto(others, n)
<1> DEFINE S == {m \in Nat : m <= n => Upto(parts, m) = Upto(others, m)}
<1>1. 0 \in S
  BY UptoIs
<1>2. ASSUME NEW m \in Nat, m \in S PROVE m + 1 \in S
  <2> SUFFICES ASSUME m + 1 <= n PROVE Upto(parts, m + 1) = Upto(others, m + 1)
    OBVIOUS
  <2>1. Upto(parts, m) = Upto(others, m) /\ parts[m + 1] = others[m + 1]
    BY <1>2
  <2>2. QED
    BY <2>1, UptoIs
<1>3. n \in S
  <2> HIDE DEF S
  <2>1. QED
    BY <1>1, <1>2, Climbs
<1>4. QED
  BY <1>3

(* Parts that say nothing add nothing.                                     *)
LEMMA UptoSilent ==
  ASSUME NEW parts, NEW a \in Nat, NEW c \in Nat, a <= c, \A k \in 1..a : IsList(parts[k]),
         \A k \in (a + 1)..c : parts[k] = <<>>
  PROVE  Upto(parts, c) = Upto(parts, a)
<1> DEFINE S == {m \in Nat : a + m <= c => Upto(parts, a + m) = Upto(parts, a)}
<1>1. 0 \in S
  <2>1. a + 0 = a
    OBVIOUS
  <2>2. QED
    BY <2>1
<1>2. ASSUME NEW m \in Nat, m \in S PROVE m + 1 \in S
  <2> SUFFICES ASSUME a + (m + 1) <= c PROVE Upto(parts, a + (m + 1)) = Upto(parts, a)
    OBVIOUS
  <2>1. a + m \in Nat /\ a + (m + 1) = (a + m) + 1 /\ a + m <= c /\ (a + m) + 1 \in (a + 1)..c
    OBVIOUS
  <2>2. Upto(parts, (a + m) + 1) = Upto(parts, a + m) \o parts[(a + m) + 1]
    BY <2>1, UptoIs
  <2>3. Upto(parts, a + m) = Upto(parts, a) /\ parts[(a + m) + 1] = <<>>
    BY <1>2, <2>1
  <2>4. IsList(Upto(parts, a))
    BY UptoListed
  <2>5. Upto(parts, a) \o <<>> = Upto(parts, a)
    BY <2>4, JoinNothing
  <2>6. QED
    BY <2>1, <2>2, <2>3, <2>5
<1>3. c - a \in Nat /\ a + (c - a) = c
  OBVIOUS
<1>4. c - a \in S
  <2> HIDE DEF S
  <2>1. QED
    BY <1>1, <1>2, <1>3, Climbs
<1>5. QED
  BY <1>3, <1>4

(* After parts that say nothing, what is gathered is gathered of the rest. *)
LEMMA UptoShift ==
  ASSUME NEW parts, NEW rest, NEW a \in Nat, NEW c \in Nat, Upto(parts, a) = <<>>,
         \A k \in 1..c : rest[k] = parts[a + k]
  PROVE  Upto(parts, a + c) = Upto(rest, c)
<1> DEFINE S == {m \in Nat : m <= c => Upto(parts, a + m) = Upto(rest, m)}
<1>1. 0 \in S
  <2>1. a + 0 = a /\ Upto(rest, 0) = <<>>
    BY UptoIs
  <2>2. QED
    BY <2>1
<1>2. ASSUME NEW m \in Nat, m \in S PROVE m + 1 \in S
  <2> SUFFICES ASSUME m + 1 <= c PROVE Upto(parts, a + (m + 1)) = Upto(rest, m + 1)
    OBVIOUS
  <2>1. a + m \in Nat /\ a + (m + 1) = (a + m) + 1 /\ m + 1 \in 1..c /\ m <= c
    OBVIOUS
  <2>2. Upto(parts, (a + m) + 1) = Upto(parts, a + m) \o parts[(a + m) + 1]
    BY <2>1, UptoIs
  <2>3. Upto(rest, m + 1) = Upto(rest, m) \o rest[m + 1]
    BY UptoIs
  <2>4. Upto(parts, a + m) = Upto(rest, m) /\ rest[m + 1] = parts[(a + m) + 1]
    <3>1. rest[m + 1] = parts[a + (m + 1)]
      BY <2>1
    <3>2. QED
      BY <1>2, <2>1, <3>1
  <2>5. QED
    BY <2>1, <2>2, <2>3, <2>4
<1>3. c \in S
  <2> HIDE DEF S
  <2>1. QED
    BY <1>1, <1>2, Climbs
<1>4. QED
  BY <1>3

(* A set of places in a list that is not empty has a first one.            *)
LEMMA FirstIs ==
  ASSUME NEW S \in SUBSET Nat, S # {}
  PROVE  \E i \in S : \A j \in S : i <= j
<1>1. IsWellFoundedOn(OpToRel(<, Nat), Nat)
  BY NatLessThanWellFounded
<1>2. PICK x \in S : \A y \in S : ~(<<y, x>> \in OpToRel(<, Nat))
  BY <1>1, WFMin
<1>3. \A y \in S : ~(y < x)
  BY <1>2 DEF OpToRel
<1>4. QED
  BY <1>3

-----------------------------------------------------------------------------
(* What lines say                                                          *)

Parts(lines) == [i \in 1..Len(lines) |-> Unless(IsBlank(lines[i]), lines[i])]

LEMMA UnlessIs ==
  ASSUME NEW left, NEW line
  PROVE  IsList(Unless(left, line))
BY EmptyIs, SingleIs DEF Unless

LEMMA PartsAre ==
  ASSUME NEW lines, IsList(lines)
  PROVE  /\ Len(lines) \in Nat
         /\ \A i \in 1..Len(lines) : /\ Parts(lines)[i] = Unless(IsBlank(lines[i]), lines[i])
                                     /\ IsList(Parts(lines)[i])
         /\ NotBlank(lines) = Upto(Parts(lines), Len(lines))
         /\ IsList(NotBlank(lines))
<1> DEFINE n == Len(lines)
           parts == Parts(lines)
<1>1. n \in Nat
  BY ListIs
<1>2. DOMAIN parts = 1..n /\ \A i \in 1..n : parts[i] = Unless(IsBlank(lines[i]), lines[i])
  BY DEF Parts
<1>3. parts = [i \in 1..n |-> parts[i]]
  BY DEF Parts
<1>4. NotBlank(lines) = Gathered(parts)
  BY DEF NotBlank, Parts
<1> HIDE DEF n, parts
<1>5. Len(parts) = n
  BY <1>1, <1>2, <1>3, SequenceOf
<1>6. Gathered(parts) = Upto(parts, n)
  BY <1>1, <1>5, GatheredIs
<1>7. \A i \in 1..n : IsList(parts[i])
  BY <1>2, UnlessIs
<1>8. IsList(Upto(parts, n))
  BY <1>1, <1>7, UptoListed
<1>9. QED
  BY <1>1, <1>2, <1>4, <1>6, <1>7, <1>8 DEF n, parts

LEMMA NothingIsSaid == NotBlank(<<>>) = <<>>
  BY PartsAre, EmptyIs, UptoIs

LEMMA OneMoreLine ==
  ASSUME NEW lines, IsList(lines), NEW line
  PROVE  NotBlank(Append(lines, line)) = NotBlank(lines) \o Unless(IsBlank(line), line)
<1> DEFINE n == Len(lines)
           more == Append(lines, line)
<1>1. n \in Nat /\ IsList(more) /\ Len(more) = n + 1 /\ more[n + 1] = line /\ \A i \in 1..n : more[i] = lines[i]
  BY ListIs, AppendedIs
<1> HIDE DEF n, more
<1>2. NotBlank(more) = Upto(Parts(more), n + 1)
  BY <1>1, PartsAre
<1>3. NotBlank(lines) = Upto(Parts(lines), n)
  BY PartsAre DEF n
<1>4. \A i \in 1..n : Parts(more)[i] = Parts(lines)[i]
  <2>1. \A i \in 1..n : Parts(lines)[i] = Unless(IsBlank(lines[i]), lines[i])
    BY PartsAre DEF n
  <2>2. \A i \in 1..(n + 1) : Parts(more)[i] = Unless(IsBlank(more[i]), more[i])
    BY <1>1, PartsAre
  <2>3. \A i \in 1..n : i \in 1..(n + 1)
    BY <1>1
  <2>4. QED
    BY <1>1, <2>1, <2>2, <2>3
<1>5. Upto(Parts(more), n) = Upto(Parts(lines), n)
  BY <1>1, <1>4, UptoAgree
<1>6. Parts(more)[n + 1] = Unless(IsBlank(line), line)
  <2>1. n + 1 \in 1..(n + 1)
    BY <1>1
  <2>2. QED
    BY <1>1, <2>1, PartsAre
<1>7. Upto(Parts(more), n + 1) = Upto(Parts(more), n) \o Parts(more)[n + 1]
  BY <1>1, UptoIs
<1>8. QED
  BY <1>2, <1>3, <1>5, <1>6, <1>7 DEF more

LEMMA TrimmingKeeps ==
  ASSUME NEW body, IsList(body)
  PROVE  IsList(Trimmed(body)) /\ NotBlank(Trimmed(body)) = NotBlank(body)
<1> DEFINE n == Len(body)
           parts == Parts(body)
           said == {i \in DOMAIN body : ~IsBlank(body[i])}
<1>1. n \in Nat /\ DOMAIN body = 1..n
  BY ListIs
<1>2. /\ NotBlank(body) = Upto(parts, n)
      /\ \A i \in 1..n : parts[i] = Unless(IsBlank(body[i]), body[i]) /\ IsList(parts[i])
  BY PartsAre
<1>3. said \in SUBSET (1..n) /\ \A i \in 1..n : i \notin said => parts[i] = <<>>
  BY <1>1, <1>2 DEF Unless
<1> HIDE DEF n, parts
<1>4. CASE said = {}
  <2>1. Trimmed(body) = <<>>
    BY <1>4 DEF Trimmed
  <2>2. Upto(parts, n) = Upto(parts, 0)
    <3>1. \A k \in (0 + 1)..n : parts[k] = <<>>
      BY <1>1, <1>3, <1>4
    <3>2. \A k \in 1..0 : IsList(parts[k])
      OBVIOUS
    <3>3. 0 \in Nat /\ 0 <= n
      BY <1>1
    <3>4. QED
      BY <1>1, <3>1, <3>2, <3>3, UptoSilent
  <2>3. QED
    BY <1>2, <2>1, <2>2, NothingIsSaid, EmptyIs, UptoIs
<1>5. CASE said # {}
  <2> DEFINE p == CHOOSE i \in said : \A j \in said : i <= j
             q == CHOOSE i \in said : \A j \in said : j <= i
             u == SubSeq(body, p, q)
  <2>1. p \in said /\ \A j \in said : p <= j
    <3>1. said \in SUBSET Nat
      BY <1>1, <1>3
    <3>2. \E i \in said : \A j \in said : i <= j
      BY <1>5, <3>1, FirstIs
    <3>3. QED
      BY <3>2
  <2>2. q \in said /\ \A j \in said : j <= q
    <3>1. \E i \in said : \A j \in said : j <= i
      BY <1>1, <1>3, <1>5, LastIs
    <3>2. QED
      BY <3>1
  <2>3. Trimmed(body) = u
    BY <1>5 DEF Trimmed
  <2> DEFINE a == p - 1
             c == q - p + 1
  <2>4. p \in 1..n /\ q \in 1..n /\ p <= q
    BY <1>3, <2>1, <2>2
  <2>5. IsList(u) /\ Len(u) = c /\ \A k \in 1..c : u[k] = body[p + k - 1]
    <3> DEFINE S == {body[i] : i \in DOMAIN body}
    <3>1. \A i \in p..q : body[i] \in S
      BY <1>1, <2>4
    <3>2. p \in Int /\ q \in Int
      BY <1>1, <2>4
    <3> HIDE DEF S, p, q
    <3>3. u \in Seq(S) /\ Len(u) = q - p + 1 /\ \A k \in 1..(q - p + 1) : u[k] = body[p + k - 1]
      BY <2>4, <3>1, <3>2, SubSeqProperties
    <3>4. QED
      BY <3>3, ListOf
  <2> HIDE DEF p, q, u
  <2>6. a \in Nat /\ c \in Nat /\ a + c = q /\ a < p /\ a <= n /\ q \in Nat /\ q <= n
    BY <1>1, <2>4
  <2>7. \A k \in 1..c : a + k \in 1..n /\ p + k - 1 = a + k
    BY <1>1, <2>4
  <2> HIDE DEF a, c
  <2> HIDE DEF said
  <2>8. Upto(parts, a) = <<>>
    <3>1. \A k \in (0 + 1)..a : parts[k] = <<>>
      <4> SUFFICES ASSUME NEW k \in (0 + 1)..a PROVE parts[k] = <<>>
        OBVIOUS
      <4>1. k \in 1..n /\ k < p
        BY <1>1, <2>4, <2>6
      <4>2. k \notin said
        BY <1>1, <1>3, <2>1, <2>4, <4>1
      <4>3. QED
        BY <1>3, <4>1, <4>2
    <3>2. \A k \in 1..0 : IsList(parts[k])
      OBVIOUS
    <3>3. 0 \in Nat /\ 0 <= a
      BY <2>6
    <3>4. Upto(parts, a) = Upto(parts, 0)
      BY <2>6, <3>1, <3>2, <3>3, UptoSilent
    <3>5. QED
      BY <3>4, UptoIs
  <2>9. Upto(parts, q) = Upto(Parts(u), c)
    <3>1. \A k \in 1..c : Parts(u)[k] = parts[a + k]
      <4> SUFFICES ASSUME NEW k \in 1..c PROVE Parts(u)[k] = parts[a + k]
        OBVIOUS
      <4>1. u[k] = body[a + k] /\ a + k \in 1..n
        BY <2>5, <2>7
      <4>2. Parts(u)[k] = Unless(IsBlank(u[k]), u[k])
        BY <2>5, PartsAre
      <4>3. QED
        BY <1>2, <4>1, <4>2
    <3> DEFINE rest == Parts(u)
    <3>2. \A k \in 1..c : rest[k] = parts[a + k]
      BY <3>1
    <3> HIDE DEF rest
    <3>3. a \in Nat /\ c \in Nat /\ a + c = q
      BY <2>6
    <3>4. Upto(parts, a + c) = Upto(rest, c)
      BY <2>8, <3>2, <3>3, UptoShift
    <3>5. QED
      BY <3>3, <3>4 DEF rest
  <2>10. Upto(parts, n) = Upto(parts, q)
    <3>1. \A k \in (q + 1)..n : parts[k] = <<>>
      <4> SUFFICES ASSUME NEW k \in (q + 1)..n PROVE parts[k] = <<>>
        OBVIOUS
      <4>1. k \in 1..n /\ q < k
        BY <1>1, <2>6
      <4>2. k \notin said
        BY <1>1, <1>3, <2>2, <2>4, <4>1
      <4>3. QED
        BY <1>3, <4>1, <4>2
    <3>2. \A k \in 1..q : IsList(parts[k])
      <4>1. \A k \in 1..q : k \in 1..n
        BY <1>1, <2>6
      <4>2. QED
        BY <1>2, <4>1
    <3>3. QED
      BY <1>1, <2>6, <3>1, <3>2, UptoSilent
  <2>11. NotBlank(u) = Upto(Parts(u), c)
    BY <2>5, PartsAre
  <2>12. QED
    BY <1>2, <2>3, <2>5, <2>9, <2>10, <2>11
<1>6. QED
  BY <1>4, <1>5

-----------------------------------------------------------------------------
(* What a document has sent                                                *)

Spoken(sections) == [k \in 1..Len(sections) |-> NotBlank(sections[k].text)]
Texts(sections) == IsList(sections) /\ \A k \in 1..Len(sections) : IsList(sections[k].text)

LEMMA SpokenIs ==
  ASSUME NEW sections, Texts(sections)
  PROVE  /\ Len(sections) \in Nat
         /\ \A k \in 1..Len(sections) : /\ Spoken(sections)[k] = NotBlank(sections[k].text)
                                        /\ IsList(Spoken(sections)[k])
         /\ Sent(sections) = Upto(Spoken(sections), Len(sections))
         /\ IsList(Sent(sections))
<1> DEFINE n == Len(sections)
           parts == Spoken(sections)
<1>1. n \in Nat
  BY ListIs DEF Texts
<1>2. DOMAIN parts = 1..n /\ \A k \in 1..n : parts[k] = NotBlank(sections[k].text)
  BY DEF Spoken
<1>3. parts = [k \in 1..n |-> parts[k]]
  BY DEF Spoken
<1>4. Sent(sections) = Gathered(parts)
  BY DEF Sent, Spoken
<1>5. \A k \in 1..n : IsList(sections[k].text)
  BY DEF Texts
<1> HIDE DEF n, parts
<1>6. Len(parts) = n
  BY <1>1, <1>2, <1>3, SequenceOf
<1>7. Gathered(parts) = Upto(parts, n)
  BY <1>1, <1>6, GatheredIs
<1>8. \A k \in 1..n : IsList(parts[k])
  BY <1>2, <1>5, PartsAre
<1>9. IsList(Upto(parts, n))
  BY <1>1, <1>8, UptoListed
<1>10. QED
  BY <1>1, <1>2, <1>4, <1>7, <1>8, <1>9 DEF n, parts

LEMMA OneMoreSection ==
  ASSUME NEW sections, Texts(sections), NEW section, IsList(section.text)
  PROVE  /\ Texts(Append(sections, section))
         /\ Sent(Append(sections, section)) = Sent(sections) \o NotBlank(section.text)
<1> DEFINE n == Len(sections)
           more == Append(sections, section)
<1>1. n \in Nat /\ IsList(more) /\ Len(more) = n + 1 /\ more[n + 1] = section
      /\ \A k \in 1..n : more[k] = sections[k]
  BY ListIs, AppendedIs DEF Texts
<1>2. \A k \in 1..n : IsList(sections[k].text)
  BY DEF Texts
<1> HIDE DEF n, more
<1>3. Texts(more)
  <2>1. ASSUME NEW k \in 1..(n + 1) PROVE IsList(more[k].text)
    <3>1. k = n + 1 \/ k \in 1..n
      BY <1>1
    <3>2. QED
      BY <1>1, <1>2, <3>1
  <2>2. QED
    BY <1>1, <2>1 DEF Texts
<1>4. Sent(more) = Upto(Spoken(more), n + 1) /\ Sent(sections) = Upto(Spoken(sections), n)
  <2>1. Sent(sections) = Upto(Spoken(sections), n)
    BY SpokenIs DEF n
  <2>2. QED
    BY <1>1, <1>3, <2>1, SpokenIs
<1>5. \A k \in 1..n : Spoken(more)[k] = Spoken(sections)[k]
  <2>1. \A k \in 1..n : Spoken(sections)[k] = NotBlank(sections[k].text)
    BY SpokenIs DEF n
  <2>2. \A k \in 1..(n + 1) : Spoken(more)[k] = NotBlank(more[k].text)
    BY <1>1, <1>3, SpokenIs
  <2>3. \A k \in 1..n : k \in 1..(n + 1)
    BY <1>1
  <2>4. QED
    BY <1>1, <2>1, <2>2, <2>3
<1>6. Upto(Spoken(more), n) = Upto(Spoken(sections), n)
  BY <1>1, <1>5, UptoAgree
<1>7. Spoken(more)[n + 1] = NotBlank(section.text)
  <2>1. n + 1 \in 1..(n + 1)
    BY <1>1
  <2>2. QED
    BY <1>1, <1>3, <2>1, SpokenIs
<1>8. Upto(Spoken(more), n + 1) = Upto(Spoken(more), n) \o Spoken(more)[n + 1]
  BY <1>1, UptoIs
<1>9. QED
  BY <1>3, <1>4, <1>6, <1>7, <1>8 DEF more

LEMMA FlushSends ==
  ASSUME NEW s, Texts(s.out), IsList(s.body)
  PROVE  Texts(Flushed(s)) /\ Sent(Flushed(s)) = Sent(s.out) \o NotBlank(s.body)
<1>1. IsList(Trimmed(s.body)) /\ NotBlank(Trimmed(s.body)) = NotBlank(s.body)
  BY TrimmingKeeps
<1>2. CASE Trimmed(s.body) = <<>>
  <2>1. Flushed(s) = s.out /\ NotBlank(s.body) = <<>>
    BY <1>1, <1>2, NothingIsSaid DEF Flushed
  <2>2. IsList(Sent(s.out))
    BY SpokenIs
  <2>3. Sent(s.out) \o <<>> = Sent(s.out)
    BY <2>2, JoinNothing
  <2>4. QED
    BY <2>1, <2>3
<1>3. CASE Trimmed(s.body) # <<>>
  <2> DEFINE section == [heading |-> s.path, text |-> Trimmed(s.body)]
  <2>1. Flushed(s) = Append(s.out, section) /\ section.text = Trimmed(s.body)
    BY <1>3 DEF Flushed
  <2> HIDE DEF section
  <2>2. Texts(Append(s.out, section)) /\ Sent(Append(s.out, section)) = Sent(s.out) \o NotBlank(section.text)
    BY <1>1, <2>1, OneMoreSection
  <2>3. QED
    BY <1>1, <2>1, <2>2
<1>4. QED
  BY <1>2, <1>3

-----------------------------------------------------------------------------
(* What its author wrote                                                   *)

Written(document) ==
  [i \in 1..Len(document) |->
     Unless(IsBlank(document[i]) \/ IsHeading(document, i), document[i])]
Fences(document, n) == {j \in 1..n : document[j].is = "fence"}
Opened(document, n) == Cardinality(Fences(document, n)) % 2 = 1

LEMMA FencesCount ==
  ASSUME NEW document, NEW n \in Nat
  PROVE  /\ Opened(document, 0) = FALSE /\ Opened(document, n) \in BOOLEAN
         /\ Opened(document, n + 1) = (Opened(document, n) # (document[n + 1].is = "fence"))
<1> DEFINE was == Fences(document, n)
           is == Fences(document, n + 1)
           c == Cardinality(was)
<1>1. IsFiniteSet(was) /\ c \in Nat
  <2>1. IsFiniteSet(1..n)
    BY FS_Interval
  <2>2. was \subseteq 1..n
    BY DEF Fences
  <2>3. QED
    BY <2>1, <2>2, FS_Subset, FS_CardinalityType
<1>2. n + 1 \notin was
  BY DEF Fences
<1>3. Opened(document, 0) = FALSE /\ Opened(document, n) \in BOOLEAN
  <2>1. Fences(document, 0) = {}
    BY DEF Fences
  <2>2. Cardinality({}) = 0
    BY FS_EmptySet
  <2>3. QED
    BY <2>1, <2>2 DEF Opened
<1>4. CASE document[n + 1].is = "fence"
  <2>1. is = was \cup {n + 1}
    BY <1>4 DEF Fences
  <2> HIDE DEF was, is
  <2>2. Cardinality(is) = Cardinality(was) + 1
    BY <1>1, <1>2, <2>1, FS_AddElement
  <2>3. (c + 1) % 2 = 1 <=> c % 2 # 1
    <3> HIDE DEF c
    <3>1. QED
      BY <1>1
  <2>4. Opened(document, n + 1) = (Opened(document, n) # TRUE)
    BY <2>2, <2>3 DEF Opened, was, is
  <2>5. QED
    BY <1>4, <1>3, <2>4
<1>5. CASE document[n + 1].is # "fence"
  <2>1. is = was
    BY <1>5 DEF Fences
  <2>2. Opened(document, n + 1) = (Opened(document, n) # FALSE)
    BY <2>1 DEF Opened
  <2>3. QED
    BY <1>5, <1>3, <2>2
<1>6. QED
  BY <1>4, <1>5

LEMMA WrittenIs ==
  ASSUME NEW document, IsList(document)
  PROVE  /\ \A i \in 1..Len(document) :
              /\ Written(document)[i] =
                   Unless(IsBlank(document[i]) \/ (document[i].is = "heading" /\ ~Opened(document, i - 1)),
                          document[i])
              /\ IsList(Written(document)[i])
         /\ Prose(document) = Upto(Written(document), Len(document))
<1> DEFINE n == Len(document)
           parts == Written(document)
<1>1. n \in Nat
  BY ListIs
<1>2. DOMAIN parts = 1..n
      /\ \A i \in 1..n : parts[i] = Unless(IsBlank(document[i]) \/ IsHeading(document, i), document[i])
  BY DEF Written
<1>3. parts = [i \in 1..n |-> parts[i]]
  BY DEF Written
<1>4. Prose(document) = Gathered(parts)
  BY DEF Prose, Written
<1> HIDE DEF n, parts
<1>5. Len(parts) = n
  BY <1>1, <1>2, <1>3, SequenceOf
<1>6. Gathered(parts) = Upto(parts, n)
  BY <1>1, <1>5, GatheredIs
<1>7. \A i : IsHeading(document, i) = (document[i].is = "heading" /\ ~Opened(document, i - 1))
  BY DEF IsHeading, InCode, Opened, Fences
<1>8. QED
  BY <1>1, <1>2, <1>4, <1>6, <1>7, UnlessIs DEF n, parts

-----------------------------------------------------------------------------
Join(s, t) == s \o t

LEMMA JoinThree ==
  ASSUME NEW s, IsList(s), NEW t, IsList(t), NEW u, IsList(u)
  PROVE  Join(Join(s, t), u) = Join(s, Join(t, u))
<1>1. PICK S : s \in Seq(S) /\ t \in Seq(S) /\ u \in Seq(S)
  BY OneUniverse
<1>2. (s \o t) \o u = s \o (t \o u)
  BY <1>1, ConcatAssociative
<1>3. QED
  BY <1>2 DEF Join

(* What has been read so far is sent, or in the body of the open section   *)

ReadSoFar(document, m, s) ==
  /\ DOMAIN s = {"path", "body", "fenced", "out"}
  /\ Texts(s.out) /\ IsList(s.body)
  /\ s.fenced = Opened(document, m)
  /\ Sent(s.out) \o NotBlank(s.body) = Upto(Written(document), m)

LEMMA LineRead ==
  ASSUME NEW document, IsList(document), NEW m \in Nat, m + 1 <= Len(document),
         NEW s, ReadSoFar(document, m, s)
  PROVE  ReadSoFar(document, m + 1, ReadLine(s, document[m + 1]))
<1> DEFINE line == document[m + 1]
           t == ReadLine(s, line)
           part == Written(document)[m + 1]
<1>1. /\ DOMAIN s = {"path", "body", "fenced", "out"} /\ Texts(s.out) /\ IsList(s.body)
      /\ s.fenced = Opened(document, m) /\ Sent(s.out) \o NotBlank(s.body) = Upto(Written(document), m)
  BY DEF ReadSoFar
<1>2. Upto(Written(document), m + 1) = Upto(Written(document), m) \o part
  BY UptoIs
<1>3. part = Unless(IsBlank(line) \/ (line.is = "heading" /\ ~Opened(document, m)), line) /\ IsList(part)
  <2>1. m + 1 \in 1..Len(document) /\ (m + 1) - 1 = m
    BY ListIs
  <2>2. QED
    BY <2>1, WrittenIs
<1>4. /\ Opened(document, m) \in BOOLEAN
      /\ Opened(document, m + 1) = (Opened(document, m) # (line.is = "fence"))
  BY FencesCount
<1>5. IsList(Sent(s.out)) /\ IsList(NotBlank(s.body))
  BY <1>1, SpokenIs, PartsAre
<1> HIDE DEF line, part
<1>6. CASE line.is = "heading" /\ ~s.fenced
  <2>1. /\ DOMAIN t = DOMAIN s /\ t.out = Flushed(s) /\ t.body = <<>> /\ t.fenced = s.fenced
    BY <1>1, <1>6 DEF ReadLine
  <2> HIDE DEF t
  <2>2. Texts(t.out) /\ Sent(t.out) = Sent(s.out) \o NotBlank(s.body)
    BY <1>1, <2>1, FlushSends
  <2>3. part = <<>>
    BY <1>1, <1>3, <1>6 DEF Unless
  <2>4. NotBlank(t.body) = <<>> /\ IsList(t.body)
    BY <2>1, NothingIsSaid, EmptyIs
  <2>5. Sent(t.out) \o NotBlank(t.body) = Upto(Written(document), m + 1)
    BY <1>1, <1>2, <2>2, <2>3, <2>4
  <2>6. t.fenced = Opened(document, m + 1)
    <3>1. line.is # "fence"
      BY <1>6
    <3>2. QED
      BY <1>1, <1>4, <2>1, <3>1
  <2>7. QED
    BY <1>1, <2>1, <2>2, <2>4, <2>5, <2>6 DEF ReadSoFar, t, line
<1>7. CASE ~(line.is = "heading" /\ ~s.fenced)
  <2>1. /\ DOMAIN t = DOMAIN s /\ t.out = s.out /\ t.body = Append(s.body, line)
        /\ t.fenced = (s.fenced # (line.is = "fence"))
    BY <1>1, <1>7 DEF ReadLine
  <2> HIDE DEF t
  <2>2. IsList(t.body) /\ NotBlank(t.body) = NotBlank(s.body) \o Unless(IsBlank(line), line)
    BY <1>1, <2>1, OneMoreLine, AppendedIs
  <2>3. part = Unless(IsBlank(line), line)
    <3>1. ~(line.is = "heading" /\ ~Opened(document, m))
      BY <1>1, <1>7
    <3>2. CASE IsBlank(line)
      BY <1>3, <3>2 DEF Unless
    <3>3. CASE ~IsBlank(line)
      BY <1>3, <3>1, <3>3 DEF Unless
    <3>4. QED
      BY <3>2, <3>3
  <2>4. (Sent(s.out) \o NotBlank(s.body)) \o part = Sent(s.out) \o (NotBlank(s.body) \o part)
    <3>1. Join(Join(Sent(s.out), NotBlank(s.body)), part) = Join(Sent(s.out), Join(NotBlank(s.body), part))
      BY <1>3, <1>5, JoinThree
    <3>2. QED
      BY <3>1 DEF Join
  <2>5. Sent(t.out) \o NotBlank(t.body) = Upto(Written(document), m + 1)
    BY <1>1, <1>2, <2>1, <2>2, <2>3, <2>4
  <2>6. t.fenced = Opened(document, m + 1)
    BY <1>1, <1>4, <2>1
  <2>7. QED
    BY <1>1, <2>1, <2>2, <2>5, <2>6 DEF ReadSoFar, t, line
<1>8. QED
  BY <1>6, <1>7

LEMMA NothingRead ==
  ASSUME NEW document
  PROVE  ReadSoFar(document, 0, Unopened)
<1>1. Unopened.body = <<>> /\ Unopened.out = <<>> /\ Unopened.fenced = FALSE
      /\ DOMAIN Unopened = {"path", "body", "fenced", "out"}
  BY DEF Unopened
<1>2. Texts(<<>>)
  BY EmptyIs DEF Texts
<1>3. Sent(<<>>) = <<>>
  BY <1>2, SpokenIs, EmptyIs, UptoIs
<1>4. <<>> \o <<>> = <<>>
  BY EmptyIs, JoinNothing
<1>5. Upto(Written(document), 0) = <<>>
  BY UptoIs
<1>6. Opened(document, 0) = FALSE
  BY FencesCount
<1>7. QED
  BY <1>1, <1>2, <1>3, <1>4, <1>5, <1>6, NothingIsSaid, EmptyIs DEF ReadSoFar

(* What is sent of any document is what its author wrote, however it is    *)
(* divided: headings at any depth, code with hashes in it, a fence that is *)
(* never closed.                                                           *)
LEMMA AllIsSent ==
  ASSUME NEW document, IsList(document)
  PROVE  SendsAll(document)
<1> DEFINE n == Len(document)
           f == CHOOSE f : IsReading(f, document, n)
<1>1. n \in Nat
  BY ListIs
<1>2. IsReading(f, document, n)
  BY <1>1, ReadingExists
<1>3. AllRead(document) = f[n]
  BY DEF AllRead, IsReading, Unopened
<1>4. Prose(document) = Upto(Written(document), n)
  BY WrittenIs
<1> HIDE DEF f
<1> DEFINE S == {m \in Nat : m <= n => ReadSoFar(document, m, f[m])}
<1>5. \A k \in 0..n : f[k] = IF k = 0 THEN Unopened ELSE ReadLine(f[k - 1], document[k])
  BY <1>2 DEF IsReading
<1>6. 0 \in S
  <2>1. 0 \in 0..n
    BY <1>1
  <2>2. f[0] = Unopened
    BY <1>5, <2>1
  <2>3. QED
    BY <2>2, NothingRead
<1>7. ASSUME NEW m \in Nat, m \in S PROVE m + 1 \in S
  <2> SUFFICES ASSUME m + 1 <= n PROVE ReadSoFar(document, m + 1, f[m + 1])
    OBVIOUS
  <2>1. m + 1 \in 0..n /\ m + 1 # 0 /\ (m + 1) - 1 = m /\ m <= n
    BY <1>1
  <2>2. f[m + 1] = ReadLine(f[m], document[m + 1])
    BY <1>5, <2>1
  <2>3. ReadSoFar(document, m, f[m])
    BY <1>7, <2>1
  <2>4. QED
    BY <2>2, <2>3, LineRead
<1>8. n \in S
  <2> HIDE DEF S, n
  <2>1. QED
    BY <1>1, <1>6, <1>7, Climbs
<1>9. ReadSoFar(document, n, f[n])
  BY <1>1, <1>8
<1> HIDE DEF n
<1> DEFINE s == f[n]
<1>10. Texts(s.out) /\ IsList(s.body) /\ Sent(s.out) \o NotBlank(s.body) = Upto(Written(document), n)
  BY <1>9 DEF ReadSoFar
<1>11. Sent(Flushed(s)) = Sent(s.out) \o NotBlank(s.body)
  <2> HIDE DEF s
  <2>1. QED
    BY <1>10, FlushSends
<1>12. QED
  BY <1>3, <1>4, <1>10, <1>11 DEF SendsAll, Sections

(* Whatever documents are in the tree and however they are edited, the     *)
(* sections that ingest reads are the tree.                                *)
THEOREM TreeAlwaysReadWhole == Spec => []TreeIsReadWhole
<1>1. Init => DocInv
  BY InitDocs
<1>2. DocInv /\ [Next]_vars => DocInv'
  BY DocStep
<1>3. DocInv => TreeIsReadWhole
  BY AllIsSent, DocumentsAssumption DEF DocInv, TreeIsReadWhole
<1>4. QED
  BY <1>1, <1>2, <1>3, PTL DEF Spec
=============================================================================
