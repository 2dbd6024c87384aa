---------------------------- MODULE Engine_proofs ----------------------------
(* Proofs about Engine, for any entities, attributes, mentions, thresholds *)
(* and blocking: reads, findability, questions, merges and reopening.      *)
EXTENDS Engine, FiniteSetTheorems, SequenceTheorems, TLAPS

(* The place of the n-th version of a log, as an assertion names it.       *)
Place(x, n) == [entity |-> x[1], attribute |-> x[2], version |-> n]

Wrote == [by : Nat \cup {Tombstone}, of : Nat]

Counters == next_id \in Nat /\ next_assertion \in Nat /\ next_review \in Nat

LogsType ==
  /\ logs \in [DOMAIN logs -> Seq(Wrote)]
  /\ DOMAIN logs \subseteq Entities \X Attributes

AssertionsType ==
  /\ assertions \in [DOMAIN assertions -> [entity : Entities, attribute : Attributes, version : Nat]]
  /\ DOMAIN assertions \subseteq 0..(next_assertion - 1)

(* Every id was handed out, and no version stands in two places: whatever  *)
(* version names a live assertion, that assertion names it.                *)
Claimed ==
  \A x \in DOMAIN logs : \A n \in DOMAIN logs[x] :
    /\ logs[x][n].of < next_id
    /\ logs[x][n].by # Tombstone =>
         /\ logs[x][n].by < next_assertion
         /\ logs[x][n].by \in DOMAIN assertions => assertions[logs[x][n].by] = Place(x, n)

(* An absorbed entity is one of the store's and is known no longer.        *)
Absorptions ==
  /\ identity \in [DOMAIN identity -> Record]
  /\ DOMAIN identity \subseteq Entities
  /\ DOMAIN became \subseteq Entities \ DOMAIN identity

Questions ==
  /\ DOMAIN review \subseteq 0..(next_review - 1)
  /\ EachQuestionOnce

EngineInv ==
  /\ Counters /\ LogsType /\ AssertionsType /\ Claimed /\ Absorptions /\ Questions
  /\ RecallReadsItsOwn /\ OnlyForgottenGoesQuiet /\ WhatWasSaidFollows

LEMMA InitEngineInv == Init => EngineInv
  <1> SUFFICES ASSUME Init PROVE EngineInv
    OBVIOUS
  <1> USE DEF Init
  <1>1. Counters /\ LogsType /\ AssertionsType /\ Claimed
    BY DEF Counters, LogsType, AssertionsType, Claimed
  <1>2. Absorptions /\ Questions
    BY DEF Absorptions, Questions, EachQuestionOnce
  <1>3. RecallReadsItsOwn /\ OnlyForgottenGoesQuiet /\ WhatWasSaidFollows
    BY DEF RecallReadsItsOwn, OnlyForgottenGoesQuiet, WhatWasSaidFollows, Now
  <1>. QED BY <1>1, <1>2, <1>3 DEF EngineInv

-----------------------------------------------------------------------------
(* A log that grows at its end.                                            *)

LEMMA HistoryType ==
  ASSUME LogsType, NEW e, NEW a
  PROVE  History(e, a) \in Seq(Wrote)
  BY DEF LogsType, History

Grown(e, a, v) == logs' = With(logs, <<e, a>>, Append(History(e, a), v))

LEMMA GrownLog ==
  ASSUME LogsType, NEW e \in Nat, NEW a \in Attributes, NEW v \in Wrote, Grown(e, a, v)
  PROVE  /\ logs' \in [DOMAIN logs \cup {<<e, a>>} -> Seq(Wrote)]
         /\ \A x \in DOMAIN logs : DOMAIN logs[x] \subseteq DOMAIN logs'[x]
         /\ \A x \in DOMAIN logs : \A n \in DOMAIN logs[x] : logs'[x][n] = logs[x][n]
         /\ Len(History(e, a)) \in Nat
         /\ Len(History(e, a)) + 1 \in DOMAIN logs'[<<e, a>>]
         /\ logs'[<<e, a>>][Len(History(e, a)) + 1] = v
         /\ \A x \in DOMAIN logs' : \A n \in DOMAIN logs'[x] :
              \/ x \in DOMAIN logs /\ n \in DOMAIN logs[x]
              \/ x = <<e, a>> /\ n = Len(History(e, a)) + 1
         /\ \A n \in DOMAIN logs'[<<e, a>>] : n <= Len(History(e, a)) + 1
  <1> DEFINE h == History(e, a)
             k == <<e, a>>
             g == Append(h, v)
  <1>1. h \in Seq(Wrote)
    BY HistoryType
  <1>2. g \in Seq(Wrote) /\ DOMAIN g = 1..(Len(h) + 1) /\ Len(h) \in Nat /\ DOMAIN h = 1..Len(h)
        /\ g[Len(h) + 1] = v /\ \A n \in DOMAIN h : g[n] = h[n]
    BY <1>1
  <1>3. DOMAIN logs' = DOMAIN logs \cup {k} /\ logs'[k] = g
        /\ \A x \in DOMAIN logs \ {k} : logs'[x] = logs[x]
    BY DEF Grown, With
  <1>4. k \in DOMAIN logs => h = logs[k]
    BY DEF History
  <1>5. k \notin DOMAIN logs => h = <<>>
    BY DEF History
  <1>. HIDE DEF h, k, g
  <1>6. logs' \in [DOMAIN logs \cup {k} -> Seq(Wrote)]
    <2>1. \A x \in DOMAIN logs \cup {k} : logs'[x] \in Seq(Wrote)
      BY <1>2, <1>3 DEF LogsType
    <2>2. logs' = [x \in DOMAIN logs' |-> logs'[x]]
      BY DEF Grown, With
    <2>. QED BY <1>3, <2>1, <2>2
  <1>7. \A x \in DOMAIN logs : \A n \in DOMAIN logs[x] :
           n \in DOMAIN logs'[x] /\ logs'[x][n] = logs[x][n]
    <2> SUFFICES ASSUME NEW x \in DOMAIN logs, NEW n \in DOMAIN logs[x]
                 PROVE  n \in DOMAIN logs'[x] /\ logs'[x][n] = logs[x][n]
      OBVIOUS
    <2>1. CASE x = k
      BY <1>2, <1>3, <1>4, <2>1
    <2>2. CASE x # k
      BY <1>3, <2>2
    <2>. QED BY <2>1, <2>2
  <1>8. \A x \in DOMAIN logs' : \A n \in DOMAIN logs'[x] :
          \/ x \in DOMAIN logs /\ n \in DOMAIN logs[x]
          \/ x = k /\ n = Len(h) + 1
    <2> SUFFICES ASSUME NEW x \in DOMAIN logs', NEW n \in DOMAIN logs'[x]
                 PROVE  \/ x \in DOMAIN logs /\ n \in DOMAIN logs[x]
                        \/ x = k /\ n = Len(h) + 1
      OBVIOUS
    <2>1. CASE x = k
      <3>1. n \in 1..(Len(h) + 1)
        BY <1>2, <1>3, <2>1
      <3>2. CASE n = Len(h) + 1
        BY <2>1, <3>2
      <3>3. CASE n # Len(h) + 1
        <4>1. n \in DOMAIN h
          BY <1>2, <3>1, <3>3
        <4>2. k \in DOMAIN logs
          BY <1>5, <4>1
        <4>. QED BY <1>4, <2>1, <4>1, <4>2
      <3>. QED BY <3>2, <3>3
    <2>2. CASE x # k
      BY <1>3, <2>2
    <2>. QED BY <2>1, <2>2
  <1>9. Len(h) + 1 \in DOMAIN logs'[k] /\ logs'[k][Len(h) + 1] = v
        /\ \A n \in DOMAIN logs'[k] : n <= Len(h) + 1
    BY <1>2, <1>3
  <1>. QED BY <1>2, <1>6, <1>7, <1>8, <1>9 DEF h, k

LEMMA IdsGrow ==
  ASSUME NEW n \in Nat, NEW m \in Nat, n <= m
  PROVE  0..(n - 1) \subseteq 0..(m - 1)
  OBVIOUS

(* Writing: the version, its assertion, and nothing else of either.        *)
LEMMA WriteStep ==
  ASSUME EngineInv, NEW e \in DOMAIN identity \cup {next_id}, NEW a \in Attributes, Write(e, a),
         next_id' \in Nat, next_id <= next_id', e < next_id',
         e \in DOMAIN identity', DOMAIN identity \subseteq DOMAIN identity'
  PROVE  /\ next_assertion' \in Nat /\ LogsType' /\ AssertionsType' /\ Claimed'
         /\ RecallReadsItsOwn' /\ OnlyForgottenGoesQuiet' /\ WhatWasSaidFollows'
  <1> DEFINE i == next_assertion
             v == Said(i, e)
             len == Len(History(e, a))
             k == <<e, a>>
  <1>1. /\ next_assertion \in Nat /\ next_id \in Nat /\ next_assertion' = i + 1
        /\ LogsType /\ AssertionsType /\ Claimed /\ became' = became
    BY DEF EngineInv, Counters, Write
  <1>2. e \in Nat /\ v \in Wrote /\ v.by = i /\ v.of = e /\ i # Tombstone
    BY <1>1, EngineAssumption DEF Said, Wrote, EngineInv, Absorptions, Entities
  <1>3. Grown(e, a, v)
    BY DEF Write, Grown
  <1>4. /\ logs' \in [DOMAIN logs \cup {k} -> Seq(Wrote)]
        /\ \A x \in DOMAIN logs : DOMAIN logs[x] \subseteq DOMAIN logs'[x]
        /\ \A x \in DOMAIN logs : \A n \in DOMAIN logs[x] : logs'[x][n] = logs[x][n]
        /\ len \in Nat /\ len + 1 \in DOMAIN logs'[k] /\ logs'[k][len + 1] = v
        /\ \A x \in DOMAIN logs' : \A n \in DOMAIN logs'[x] :
             \/ x \in DOMAIN logs /\ n \in DOMAIN logs[x]
             \/ x = k /\ n = len + 1
    BY <1>1, <1>2, <1>3, GrownLog
  <1>5. /\ DOMAIN assertions' = DOMAIN assertions \cup {i}
        /\ \A j \in DOMAIN assertions : assertions'[j] = assertions[j]
        /\ assertions'[i] = Place(k, len + 1)
        /\ i \notin DOMAIN assertions
        /\ assertions' = [j \in DOMAIN assertions' |-> assertions'[j]]
    BY <1>1 DEF Write, With, AssertionsType, Place
  <1>. HIDE DEF len, v, k
  <1>6. DOMAIN logs' = DOMAIN logs \cup {k}
    BY <1>4
  <1>7. LogsType'
    <2>1. k \in Entities' \X Attributes
      BY <1>2 DEF k, Entities
    <2>2. Entities \subseteq Entities'
      BY <1>1, IdsGrow DEF Entities
    <2>. QED BY <1>1, <1>4, <1>6, <2>1, <2>2 DEF LogsType
  <1>8. AssertionsType'
    <2>1. \A j \in DOMAIN assertions' :
            assertions'[j] \in [entity : Entities', attribute : Attributes, version : Nat]
      <3>1. \A j \in DOMAIN assertions :
              assertions[j] \in [entity : Entities, attribute : Attributes, version : Nat]
        BY <1>1 DEF AssertionsType
      <3>2. Entities \subseteq Entities'
        BY <1>1, IdsGrow DEF Entities
      <3>2a. e \in Entities'
        BY <1>2 DEF Entities
      <3>3. assertions'[i] \in [entity : Entities', attribute : Attributes, version : Nat]
        BY <1>4, <1>5, <3>2a DEF Place, k
      <3>4. \A j \in DOMAIN assertions :
              assertions'[j] \in [entity : Entities', attribute : Attributes, version : Nat]
        BY <1>5, <3>1, <3>2
      <3>. QED BY <1>5, <3>3, <3>4
    <2>2. DOMAIN assertions' \subseteq 0..(next_assertion' - 1)
      BY <1>1, <1>5 DEF AssertionsType
    <2>. QED BY <1>5, <2>1, <2>2 DEF AssertionsType
  <1>9. Claimed'
    <2> SUFFICES ASSUME NEW x \in DOMAIN logs', NEW n \in DOMAIN logs'[x]
                 PROVE  /\ logs'[x][n].of < next_id'
                        /\ logs'[x][n].by # Tombstone =>
                             /\ logs'[x][n].by < next_assertion'
                             /\ logs'[x][n].by \in DOMAIN assertions' =>
                                  assertions'[logs'[x][n].by] = Place(x, n)
      BY DEF Claimed
    <2>1. CASE x \in DOMAIN logs /\ n \in DOMAIN logs[x]
      <3>1. logs'[x][n] = logs[x][n]
        BY <1>4, <2>1
      <3>2. logs[x][n] \in Wrote
        BY <1>1, <2>1 DEF LogsType
      <3>3. /\ logs[x][n].of < next_id
            /\ logs[x][n].by # Tombstone =>
                 /\ logs[x][n].by < next_assertion
                 /\ logs[x][n].by \in DOMAIN assertions => assertions[logs[x][n].by] = Place(x, n)
        BY <1>1, <2>1 DEF Claimed
      <3>. QED BY <1>1, <1>5, <3>1, <3>2, <3>3 DEF Wrote
    <2>2. CASE x = k /\ n = len + 1
      BY <1>1, <1>2, <1>4, <1>5, <2>2
    <2>. QED BY <1>4, <2>1, <2>2
  <1>10. RecallReadsItsOwn'
    <2> SUFFICES ASSUME NEW j \in DOMAIN assertions'
                 PROVE  /\ assertions'[j].version \in
                             DOMAIN History(assertions[j].entity, assertions[j].attribute)'
                        /\ History(assertions[j].entity, assertions[j].attribute)'
                             [assertions'[j].version].by = j
      BY DEF RecallReadsItsOwn
    <2>1. CASE j = i
      BY <1>2, <1>4, <1>5, <1>6, <2>1 DEF History, Place, k
    <2>2. CASE j \in DOMAIN assertions
      <3> DEFINE x == <<assertions[j].entity, assertions[j].attribute>>
                 n == assertions[j].version
      <3>1. n \in DOMAIN History(x[1], x[2]) /\ History(x[1], x[2])[n].by = j
        BY <2>2 DEF EngineInv, RecallReadsItsOwn
      <3>2. x \in DOMAIN logs
        BY <3>1 DEF History
      <3>3. n \in DOMAIN logs[x] /\ logs[x][n].by = j
        BY <3>1, <3>2 DEF History
      <3>4. x \in DOMAIN logs' /\ n \in DOMAIN logs'[x] /\ logs'[x][n].by = j
        BY <1>4, <1>6, <3>2, <3>3
      <3>. QED BY <1>5, <2>2, <3>4 DEF History
    <2>. QED BY <1>5, <2>1, <2>2
  <1>11. OnlyForgottenGoesQuiet'
    <2> SUFFICES ASSUME NEW x \in DOMAIN logs', NEW n \in DOMAIN logs'[x]
                 PROVE  \/ logs'[x][n].by = Tombstone
                        \/ logs'[x][n].by \in DOMAIN assertions'
                        \/ \E m \in DOMAIN logs'[x] : m > n /\ logs'[x][m].by = Tombstone
      BY DEF OnlyForgottenGoesQuiet
    <2>1. CASE x \in DOMAIN logs /\ n \in DOMAIN logs[x]
      <3>1. \/ logs[x][n].by = Tombstone
            \/ logs[x][n].by \in DOMAIN assertions
            \/ \E m \in DOMAIN logs[x] : m > n /\ logs[x][m].by = Tombstone
        BY <2>1 DEF EngineInv, OnlyForgottenGoesQuiet
      <3>. QED BY <1>4, <1>5, <2>1, <3>1
    <2>2. CASE x = k /\ n = len + 1
      BY <1>2, <1>4, <1>5, <2>2
    <2>. QED BY <1>4, <2>1, <2>2
  <1>12. WhatWasSaidFollows'
    <2> SUFFICES ASSUME NEW x \in DOMAIN logs', NEW n \in DOMAIN logs'[x],
                        logs'[x][n].by # Tombstone
                 PROVE  x[1] = IF logs'[x][n].of \in DOMAIN became'
                               THEN became'[logs'[x][n].of] ELSE logs'[x][n].of
      BY DEF WhatWasSaidFollows, Now
    <2>1. CASE x \in DOMAIN logs /\ n \in DOMAIN logs[x]
      <3>1. logs'[x][n] = logs[x][n]
        BY <1>4, <2>1
      <3>2. x[1] = IF logs[x][n].of \in DOMAIN became
                   THEN became[logs[x][n].of] ELSE logs[x][n].of
        BY <2>1, <3>1 DEF EngineInv, WhatWasSaidFollows, Now
      <3>. QED BY <1>1, <3>1, <3>2
    <2>2. CASE x = k /\ n = len + 1
      <3>1. e \notin DOMAIN became
        BY <1>1 DEF EngineInv, Absorptions, Entities
      <3>. QED BY <1>1, <1>2, <1>4, <2>2, <3>1 DEF k
    <2>. QED BY <1>4, <2>1, <2>2
  <1>. QED BY <1>1, <1>7, <1>8, <1>9, <1>10, <1>11, <1>12

-----------------------------------------------------------------------------
(* Questions.                                                              *)

(* A finite set in a strict order (below[o] is what comes before o) has an *)
(* element of every rank.                                                  *)
LEMMA RankOnto ==
  ASSUME NEW S, IsFiniteSet(S), NEW below \in [S -> SUBSET S],
         \A o \in S : o \notin below[o],
         \A o, p \in S : o # p => o \in below[p] \/ p \in below[o],
         \A o, p \in S : o \in below[p] => below[o] \subseteq below[p],
         NEW n \in 0..(Cardinality(S) - 1)
  PROVE  \E o \in S : Cardinality(below[o]) = n
  <1> DEFINE f == [o \in S |-> Cardinality(below[o])]
             c == Cardinality(S)
             T == 0..(c - 1)
  <1>1. c \in Nat
    BY FS_CardinalityType
  <1>2. \A o \in S : IsFiniteSet(below[o]) /\ Cardinality(below[o]) \in Nat
    <2> TAKE o \in S
    <2>1. IsFiniteSet(below[o])
      BY FS_Subset
    <2>. QED BY <2>1, FS_CardinalityType
  <1>3. ASSUME NEW o \in S PROVE f[o] \in T
    <2>1. below[o] \in SUBSET S /\ below[o] # S
      OBVIOUS
    <2>2. Cardinality(below[o]) <= c /\ Cardinality(below[o]) # c
      BY <2>1, FS_Subset
    <2>. QED BY <1>1, <1>2, <2>2
  <1>4. ASSUME NEW o \in S, NEW p \in S, o \in below[p] PROVE f[o] # f[p]
    <2>1. below[o] \in SUBSET below[p] /\ below[o] # below[p]
      BY <1>4
    <2>2. Cardinality(below[o]) # Cardinality(below[p])
      BY <1>2, <2>1, FS_Subset
    <2>. QED BY <2>2
  <1>5. f \in Injection(S, T)
    <2>1. \A o, p \in S : f[o] = f[p] => o = p
      <3> SUFFICES ASSUME NEW o \in S, NEW p \in S, o # p PROVE f[o] # f[p]
        OBVIOUS
      <3>1. o \in below[p] \/ p \in below[o]
        OBVIOUS
      <3>. HIDE DEF f
      <3>. QED BY <1>4, <3>1
    <2>2. f \in [S -> T]
      BY <1>3
    <2>. QED BY <2>1, <2>2 DEF Injection, IsInjective
  <1>6. IsFiniteSet(T) /\ Cardinality(T) = c
    <2>. HIDE DEF c
    <2>1. 0 \in Int /\ c - 1 \in Int
      BY <1>1
    <2>2. IsFiniteSet(0..(c - 1)) /\ Cardinality(0..(c - 1)) = IF 0 > c - 1 THEN 0 ELSE (c - 1) - 0 + 1
      BY <2>1, FS_Interval
    <2>. QED BY <1>1, <2>2
  <1>7. f \in Surjection(S, T)
    <2>. HIDE DEF f, T, c
    <2>1. Cardinality(S) = Cardinality(T)
      BY <1>6 DEF c
    <2>. QED BY <1>5, <1>6, <2>1, FS_Injection
  <1>8. PICK o \in S : f[o] = n
    BY <1>7 DEF Surjection
  <1>. QED BY <1>8

(* And so, unless it is empty, a first one.                                *)
LEMMA FirstExists ==
  ASSUME NEW S, IsFiniteSet(S), S # {}, NEW below \in [S -> SUBSET S],
         \A o \in S : o \notin below[o],
         \A o, p \in S : o # p => o \in below[p] \/ p \in below[o],
         \A o, p \in S : o \in below[p] => below[o] \subseteq below[p]
  PROVE  \E o \in S : \A p \in S : p # o => o \in below[p]
  <1>1. Cardinality(S) \in Nat /\ Cardinality(S) # 0
    BY FS_CardinalityType, FS_EmptySet
  <1>2. 0 \in 0..(Cardinality(S) - 1)
    BY <1>1
  <1>3. PICK o \in S : Cardinality(below[o]) = 0
    BY <1>2, RankOnto
  <1>4. IsFiniteSet(below[o])
    BY FS_Subset
  <1>5. below[o] = {}
    BY <1>3, <1>4, FS_EmptySet
  <1>. QED BY <1>5

(* The questions a new entity raises are about it, one for each other.     *)
LEMMA FileStep ==
  ASSUME Counters, Absorptions, Questions, NEW others \in SUBSET DOMAIN identity,
         File(next_id, others), DOMAIN identity' = DOMAIN identity \cup {next_id}
  PROVE  /\ next_review' \in Nat /\ Questions'
         /\ \A r \in DOMAIN review : r \in DOMAIN review' /\ review'[r] = review[r]
         /\ \A o \in others : \E r \in DOMAIN review' : review'[r] = Pair(next_id, o)
  <1> DEFINE n == Cardinality(others)
             e == next_id
             other(r) == CHOOSE o \in others : Cardinality({x \in others : x < o}) = r - next_review
             new == next_review..(next_review + n - 1)
  <1>1. e \in Nat /\ next_review \in Nat /\ DOMAIN identity \subseteq 0..(e - 1)
    BY DEF Counters, Absorptions, Entities
  <1>2. others \in SUBSET Nat /\ others \subseteq 0..(e - 1)
    BY <1>1
  <1>3. IsFiniteSet(others) /\ n \in Nat
    <2>1. IsFiniteSet(0..(e - 1))
      BY <1>1, FS_Interval
    <2>2. IsFiniteSet(others)
      BY <1>2, <2>1, FS_Subset
    <2>. QED BY <2>2, FS_CardinalityType
  <1>4. ASSUME NEW r \in new
        PROVE  other(r) \in others /\ Cardinality({x \in others : x < other(r)}) = r - next_review
    <2>1. r - next_review \in 0..(n - 1)
      BY <1>1, <1>3
    <2>2. \E o \in others : Cardinality({x \in others : x < o}) = r - next_review
      <3> DEFINE before == [o \in others |-> {x \in others : x < o}]
      <3>1. before \in [others -> SUBSET others] /\ \A o \in others : o \notin before[o]
        BY <1>2
      <3>2. \A o, p \in others : o # p => o \in before[p] \/ p \in before[o]
        BY <1>2
      <3>3. \A o, p \in others : o \in before[p] => before[o] \subseteq before[p]
        <4> SUFFICES ASSUME NEW o \in others, NEW p \in others, NEW x \in others, o < p, x < o
                     PROVE  x < p
          OBVIOUS
        <4>1. x \in Nat /\ o \in Nat /\ p \in Nat
          BY <1>2
        <4>. QED BY <4>1
      <3>. HIDE DEF before
      <3>4. \E o \in others : Cardinality(before[o]) = r - next_review
        BY <1>3, <2>1, <3>1, <3>2, <3>3, RankOnto
      <3>. QED BY <3>4 DEF before
    <2>. QED BY <2>2
  <1>5. /\ next_review' = next_review + n
        /\ review' = [r \in DOMAIN review \cup new |->
                        IF r \in DOMAIN review THEN review[r] ELSE Pair(e, other(r))]
    BY DEF File
  <1>6. DOMAIN review \subseteq 0..(next_review - 1)
    BY DEF Questions
  <1>7. DOMAIN review' = DOMAIN review \cup new
    BY <1>5
  <1>8. \A r \in new : r \notin DOMAIN review
    BY <1>1, <1>3, <1>6
  <1>9. \A r \in DOMAIN review : review'[r] = review[r]
    BY <1>5
  <1>10. \A r \in new : review'[r] = <<other(r), e>> /\ other(r) \in others
    <2> TAKE r \in new
    <2>1. other(r) \in 0..(e - 1)
      BY <1>2, <1>4
    <2>. HIDE DEF other
    <2>2. Pair(e, other(r)) = <<other(r), e>>
      BY <1>1, <2>1 DEF Pair
    <2>. QED BY <1>4, <1>5, <1>8, <2>2
  <1>11. \A r, s \in new : other(r) = other(s) => r = s
    <2> SUFFICES ASSUME NEW r \in new, NEW s \in new, other(r) = other(s) PROVE r = s
      OBVIOUS
    <2>1. r - next_review = s - next_review
      BY <1>4
    <2>. QED BY <1>1, <1>3, <2>1
  <1>20. ASSUME NEW o \in others PROVE \E r \in new : other(r) = o
    <2> DEFINE before(x) == {y \in others : y < x}
               k == Cardinality(before(o))
               r == next_review + k
    <2>1. \A x \in others : IsFiniteSet(before(x)) /\ Cardinality(before(x)) \in Nat
      <3> TAKE x \in others
      <3>1. before(x) \in SUBSET others
        OBVIOUS
      <3>. HIDE DEF before
      <3>2. IsFiniteSet(before(x))
        BY <1>3, <3>1, FS_Subset
      <3>. QED BY <3>2, FS_CardinalityType
    <2>2. k < n
      <3>1. before(o) \in SUBSET others /\ before(o) # others
        BY <1>2
      <3>. HIDE DEF before
      <3>2. k <= n /\ k # n
        BY <1>3, <3>1, FS_Subset
      <3>. QED BY <1>3, <2>1, <3>2
    <2>3. r \in new /\ r - next_review = k
      BY <1>1, <1>3, <2>1, <2>2
    <2>4. other(r) \in others /\ Cardinality(before(other(r))) = k
      BY <1>4, <2>3
    <2>. HIDE DEF other, r
    <2>5. ASSUME NEW x \in others, NEW y \in others, x < y
          PROVE  Cardinality(before(x)) # Cardinality(before(y))
      <3>1. before(x) \in SUBSET before(y) /\ before(x) # before(y)
        <4>1. \A z \in others : z < x => z < y
          <5> TAKE z \in others
          <5>1. z \in Nat /\ x \in Nat /\ y \in Nat
            BY <1>2
          <5>. QED BY <2>5, <5>1
        <4>2. x \in before(y) /\ x \notin before(x)
          BY <1>2, <2>5
        <4>. QED BY <4>1, <4>2
      <3>. HIDE DEF before
      <3>. QED BY <2>1, <3>1, FS_Subset
    <2>6. ~(other(r) < o) /\ ~(o < other(r))
      <3>. HIDE DEF before
      <3>. QED BY <2>4, <2>5
    <2>7. other(r) = o
      BY <1>2, <2>4, <2>6
    <2>. QED BY <2>3, <2>7
  <1>. HIDE DEF other, new, n
  <1>12. \A r \in DOMAIN review :
           /\ review[r][1] \in DOMAIN identity /\ review[r][2] \in DOMAIN identity
           /\ review[r][1] < review[r][2]
    BY DEF Questions, EachQuestionOnce
  <1>13. e \notin DOMAIN identity
    BY <1>1
  <1>14. DOMAIN review' \subseteq 0..(next_review' - 1)
    BY <1>1, <1>3, <1>5, <1>6, <1>7 DEF new
  <1>15. ASSUME NEW r \in DOMAIN review'
         PROVE  /\ review'[r][1] \in DOMAIN identity' /\ review'[r][2] \in DOMAIN identity'
                /\ review'[r][1] < review'[r][2]
    <2>0. DOMAIN identity' = DOMAIN identity \cup {e}
      OBVIOUS
    <2>1. CASE r \in DOMAIN review
      <3>1. /\ review'[r][1] \in DOMAIN identity /\ review'[r][2] \in DOMAIN identity
            /\ review'[r][1] < review'[r][2]
        BY <1>9, <1>12, <2>1
      <3>. QED BY <2>0, <3>1
    <2>2. CASE r \in new
      <3>1. other(r) \in DOMAIN identity /\ other(r) < e /\ review'[r] = <<other(r), e>>
        BY <1>1, <1>2, <1>10, <2>2
      <3>. QED BY <2>0, <3>1
    <2>. QED BY <1>7, <2>1, <2>2
  <1>16. ASSUME NEW r \in DOMAIN review', NEW s \in DOMAIN review', review'[r] = review'[s]
         PROVE  r = s
    <2>1. CASE r \in DOMAIN review /\ s \in DOMAIN review
      BY <1>9, <1>16, <2>1 DEF Questions, EachQuestionOnce
    <2>2. CASE r \in new /\ s \in new
      BY <1>10, <1>11, <1>16, <2>2
    <2>3. CASE r \in new /\ s \in DOMAIN review
      <3>1. review'[r][2] = e /\ review'[s][2] \in DOMAIN identity
        BY <1>9, <1>10, <1>12, <2>3
      <3>. QED BY <1>13, <1>16, <3>1
    <2>4. CASE r \in DOMAIN review /\ s \in new
      <3>1. review'[s][2] = e /\ review'[r][2] \in DOMAIN identity
        BY <1>9, <1>10, <1>12, <2>4
      <3>. QED BY <1>13, <1>16, <3>1
    <2>. QED BY <1>7, <2>1, <2>2, <2>3, <2>4
  <1>18. EachQuestionOnce'
    <2>1. \A r \in DOMAIN review' :
            review'[r][1] < review'[r][2] /\ {review'[r][1], review'[r][2]} \subseteq DOMAIN identity'
      BY <1>15
    <2>. QED BY <1>16, <2>1 DEF EachQuestionOnce
  <1>19. next_review' \in Nat
    BY <1>1, <1>3, <1>5
  <1>21. \A o \in others : \E r \in DOMAIN review' : review'[r] = Pair(e, o)
    <2> TAKE o \in others
    <2>1. PICK r \in new : other(r) = o
      BY <1>20
    <2>2. r \in DOMAIN review' /\ review'[r] = Pair(e, o)
      BY <1>5, <1>7, <1>8, <2>1
    <2>. QED BY <2>2
  <1>. QED BY <1>7, <1>9, <1>14, <1>18, <1>19, <1>21 DEF Questions

-----------------------------------------------------------------------------
(* Observations.                                                           *)

(* There is a best match, and it is a match.                               *)
LEMMA BestMatches ==
  ASSUME Counters, Absorptions, NEW mention \in Mentions, Matches(mention) # {}
  PROVE  Best(mention) \in Matches(mention)
  <1> DEFINE M == Matches(mention)
             s(e) == Score[mention][identity[e]]
             better == [e \in M |-> {o \in M : s(o) > s(e) \/ (s(o) = s(e) /\ o < e)}]
  <1>1. M \subseteq DOMAIN identity /\ M \in SUBSET (0..(next_id - 1))
    BY DEF Matches, Absorptions, Entities
  <1>2. IsFiniteSet(M)
    <2>1. 0 \in Int /\ next_id - 1 \in Int
      BY DEF Counters
    <2>2. IsFiniteSet(0..(next_id - 1))
      BY <2>1, FS_Interval
    <2>. QED BY <1>1, <2>2, FS_Subset
  <1>3. \A e \in M : e \in Nat /\ s(e) \in Nat
    <2> TAKE e \in M
    <2>1. identity[e] \in Record /\ mention \in Record /\ e \in Nat
      BY <1>1, EngineAssumption DEF Absorptions
    <2>. QED BY <2>1, EngineAssumption
  <1>. HIDE DEF M, s
  <1>4. better \in [M -> SUBSET M] /\ \A e \in M : e \notin better[e]
    BY <1>3
  <1>5. \A e, o \in M : e # o => e \in better[o] \/ o \in better[e]
    BY <1>3
  <1>6. \A e, o \in M : e \in better[o] => better[e] \subseteq better[o]
    <2> SUFFICES ASSUME NEW e \in M, NEW o \in M, NEW x \in M,
                        s(e) > s(o) \/ (s(e) = s(o) /\ e < o),
                        s(x) > s(e) \/ (s(x) = s(e) /\ x < e)
                 PROVE  s(x) > s(o) \/ (s(x) = s(o) /\ x < o)
      OBVIOUS
    <2>1. /\ e \in Nat /\ o \in Nat /\ x \in Nat
          /\ s(e) \in Nat /\ s(o) \in Nat /\ s(x) \in Nat
      BY <1>3
    <2>. QED BY <2>1
  <1>7. PICK e \in M : \A o \in M : o # e => e \in better[o]
    <2>. HIDE DEF better
    <2>1. M # {}
      BY DEF M
    <2>. QED BY <1>2, <1>4, <1>5, <1>6, <2>1, FirstExists
  <1>8. \A o \in M : s(e) > s(o) \/ (s(e) = s(o) /\ e <= o)
    BY <1>3, <1>7
  <1>. QED BY <1>8 DEF Best, M, s

LEMMA FoldType ==
  ASSUME NEW r \in Record, NEW m \in Record
  PROVE  Fold(r, m) \in Record
  <1>1. PICK F \in SUBSET Fields : r \in [F -> Values]
    BY DEF Record
  <1>2. PICK G \in SUBSET Fields : m \in [G -> Values]
    BY DEF Record
  <1>3. Fold(r, m) \in [F \cup G -> Values]
    BY <1>1, <1>2 DEF Fold
  <1>4. F \cup G \in SUBSET Fields
    OBVIOUS
  <1>. QED BY <1>3, <1>4 DEF Record

(* A known entity learns a mention, and is written of.                     *)
LEMMA KnownStep ==
  ASSUME EngineInv, NEW e \in DOMAIN identity, NEW a \in Attributes, NEW mention \in Mentions,
         Write(e, a), RememberIdentity(identity, blocks, e, mention),
         UNCHANGED <<next_id, questions>>
  PROVE  EngineInv'
  <1>1. identity' = [identity EXCEPT ![e] = Fold(@, mention)]
    BY DEF RememberIdentity
  <1>2. DOMAIN identity' = DOMAIN identity
    BY <1>1
  <1>3. next_id' = next_id /\ next_id \in Nat /\ DOMAIN identity \subseteq 0..(next_id - 1)
    BY DEF EngineInv, Counters, Absorptions, Entities
  <1>4. e < next_id'
    BY <1>3
  <1>5. /\ next_assertion' \in Nat /\ LogsType' /\ AssertionsType' /\ Claimed'
        /\ RecallReadsItsOwn' /\ OnlyForgottenGoesQuiet' /\ WhatWasSaidFollows'
    BY <1>2, <1>3, <1>4, WriteStep
  <1>6. Absorptions'
    <2>1. identity' \in [DOMAIN identity' -> Record]
      <3>1. mention \in Record /\ identity \in [DOMAIN identity -> Record]
        BY EngineAssumption DEF EngineInv, Absorptions
      <3>2. Fold(identity[e], mention) \in Record
        BY <3>1, FoldType
      <3>. QED BY <1>1, <1>2, <3>1, <3>2
    <2>. QED BY <1>2, <1>3, <2>1 DEF EngineInv, Absorptions, Entities, Write
  <1>7. Questions' /\ next_review' \in Nat
    BY <1>2 DEF EngineInv, Questions, EachQuestionOnce, questions, Counters
  <1>. QED BY <1>3, <1>5, <1>6, <1>7 DEF EngineInv, Counters

(* A new entity is made, and is written of.                                *)
LEMMA NewStep ==
  ASSUME EngineInv, NEW a \in Attributes, NEW mention \in Mentions,
         NEW others \in SUBSET DOMAIN identity,
         CreateEntity(mention), Write(next_id, a),
         File(next_id, others) \/ UNCHANGED questions
  PROVE  EngineInv'
  <1>1. /\ next_id' = next_id + 1 /\ next_id \in Nat /\ next_id' \in Nat
        /\ DOMAIN identity \subseteq 0..(next_id - 1)
    BY DEF EngineInv, Counters, Absorptions, Entities, CreateEntity
  <1>2. DOMAIN identity' = DOMAIN identity \cup {next_id}
    BY DEF CreateEntity, With
  <1>3. /\ next_assertion' \in Nat /\ LogsType' /\ AssertionsType' /\ Claimed'
        /\ RecallReadsItsOwn' /\ OnlyForgottenGoesQuiet' /\ WhatWasSaidFollows'
    <2>1. next_id <= next_id' /\ next_id < next_id'
      BY <1>1
    <2>. QED BY <1>1, <1>2, <2>1, WriteStep
  <1>4. Absorptions'
    <2>1. identity' \in [DOMAIN identity' -> Record]
      <3>1. mention \in Record /\ identity \in [DOMAIN identity -> Record]
        BY EngineAssumption DEF EngineInv, Absorptions
      <3>. QED BY <3>1 DEF CreateEntity, With
    <2>2. DOMAIN became' \subseteq Entities' \ DOMAIN identity'
      BY <1>1, <1>2 DEF EngineInv, Absorptions, Entities, Write
    <2>. QED BY <1>1, <1>2, <2>1, <2>2 DEF Absorptions, Entities
  <1>5. Questions' /\ next_review' \in Nat
    <2>1. CASE File(next_id, others)
      BY <1>2, <2>1, FileStep DEF EngineInv
    <2>2. CASE UNCHANGED questions
      BY <1>2, <2>2 DEF EngineInv, Questions, EachQuestionOnce, questions, Counters
    <2>. QED BY <2>1, <2>2
  <1>. QED BY <1>1, <1>3, <1>4, <1>5 DEF EngineInv, Counters

LEMMA RememberStep ==
  ASSUME EngineInv, NEW mention \in Mentions, NEW a \in Attributes, NEW fits \in BOOLEAN,
         Remember(mention, a, fits) \/ \E e \in Entities \cup {NoOne} : RememberAs(e, mention, a, fits)
  PROVE  EngineInv' \/ UNCHANGED vars
  <1>1. CASE Resolve(mention, a) /\ Matches(mention) # {}
    <2> DEFINE e == Best(mention)
    <2>1. e \in DOMAIN identity
      BY <1>1, BestMatches DEF EngineInv, Matches
    <2>2. Write(e, a) /\ RememberIdentity(identity, blocks, e, mention) /\ UNCHANGED <<next_id, questions>>
      BY <1>1 DEF Resolve
    <2>. HIDE DEF e
    <2>. QED BY <2>1, <2>2, KnownStep
  <1>2. CASE Resolve(mention, a) /\ Matches(mention) = {}
    <2> DEFINE others == {o \in Undecided(mention) : ~AlreadyRejected(mention, o)}
    <2>1. others \in SUBSET DOMAIN identity
      BY DEF Undecided
    <2>2. CreateEntity(mention) /\ Write(next_id, a) /\ File(next_id, others)
      BY <1>2 DEF Resolve
    <2>. HIDE DEF others
    <2>. QED BY <2>1, <2>2, NewStep
  <1>3. ASSUME NEW e \in Entities \cup {NoOne}, RememberAs(e, mention, a, fits)
        PROVE  EngineInv' \/ UNCHANGED vars
    <2>1. CASE /\ e \in DOMAIN identity /\ RememberIdentity(identity, blocks, e, mention)
               /\ Write(e, a) /\ UNCHANGED <<next_id, questions>>
      BY <2>1, KnownStep
    <2>2. CASE CreateEntity(mention) /\ Write(next_id, a) /\ UNCHANGED questions
      BY <2>2, NewStep
    <2>. QED BY <1>3, <2>1, <2>2 DEF RememberAs
  <1>. QED BY <1>1, <1>2, <1>3 DEF Remember, Resolve

-----------------------------------------------------------------------------
(* Forgetting and erasing. Only assertions of the slot go, so a version of *)
(* another slot that named a live one still does.                          *)

LEMMA DropStep ==
  ASSUME EngineInv, NEW e \in Entities, NEW a \in Attributes, DropVectors(e, a),
         UNCHANGED <<next_id, known, next_assertion, questions, became>>,
         \/ Grown(e, a, Said(Tombstone, e))
         \/ logs' = Without(logs, {<<e, a>>})
  PROVE  EngineInv'
  <1> DEFINE k == <<e, a>>
             doomed == {i \in DOMAIN assertions :
                          assertions[i].entity = e /\ assertions[i].attribute = a}
             len == Len(History(e, a))
             v == Said(Tombstone, e)
  <1>1. /\ UNCHANGED <<next_id, identity, next_assertion, review, next_review, became>>
        /\ next_id \in Nat /\ LogsType /\ AssertionsType /\ Claimed
    BY DEF known, questions, EngineInv, Counters
  <1>2. Counters' /\ Absorptions' /\ Questions'
    BY <1>1 DEF EngineInv, Counters, Absorptions, Questions, EachQuestionOnce, Entities
  <1>3. /\ DOMAIN assertions' = DOMAIN assertions \ doomed
        /\ \A i \in DOMAIN assertions' : assertions'[i] = assertions[i]
        /\ assertions' = [i \in DOMAIN assertions' |-> assertions'[i]]
    BY DEF DropVectors, Without
  <1>4. \A i \in DOMAIN assertions' :
          i \in DOMAIN assertions /\ <<assertions[i].entity, assertions[i].attribute>> # k
    BY <1>3
  <1>5. AssertionsType'
    BY <1>1, <1>3 DEF AssertionsType, Entities
  <1>6. e \in Nat /\ v \in Wrote /\ v.by = Tombstone /\ v.of = e /\ e < next_id
    BY <1>1 DEF Entities, Said, Wrote
  <1>7. /\ DOMAIN logs \ {k} \subseteq DOMAIN logs'
        /\ \A x \in DOMAIN logs \ {k} : logs'[x] = logs[x]
    BY DEF Grown, With, Without
  <1>8. /\ LogsType'
        /\ \A x \in DOMAIN logs' : \A n \in DOMAIN logs'[x] :
             \/ x \in DOMAIN logs /\ n \in DOMAIN logs[x] /\ logs'[x][n] = logs[x][n]
             \/ x = k /\ logs'[x][n] = v
        /\ k \in DOMAIN logs' => /\ len + 1 \in DOMAIN logs'[k] /\ logs'[k][len + 1] = v
                                 /\ \A n \in DOMAIN logs'[k] : n <= len + 1
    <2>1. CASE Grown(e, a, v)
      <3>1. /\ logs' \in [DOMAIN logs \cup {k} -> Seq(Wrote)]
            /\ \A x \in DOMAIN logs : \A n \in DOMAIN logs[x] : logs'[x][n] = logs[x][n]
            /\ len + 1 \in DOMAIN logs'[k] /\ logs'[k][len + 1] = v
            /\ \A x \in DOMAIN logs' : \A n \in DOMAIN logs'[x] :
                 \/ x \in DOMAIN logs /\ n \in DOMAIN logs[x]
                 \/ x = k /\ n = len + 1
            /\ \A n \in DOMAIN logs'[k] : n <= len + 1
        BY <1>1, <1>6, <2>1, GrownLog
      <3>2. DOMAIN logs' = DOMAIN logs \cup {k}
        BY <3>1
      <3>3. LogsType'
        BY <1>1, <3>1, <3>2 DEF LogsType, Entities
      <3>. HIDE DEF v, len
      <3>. QED BY <3>1, <3>3
    <2>2. CASE logs' = Without(logs, {k})
      <3>1. DOMAIN logs' = DOMAIN logs \ {k} /\ \A x \in DOMAIN logs' : logs'[x] = logs[x]
        BY <2>2 DEF Without
      <3>2. LogsType'
        BY <1>1, <2>2, <3>1 DEF LogsType, Entities, Without
      <3>. QED BY <3>1, <3>2
    <2>. QED BY <2>1, <2>2
  <1>. HIDE DEF k, v, len, doomed
  <1>9. Claimed'
    <2> SUFFICES ASSUME NEW x \in DOMAIN logs', NEW n \in DOMAIN logs'[x]
                 PROVE  /\ logs'[x][n].of < next_id'
                        /\ logs'[x][n].by # Tombstone =>
                             /\ logs'[x][n].by < next_assertion'
                             /\ logs'[x][n].by \in DOMAIN assertions' =>
                                  assertions'[logs'[x][n].by] = Place(x, n)
      BY DEF Claimed
    <2>1. CASE x = k /\ logs'[x][n] = v
      BY <1>1, <1>6, <2>1
    <2>2. CASE x \in DOMAIN logs /\ n \in DOMAIN logs[x] /\ logs'[x][n] = logs[x][n]
      <3>1. /\ logs[x][n].of < next_id
            /\ logs[x][n].by # Tombstone =>
                 /\ logs[x][n].by < next_assertion
                 /\ logs[x][n].by \in DOMAIN assertions => assertions[logs[x][n].by] = Place(x, n)
        BY <1>1, <2>2 DEF Claimed
      <3>. QED BY <1>1, <1>3, <1>4, <2>2, <3>1
    <2>. QED BY <1>8, <2>1, <2>2
  <1>10. RecallReadsItsOwn'
    <2> SUFFICES ASSUME NEW j \in DOMAIN assertions'
                 PROVE  /\ assertions'[j].version \in
                             DOMAIN History(assertions[j].entity, assertions[j].attribute)'
                        /\ History(assertions[j].entity, assertions[j].attribute)'
                             [assertions'[j].version].by = j
      BY DEF RecallReadsItsOwn
    <2> DEFINE x == <<assertions[j].entity, assertions[j].attribute>>
               n == assertions[j].version
    <2>1. j \in DOMAIN assertions /\ x # k /\ assertions'[j] = assertions[j]
      BY <1>3, <1>4
    <2>2. n \in DOMAIN History(x[1], x[2]) /\ History(x[1], x[2])[n].by = j
      BY <2>1 DEF EngineInv, RecallReadsItsOwn
    <2>3. x \in DOMAIN logs /\ n \in DOMAIN logs[x] /\ logs[x][n].by = j
      BY <2>2 DEF History
    <2>4. x \in DOMAIN logs' /\ logs'[x] = logs[x]
      BY <1>7, <2>1, <2>3
    <2>. QED BY <2>1, <2>3, <2>4 DEF History
  <1>11. OnlyForgottenGoesQuiet'
    <2> SUFFICES ASSUME NEW x \in DOMAIN logs', NEW n \in DOMAIN logs'[x]
                 PROVE  \/ logs'[x][n].by = Tombstone
                        \/ logs'[x][n].by \in DOMAIN assertions'
                        \/ \E m \in DOMAIN logs'[x] : m > n /\ logs'[x][m].by = Tombstone
      BY DEF OnlyForgottenGoesQuiet
    <2>1. CASE x = k
      <3>1. logs' \in [DOMAIN logs' -> Seq(Wrote)] /\ len + 1 \in DOMAIN logs'[x]
            /\ logs'[x][len + 1].by = Tombstone /\ n <= len + 1
        BY <1>6, <1>8, <2>1 DEF LogsType
      <3>2. n \in Nat /\ len + 1 \in Nat
        BY <3>1
      <3>3. CASE n = len + 1
        BY <3>1, <3>3
      <3>4. CASE n # len + 1
        BY <3>1, <3>2, <3>4
      <3>. QED BY <3>3, <3>4
    <2>2. CASE x # k
      <3>1. x \in DOMAIN logs /\ n \in DOMAIN logs[x] /\ logs'[x] = logs[x]
        BY <1>7, <1>8, <2>2
      <3>2. \/ logs[x][n].by = Tombstone
            \/ logs[x][n].by \in DOMAIN assertions
            \/ \E m \in DOMAIN logs[x] : m > n /\ logs[x][m].by = Tombstone
        BY <3>1 DEF EngineInv, OnlyForgottenGoesQuiet
      <3>3. CASE logs[x][n].by # Tombstone /\ logs[x][n].by \in DOMAIN assertions
        <4>1. assertions[logs[x][n].by] = Place(x, n)
          BY <1>1, <3>1, <3>3 DEF Claimed
        <4>2. x \in Entities \X Attributes
          BY <1>1, <3>1 DEF LogsType
        <4>3. logs[x][n].by \notin doomed
          BY <2>2, <4>1, <4>2 DEF doomed, Place, k
        <4>. QED BY <1>3, <3>1, <3>3, <4>3
      <3>. QED BY <3>1, <3>2, <3>3
    <2>. QED BY <2>1, <2>2
  <1>12. WhatWasSaidFollows'
    <2> SUFFICES ASSUME NEW x \in DOMAIN logs', NEW n \in DOMAIN logs'[x],
                        logs'[x][n].by # Tombstone
                 PROVE  x[1] = IF logs'[x][n].of \in DOMAIN became'
                               THEN became'[logs'[x][n].of] ELSE logs'[x][n].of
      BY DEF WhatWasSaidFollows, Now
    <2>1. x \in DOMAIN logs /\ n \in DOMAIN logs[x] /\ logs'[x][n] = logs[x][n]
      BY <1>6, <1>8
    <2>2. x[1] = IF logs[x][n].of \in DOMAIN became
                 THEN became[logs[x][n].of] ELSE logs[x][n].of
      BY <2>1 DEF EngineInv, WhatWasSaidFollows, Now
    <2>. QED BY <1>1, <2>1, <2>2
  <1>. QED BY <1>2, <1>5, <1>8, <1>9, <1>10, <1>11, <1>12 DEF EngineInv

-----------------------------------------------------------------------------
(* Merging. Every place of the logs moves to one place of the merged logs, *)
(* and each of those is one that moved there.                              *)

To(x, absorbed, kept) == <<Renamed(x[1], absorbed, kept), x[2]>>
Shift(x, n, absorbed, kept) == IF x[1] = absorbed THEN n + Len(History(kept, x[2])) ELSE n

LEMMA PairParts ==
  ASSUME NEW S, NEW T, NEW x \in S \X T
  PROVE  x = <<x[1], x[2]>> /\ x[1] \in S /\ x[2] \in T
  <1>1. PICK s \in S, t \in T : x = <<s, t>>
    OBVIOUS
  <1>. QED BY <1>1

LEMMA MovedLogs ==
  ASSUME LogsType, NEW absorbed, NEW kept \in Entities, absorbed # kept,
         logs' = MoveLogs(absorbed, kept)
  PROVE  /\ logs' \in [DOMAIN logs' -> Seq(Wrote)]
         /\ DOMAIN logs' \subseteq Entities \X Attributes
         /\ \A x \in DOMAIN logs : \A n \in DOMAIN logs[x] :
              LET y == To(x, absorbed, kept)
                  m == Shift(x, n, absorbed, kept)
              IN y \in DOMAIN logs' /\ m \in DOMAIN logs'[y] /\ logs'[y][m] = logs[x][n]
         /\ \A y \in DOMAIN logs' : \A m \in DOMAIN logs'[y] :
              \E x \in DOMAIN logs : \E n \in DOMAIN logs[x] :
                /\ y = To(x, absorbed, kept) /\ m = Shift(x, n, absorbed, kept)
                /\ logs'[y][m] = logs[x][n]
  <1> DEFINE moved == {a \in Attributes : <<absorbed, a>> \in DOMAIN logs}
             left == {x \in DOMAIN logs : x[1] # absorbed}
             D == left \cup {<<kept, a>> : a \in moved}
             mine(a) == History(kept, a)
             theirs(a) == History(absorbed, a)
  <1>1. logs \in [DOMAIN logs -> Seq(Wrote)] /\ DOMAIN logs \subseteq Entities \X Attributes
    BY DEF LogsType
  <1>2. \A x \in DOMAIN logs : x = <<x[1], x[2]>> /\ x[1] \in Entities /\ x[2] \in Attributes
    <2> SUFFICES ASSUME NEW x \in DOMAIN logs
                 PROVE  x = <<x[1], x[2]>> /\ x[1] \in Entities /\ x[2] \in Attributes
      OBVIOUS
    <2>1. x \in Entities \X Attributes
      BY <1>1
    <2>. HIDE DEF moved, left, D
    <2>. QED BY <2>1, PairParts
  <1>3. /\ DOMAIN logs' = D
        /\ \A y \in D : logs'[y] = IF y[1] = kept THEN mine(y[2]) \o theirs(y[2]) ELSE logs[y]
        /\ logs' = [y \in D |-> logs'[y]]
    BY DEF MoveLogs
  <1>4. ASSUME NEW a
        PROVE  /\ mine(a) \in Seq(Wrote) /\ theirs(a) \in Seq(Wrote)
               /\ Len(mine(a)) \in Nat /\ DOMAIN mine(a) = 1..Len(mine(a))
               /\ Len(theirs(a)) \in Nat /\ DOMAIN theirs(a) = 1..Len(theirs(a))
               /\ mine(a) \o theirs(a) \in Seq(Wrote)
               /\ DOMAIN (mine(a) \o theirs(a)) = 1..(Len(mine(a)) + Len(theirs(a)))
               /\ \A n \in 1..Len(mine(a)) : (mine(a) \o theirs(a))[n] = mine(a)[n]
               /\ \A n \in 1..Len(theirs(a)) :
                    (mine(a) \o theirs(a))[n + Len(mine(a))] = theirs(a)[n]
    <2>1. mine(a) \in Seq(Wrote) /\ theirs(a) \in Seq(Wrote)
      BY HistoryType
    <2>. HIDE DEF mine, theirs
    <2>. QED BY <2>1
  <1>5. \A a : <<kept, a>> \in DOMAIN logs => mine(a) = logs[<<kept, a>>]
    BY DEF History
  <1>6. \A a : <<absorbed, a>> \in DOMAIN logs => theirs(a) = logs[<<absorbed, a>>]
    BY DEF History
  <1>7. \A a : /\ DOMAIN mine(a) # {} => <<kept, a>> \in DOMAIN logs
               /\ DOMAIN theirs(a) # {} => <<absorbed, a>> \in DOMAIN logs
    BY DEF History
  <1>8. \A x \in DOMAIN logs : \A n : Shift(x, n, absorbed, kept)
                                        = IF x[1] = absorbed THEN n + Len(mine(x[2])) ELSE n
    BY DEF Shift
  <1>. HIDE DEF mine, theirs
  <1>15. \A y : y \in D <=> \/ y \in DOMAIN logs /\ y[1] # absorbed
                           \/ \E a \in Attributes : <<absorbed, a>> \in DOMAIN logs /\ y = <<kept, a>>
    OBVIOUS
  <1>. HIDE DEF moved, left, D
  <1>9. D \subseteq Entities \X Attributes
    <2> SUFFICES ASSUME NEW y \in D PROVE y \in Entities \X Attributes
      OBVIOUS
    <2>1. CASE y \in DOMAIN logs
      BY <1>1, <2>1
    <2>2. CASE y \notin DOMAIN logs
      <3>1. PICK a \in Attributes : y = <<kept, a>>
        BY <1>15, <2>2
      <3>. QED BY <3>1
    <2>. QED BY <2>1, <2>2
  <1>16. \A y \in D : y[1] # kept => y \in DOMAIN logs /\ y[1] # absorbed
    <2> SUFFICES ASSUME NEW y \in D, y[1] # kept, ~(y \in DOMAIN logs /\ y[1] # absorbed)
                 PROVE  FALSE
      OBVIOUS
    <2>1. PICK a \in Attributes : y = <<kept, a>>
      BY <1>15
    <2>. QED BY <2>1
  <1>13. \A y \in D : y = <<y[1], y[2]>> /\ y[1] \in Entities /\ y[2] \in Attributes
    BY <1>9, PairParts
  <1>14. ASSUME NEW x \in DOMAIN logs
         PROVE  /\ x[1] = absorbed => To(x, absorbed, kept) = <<kept, x[2]>>
                /\ x[1] # absorbed => To(x, absorbed, kept) = x
    BY <1>2 DEF To, Renamed
  <1>10. logs' \in [D -> Seq(Wrote)]
    <2>1. \A y \in D : logs'[y] \in Seq(Wrote)
      <3> SUFFICES ASSUME NEW y \in D PROVE logs'[y] \in Seq(Wrote)
        OBVIOUS
      <3>1. CASE y[1] = kept
        <4>1. mine(y[2]) \o theirs(y[2]) \in Seq(Wrote)
          BY <1>4
        <4>. QED BY <1>3, <3>1, <4>1
      <3>2. CASE y[1] # kept
        <4>1. y \in DOMAIN logs
          BY <1>16, <3>2
        <4>. QED BY <1>1, <1>3, <3>2, <4>1
      <3>. QED BY <3>1, <3>2
    <2>. QED BY <1>3, <2>1
  <1>11. ASSUME NEW x \in DOMAIN logs, NEW n \in DOMAIN logs[x]
         PROVE  LET y == To(x, absorbed, kept)
                    m == Shift(x, n, absorbed, kept)
                IN y \in DOMAIN logs' /\ m \in DOMAIN logs'[y] /\ logs'[y][m] = logs[x][n]
    <2> DEFINE y == To(x, absorbed, kept)
               m == Shift(x, n, absorbed, kept)
    <2>1. x = <<x[1], x[2]>> /\ x[2] \in Attributes
      BY <1>2
    <2>2. CASE x[1] = absorbed
      <3>1. y = <<kept, x[2]>> /\ y \in D /\ m = n + Len(mine(x[2]))
        BY <1>8, <1>14, <1>15, <2>1, <2>2
      <3>2. theirs(x[2]) = logs[x]
        BY <1>6, <2>1, <2>2
      <3>3. logs'[y] = mine(x[2]) \o theirs(x[2])
        BY <1>3, <3>1
      <3>4. n \in 1..Len(theirs(x[2]))
        BY <1>4, <3>2
      <3>5. m \in DOMAIN logs'[y] /\ logs'[y][m] = theirs(x[2])[n]
        BY <1>4, <3>1, <3>3, <3>4
      <3>. QED BY <1>3, <3>1, <3>2, <3>5
    <2>3. CASE x[1] = kept
      <3>1. y = x /\ y \in D /\ m = n
        BY <1>8, <1>14, <1>15, <2>1, <2>3
      <3>2. mine(x[2]) = logs[x]
        BY <1>5, <2>1, <2>3
      <3>3. logs'[y] = mine(x[2]) \o theirs(x[2])
        BY <1>3, <2>3, <3>1
      <3>4. n \in 1..Len(mine(x[2]))
        BY <1>4, <3>2
      <3>5. m \in DOMAIN logs'[y] /\ logs'[y][m] = mine(x[2])[n]
        BY <1>4, <3>1, <3>3, <3>4
      <3>. QED BY <1>3, <3>1, <3>2, <3>5
    <2>4. CASE x[1] # absorbed /\ x[1] # kept
      <3>1. y = x /\ y \in D /\ m = n
        BY <1>8, <1>14, <1>15, <2>1, <2>4
      <3>. QED BY <1>3, <2>4, <3>1
    <2>. QED BY <2>2, <2>3, <2>4
  <1>12. ASSUME NEW y \in DOMAIN logs', NEW m \in DOMAIN logs'[y]
         PROVE  \E x \in DOMAIN logs : \E n \in DOMAIN logs[x] :
                  /\ y = To(x, absorbed, kept) /\ m = Shift(x, n, absorbed, kept)
                  /\ logs'[y][m] = logs[x][n]
    <2>1. y \in D
      BY <1>3
    <2>2. CASE y[1] # kept
      <3>1. y \in DOMAIN logs /\ y[1] # absorbed /\ logs'[y] = logs[y]
        BY <1>3, <1>16, <2>1, <2>2
      <3>2. y = To(y, absorbed, kept) /\ m = Shift(y, m, absorbed, kept)
        BY <1>8, <1>14, <3>1
      <3>. QED BY <3>1, <3>2
    <2>3. CASE y[1] = kept
      <3> DEFINE a == y[2]
      <3>1. y = <<kept, a>> /\ logs'[y] = mine(a) \o theirs(a) /\ a \in Attributes
        BY <1>3, <1>13, <2>1, <2>3
      <3>2. m \in 1..(Len(mine(a)) + Len(theirs(a))) /\ Len(mine(a)) \in Nat /\ Len(theirs(a)) \in Nat
        BY <1>4, <3>1
      <3>3. CASE m <= Len(mine(a))
        <4>1. m \in DOMAIN mine(a) /\ logs'[y][m] = mine(a)[m]
          BY <1>4, <3>1, <3>2, <3>3
        <4>2. y \in DOMAIN logs /\ mine(a) = logs[y]
          BY <1>5, <1>7, <3>1, <4>1
        <4>3. y = To(y, absorbed, kept) /\ m = Shift(y, m, absorbed, kept)
          BY <1>8, <1>14, <2>3, <3>1, <4>2
        <4>. QED BY <4>1, <4>2, <4>3
      <3>4. CASE m > Len(mine(a))
        <4> DEFINE n == m - Len(mine(a))
                   x == <<absorbed, a>>
        <4>1. n \in 1..Len(theirs(a)) /\ m = n + Len(mine(a))
          BY <3>2, <3>4
        <4>2. n \in DOMAIN theirs(a) /\ logs'[y][m] = theirs(a)[n]
          BY <1>4, <3>1, <4>1
        <4>3. x \in DOMAIN logs /\ theirs(a) = logs[x]
          BY <1>6, <1>7, <4>2
        <4>4. y = To(x, absorbed, kept) /\ m = Shift(x, n, absorbed, kept)
          BY <1>8, <1>14, <3>1, <4>1, <4>3
        <4>. QED BY <4>2, <4>3, <4>4
      <3>. QED BY <3>2, <3>3, <3>4
    <2>. QED BY <2>2, <2>3
  <1>. QED BY <1>3, <1>9, <1>10, <1>11, <1>12

(* Positions move with the versions they name.                             *)
LEMMA AdoptedPlace ==
  ASSUME AssertionsType, NEW absorbed, NEW kept, assertions' = Adopt(absorbed, kept),
         NEW i \in DOMAIN assertions, NEW x, NEW n, assertions[i] = Place(x, n)
  PROVE  assertions'[i] = Place(To(x, absorbed, kept), Shift(x, n, absorbed, kept))
  <1>1. assertions[i].entity = x[1] /\ assertions[i].attribute = x[2] /\ assertions[i].version = n
    BY DEF Place
  <1>2. CASE x[1] = absorbed
    BY <1>1, <1>2 DEF Adopt, Place, To, Shift, Renamed
  <1>3. CASE x[1] # absorbed
    <2>1. assertions'[i] = assertions[i]
      BY <1>1, <1>3 DEF Adopt
    <2>. QED BY <1>3, <2>1 DEF Place, To, Shift, Renamed
  <1>. QED BY <1>2, <1>3

LEMMA AdoptType ==
  ASSUME AssertionsType, LogsType, NEW absorbed, NEW kept \in Entities,
         assertions' = Adopt(absorbed, kept)
  PROVE  /\ DOMAIN assertions' = DOMAIN assertions
         /\ assertions' \in [DOMAIN assertions -> [entity : Entities, attribute : Attributes, version : Nat]]
  <1>1. \A i \in DOMAIN assertions :
          assertions'[i] \in [entity : Entities, attribute : Attributes, version : Nat]
    <2> SUFFICES ASSUME NEW i \in DOMAIN assertions
                 PROVE  assertions'[i] \in [entity : Entities, attribute : Attributes, version : Nat]
      OBVIOUS
    <2> DEFINE w == assertions[i]
    <2>1. w \in [entity : Entities, attribute : Attributes, version : Nat]
      BY DEF AssertionsType
    <2>2. CASE w.entity # absorbed
      BY <2>1, <2>2 DEF Adopt
    <2>3. CASE w.entity = absorbed
      <3> DEFINE l == Len(History(kept, w.attribute))
      <3>1. l \in Nat
        BY HistoryType
      <3>2. assertions'[i] = [entity |-> kept, attribute |-> w.attribute, version |-> w.version + l]
        BY <2>3 DEF Adopt
      <3>. HIDE DEF l
      <3>. QED BY <2>1, <3>1, <3>2
    <2>. QED BY <2>2, <2>3
  <1>. QED BY <1>1 DEF Adopt

(* Of the questions that are now the same the first stays, so none is      *)
(* asked twice, and none is of an entity that is gone.                     *)
LEMMA RenamedQuestions ==
  ASSUME Questions, NEW r, NEW absorbed \in DOMAIN identity, NEW kept \in DOMAIN identity,
         absorbed # kept, next_review \in Nat, DOMAIN identity \subseteq Nat,
         review' = RenamedReview(Without(review, {r}), absorbed, kept),
         DOMAIN identity' = DOMAIN identity \ {absorbed}, next_review' = next_review
  PROVE  Questions'
  <1> DEFINE open == Without(review, {r})
             to(q) == RenamedPair(open[q], absorbed, kept)
             live == {q \in DOMAIN open : to(q)[1] # to(q)[2]}
  <1>1. DOMAIN open \subseteq DOMAIN review /\ \A q \in DOMAIN open : open[q] = review[q]
    BY DEF Without
  <1>2. DOMAIN review' = {s \in live : \A t \in live : to(t) = to(s) => s <= t}
        /\ \A q \in DOMAIN review' : review'[q] = to(q)
    BY DEF RenamedReview
  <1>. HIDE DEF open
  <1>3. ASSUME NEW q \in DOMAIN review'
        PROVE  review'[q][1] < review'[q][2] /\ {review'[q][1], review'[q][2]} \subseteq DOMAIN identity'
    <2> DEFINE a == Renamed(open[q][1], absorbed, kept)
               b == Renamed(open[q][2], absorbed, kept)
    <2>1. q \in live /\ q \in DOMAIN open /\ review'[q] = Pair(a, b)
      BY <1>2 DEF RenamedPair
    <2>2. open[q][1] \in DOMAIN identity /\ open[q][2] \in DOMAIN identity
      BY <1>1, <2>1 DEF Questions, EachQuestionOnce
    <2>3. a \in DOMAIN identity' /\ b \in DOMAIN identity' /\ a \in Nat /\ b \in Nat
      BY <2>2 DEF Renamed
    <2>4. Pair(a, b)[1] # Pair(a, b)[2]
      BY <2>1 DEF RenamedPair
    <2>. HIDE DEF a, b
    <2>5. CASE a < b
      BY <2>1, <2>3, <2>5 DEF Pair
    <2>6. CASE ~(a < b)
      <3>1. Pair(a, b) = <<b, a>>
        BY <2>6 DEF Pair
      <3>2. b < a
        BY <2>3, <2>4, <2>6, <3>1
      <3>. QED BY <2>1, <2>3, <3>1, <3>2
    <2>. QED BY <2>5, <2>6
  <1>4. DOMAIN review' \subseteq DOMAIN review
    BY <1>1, <1>2
  <1>5. ASSUME NEW q \in DOMAIN review', NEW s \in DOMAIN review', review'[q] = review'[s]
        PROVE  q = s
    <2>1. q \in Nat /\ s \in Nat
      <3>1. q \in 0..(next_review - 1) /\ s \in 0..(next_review - 1)
        <4>. HIDE DEF to, live
        <4>. QED BY <1>4 DEF Questions
      <3>. QED BY <3>1
    <2>2. to(q) = to(s) /\ q \in live /\ s \in live
      BY <1>2, <1>5
    <2>3. q <= s /\ s <= q
      <3>. HIDE DEF to, live
      <3>. QED BY <1>2, <2>2
    <2>. QED BY <2>1, <2>3
  <1>6. DOMAIN review' \subseteq 0..(next_review' - 1)
    BY <1>4 DEF Questions
  <1>. QED BY <1>3, <1>5, <1>6 DEF Questions, EachQuestionOnce

LEMMA ConfirmStep ==
  ASSUME EngineInv, NEW r \in DOMAIN review, Confirm(r)
  PROVE  EngineInv'
  <1> DEFINE kept == review[r][1]
             absorbed == review[r][2]
  <1>1. /\ UNCHANGED <<next_id, next_assertion, next_review>>
        /\ logs' = MoveLogs(absorbed, kept) /\ assertions' = Adopt(absorbed, kept)
        /\ review' = RenamedReview(Without(review, {r}), absorbed, kept)
        /\ identity' = [Without(identity, {absorbed}) EXCEPT ![kept] = Fold(@, identity[absorbed])]
        /\ became' = [e \in DOMAIN became \cup {absorbed} |->
                        IF e = absorbed THEN kept ELSE Renamed(became[e], absorbed, kept)]
    BY DEF Confirm, RememberIdentity
  <1>2. /\ next_id \in Nat /\ next_review \in Nat /\ LogsType /\ AssertionsType /\ Claimed
        /\ Absorptions /\ Questions
    BY DEF EngineInv, Counters
  <1>3. /\ kept < absorbed /\ kept \in DOMAIN identity /\ absorbed \in DOMAIN identity
        /\ DOMAIN identity \subseteq Entities /\ DOMAIN identity \subseteq Nat
    BY <1>2 DEF Questions, EachQuestionOnce, Absorptions, Entities
  <1>4. /\ kept # absorbed /\ kept \in Entities /\ absorbed \in Entities /\ Entities' = Entities
        /\ absorbed \notin DOMAIN became
    BY <1>1, <1>2, <1>3 DEF Entities, Absorptions
  <1>. HIDE DEF kept, absorbed
  <1>5. Counters'
    BY <1>1 DEF EngineInv, Counters
  <1>6. /\ logs' \in [DOMAIN logs' -> Seq(Wrote)]
        /\ DOMAIN logs' \subseteq Entities \X Attributes
        /\ \A x \in DOMAIN logs : \A n \in DOMAIN logs[x] :
             LET y == To(x, absorbed, kept)
                 m == Shift(x, n, absorbed, kept)
             IN y \in DOMAIN logs' /\ m \in DOMAIN logs'[y] /\ logs'[y][m] = logs[x][n]
        /\ \A y \in DOMAIN logs' : \A m \in DOMAIN logs'[y] :
             \E x \in DOMAIN logs : \E n \in DOMAIN logs[x] :
               /\ y = To(x, absorbed, kept) /\ m = Shift(x, n, absorbed, kept)
               /\ logs'[y][m] = logs[x][n]
    BY <1>1, <1>2, <1>4, MovedLogs
  <1>7. LogsType'
    BY <1>4, <1>6 DEF LogsType
  <1>8. /\ DOMAIN assertions' = DOMAIN assertions
        /\ assertions' \in [DOMAIN assertions -> [entity : Entities, attribute : Attributes, version : Nat]]
    BY <1>1, <1>2, <1>4, AdoptType
  <1>9. AssertionsType'
    BY <1>1, <1>2, <1>4, <1>8 DEF AssertionsType
  <1>10. ASSUME NEW i \in DOMAIN assertions, NEW x, NEW n, assertions[i] = Place(x, n)
         PROVE  assertions'[i] = Place(To(x, absorbed, kept), Shift(x, n, absorbed, kept))
    BY <1>1, <1>2, <1>10, AdoptedPlace
  <1>11. ASSUME NEW y \in DOMAIN logs', NEW m \in DOMAIN logs'[y]
         PROVE  \E x \in DOMAIN logs : \E n \in DOMAIN logs[x] :
                  /\ y = To(x, absorbed, kept) /\ m = Shift(x, n, absorbed, kept)
                  /\ logs'[y][m] = logs[x][n]
    BY <1>6, <1>11
  <1>12. Claimed'
    <2> SUFFICES ASSUME NEW y \in DOMAIN logs', NEW m \in DOMAIN logs'[y]
                 PROVE  /\ logs'[y][m].of < next_id'
                        /\ logs'[y][m].by # Tombstone =>
                             /\ logs'[y][m].by < next_assertion'
                             /\ logs'[y][m].by \in DOMAIN assertions' =>
                                  assertions'[logs'[y][m].by] = Place(y, m)
      BY DEF Claimed
    <2>1. PICK x \in DOMAIN logs : \E n \in DOMAIN logs[x] :
            /\ y = To(x, absorbed, kept) /\ m = Shift(x, n, absorbed, kept)
            /\ logs'[y][m] = logs[x][n]
      BY <1>11
    <2>2. PICK n \in DOMAIN logs[x] :
            /\ y = To(x, absorbed, kept) /\ m = Shift(x, n, absorbed, kept)
            /\ logs'[y][m] = logs[x][n]
      BY <2>1
    <2> DEFINE i == logs[x][n].by
    <2>3. /\ logs[x][n].of < next_id
          /\ i # Tombstone => /\ i < next_assertion
                              /\ i \in DOMAIN assertions => assertions[i] = Place(x, n)
      BY <1>2 DEF Claimed
    <2>4. i \in DOMAIN assertions /\ assertions[i] = Place(x, n) => assertions'[i] = Place(y, m)
      BY <1>10, <2>2
    <2>. QED BY <1>1, <1>8, <2>2, <2>3, <2>4
  <1>13. RecallReadsItsOwn'
    <2> SUFFICES ASSUME NEW i \in DOMAIN assertions'
                 PROVE  /\ assertions'[i].version \in
                             DOMAIN History(assertions[i].entity, assertions[i].attribute)'
                        /\ History(assertions[i].entity, assertions[i].attribute)'
                             [assertions'[i].version].by = i
      BY DEF RecallReadsItsOwn
    <2> DEFINE x == <<assertions[i].entity, assertions[i].attribute>>
               n == assertions[i].version
               y == To(x, absorbed, kept)
               m == Shift(x, n, absorbed, kept)
    <2>1. n \in DOMAIN History(x[1], x[2]) /\ History(x[1], x[2])[n].by = i
      BY <1>8 DEF EngineInv, RecallReadsItsOwn
    <2>2. x \in DOMAIN logs /\ n \in DOMAIN logs[x] /\ logs[x][n].by = i
      BY <2>1 DEF History
    <2>3. y \in DOMAIN logs' /\ m \in DOMAIN logs'[y] /\ logs'[y][m] = logs[x][n]
      BY <1>6, <2>2
    <2>4. assertions[i] = Place(x, n)
      <3>1. assertions[i] \in [entity : Entities, attribute : Attributes, version : Nat]
        BY <1>2, <1>8 DEF AssertionsType
      <3>. QED BY <3>1 DEF Place
    <2>5. assertions'[i] = Place(y, m)
      BY <1>8, <1>10, <2>4
    <2>6. y = <<y[1], y[2]>>
      BY DEF To
    <2>. HIDE DEF y, m, x, n
    <2>7. assertions'[i].entity = y[1] /\ assertions'[i].attribute = y[2] /\ assertions'[i].version = m
      BY <2>5 DEF Place
    <2>. QED BY <2>2, <2>3, <2>6, <2>7 DEF History
  <1>14. OnlyForgottenGoesQuiet'
    <2> SUFFICES ASSUME NEW y \in DOMAIN logs', NEW m \in DOMAIN logs'[y]
                 PROVE  \/ logs'[y][m].by = Tombstone
                        \/ logs'[y][m].by \in DOMAIN assertions'
                        \/ \E k \in DOMAIN logs'[y] : k > m /\ logs'[y][k].by = Tombstone
      BY DEF OnlyForgottenGoesQuiet
    <2>1. PICK x \in DOMAIN logs : \E n \in DOMAIN logs[x] :
            /\ y = To(x, absorbed, kept) /\ m = Shift(x, n, absorbed, kept)
            /\ logs'[y][m] = logs[x][n]
      BY <1>11
    <2>2. PICK n \in DOMAIN logs[x] :
            /\ y = To(x, absorbed, kept) /\ m = Shift(x, n, absorbed, kept)
            /\ logs'[y][m] = logs[x][n]
      BY <2>1
    <2>3. \/ logs[x][n].by = Tombstone
          \/ logs[x][n].by \in DOMAIN assertions
          \/ \E k \in DOMAIN logs[x] : k > n /\ logs[x][k].by = Tombstone
      BY DEF EngineInv, OnlyForgottenGoesQuiet
    <2>4. ASSUME NEW k \in DOMAIN logs[x], k > n, logs[x][k].by = Tombstone
          PROVE  \E j \in DOMAIN logs'[y] : j > m /\ logs'[y][j].by = Tombstone
      <3> DEFINE j == Shift(x, k, absorbed, kept)
      <3>1. j \in DOMAIN logs'[y] /\ logs'[y][j] = logs[x][k]
        BY <1>6, <2>2
      <3>2. Len(History(kept, x[2])) \in Nat
        BY <1>2, HistoryType
      <3>3. k \in Nat /\ n \in Nat
        BY <1>2 DEF LogsType
      <3>4. j > m
        BY <2>2, <2>4, <3>2, <3>3 DEF Shift
      <3>. QED BY <2>4, <3>1, <3>4
    <2>. QED BY <1>8, <2>2, <2>3, <2>4
  <1>15. WhatWasSaidFollows'
    <2> SUFFICES ASSUME NEW y \in DOMAIN logs', NEW m \in DOMAIN logs'[y],
                        logs'[y][m].by # Tombstone
                 PROVE  y[1] = IF logs'[y][m].of \in DOMAIN became'
                               THEN became'[logs'[y][m].of] ELSE logs'[y][m].of
      BY DEF WhatWasSaidFollows, Now
    <2>1. PICK x \in DOMAIN logs : \E n \in DOMAIN logs[x] :
            y = To(x, absorbed, kept) /\ logs'[y][m] = logs[x][n]
      BY <1>11
    <2>2. PICK n \in DOMAIN logs[x] : y = To(x, absorbed, kept) /\ logs'[y][m] = logs[x][n]
      BY <2>1
    <2> DEFINE of == logs[x][n].of
    <2>3. x[1] = IF of \in DOMAIN became THEN became[of] ELSE of
      BY <2>2 DEF EngineInv, WhatWasSaidFollows, Now
    <2>4. y[1] = IF x[1] = absorbed THEN kept ELSE x[1]
      BY <2>2 DEF To, Renamed
    <2>. HIDE DEF of
    <2>5. CASE of = absorbed
      BY <1>1, <1>4, <2>2, <2>3, <2>4, <2>5 DEF of
    <2>6. CASE of # absorbed /\ of \in DOMAIN became
      BY <1>1, <2>2, <2>3, <2>4, <2>6 DEF of, Renamed
    <2>7. CASE of # absorbed /\ of \notin DOMAIN became
      BY <1>1, <2>2, <2>3, <2>4, <2>7 DEF of
    <2>. QED BY <2>5, <2>6, <2>7
  <1>16. DOMAIN identity' = DOMAIN identity \ {absorbed}
    BY <1>1 DEF Without
  <1>17. Absorptions'
    <2>1. identity' \in [DOMAIN identity' -> Record]
      <3>1. identity \in [DOMAIN identity -> Record]
        BY <1>2 DEF Absorptions
      <3>2. Fold(identity[kept], identity[absorbed]) \in Record
        BY <1>3, <3>1, FoldType
      <3>. QED BY <1>1, <1>3, <1>4, <1>16, <3>1, <3>2 DEF Without
    <2>2. DOMAIN became' = DOMAIN became \cup {absorbed}
      BY <1>1
    <2>. QED BY <1>2, <1>4, <1>16, <2>1, <2>2 DEF Absorptions
  <1>18. Questions'
    BY <1>1, <1>2, <1>3, <1>4, <1>16, RenamedQuestions
  <1>. QED BY <1>5, <1>7, <1>9, <1>12, <1>13, <1>14, <1>15, <1>17, <1>18 DEF EngineInv

LEMMA RejectStep ==
  ASSUME EngineInv, NEW r \in DOMAIN review, Reject(r)
  PROVE  EngineInv'
  <1>1. /\ UNCHANGED <<next_id, logs, identity, assertions, next_assertion, next_review, became>>
        /\ DOMAIN review' \subseteq DOMAIN review
        /\ \A q \in DOMAIN review' : review'[q] = review[q]
    BY DEF Reject, stored, known, facts, Without
  <1>2. Counters' /\ LogsType' /\ AssertionsType' /\ Claimed' /\ Absorptions'
    BY <1>1 DEF EngineInv, Counters, LogsType, AssertionsType, Claimed, Absorptions, Entities
  <1>3. Questions'
    BY <1>1 DEF EngineInv, Questions, EachQuestionOnce
  <1>4. RecallReadsItsOwn' /\ OnlyForgottenGoesQuiet' /\ WhatWasSaidFollows'
    BY <1>1 DEF EngineInv, RecallReadsItsOwn, OnlyForgottenGoesQuiet, WhatWasSaidFollows, Now, History
  <1>. QED BY <1>2, <1>3, <1>4 DEF EngineInv

(* Edges, vectors and the blocking map are outside the invariant.          *)
LEMMA OutsideStep ==
  ASSUME EngineInv,
         UNCHANGED <<next_id, logs, identity, assertions, next_assertion, review, next_review, became>>
  PROVE  EngineInv'
  <1>1. Counters' /\ LogsType' /\ AssertionsType' /\ Claimed' /\ Absorptions' /\ Questions'
    BY DEF EngineInv, Counters, LogsType, AssertionsType, Claimed, Absorptions, Questions,
           EachQuestionOnce, Entities
  <1>2. RecallReadsItsOwn' /\ OnlyForgottenGoesQuiet' /\ WhatWasSaidFollows'
    BY DEF EngineInv, RecallReadsItsOwn, OnlyForgottenGoesQuiet, WhatWasSaidFollows, Now, History
  <1>. QED BY <1>1, <1>2 DEF EngineInv

LEMMA EngineStep == EngineInv /\ [Next]_vars => EngineInv'
  <1> SUFFICES ASSUME EngineInv, [Next]_vars PROVE EngineInv'
    OBVIOUS
  <1>0. CASE UNCHANGED vars
    BY <1>0, OutsideStep DEF vars, stored, known, facts, questions
  <1>1. ASSUME NEW mention \in Mentions, NEW a \in Attributes, NEW fits \in BOOLEAN,
               \/ Remember(mention, a, fits)
               \/ \E e \in Entities \cup {NoOne} : RememberAs(e, mention, a, fits)
        PROVE  EngineInv'
    <2>1. EngineInv' \/ UNCHANGED vars
      BY <1>1, RememberStep
    <2>. QED BY <1>0, <2>1
  <1>2. ASSUME NEW r \in DOMAIN review, Confirm(r) PROVE EngineInv'
    BY <1>2, ConfirmStep
  <1>3. ASSUME NEW r \in DOMAIN review, Reject(r) PROVE EngineInv'
    BY <1>3, RejectStep
  <1>4. ASSUME NEW e \in Entities, NEW a \in Attributes, Forget(e, a) PROVE EngineInv'
    <2>1. Grown(e, a, Said(Tombstone, e)) /\ DropVectors(e, a)
          /\ UNCHANGED <<next_id, known, next_assertion, questions, became>>
      BY <1>4 DEF Forget, Grown
    <2>. QED BY <2>1, DropStep
  <1>5. ASSUME NEW e \in Entities, NEW a \in Attributes, Erase(e, a) PROVE EngineInv'
    <2>1. logs' = Without(logs, {<<e, a>>}) /\ DropVectors(e, a)
          /\ UNCHANGED <<next_id, known, next_assertion, questions, became>>
      BY <1>5 DEF Erase
    <2>. QED BY <2>1, DropStep
  <1>6. ASSUME NEW s \in Entities, NEW o \in Entities, Relate(s, o) PROVE EngineInv'
    BY <1>6, OutsideStep DEF Relate, known, facts, questions
  <1>7. ASSUME NEW e \in Entities, EraseEdges(e) PROVE EngineInv'
    BY <1>7, OutsideStep DEF EraseEdges, known, facts, questions
  <1>8. ASSUME NEW given \in SUBSET (0..(next_assertion - 1)), RebuildIndex(given) PROVE EngineInv'
    BY <1>8, OutsideStep DEF RebuildIndex, stored, known, questions
  <1>9. CASE Reopen
    BY <1>9, OutsideStep DEF Reopen, stored, facts, questions
  <1>. QED BY <1>0, <1>1, <1>2, <1>3, <1>4, <1>5, <1>6, <1>7, <1>8, <1>9 DEF Next

-----------------------------------------------------------------------------
(* Every state of the engine has the invariant: logs, assertions, identity *)
(* and questions agree on who wrote what and of whom.                      *)
THEOREM EngineInvariant == Spec => []EngineInv
  BY InitEngineInv, EngineStep, PTL DEF Spec

(* A search hit reads the version its assertion wrote, whatever was merged,*)
(* forgotten or erased since: Engine::recall, by position in a log.        *)
THEOREM ReadsItsOwn == Spec => []RecallReadsItsOwn
  <1>1. EngineInv => RecallReadsItsOwn
    BY DEF EngineInv
  <1>. QED BY <1>1, EngineInvariant, PTL

(* No version is in the store with nothing able to find it, unless it was  *)
(* forgotten: adopt_assertions and drop_vectors leave none behind.         *)
THEOREM NothingGoesQuiet == Spec => []OnlyForgottenGoesQuiet
  <1>1. EngineInv => OnlyForgottenGoesQuiet
    BY DEF EngineInv
  <1>. QED BY <1>1, EngineInvariant, PTL

(* What was said of an entity stands at the entity it became, after merges *)
(* in any order and number: Engine::confirm and LogStore::move_entity.     *)
THEOREM SaidFollows == Spec => []WhatWasSaidFollows
  <1>1. EngineInv => WhatWasSaidFollows
    BY DEF EngineInv
  <1>. QED BY <1>1, EngineInvariant, PTL

-----------------------------------------------------------------------------
(* The questions that were asked. A pair stands where its entities are by  *)
(* now one, or settled, or asked about.                                    *)

Stands(p) ==
  LET now == Pair(Now(p[1]), Now(p[2]))
  IN now[1] = now[2] \/ now \in rejected \/ \E r \in DOMAIN review : review[r] = now

Settled ==
  /\ asked \subseteq Nat \X Nat
  /\ \A p \in asked : p[1] < next_id /\ p[2] < next_id
  /\ \A e \in DOMAIN became : became[e] \in Nat
  /\ \A p \in asked : Stands(p)

LEMMA PairType ==
  ASSUME NEW a \in Nat, NEW b \in Nat
  PROVE  /\ Pair(a, b) \in Nat \X Nat
         /\ Pair(a, b) = <<a, b>> \/ Pair(a, b) = <<b, a>>
         /\ Pair(a, b)[1] = Pair(a, b)[2] <=> a = b
  BY DEF Pair

LEMMA NowType ==
  ASSUME Settled, NEW e \in Nat
  PROVE  Now(e) \in Nat
  BY DEF Settled, Now

(* Renaming a pair in order is putting the renamed in order.               *)
LEMMA PairRenamed ==
  ASSUME NEW a \in Nat, NEW b \in Nat, NEW absorbed \in Nat, NEW kept \in Nat
  PROVE  /\ RenamedPair(Pair(a, b), absorbed, kept)
              = Pair(Renamed(a, absorbed, kept), Renamed(b, absorbed, kept))
         /\ Renamed(a, absorbed, kept) \in Nat /\ Renamed(b, absorbed, kept) \in Nat
  <1>1. Renamed(a, absorbed, kept) \in Nat /\ Renamed(b, absorbed, kept) \in Nat
    BY DEF Renamed
  <1>2. CASE a < b
    <2>1. Pair(a, b) = <<a, b>>
      BY <1>2 DEF Pair
    <2>. QED BY <1>1, <2>1 DEF RenamedPair
  <1>3. CASE ~(a < b)
    <2> DEFINE x == Renamed(a, absorbed, kept)
               y == Renamed(b, absorbed, kept)
    <2>1. Pair(a, b) = <<b, a>>
      BY <1>3 DEF Pair
    <2>2. RenamedPair(Pair(a, b), absorbed, kept) = Pair(y, x)
      BY <2>1 DEF RenamedPair
    <2>. HIDE DEF x, y
    <2>3. Pair(y, x) = Pair(x, y)
      BY <1>1 DEF Pair, x, y
    <2>. QED BY <1>1, <2>2, <2>3 DEF x, y
  <1>. QED BY <1>1, <1>2, <1>3

LEMMA SettledInit == Init => Settled
  BY DEF Init, Settled

(* Where the questions and what entities are by now stay as they were.     *)
LEMMA SettledStays ==
  ASSUME EngineInv, Settled, UNCHANGED <<questions, became>>, next_id' \in {next_id, next_id + 1}
  PROVE  Settled'
  <1>1. next_id \in Nat
    BY DEF EngineInv, Counters
  <1>2. \A p \in asked : p[1] < next_id' /\ p[2] < next_id'
    BY <1>1 DEF Settled
  <1>3. \A p \in asked : Stands(p)'
    BY DEF Settled, Stands, questions, Now
  <1>. QED BY <1>2, <1>3 DEF Settled, questions

(* A new entity raises questions of what was there, and each is filed.     *)
LEMMA NewSettled ==
  ASSUME EngineInv, Settled, NEW mention, NEW a, NEW others \in SUBSET DOMAIN identity,
         CreateEntity(mention), Write(next_id, a),
         File(next_id, others) \/ UNCHANGED questions
  PROVE  Settled'
  <1>1. next_id' = next_id + 1 /\ next_id \in Nat /\ became' = became
    BY DEF EngineInv, Counters, CreateEntity, Write
  <1>2. CASE UNCHANGED questions
    BY <1>1, <1>2, SettledStays
  <1>3. CASE File(next_id, others)
    <2>1. DOMAIN identity' = DOMAIN identity \cup {next_id}
      BY DEF CreateEntity, With
    <2>2. /\ \A r \in DOMAIN review : r \in DOMAIN review' /\ review'[r] = review[r]
          /\ \A o \in others : \E r \in DOMAIN review' : review'[r] = Pair(next_id, o)
      BY <1>3, <2>1, FileStep DEF EngineInv
    <2>3. asked' = asked \cup {Pair(next_id, o) : o \in others} /\ rejected' = rejected
      BY <1>3 DEF File
    <2>4. others \subseteq 0..(next_id - 1) /\ \A o \in others : o \notin DOMAIN became
      BY DEF EngineInv, Absorptions, Entities
    <2>5. next_id \notin DOMAIN became
      BY <1>1 DEF EngineInv, Absorptions, Entities
    <2>6. ASSUME NEW p \in asked PROVE Stands(p)'
      BY <1>1, <2>2, <2>3 DEF Settled, Stands, Now
    <2>7. ASSUME NEW p \in {Pair(next_id, o) : o \in others}
          PROVE  Stands(p)' /\ \E o \in others : p = <<o, next_id>>
      <3>1. PICK o \in others : p = Pair(next_id, o)
        OBVIOUS
      <3>2. o \in Nat /\ o < next_id
        BY <1>1, <2>4
      <3>3. p = <<o, next_id>> /\ p = Pair(o, next_id)
        BY <1>1, <3>1, <3>2 DEF Pair
      <3>4. o \notin DOMAIN became' /\ next_id \notin DOMAIN became'
        BY <1>1, <2>4, <2>5
      <3>5. p[1] = o /\ p[2] = next_id
        BY <3>3
      <3>6. (Now(p[1]) = p[1])' /\ (Now(p[2]) = p[2])'
        BY <3>4, <3>5 DEF Now
      <3>7. (\E r \in DOMAIN review : review[r] = p)'
        BY <2>2, <3>1
      <3>8. Pair(p[1], p[2]) = p
        BY <3>3, <3>5
      <3>. QED BY <3>3, <3>6, <3>7, <3>8 DEF Stands
    <2>8. \A p \in asked' : Stands(p)'
      BY <2>3, <2>6, <2>7
    <2>9. asked' \subseteq Nat \X Nat /\ \A p \in asked' : p[1] < next_id' /\ p[2] < next_id'
      <3>1. ASSUME NEW p \in asked
            PROVE  p \in Nat \X Nat /\ p[1] < next_id' /\ p[2] < next_id'
        BY <1>1 DEF Settled
      <3>2. ASSUME NEW p \in {Pair(next_id, o) : o \in others}
            PROVE  p \in Nat \X Nat /\ p[1] < next_id' /\ p[2] < next_id'
        BY <1>1, <2>4, <2>7
      <3>. QED BY <2>3, <3>1, <3>2
    <2>. QED BY <1>1, <2>3, <2>8, <2>9 DEF Settled
  <1>. QED BY <1>2, <1>3

(* A merge renames what was asked, what was settled and what is open alike.*)
LEMMA ConfirmSettled ==
  ASSUME EngineInv, Settled, NEW r \in DOMAIN review, Confirm(r)
  PROVE  Settled'
  <1> DEFINE kept == review[r][1]
             absorbed == review[r][2]
             open == Without(review, {r})
             to(q) == RenamedPair(open[q], absorbed, kept)
             live == {q \in DOMAIN open : to(q)[1] # to(q)[2]}
  <1>1. /\ next_id' = next_id /\ asked' = asked
        /\ review' = RenamedReview(open, absorbed, kept)
        /\ rejected' = RenamedSettled(rejected, absorbed, kept)
        /\ became' = [e \in DOMAIN became \cup {absorbed} |->
                        IF e = absorbed THEN kept ELSE Renamed(became[e], absorbed, kept)]
    BY DEF Confirm
  <1>2. /\ kept \in Nat /\ absorbed \in Nat /\ kept < absorbed /\ absorbed \notin DOMAIN became
    BY DEF EngineInv, Questions, EachQuestionOnce, Absorptions, Entities
  <1>3. DOMAIN open = DOMAIN review \ {r} /\ \A q \in DOMAIN open : open[q] = review[q]
    BY DEF Without
  <1>4. /\ DOMAIN review' = {s \in live : \A t \in live : to(t) = to(s) => s <= t}
        /\ \A q \in DOMAIN review' : review'[q] = to(q)
    BY <1>1 DEF RenamedReview
  <1>. HIDE DEF open, kept, absorbed
  <1>5. ASSUME NEW e \in Nat PROVE Now(e)' = Renamed(Now(e), absorbed, kept)
    BY <1>1, <1>2 DEF Now, Renamed
  <1>6. ASSUME NEW s \in live PROVE \E q \in DOMAIN review' : review'[q] = to(s)
    <2> DEFINE C == {t \in live : to(t) = to(s)}
               below == [t \in C |-> {x \in C : x < t}]
    <2>1. C \subseteq DOMAIN review /\ s \in C
      BY <1>3
    <2>2. DOMAIN review \subseteq 0..(next_review - 1) /\ next_review \in Nat
      BY DEF EngineInv, Questions, Counters
    <2>. HIDE DEF C
    <2>3. IsFiniteSet(C) /\ C \subseteq Nat
      <3>1. IsFiniteSet(0..(next_review - 1))
        BY <2>2, FS_Interval
      <3>2. C \in SUBSET (0..(next_review - 1))
        BY <2>1, <2>2
      <3>3. C \subseteq Nat
        BY <2>2, <3>2
      <3>. QED BY <3>1, <3>2, <3>3, FS_Subset
    <2>4. below \in [C -> SUBSET C] /\ \A o \in C : o \notin below[o]
      BY <2>3
    <2>5. \A o, p \in C : o # p => o \in below[p] \/ p \in below[o]
      BY <2>3
    <2>6. \A o, p \in C : o \in below[p] => below[o] \subseteq below[p]
      <3> SUFFICES ASSUME NEW o \in C, NEW p \in C, NEW x \in C, o < p, x < o
                   PROVE  x < p
        OBVIOUS
      <3>1. x \in Nat /\ o \in Nat /\ p \in Nat
        BY <2>3
      <3>. QED BY <3>1
    <2>7. PICK o \in C : \A p \in C : p # o => o \in below[p]
      <3>. HIDE DEF below
      <3>. QED BY <2>1, <2>3, <2>4, <2>5, <2>6, FirstExists
    <2>8. \A p \in C : o <= p
      BY <2>3, <2>7
    <2>9. o \in live /\ to(o) = to(s)
      <3>. HIDE DEF live, to
      <3>. QED BY <2>7 DEF C
    <2>10. o \in DOMAIN review'
      <3>1. ASSUME NEW t \in live, to(t) = to(o) PROVE o <= t
        <4>1. t \in C
          BY <2>9, <3>1 DEF C
        <4>. QED BY <2>8, <4>1
      <3>. HIDE DEF live, to
      <3>. QED BY <1>4, <2>9, <3>1
    <2>. HIDE DEF live, to
    <2>. QED BY <1>4, <2>9, <2>10
  <1>7. ASSUME NEW p \in asked PROVE Stands(p)'
    <2> DEFINE a == Now(p[1])
               b == Now(p[2])
               now == Pair(a, b)
               then == RenamedPair(now, absorbed, kept)
    <2>1. p[1] \in Nat /\ p[2] \in Nat
      BY DEF Settled
    <2>2. a \in Nat /\ b \in Nat
      BY <2>1, NowType
    <2>3. Pair(Now(p[1])', Now(p[2])') = then
      <3>1. Now(p[1])' = Renamed(a, absorbed, kept) /\ Now(p[2])' = Renamed(b, absorbed, kept)
        BY <1>5, <2>1
      <3>. HIDE DEF a, b
      <3>. QED BY <1>2, <2>2, <3>1, PairRenamed
    <2>9. /\ then = Pair(Renamed(a, absorbed, kept), Renamed(b, absorbed, kept))
          /\ Renamed(a, absorbed, kept) \in Nat
      <3>. HIDE DEF a, b, to, live
      <3>1. RenamedPair(Pair(a, b), absorbed, kept)
              = Pair(Renamed(a, absorbed, kept), Renamed(b, absorbed, kept))
        BY <1>2, <2>2, PairRenamed
      <3>2. Renamed(a, absorbed, kept) \in Nat
        BY <1>2, <2>2 DEF Renamed
      <3>. QED BY <3>1, <3>2
    <2>4. SUFFICES \/ then[1] = then[2] \/ then \in rejected'
                   \/ \E q \in DOMAIN review' : review'[q] = then
      BY <2>3 DEF Stands
    <2>5. now[1] = now[2] \/ now \in rejected \/ \E s \in DOMAIN review : review[s] = now
      BY DEF Settled, Stands
    <2>. HIDE DEF a, b
    <2>6. CASE now[1] = now[2]
      <3>1. a = b
        BY <2>2, <2>6, PairType
      <3>. QED BY <2>9, <3>1, PairType
    <2>7. CASE now \in rejected
      <3>. HIDE DEF now
      <3>. QED BY <1>1, <2>7 DEF RenamedSettled
    <2>8. ASSUME NEW s \in DOMAIN review, review[s] = now
          PROVE  then[1] = then[2] \/ \E q \in DOMAIN review' : review'[q] = then
      <3>. HIDE DEF now
      <3>1. CASE s = r
        <4>1. then = Pair(Renamed(kept, absorbed, kept), Renamed(absorbed, absorbed, kept))
          BY <2>8, <3>1 DEF RenamedPair, kept, absorbed
        <4>2. Renamed(kept, absorbed, kept) = kept /\ Renamed(absorbed, absorbed, kept) = kept
          BY <1>2 DEF Renamed
        <4>. QED BY <1>2, <4>1, <4>2, PairType
      <3>2. CASE s # r
        <4>1. s \in DOMAIN open /\ to(s) = then
          BY <1>3, <2>8, <3>2
        <4>. HIDE DEF to, then
        <4>2. CASE s \in live
          BY <1>6, <4>1, <4>2
        <4>3. CASE s \notin live
          BY <4>1, <4>3
        <4>. QED BY <4>2, <4>3
      <3>. QED BY <3>1, <3>2
    <2>. QED BY <2>5, <2>6, <2>7, <2>8
  <1>8. \A e \in DOMAIN became' : became'[e] \in Nat
    BY <1>1, <1>2 DEF Settled, Renamed
  <1>. QED BY <1>1, <1>7, <1>8 DEF Settled

LEMMA RejectSettled ==
  ASSUME EngineInv, Settled, NEW r \in DOMAIN review, Reject(r)
  PROVE  Settled'
  <1>1. /\ UNCHANGED <<next_id, asked, became>> /\ rejected' = rejected \cup {review[r]}
        /\ \A q \in DOMAIN review \ {r} : q \in DOMAIN review' /\ review'[q] = review[q]
    BY DEF Reject, stored, Without
  <1>2. ASSUME NEW p \in asked PROVE Stands(p)'
    <2>1. \A e : Now(e)' = Now(e)
      BY <1>1 DEF Now
    <2>. QED BY <1>1, <2>1 DEF Settled, Stands
  <1>. QED BY <1>1, <1>2 DEF Settled

LEMMA SettledStep == EngineInv /\ Settled /\ [Next]_vars => Settled'
  <1> SUFFICES ASSUME EngineInv, Settled, [Next]_vars PROVE Settled'
    OBVIOUS
  <1>0. CASE UNCHANGED vars
    BY <1>0, SettledStays DEF vars, stored
  <1>1. ASSUME NEW mention \in Mentions, NEW a \in Attributes, Resolve(mention, a) PROVE Settled'
    <2>1. CASE UNCHANGED <<next_id, questions>> /\ Write(Best(mention), a)
      BY <2>1, SettledStays DEF Write
    <2> DEFINE others == {o \in Undecided(mention) : ~AlreadyRejected(mention, o)}
    <2>2. CASE CreateEntity(mention) /\ Write(next_id, a) /\ File(next_id, others)
      <3>1. others \in SUBSET DOMAIN identity
        BY DEF Undecided
      <3>. HIDE DEF others
      <3>. QED BY <2>2, <3>1, NewSettled
    <2>. QED BY <1>1, <2>1, <2>2 DEF Resolve
  <1>2. ASSUME NEW mention \in Mentions, NEW a \in Attributes, NEW fits \in BOOLEAN,
               NEW e \in Entities \cup {NoOne}, RememberAs(e, mention, a, fits)
        PROVE  Settled'
    <2>1. CASE UNCHANGED <<next_id, questions>> /\ Write(e, a)
      BY <2>1, SettledStays DEF Write
    <2>2. CASE CreateEntity(mention) /\ Write(next_id, a) /\ UNCHANGED questions
      <3>1. {} \in SUBSET DOMAIN identity
        OBVIOUS
      <3>. QED BY <2>2, <3>1, NewSettled
    <2>. QED BY <1>0, <1>2, <2>1, <2>2 DEF RememberAs
  <1>3. ASSUME NEW r \in DOMAIN review, Confirm(r) PROVE Settled'
    BY <1>3, ConfirmSettled
  <1>4. ASSUME NEW r \in DOMAIN review, Reject(r) PROVE Settled'
    BY <1>4, RejectSettled
  <1>5. ASSUME NEW e \in Entities, NEW a \in Attributes, Forget(e, a) \/ Erase(e, a) PROVE Settled'
    BY <1>5, SettledStays DEF Forget, Erase
  <1>6. ASSUME NEW s \in Entities, NEW o \in Entities, Relate(s, o) PROVE Settled'
    BY <1>6, SettledStays DEF Relate
  <1>7. ASSUME NEW e \in Entities, EraseEdges(e) PROVE Settled'
    BY <1>7, SettledStays DEF EraseEdges
  <1>8. ASSUME NEW given \in SUBSET (0..(next_assertion - 1)), RebuildIndex(given) PROVE Settled'
    BY <1>8, SettledStays DEF RebuildIndex, stored
  <1>9. CASE Reopen
    BY <1>9, SettledStays DEF Reopen, stored
  <1>. QED BY <1>0, <1>1, <1>2, <1>3, <1>4, <1>5, <1>6, <1>7, <1>8, <1>9 DEF Next, Remember

(* No question is lost by a merge, nor the answer to one: what File asked  *)
(* is of one entity by now, or told apart, or open, once, of two that still*)
(* are two (file_review, confirm and reject).                              *)
THEOREM QuestionsAlwaysStand == Spec => []QuestionsStand
  <1>1. EngineInv /\ Settled => QuestionsStand
    BY DEF EngineInv, Questions, Settled, Stands, QuestionsStand
  <1>. QED BY <1>1, SettledInit, SettledStep, EngineInvariant, InitEngineInv, EngineStep, PTL DEF Spec

-----------------------------------------------------------------------------
(* Opening again. The blocking map as every call patches it: its keys are  *)
(* those some entity's record has, and each entity stands once under each  *)
(* key its record has.                                                     *)

Holding(ids, k) == {e \in DOMAIN ids : k \in KeysFor(ids[e])}

Once(s) ==
  /\ s \in Seq(Nat)
  /\ \A i, j \in DOMAIN s : s[i] = s[j] => i = j

Under(bs, ids) ==
  /\ \A k : k \in DOMAIN bs <=> Holding(ids, k) # {}
  /\ \A k \in DOMAIN bs : Once(bs[k]) /\ Elements(bs[k]) = Holding(ids, k)

(* A finite set of numbers can be listed from the lowest up, and its list  *)
(* has each of them once.                                                  *)
LEMMA Listed ==
  ASSUME NEW S \in SUBSET Nat, IsFiniteSet(S)
  PROVE  /\ Cardinality(S) \in Nat
         /\ Ascending(S) \in [1..Cardinality(S) -> S]
         /\ \A i, j \in 1..Cardinality(S) : i < j => Ascending(S)[i] < Ascending(S)[j]
         /\ \A x \in S : \E i \in 1..Cardinality(S) : Ascending(S)[i] = x
  <1> DEFINE c == Cardinality(S)
             before == [o \in S |-> {x \in S : x < o}]
             at(n) == CHOOSE o \in S : Cardinality(before[o]) = n - 1
             list == [n \in 1..c |-> at(n)]
             up(s) == \A i, j \in 1..c : i < j => s[i] < s[j]
  <1>1. c \in Nat
    BY FS_CardinalityType
  <1>2. /\ before \in [S -> SUBSET S] /\ \A o \in S : o \notin before[o]
        /\ \A o, p \in S : o # p => o \in before[p] \/ p \in before[o]
    OBVIOUS
  <1>3. \A o, p \in S : o \in before[p] => before[o] \subseteq before[p]
    <2> SUFFICES ASSUME NEW o \in S, NEW p \in S, NEW x \in S, o < p, x < o
                 PROVE  x < p
      OBVIOUS
    <2>. QED OBVIOUS
  <1>. HIDE DEF before, c, at
  <1>4. ASSUME NEW n \in 1..c PROVE at(n) \in S /\ Cardinality(before[at(n)]) = n - 1
    <2>1. n - 1 \in 0..(Cardinality(S) - 1)
      BY <1>1 DEF c
    <2>2. \A o \in S : o \notin before[o]
      BY <1>2
    <2>3. \A o, p \in S : o # p => o \in before[p] \/ p \in before[o]
      BY <1>2
    <2>4. before \in [S -> SUBSET S]
      BY <1>2
    <2>5. \A m \in 0..(Cardinality(S) - 1) : \E o \in S : Cardinality(before[o]) = m
      BY <1>3, <2>2, <2>3, <2>4, RankOnto, Zenon
    <2>. QED BY <2>1, <2>5 DEF at
  <1>5. list \in [1..c -> S]
    BY <1>4
  <1>6. up(list)
    <2>1. ASSUME NEW i \in 1..c, NEW j \in 1..c, i < j PROVE at(i) < at(j)
      <3>1. /\ at(i) \in S /\ at(j) \in S
            /\ Cardinality(before[at(i)]) = i - 1 /\ Cardinality(before[at(j)]) = j - 1
        BY <1>4
      <3>2. ASSUME ~(at(i) < at(j)) PROVE FALSE
        <4>1. before[at(j)] \subseteq before[at(i)]
          <5>0. at(i) \in Nat /\ at(j) \in Nat
            BY <3>1
          <5>1. at(j) <= at(i)
            BY <3>2, <5>0
          <5>2. \A x \in S : x \in Nat /\ (x < at(j) => x < at(i))
            BY <5>0, <5>1
          <5>. QED BY <3>1, <5>2 DEF before
        <4>2. IsFiniteSet(before[at(i)])
          BY <1>2, <3>1, FS_Subset
        <4>3. Cardinality(before[at(j)]) <= Cardinality(before[at(i)])
          BY <4>1, <4>2, FS_Subset
        <4>. QED BY <1>1, <2>1, <3>1, <4>3
      <3>. QED BY <3>2
    <2>. QED BY <2>1
  <1>7. Ascending(S) \in [1..c -> S] /\ up(Ascending(S))
    <2>1. \E s \in [1..c -> S] : \A i, j \in 1..c : i < j => s[i] < s[j]
      BY <1>5, <1>6
    <2>. QED BY <2>1 DEF Ascending, c
  <1>8. Ascending(S) \in Surjection(1..c, S)
    <2> DEFINE s == Ascending(S)
    <2>. HIDE DEF s
    <2>1. s \in [1..c -> S] /\ up(s)
      BY <1>7 DEF s
    <2>2. \A i, j \in 1..c : s[i] = s[j] => i = j
      <3> SUFFICES ASSUME NEW i \in 1..c, NEW j \in 1..c, s[i] = s[j], i # j PROVE FALSE
        OBVIOUS
      <3>1. i < j \/ j < i
        BY <1>1
      <3>2. s[i] \in Nat /\ s[j] \in Nat
        BY <2>1
      <3>. QED BY <2>1, <3>1, <3>2
    <2>3. s \in Injection(1..c, S)
      BY <2>1, <2>2 DEF Injection, IsInjective
    <2>4. IsFiniteSet(1..c) /\ Cardinality(1..c) = c
      <3>1. 1 \in Int /\ c \in Int
        BY <1>1
      <3>2. IsFiniteSet(1..c) /\ Cardinality(1..c) = IF 1 > c THEN 0 ELSE c - 1 + 1
        BY <3>1, FS_Interval
      <3>. QED BY <1>1, <3>2
    <2>5. Cardinality(1..c) = Cardinality(S)
      BY <2>4 DEF c
    <2>. QED BY <2>3, <2>5, FS_Injection DEF s
  <1>. QED BY <1>1, <1>7, <1>8 DEF Surjection, c

LEMMA ListedOnce ==
  ASSUME NEW S \in SUBSET Nat, IsFiniteSet(S)
  PROVE  Once(Ascending(S)) /\ Elements(Ascending(S)) = S
  <1> DEFINE s == Ascending(S)
             c == Cardinality(S)
  <1>1. /\ c \in Nat /\ s \in [1..c -> S]
        /\ \A i, j \in 1..c : i < j => s[i] < s[j]
        /\ \A x \in S : \E i \in 1..c : s[i] = x
    BY Listed
  <1>. HIDE DEF s, c
  <1>2. s \in Seq(Nat) /\ DOMAIN s = 1..c
    <2>1. s \in [1..c -> Nat]
      BY <1>1
    <2>. QED BY <1>1, <2>1, SeqDef
  <1>3. \A i, j \in DOMAIN s : s[i] = s[j] => i = j
    <2> SUFFICES ASSUME NEW i \in DOMAIN s, NEW j \in DOMAIN s, s[i] = s[j], i # j PROVE FALSE
      OBVIOUS
    <2>1. i \in 1..c /\ j \in 1..c /\ s[i] \in Nat /\ s[j] \in Nat
      BY <1>1, <1>2
    <2>2. i < j \/ j < i
      BY <1>1, <2>1
    <2>. QED BY <1>1, <2>1, <2>2
  <1>4. Elements(s) = S
    BY <1>1, <1>2 DEF Elements
  <1>. QED BY <1>2, <1>3, <1>4 DEF Once, s

(* What is left of a list without one is the list without it.              *)
LEMMA RestOnce ==
  ASSUME NEW s, Once(s), NEW e
  PROVE  Once(Rest(s, e)) /\ Elements(Rest(s, e)) = Elements(s) \ {e}
  <1> DEFINE S == {i \in DOMAIN s : s[i] # e}
             at == Ascending(S)
             r == Rest(s, e)
  <1>1. s \in Seq(Nat) /\ Len(s) \in Nat /\ DOMAIN s = 1..Len(s) /\ \A i \in DOMAIN s : s[i] \in Nat
    BY DEF Once
  <1>2. S \in SUBSET Nat /\ IsFiniteSet(S)
    <2>1. IsFiniteSet(1..Len(s))
      BY <1>1, FS_Interval
    <2>2. S \in SUBSET (1..Len(s))
      BY <1>1
    <2>. QED BY <2>1, <2>2, FS_Subset
  <1>. HIDE DEF S
  <1>3. Once(at) /\ Elements(at) = S
    BY <1>2, ListedOnce
  <1>. HIDE DEF at
  <1>4. at \in Seq(Nat) /\ Len(at) \in Nat /\ DOMAIN at = 1..Len(at)
    BY <1>3 DEF Once
  <1>5. \A n \in DOMAIN at : at[n] \in DOMAIN s /\ s[at[n]] # e
    BY <1>3 DEF Elements, S
  <1>6. \A i \in DOMAIN s : s[i] # e => \E n \in DOMAIN at : at[n] = i
    BY <1>3 DEF Elements, S
  <1>7. r = [n \in DOMAIN at |-> s[at[n]]]
    BY DEF Rest, at, S
  <1>. HIDE DEF r
  <1>8. r \in Seq(Nat) /\ DOMAIN r = DOMAIN at
    <2>1. r \in [1..Len(at) -> Nat]
      BY <1>1, <1>4, <1>5, <1>7
    <2>. QED BY <1>4, <2>1, SeqDef
  <1>9. \A i, j \in DOMAIN r : r[i] = r[j] => i = j
    BY <1>3, <1>5, <1>7, <1>8 DEF Once
  <1>10. Elements(r) = Elements(s) \ {e}
    BY <1>5, <1>6, <1>7, <1>8 DEF Elements
  <1>. QED BY <1>8, <1>9, <1>10 DEF Once, r

(* Two lists of the same things, each once, are as long.                   *)
LEMMA OnceAsLong ==
  ASSUME NEW s, NEW t, Once(s), Once(t), Elements(s) = Elements(t)
  PROVE  Len(s) = Len(t)
  <1>1. ASSUME NEW u, Once(u) PROVE Cardinality(Elements(u)) = Len(u)
    <2>1. u \in Seq(Nat) /\ Len(u) \in Nat /\ DOMAIN u = 1..Len(u) /\ u \in [1..Len(u) -> Nat]
      BY <1>1 DEF Once
    <2> DEFINE n == Len(u)
               E == Elements(u)
    <2>2. \A i, j \in 1..n : u[i] = u[j] => i = j
      BY <1>1, <2>1 DEF Once
    <2>3. u \in [1..n -> E] /\ \A x \in E : \E i \in 1..n : u[i] = x
      BY <2>1 DEF Elements
    <2>4. IsFiniteSet(1..n) /\ Cardinality(1..n) = n
      <3>1. 1 \in Int /\ n \in Int
        BY <2>1
      <3>2. IsFiniteSet(1..n) /\ Cardinality(1..n) = IF 1 > n THEN 0 ELSE n - 1 + 1
        BY <3>1, FS_Interval
      <3>. QED BY <2>1, <3>2
    <2>. HIDE DEF n, E
    <2>5. u \in Bijection(1..n, E)
      BY <2>2, <2>3 DEF Bijection, Injection, Surjection, IsInjective
    <2>6. ExistsBijection(1..n, E)
      BY <2>5 DEF ExistsBijection
    <2>7. Cardinality(E) = Cardinality(1..n)
      BY <2>4, <2>6, FS_Bijection
    <2>. QED BY <2>4, <2>7 DEF n, E
  <1>. QED BY <1>1

-----------------------------------------------------------------------------
(* The three ways the map changes.                                         *)

(* key_entity, of an entity whose record holds all it held.                *)
LEMMA KeyedUnder ==
  ASSUME NEW bs, NEW ids, NEW e \in Nat, NEW record, NEW now, Under(bs, ids),
         DOMAIN now = DOMAIN ids \cup {e}, now[e] = record,
         \A x \in DOMAIN ids \ {e} : now[x] = ids[x],
         e \in DOMAIN ids => KeysFor(ids[e]) \subseteq KeysFor(record)
  PROVE  Under(Keyed(bs, e, record), now)
  <1> DEFINE nb == Keyed(bs, e, record)
             keys == KeysFor(record)
             old(k) == IF k \in DOMAIN bs THEN bs[k] ELSE <<>>
  <1>1. /\ DOMAIN nb = DOMAIN bs \cup keys
        /\ \A k \in DOMAIN nb : nb[k] = IF k \in keys /\ e \notin Elements(old(k))
                                        THEN Append(old(k), e) ELSE old(k)
    BY DEF Keyed
  <1>. HIDE DEF nb
  <1>2. \A k : Holding(now, k) = IF k \in keys THEN Holding(ids, k) \cup {e} ELSE Holding(ids, k)
    BY DEF Holding
  <1>3. \A k : Once(old(k)) /\ Elements(old(k)) = Holding(ids, k)
    <2> TAKE k
    <2>1. CASE k \in DOMAIN bs
      BY <2>1 DEF Under
    <2>2. CASE k \notin DOMAIN bs
      <3>1. Holding(ids, k) = {}
        BY <2>2 DEF Under
      <3>. QED BY <2>2, <3>1 DEF Once, Elements
    <2>. QED BY <2>1, <2>2
  <1>4. \A k : k \in DOMAIN nb <=> Holding(now, k) # {}
    <2>1. \A k : k \in DOMAIN bs <=> Holding(ids, k) # {}
      BY DEF Under
    <2>. HIDE DEF keys
    <2>. QED BY <1>1, <1>2, <2>1
  <1>. HIDE DEF old, keys
  <1>5. ASSUME NEW k \in DOMAIN nb PROVE Once(nb[k]) /\ Elements(nb[k]) = Holding(now, k)
    <2> DEFINE o == old(k)
    <2>1. o \in Seq(Nat) /\ Len(o) \in Nat /\ DOMAIN o = 1..Len(o)
          /\ \A i, j \in DOMAIN o : o[i] = o[j] => i = j
      BY <1>3 DEF Once
    <2>2. Elements(o) = Holding(ids, k)
      BY <1>3
    <2>. HIDE DEF o
    <2>3. CASE k \in keys /\ e \notin Elements(o)
      <3> DEFINE g == Append(o, e)
      <3>1. nb[k] = g
        BY <1>1, <2>3 DEF o
      <3>2. g \in Seq(Nat) /\ DOMAIN g = 1..(Len(o) + 1) /\ g[Len(o) + 1] = e
            /\ \A i \in DOMAIN o : g[i] = o[i]
        BY <2>1
      <3>. HIDE DEF g
      <3>3. \A i \in DOMAIN o : o[i] # e
        BY <2>3 DEF Elements
      <3>4. \A i \in DOMAIN g : i \in DOMAIN o \/ i = Len(o) + 1
        BY <2>1, <3>2
      <3>5. Once(g)
        BY <2>1, <3>2, <3>3, <3>4 DEF Once
      <3>6. Elements(g) = Elements(o) \cup {e}
        <4>1. Len(o) + 1 \in DOMAIN g /\ DOMAIN o \subseteq DOMAIN g
          BY <2>1, <3>2
        <4>. QED BY <3>2, <3>4, <4>1 DEF Elements
      <3>. QED BY <1>2, <2>2, <2>3, <3>1, <3>5, <3>6
    <2>4. CASE ~(k \in keys /\ e \notin Elements(o))
      <3>1. nb[k] = o
        BY <1>1, <2>4 DEF o
      <3>2. Holding(now, k) = Holding(ids, k)
        BY <1>2, <2>2, <2>4
      <3>. QED BY <1>3, <2>2, <3>1, <3>2 DEF o
    <2>. QED BY <2>3, <2>4
  <1>. QED BY <1>4, <1>5 DEF Under, nb

LEMMA FoldKeeps ==
  ASSUME NEW r \in Record, NEW m \in Record
  PROVE  /\ KeysFor(r) \subseteq KeysFor(Fold(r, m))
         /\ DOMAIN m \subseteq DOMAIN r => Fold(r, m) = r
  <1>1. PICK F \in SUBSET Fields : r \in [F -> Values]
    BY DEF Record
  <1>2. DOMAIN Fold(r, m) = F \cup DOMAIN m /\ \A f \in F : Fold(r, m)[f] = r[f]
    BY <1>1 DEF Fold
  <1>3. KeysFor(r) \subseteq KeysFor(Fold(r, m))
    BY <1>1, <1>2 DEF KeysFor
  <1>4. ASSUME DOMAIN m \subseteq DOMAIN r PROVE Fold(r, m) = r
    BY <1>1, <1>4 DEF Fold
  <1>. QED BY <1>3, <1>4

(* remember_identity, which keys only what it learned.                     *)
LEMMA RememberUnder ==
  ASSUME NEW bs, NEW ids, ids \in [DOMAIN ids -> Record], NEW e \in DOMAIN ids, e \in Nat,
         NEW mention \in Record, Under(bs, ids), RememberIdentity(ids, bs, e, mention)
  PROVE  Under(blocks', identity') /\ DOMAIN identity' = DOMAIN ids
  <1>1. /\ identity' = [ids EXCEPT ![e] = Fold(@, mention)]
        /\ blocks' = IF DOMAIN mention \subseteq DOMAIN ids[e] THEN bs
                     ELSE Keyed(bs, e, Fold(ids[e], mention))
    BY DEF RememberIdentity
  <1>2. /\ DOMAIN identity' = DOMAIN ids /\ identity'[e] = Fold(ids[e], mention)
        /\ \A x \in DOMAIN ids \ {e} : identity'[x] = ids[x]
    BY <1>1
  <1>3. /\ KeysFor(ids[e]) \subseteq KeysFor(Fold(ids[e], mention))
        /\ DOMAIN mention \subseteq DOMAIN ids[e] => Fold(ids[e], mention) = ids[e]
    BY FoldKeeps
  <1>4. CASE DOMAIN mention \subseteq DOMAIN ids[e]
    <2>1. identity' = ids
      BY <1>1, <1>3, <1>4
    <2>. QED BY <1>1, <1>4, <2>1
  <1>5. CASE ~(DOMAIN mention \subseteq DOMAIN ids[e])
    <2>1. Under(Keyed(bs, e, Fold(ids[e], mention)), identity')
      BY <1>2, <1>3, KeyedUnder
    <2>. QED BY <1>1, <1>2, <1>5, <2>1
  <1>. QED BY <1>4, <1>5

(* confirm's strike.                                                       *)
LEMMA StruckUnder ==
  ASSUME NEW bs, NEW ids, NEW e, Under(bs, ids)
  PROVE  Under(Struck(bs, e), Without(ids, {e}))
  <1> DEFINE nb == Struck(bs, e)
             now == Without(ids, {e})
  <1>1. \A k : Holding(now, k) = Holding(ids, k) \ {e}
    BY DEF Holding, Without
  <1>2. ASSUME NEW k \in DOMAIN bs
        PROVE  Once(Rest(bs[k], e)) /\ Elements(Rest(bs[k], e)) = Holding(ids, k) \ {e}
    BY RestOnce DEF Under
  <1>3. ASSUME NEW k \in DOMAIN bs PROVE Rest(bs[k], e) = <<>> <=> Elements(Rest(bs[k], e)) = {}
    <2> DEFINE r == Rest(bs[k], e)
    <2>1. r \in Seq(Nat)
      BY <1>2 DEF Once
    <2>. HIDE DEF r
    <2>2. r = <<>> <=> DOMAIN r = {}
      BY <2>1
    <2>. QED BY <2>2 DEF Elements, r
  <1>4. /\ DOMAIN nb = {q \in DOMAIN bs : Rest(bs[q], e) # <<>>}
        /\ \A k \in DOMAIN nb : nb[k] = Rest(bs[k], e)
    BY DEF Struck
  <1>. HIDE DEF nb, now
  <1>5. \A k : k \in DOMAIN nb <=> Holding(now, k) # {}
    <2> TAKE k
    <2>1. k \in DOMAIN bs <=> Holding(ids, k) # {}
      BY DEF Under
    <2>. QED BY <1>1, <1>2, <1>3, <1>4, <2>1
  <1>. QED BY <1>1, <1>2, <1>4, <1>5 DEF Under, nb, now

(* rebuild_blocks.                                                         *)
LEMMA RebuiltUnder ==
  ASSUME NEW ids, NEW n \in Nat, DOMAIN ids \subseteq 0..(n - 1)
  PROVE  Under(Rebuilt(ids), ids)
  <1> DEFINE nb == Rebuilt(ids)
  <1>1. /\ DOMAIN nb = UNION {KeysFor(ids[e]) : e \in DOMAIN ids}
        /\ \A k \in DOMAIN nb : nb[k] = Ascending(Holding(ids, k))
    BY DEF Rebuilt, Holding
  <1>. HIDE DEF nb
  <1>2. \A k : Holding(ids, k) \in SUBSET Nat /\ IsFiniteSet(Holding(ids, k))
    <2> TAKE k
    <2>1. IsFiniteSet(0..(n - 1))
      BY FS_Interval
    <2>2. Holding(ids, k) \in SUBSET (0..(n - 1))
      BY DEF Holding
    <2>. QED BY <2>1, <2>2, FS_Subset
  <1>3. \A k : k \in DOMAIN nb <=> Holding(ids, k) # {}
    BY <1>1 DEF Holding
  <1>4. \A k \in DOMAIN nb : Once(nb[k]) /\ Elements(nb[k]) = Holding(ids, k)
    BY <1>1, <1>2, ListedOnce
  <1>. QED BY <1>3, <1>4 DEF Under, nb

-----------------------------------------------------------------------------
(* The index has the assertions' vectors, an assertion is of an entity that*)
(* is known, and the blocking map is what identity says.                   *)
InStep ==
  /\ index = DOMAIN assertions
  /\ \A i \in DOMAIN assertions : assertions[i].entity \in DOMAIN identity
  /\ Under(blocks, identity)

(* Writing of an entity that is known once the call is over.               *)
LEMMA WrittenInStep ==
  ASSUME InStep, NEW e, NEW a, Write(e, a), e \in DOMAIN identity',
         DOMAIN identity \subseteq DOMAIN identity'
  PROVE  /\ index' = DOMAIN assertions'
         /\ \A i \in DOMAIN assertions' : assertions'[i].entity \in DOMAIN identity'
  <1> DEFINE w == [entity |-> e, attribute |-> a, version |-> Len(History(e, a)) + 1]
  <1>1. assertions' = With(assertions, next_assertion, w) /\ index' = index \cup {next_assertion}
    BY DEF Write
  <1>2. w.entity = e
    OBVIOUS
  <1>. HIDE DEF w
  <1>3. /\ DOMAIN assertions' = DOMAIN assertions \cup {next_assertion}
        /\ \A i \in DOMAIN assertions' :
             assertions'[i] = IF i = next_assertion THEN w ELSE assertions[i]
    BY <1>1 DEF With
  <1>. QED BY <1>1, <1>2, <1>3 DEF InStep

LEMMA KnownInStep ==
  ASSUME EngineInv, InStep, NEW e \in DOMAIN identity, NEW a \in Attributes,
         NEW mention \in Mentions, Write(e, a), RememberIdentity(identity, blocks, e, mention)
  PROVE  InStep'
  <1>1. /\ identity \in [DOMAIN identity -> Record] /\ e \in Nat /\ mention \in Record
        /\ Under(blocks, identity)
    BY EngineAssumption DEF EngineInv, Absorptions, Entities, InStep
  <1>2. Under(blocks', identity') /\ DOMAIN identity' = DOMAIN identity
    BY <1>1, RememberUnder
  <1>3. /\ index' = DOMAIN assertions'
        /\ \A i \in DOMAIN assertions' : assertions'[i].entity \in DOMAIN identity'
    BY <1>2, WrittenInStep
  <1>. QED BY <1>2, <1>3 DEF InStep

LEMMA NewInStep ==
  ASSUME EngineInv, InStep, NEW a \in Attributes, NEW mention \in Mentions,
         CreateEntity(mention), Write(next_id, a)
  PROVE  InStep'
  <1>1. /\ identity' = With(identity, next_id, mention)
        /\ blocks' = Keyed(blocks, next_id, mention)
    BY DEF CreateEntity
  <1>2. next_id \in Nat /\ next_id \notin DOMAIN identity
    BY DEF EngineInv, Counters, Absorptions, Entities
  <1>3. /\ DOMAIN identity' = DOMAIN identity \cup {next_id} /\ identity'[next_id] = mention
        /\ \A x \in DOMAIN identity \ {next_id} : identity'[x] = identity[x]
    BY <1>1 DEF With
  <1>4. Under(blocks, identity)
    BY DEF InStep
  <1>5. Under(Keyed(blocks, next_id, mention), identity')
    BY <1>2, <1>3, <1>4, KeyedUnder
  <1>6. /\ index' = DOMAIN assertions'
        /\ \A i \in DOMAIN assertions' : assertions'[i].entity \in DOMAIN identity'
    BY <1>3, WrittenInStep
  <1>. QED BY <1>1, <1>5, <1>6 DEF InStep

LEMMA RememberInStep ==
  ASSUME EngineInv, InStep, NEW mention \in Mentions, NEW a \in Attributes, NEW fits \in BOOLEAN,
         Remember(mention, a, fits) \/ \E e \in Entities \cup {NoOne} : RememberAs(e, mention, a, fits)
  PROVE  InStep' \/ UNCHANGED vars
  <1>1. CASE Resolve(mention, a) /\ Matches(mention) # {}
    <2> DEFINE e == Best(mention)
    <2>1. e \in DOMAIN identity
      BY <1>1, BestMatches DEF EngineInv, Matches
    <2>2. Write(e, a) /\ RememberIdentity(identity, blocks, e, mention)
      BY <1>1 DEF Resolve
    <2>. HIDE DEF e
    <2>. QED BY <2>1, <2>2, KnownInStep
  <1>2. CASE Resolve(mention, a) /\ Matches(mention) = {}
    <2>1. CreateEntity(mention) /\ Write(next_id, a)
      BY <1>2 DEF Resolve
    <2>. QED BY <2>1, NewInStep
  <1>3. ASSUME NEW e \in Entities \cup {NoOne}, RememberAs(e, mention, a, fits)
        PROVE  InStep' \/ UNCHANGED vars
    <2>1. CASE e \in DOMAIN identity /\ RememberIdentity(identity, blocks, e, mention) /\ Write(e, a)
      BY <2>1, KnownInStep
    <2>2. CASE CreateEntity(mention) /\ Write(next_id, a)
      BY <2>2, NewInStep
    <2>. QED BY <1>3, <2>1, <2>2 DEF RememberAs
  <1>. QED BY <1>1, <1>2, <1>3 DEF Remember, Resolve

(* A merge: the absorbed goes from identity, the map and the assertions.   *)
LEMMA ConfirmInStep ==
  ASSUME EngineInv, InStep, NEW r \in DOMAIN review, Confirm(r)
  PROVE  InStep'
  <1> DEFINE kept == review[r][1]
             absorbed == review[r][2]
             rest == Without(identity, {absorbed})
  <1>1. /\ assertions' = Adopt(absorbed, kept) /\ index' = index
        /\ RememberIdentity(rest, Struck(blocks, absorbed), kept, identity[absorbed])
    BY DEF Confirm
  <1>2. /\ kept \in DOMAIN identity /\ absorbed \in DOMAIN identity /\ kept < absorbed
        /\ kept \in Nat /\ absorbed \in Nat
    BY DEF EngineInv, Questions, EachQuestionOnce, Absorptions, Entities
  <1>3. kept # absorbed
    BY <1>2
  <1>4. identity \in [DOMAIN identity -> Record] /\ identity[absorbed] \in Record
    BY <1>2 DEF EngineInv, Absorptions
  <1>. HIDE DEF kept, absorbed
  <1>5. /\ DOMAIN rest = DOMAIN identity \ {absorbed} /\ kept \in DOMAIN rest
        /\ rest \in [DOMAIN rest -> Record]
    BY <1>2, <1>3, <1>4 DEF Without
  <1>6. Under(Struck(blocks, absorbed), rest)
    BY StruckUnder DEF InStep
  <1>. HIDE DEF rest
  <1>7. Under(blocks', identity') /\ DOMAIN identity' = DOMAIN rest
    BY <1>1, <1>2, <1>4, <1>5, <1>6, RememberUnder
  <1>8. DOMAIN assertions' = DOMAIN assertions
    BY <1>1 DEF Adopt
  <1>9. \A i \in DOMAIN assertions' : assertions'[i].entity \in DOMAIN identity'
    <2> SUFFICES ASSUME NEW i \in DOMAIN assertions PROVE assertions'[i].entity \in DOMAIN identity'
      BY <1>8
    <2>1. assertions[i].entity \in DOMAIN identity
      BY DEF InStep
    <2>2. CASE assertions[i].entity = absorbed
      <3>1. assertions'[i].entity = kept
        BY <1>1, <2>2 DEF Adopt
      <3>. QED BY <1>5, <1>7, <3>1
    <2>3. CASE assertions[i].entity # absorbed
      <3>1. assertions'[i] = assertions[i]
        BY <1>1, <2>3 DEF Adopt
      <3>. QED BY <1>5, <1>7, <2>1, <2>3, <3>1
    <2>. QED BY <2>2, <2>3
  <1>. QED BY <1>1, <1>7, <1>8, <1>9 DEF InStep

LEMMA DropInStep ==
  ASSUME InStep, NEW e, NEW a, DropVectors(e, a), UNCHANGED known
  PROVE  InStep'
  <1>1. /\ DOMAIN assertions' \subseteq DOMAIN assertions /\ index' = DOMAIN assertions'
        /\ \A i \in DOMAIN assertions' : assertions'[i] = assertions[i]
    BY DEF DropVectors, Without, InStep
  <1>. QED BY <1>1 DEF InStep, known

LEMMA StaysInStep ==
  ASSUME InStep, UNCHANGED <<known, assertions, index>>
  PROVE  InStep'
  BY DEF InStep, known

LEMMA InStepStep == EngineInv /\ InStep /\ [Next]_vars => InStep'
  <1> SUFFICES ASSUME EngineInv, InStep, [Next]_vars PROVE InStep'
    OBVIOUS
  <1>0. CASE UNCHANGED vars
    BY <1>0, StaysInStep DEF vars, facts
  <1>1. ASSUME NEW mention \in Mentions, NEW a \in Attributes, NEW fits \in BOOLEAN,
               \/ Remember(mention, a, fits)
               \/ \E e \in Entities \cup {NoOne} : RememberAs(e, mention, a, fits)
        PROVE  InStep'
    <2>1. InStep' \/ UNCHANGED vars
      BY <1>1, RememberInStep
    <2>. QED BY <1>0, <2>1
  <1>2. ASSUME NEW r \in DOMAIN review, Confirm(r) PROVE InStep'
    BY <1>2, ConfirmInStep
  <1>3. ASSUME NEW r \in DOMAIN review, Reject(r) PROVE InStep'
    BY <1>3, StaysInStep DEF Reject, facts
  <1>4. ASSUME NEW e \in Entities, NEW a \in Attributes, Forget(e, a) \/ Erase(e, a) PROVE InStep'
    BY <1>4, DropInStep DEF Forget, Erase
  <1>5. ASSUME NEW s \in Entities, NEW o \in Entities, Relate(s, o) PROVE InStep'
    BY <1>5, StaysInStep DEF Relate, facts
  <1>6. ASSUME NEW e \in Entities, EraseEdges(e) PROVE InStep'
    BY <1>6, StaysInStep DEF EraseEdges, facts
  <1>7. ASSUME NEW given \in SUBSET (0..(next_assertion - 1)), RebuildIndex(given) PROVE InStep'
    <2>1. index' = index /\ UNCHANGED <<known, assertions>>
      BY <1>7 DEF RebuildIndex, InStep
    <2>. QED BY <2>1, StaysInStep
  <1>8. CASE Reopen
    <2>1. blocks' = Rebuilt(identity) /\ UNCHANGED <<identity, assertions, index>>
      BY <1>8 DEF Reopen, facts
    <2>2. next_id \in Nat /\ DOMAIN identity \subseteq 0..(next_id - 1)
      BY DEF EngineInv, Counters, Absorptions, Entities
    <2>3. Under(Rebuilt(identity), identity)
      BY <2>2, RebuiltUnder
    <2>. QED BY <2>1, <2>3 DEF InStep
  <1>. QED BY <1>0, <1>1, <1>2, <1>3, <1>4, <1>5, <1>6, <1>7, <1>8 DEF Next

LEMMA InStepReopens ==
  ASSUME EngineInv, InStep
  PROVE  ReopensAlike
  <1>1. Restorable
    <2>1. \A i \in DOMAIN assertions : i < next_assertion
      BY DEF EngineInv, AssertionsType, Counters
    <2>2. \A r \in DOMAIN review : r < next_review
      BY DEF EngineInv, Questions, Counters
    <2>3. DOMAIN identity \subseteq Entities
      BY DEF EngineInv, Absorptions
    <2>4. \A r \in DOMAIN review : {review[r][1], review[r][2]} \subseteq DOMAIN identity
      BY DEF EngineInv, Questions, EachQuestionOnce
    <2>5. ASSUME NEW i \in DOMAIN assertions
          PROVE  LET x == assertions[i] IN
                   /\ x.entity \in DOMAIN identity
                   /\ x.version <= Len(History(x.entity, x.attribute))
                   /\ i \in index
      <3> DEFINE h == History(assertions[i].entity, assertions[i].attribute)
      <3>1. h \in Seq(Wrote)
        BY HistoryType DEF EngineInv
      <3>2. assertions[i].version \in DOMAIN h
        BY DEF EngineInv, RecallReadsItsOwn
      <3>. HIDE DEF h
      <3>3. assertions[i].version <= Len(h)
        BY <3>1, <3>2
      <3>. QED BY <3>3 DEF InStep, h
    <2>6. Cardinality(index) = Cardinality(DOMAIN assertions)
      BY DEF InStep
    <2>. QED BY <2>1, <2>2, <2>3, <2>4, <2>5, <2>6 DEF Restorable
  <1>2. Under(blocks, identity)
    BY DEF InStep
  <1>3. Under(Rebuilt(identity), identity)
    <2>1. next_id \in Nat /\ DOMAIN identity \subseteq 0..(next_id - 1)
      BY DEF EngineInv, Counters, Absorptions, Entities
    <2>. QED BY <2>1, RebuiltUnder
  <1>4. /\ \A k : k \in DOMAIN blocks <=> k \in DOMAIN Rebuilt(identity)
        /\ \A k \in DOMAIN blocks : /\ Once(blocks[k]) /\ Once(Rebuilt(identity)[k])
                                    /\ Elements(blocks[k]) = Elements(Rebuilt(identity)[k])
    BY <1>2, <1>3 DEF Under
  <1>5. \A k \in DOMAIN blocks : Len(blocks[k]) = Len(Rebuilt(identity)[k])
    BY <1>4, OnceAsLong
  <1>6. DOMAIN blocks = DOMAIN Rebuilt(identity)
    BY <1>4
  <1>. QED BY <1>1, <1>4, <1>5, <1>6 DEF ReopensAlike, InStep

(* However long the engine ran, what it saved opens again, and opens with  *)
(* every assertion's vector and the blocking map it had: snapshot, restore *)
(* and rebuild_blocks against key_entity, remember_identity and confirm.   *)
THEOREM ReopensAlways == Spec => []ReopensAlike
  <1>1. Init => InStep
    BY DEF Init, InStep, Under, Holding
  <1>2. Spec => [](EngineInv /\ InStep)
    BY <1>1, InitEngineInv, EngineStep, InStepStep, PTL DEF Spec
  <1>3. EngineInv /\ InStep => ReopensAlike
    BY InStepReopens
  <1>. QED BY <1>2, <1>3, PTL
=============================================================================
