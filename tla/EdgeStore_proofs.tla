--------------------------- MODULE EdgeStore_proofs ---------------------------
(***************************************************************************)
(* The edge maps of MemoryStore open again as they are, and implement      *)
(* EdgeFacts, for any ids, predicates, times and snapshots. Both maps and  *)
(* both levels are what the triples with a log determine (Mirrors), so each*)
(* call is followed as what it makes of a set of triples: hooking one more,*)
(* unhooking some, pruning what none is left of. Then as what it makes of  *)
(* the facts the logs state: a stable sort is a permutation, and a merge   *)
(* moves no two triples to one place in either of its passes. Last, the    *)
(* walks over the edges, by induction over their levels.                   *)
(***************************************************************************)
EXTENDS Walk, FiniteSetTheorems, WellFoundedInduction, TLAPS

IsTriple(t) == t = <<t[1], t[2], t[3]>>

(* A log says something, and is a sequence of no matter what.              *)
NonEmpty(l) == \E S : l \in Seq(S) /\ l # <<>>
AllNonEmpty(ls) == \A t \in DOMAIN ls : NonEmpty(ls[t])

SubjectsOf(A) == {t[1] : t \in A}
SlotsOf(A) == {Slot(t) : t \in A}

(* Two-ended edges between entities there are.                             *)
Sound(A, es) == \A t \in A : IsTriple(t) /\ {t[1], t[3]} \subseteq es /\ t[1] # t[3]

Counts(es, n) == n \in Nat /\ \A e \in es : e \in Nat /\ e < n

Mirrors ==
  /\ into = Reverse(DOMAIN logs)
  /\ subjects = SubjectsOf(DOMAIN logs) /\ slots = SlotsOf(DOMAIN logs)

EdgeInv ==
  /\ Counts(entities, next_id)
  /\ Sound(DOMAIN logs, entities)
  /\ \A t \in DOMAIN logs : NonEmpty(logs[t])
  /\ Mirrors

-----------------------------------------------------------------------------
(* The reverse map of a set of triples                                     *)

LEMMA TripleBySlot ==
  ASSUME NEW t, NEW u, IsTriple(t), IsTriple(u), Slot(t) = Slot(u), t[3] = u[3]
  PROVE  t = u
<1>1. t[1] = u[1] /\ t[2] = u[2]
  BY DEF Slot
<1>2. QED
  BY <1>1 DEF IsTriple

LEMMA HookingReverses ==
  ASSUME NEW A, NEW B
  PROVE  Hooked(Reverse(A), B) = Reverse(A \cup B)
<1> DEFINE in == Reverse(A)
           all == A \cup B
<1>1. DOMAIN in \cup {t[3] : t \in B} = {t[3] : t \in all}
  BY DEF Reverse
<1>2. ASSUME NEW o \in {t[3] : t \in all}
      PROVE  (IF o \in DOMAIN in THEN in[o] ELSE {}) \cup {Slot(t) : t \in {a \in B : a[3] = o}}
               = {Slot(t) : t \in {u \in all : u[3] = o}}
  <2>1. (IF o \in DOMAIN in THEN in[o] ELSE {}) = {Slot(t) : t \in {u \in A : u[3] = o}}
    BY DEF Reverse
  <2>2. QED
    BY <2>1
<1>3. QED
  BY <1>1, <1>2 DEF Hooked, Reverse

LEMMA UnhookingReverses ==
  ASSUME NEW A, NEW B, B \subseteq A, \A t \in A : IsTriple(t)
  PROVE  Unhooked(Reverse(A), B) = Reverse(A \ B)
<1> DEFINE in == Reverse(A)
           left(o) == in[o] \ {Slot(t) : t \in {g \in B : g[3] = o}}
           rest == A \ B
<1>1. ASSUME NEW o \in DOMAIN in
      PROVE  left(o) = {Slot(t) : t \in {u \in rest : u[3] = o}}
  <2>1. in[o] = {Slot(t) : t \in {u \in A : u[3] = o}}
    BY DEF Reverse
  <2>2. ASSUME NEW t \in A, t[3] = o, NEW g \in B, g[3] = o, Slot(t) = Slot(g)
        PROVE  t \in B
    BY <2>2, TripleBySlot
  <2>3. QED
    BY <2>1, <2>2
<1>2. ASSUME NEW o \in DOMAIN in
      PROVE  (left(o) # {} \/ \A g \in B : g[3] # o) <=> o \in {t[3] : t \in rest}
  <2>1. left(o) # {} <=> o \in {t[3] : t \in rest}
    BY <1>1
  <2>2. (\A g \in B : g[3] # o) => o \in {t[3] : t \in rest}
    BY DEF Reverse
  <2>3. QED
    BY <2>1, <2>2
<1>3. {t[3] : t \in rest} \subseteq DOMAIN in
  BY DEF Reverse
<1>4. {x \in DOMAIN in : left(x) # {} \/ \A g \in B : g[3] # x} = {t[3] : t \in rest}
  BY <1>2, <1>3
<1>5. QED
  BY <1>1, <1>3, <1>4 DEF Unhooked, Reverse

(* Taking an object's entry away is forgetting what points at it.          *)
Dropped(in, e) == [o \in DOMAIN in \ {e} |-> in[o]]

LEMMA DroppingReverses ==
  ASSUME NEW A, NEW e
  PROVE  Dropped(Reverse(A), e) = Reverse({t \in A : t[3] # e})
<1> DEFINE rest == {t \in A : t[3] # e}
           in == Reverse(A)
<1>1. DOMAIN in \ {e} = {t[3] : t \in rest}
  BY DEF Reverse
<1>2. ASSUME NEW o \in {t[3] : t \in rest}
      PROVE  in[o] = {Slot(t) : t \in {u \in rest : u[3] = o}}
  <2>1. o # e /\ in[o] = {Slot(t) : t \in {u \in A : u[3] = o}}
    BY DEF Reverse
  <2>2. {u \in A : u[3] = o} = {u \in rest : u[3] = o}
    BY <2>1
  <2>3. QED
    BY <2>1, <2>2
<1>3. QED
  BY <1>1, <1>2 DEF Reverse, Dropped

(* Of an object, exactly the slots that point at it.                       *)
LEMMA SourcesOf ==
  ASSUME NEW A, NEW in, in = Reverse(A), NEW e
  PROVE  (IF e \in DOMAIN in THEN in[e] ELSE {}) = {Slot(t) : t \in {u \in A : u[3] = e}}
  BY DEF Reverse

-----------------------------------------------------------------------------
(* The levels of the forward map                                           *)

LEMMA PruningLeaves ==
  ASSUME NEW A, NEW B \in SUBSET A, NEW touched, SlotsOf(A \ B) \subseteq touched
  PROVE  /\ PrunedSlots(SlotsOf(A), B, touched) = SlotsOf(B)
         /\ PrunedSubjects(SubjectsOf(A), SlotsOf(B), touched) = SubjectsOf(B)
<1>1. PrunedSlots(SlotsOf(A), B, touched) = SlotsOf(B)
  BY DEF PrunedSlots, SlotsOf
<1>0. \A t : Slot(t)[1] = t[1]
  BY DEF Slot
<1>2. \A s : (\E sp \in SlotsOf(B) : sp[1] = s) <=> s \in SubjectsOf(B)
  BY <1>0 DEF SlotsOf, SubjectsOf
<1>3. \A t \in A \ B : \E sp \in touched : sp[1] = t[1]
  BY <1>0 DEF SlotsOf
<1>4. QED
  BY <1>1, <1>2, <1>3 DEF PrunedSubjects, SubjectsOf

-----------------------------------------------------------------------------
(* Logs                                                                    *)

LEMMA SequenceOf ==
  ASSUME NEW S, NEW n \in Nat, NEW f \in [1..n -> S]
  PROVE  f \in Seq(S) /\ Len(f) = n
  OBVIOUS

LEMMA Widened ==
  ASSUME NEW S, NEW T, NEW l \in Seq(S)
  PROVE  l \in Seq(S \cup T)
  OBVIOUS

LEMMA SaidIsNonEmpty ==
  ASSUME NEW l, l = <<>> \/ NonEmpty(l), NEW v
  PROVE  NonEmpty(Append(l, v))
<1>1. PICK S : l \in Seq(S)
  <2>1. CASE l = <<>>
    <3>1. l \in Seq({})
      BY <2>1
    <3>2. QED
      BY <3>1
  <2>2. CASE NonEmpty(l)
    BY <2>2 DEF NonEmpty
  <2>3. QED
    BY <2>1, <2>2
<1>2. l \in Seq(S \cup {v})
  BY <1>1, Widened
<1>3. Append(l, v) \in Seq(S \cup {v}) /\ Append(l, v) # <<>>
  BY <1>2
<1>4. QED
  BY <1>3 DEF NonEmpty

LEMMA AbsorbedIsNonEmpty ==
  ASSUME NEW l, l = <<>> \/ NonEmpty(l), NEW m, NonEmpty(m)
  PROVE  NonEmpty(Absorbed(l, m))
<1>1. CASE l = <<>>
  BY <1>1 DEF Absorbed
<1>2. CASE l # <<>>
  <2>1. PICK S : l \in Seq(S)
    BY <1>2 DEF NonEmpty
  <2>2. PICK T : m \in Seq(T)
    BY DEF NonEmpty
  <2> DEFINE c == l \o m
             place(k) == CHOOSE i \in DOMAIN c : Place(c, i) = k
             R == {c[place(k)] : k \in 1..Len(c)}
  <2>3. l \in Seq(S \cup T)
    BY <2>1, Widened
  <2>4. m \in Seq(S \cup T)
    BY <2>2, Widened
  <2>5. Len(l) \in Nat /\ Len(l) > 0 /\ Len(m) \in Nat
    BY <1>2, <2>1, <2>2
  <2>6. Len(c) \in Nat /\ Len(c) > 0
    BY <2>3, <2>4, <2>5
  <2>7. Sorted(c) \in [1..Len(c) -> R]
    BY DEF Sorted
  <2> HIDE DEF c, R
  <2>8. Sorted(c) \in Seq(R) /\ Sorted(c) # <<>>
    BY <2>6, <2>7, SequenceOf
  <2>9. QED
    BY <1>2, <2>8 DEF Absorbed, NonEmpty, c
<1>3. QED
  BY <1>1, <1>2

Landed(gone, from, to) ==
  {Moved(t, from, to) : t \in {u \in gone : Moved(u, from, to)[1] # Moved(u, from, to)[3]}}

LEMMA LandedIsSound ==
  ASSUME NEW es, NEW A, Sound(A, es), NEW gone \in SUBSET A, NEW from, NEW to \in es
  PROVE  Sound(Landed(gone, from, to), es)
<1>1. ASSUME NEW t \in gone, Moved(t, from, to)[1] # Moved(t, from, to)[3]
      PROVE  /\ IsTriple(Moved(t, from, to)) /\ Moved(t, from, to)[1] \in es
             /\ Moved(t, from, to)[3] \in es
  BY DEF Moved, IsTriple, Sound
<1>2. QED
  BY <1>1 DEF Landed, Sound

(* Where the triples of one pass are put, and that they have something to  *)
(* say there.                                                              *)
LEMMA ArrivedAt ==
  ASSUME NEW l, NEW gone, NEW from, NEW to
  PROVE  DOMAIN Arrived(l, gone, from, to) = (DOMAIN l \ gone) \cup Landed(gone, from, to)
  BY DEF Arrived, Landed

LEMMA ArrivedSays ==
  ASSUME NEW l, NEW gone \in SUBSET DOMAIN l, NEW from, NEW to, AllNonEmpty(l),
         NEW u \in DOMAIN Arrived(l, gone, from, to)
  PROVE  NonEmpty(Arrived(l, gone, from, to)[u])
<1> DEFINE arriving == {v \in gone : Moved(v, from, to)[1] # Moved(v, from, to)[3]}
           rest == DOMAIN l \ gone
           landed == {Moved(t, from, to) : t \in arriving}
           a == Arrived(l, gone, from, to)
<1>1. a = [v \in rest \cup landed |->
             IF v \notin landed THEN l[v]
             ELSE LET t == CHOOSE t \in arriving : Moved(t, from, to) = v
                  IN Absorbed(IF v \in rest THEN l[v] ELSE <<>>, l[t])]
  BY DEF Arrived
<1>2. u \in rest \cup landed
  BY <1>1
<1>3. CASE u \in landed
  <2> DEFINE t == CHOOSE t \in arriving : Moved(t, from, to) = u
             old == IF u \in rest THEN l[u] ELSE <<>>
  <2>1. a[u] = Absorbed(old, l[t])
    BY <1>1, <1>3
  <2>2. t \in DOMAIN l
    <3>1. \E v \in arriving : Moved(v, from, to) = u
      BY <1>3
    <3>2. QED
      BY <3>1
  <2>3. NonEmpty(l[t])
    BY <2>2 DEF AllNonEmpty
  <2>4. old = <<>> \/ NonEmpty(old)
    BY DEF AllNonEmpty
  <2> HIDE DEF t, old
  <2>5. QED
    BY <2>1, <2>3, <2>4, AbsorbedIsNonEmpty
<1>4. CASE u \notin landed
  BY <1>1, <1>2, <1>4 DEF AllNonEmpty
<1>5. QED
  BY <1>3, <1>4

-----------------------------------------------------------------------------
(* The calls                                                               *)

LEMMA EdgeInvInit == EdgesInit => EdgeInv
<1> SUFFICES ASSUME EdgesInit PROVE EdgeInv
  OBVIOUS
<1>1. DOMAIN logs = {} /\ entities = {} /\ next_id = 0
  BY DEF EdgesInit
<1>2. into = Reverse(DOMAIN logs)
  BY <1>1 DEF EdgesInit, Reverse
<1>3. subjects = {} /\ slots = {}
  BY DEF EdgesInit
<1>4. QED
  BY <1>1, <1>2, <1>3 DEF EdgeInv, Counts, Sound, Mirrors, SubjectsOf, SlotsOf

LEMMA NothingChanges == EdgeInv /\ UNCHANGED edgeVars => EdgeInv'
  BY DEF EdgeInv, edgeVars, svars, forward, Counts, Sound, Mirrors

LEMMA CreatingKeeps == EdgeInv /\ CreateEntity => EdgeInv'
<1> SUFFICES ASSUME EdgeInv, CreateEntity PROVE EdgeInv'
  OBVIOUS
<1>1. /\ next_id \in Nat /\ entities' = entities \cup {next_id} /\ next_id' = next_id + 1
      /\ UNCHANGED <<logs, subjects, slots, into>>
  BY EdgeAssumption DEF CreateEntity, forward
<1>2. Counts(entities', next_id')
  BY <1>1 DEF EdgeInv, Counts
<1>3. Sound(DOMAIN logs, entities')
  BY <1>1 DEF EdgeInv, Sound
<1>4. QED
  BY <1>1, <1>2, <1>3 DEF EdgeInv, Mirrors

LEMMA SayingKeeps ==
  ASSUME EdgeInv, NEW s, NEW p, NEW o, NEW version, PushEdge(s, p, o, version)
  PROVE  EdgeInv'
<1> DEFINE t == <<s, p, o>>
<1>1. CASE Refuse
  BY <1>1, NothingChanges DEF Refuse
<1>2. CASE /\ {s, o} \subseteq entities /\ s # o
           /\ logs' = [u \in DOMAIN logs \cup {t} |->
                         IF u = t THEN Append(LogOf(t), version) ELSE logs[u]]
           /\ subjects' = subjects \cup {s} /\ slots' = slots \cup {<<s, p>>}
           /\ into' = Hooked(into, {t}) /\ UNCHANGED <<entities, next_id>>
  <2>1. DOMAIN logs' = DOMAIN logs \cup {t}
    BY <1>2
  <2>2. IsTriple(t) /\ Slot(t) = <<s, p>> /\ t[1] = s /\ t[3] = o
    BY DEF IsTriple, Slot
  <2>3. Sound(DOMAIN logs', entities')
    BY <1>2, <2>1, <2>2 DEF EdgeInv, Sound
  <2>4. LogOf(t) = <<>> \/ NonEmpty(LogOf(t))
    BY DEF LogOf, EdgeInv
  <2>5. NonEmpty(Append(LogOf(t), version))
    BY <2>4, SaidIsNonEmpty
  <2>6. \A u \in DOMAIN logs' : NonEmpty(logs'[u])
    BY <1>2, <2>5 DEF EdgeInv
  <2>7. into' = Reverse(DOMAIN logs')
    BY <1>2, <2>1, HookingReverses DEF EdgeInv, Mirrors
  <2>8. subjects' = SubjectsOf(DOMAIN logs') /\ slots' = SlotsOf(DOMAIN logs')
    <3> HIDE DEF t
    <3>1. subjects' = SubjectsOf(DOMAIN logs) \cup {t[1]} /\ slots' = SlotsOf(DOMAIN logs) \cup {Slot(t)}
      BY <1>2, <2>2 DEF EdgeInv, Mirrors
    <3>2. QED
      BY <2>1, <3>1 DEF SubjectsOf, SlotsOf
  <2>9. Counts(entities', next_id')
    BY <1>2 DEF EdgeInv
  <2>10. QED
    BY <2>3, <2>6, <2>7, <2>8, <2>9 DEF EdgeInv, Mirrors
<1>3. QED
  BY <1>1, <1>2 DEF PushEdge

(* A deletion leaves the triples that do not touch the entity: by its own  *)
(* subtree, and by what the reverse map says still points at it.           *)
LEMMA ErasingKeeps ==
  ASSUME EdgeInv, NEW e, EraseEdges(e)
  PROVE  EdgeInv'
<1> DEFINE A == DOMAIN logs
           outgoing == {t \in A : t[1] = e}
           B == A \ outgoing
           into1 == Unhooked(into, outgoing)
           sources == IF e \in DOMAIN into1 THEN into1[e] ELSE {}
           incoming == {t \in A \ outgoing : t[3] = e /\ Slot(t) \in sources}
           left == A \ (outgoing \cup incoming)
           slots1 == {sp \in slots : sp[1] # e}
<1>1. CASE Refuse
  BY <1>1, NothingChanges DEF Refuse
<1>2. CASE /\ logs' = Without(logs, outgoing \cup incoming)
           /\ slots' = PrunedSlots(slots1, left, sources)
           /\ subjects' = PrunedSubjects(subjects \ {e}, slots', sources)
           /\ into' = [o \in DOMAIN into1 \ {e} |-> into1[o]]
           /\ UNCHANGED <<entities, next_id>>
  <2>1. \A t \in A : IsTriple(t)
    BY DEF EdgeInv, Sound
  <2>2. into1 = Reverse(B)
    BY <2>1, UnhookingReverses DEF EdgeInv, Mirrors
  <2>3. sources = {Slot(t) : t \in {u \in B : u[3] = e}}
    <3> HIDE DEF into1, B
    <3>1. QED
      BY <2>2, SourcesOf
  <2>4. incoming = {t \in B : t[3] = e} /\ left = {t \in B : t[3] # e}
    BY <2>3
  <2>5. DOMAIN logs' = left /\ \A t \in left : logs'[t] = logs[t]
    BY <1>2 DEF Without
  <2>6. into' = Reverse(left)
    <3>1. into' = Dropped(into1, e) /\ left = {t \in B : t[3] # e}
      BY <1>2, <2>4 DEF Dropped
    <3> HIDE DEF into1, left, B
    <3>2. QED
      BY <2>2, <3>1, DroppingReverses
  <2>7. slots1 = SlotsOf(B) /\ subjects \ {e} = SubjectsOf(B)
    <3>1. \A t : Slot(t)[1] = t[1]
      BY DEF Slot
    <3>2. QED
      BY <3>1 DEF EdgeInv, Mirrors, SlotsOf, SubjectsOf
  <2>8. SlotsOf(B \ left) \subseteq sources /\ left \in SUBSET B
    BY <2>3, <2>4 DEF SlotsOf
  <2>9. slots' = SlotsOf(left) /\ subjects' = SubjectsOf(left)
    <3> HIDE DEF B, left, sources, slots1
    <3>1. slots' = PrunedSlots(SlotsOf(B), left, sources)
      BY <1>2, <2>7
    <3>2. slots' = SlotsOf(left)
      BY <2>8, <3>1, PruningLeaves
    <3>3. subjects' = PrunedSubjects(SubjectsOf(B), SlotsOf(left), sources)
      BY <1>2, <2>7, <3>2
    <3>4. QED
      BY <2>8, <3>2, <3>3, PruningLeaves
  <2>10. Sound(left, entities) /\ \A t \in left : NonEmpty(logs[t])
    BY DEF EdgeInv, Sound
  <2>11. Counts(entities', next_id')
    BY <1>2 DEF EdgeInv
  <2> HIDE DEF left
  <2>12. QED
    BY <1>2, <2>5, <2>6, <2>9, <2>10, <2>11 DEF EdgeInv, Mirrors
<1>3. QED
  BY <1>1, <1>2 DEF EraseEdges

(* A merge is two passes, over what points from an entity and over what    *)
(* points at it once the first has landed, so that no triple moves twice.  *)
LEMMA RepointingKeeps ==
  ASSUME EdgeInv, NEW from, NEW to, RepointEdges(from, to)
  PROVE  EdgeInv'
<1> DEFINE A == DOMAIN logs
           outgoing == {t \in A : t[1] = from}
           landed1 == {<<to, t[2], t[3]>> : t \in {u \in outgoing : u[3] # to}}
           logs1 == Arrived(logs, outgoing, from, to)
           subjects1 == (subjects \ {from}) \cup {t[1] : t \in landed1}
           slots1 == {sp \in slots : sp[1] # from} \cup {Slot(t) : t \in landed1}
           into1 == Hooked(Unhooked(into, outgoing), landed1)
           sources == IF from \in DOMAIN into1 THEN into1[from] ELSE {}
           incoming == {t \in DOMAIN logs1 : t[3] = from /\ Slot(t) \in sources}
           landed2 == {<<t[1], t[2], to>> : t \in {u \in incoming : u[1] # to}}
           slots2 == PrunedSlots(slots1, DOMAIN logs1 \ incoming, sources)
           B == (A \ outgoing) \cup landed1
           rest == {t \in B : t[3] # from}
           C == rest \cup landed2
<1>1. CASE Refuse
  BY <1>1, NothingChanges DEF Refuse
<1>2. CASE /\ {from, to} \subseteq entities /\ from # to
           /\ logs' = Arrived(logs1, incoming, from, to)
           /\ slots' = slots2 \cup {Slot(t) : t \in landed2}
           /\ subjects' = PrunedSubjects(subjects1, slots2, sources) \cup {t[1] : t \in landed2}
           /\ into' = Hooked([o \in DOMAIN into1 \ {from} |-> into1[o]], landed2)
           /\ UNCHANGED <<entities, next_id>>
  <2>1. Sound(A, entities) /\ \A t \in A : NonEmpty(logs[t])
    BY DEF EdgeInv
  <2>2. landed1 = Landed(outgoing, from, to)
    <3>1. \A t \in outgoing : Moved(t, from, to) = <<to, t[2], t[3]>>
      BY <2>1 DEF Sound, Moved
    <3>2. \A t \in outgoing : Moved(t, from, to)[1] # Moved(t, from, to)[3] <=> t[3] # to
      BY <3>1
    <3>3. QED
      BY <3>1, <3>2 DEF Landed
  <2>3. DOMAIN logs1 = B /\ \A u \in B : NonEmpty(logs1[u])
    <3>1. outgoing \in SUBSET DOMAIN logs /\ AllNonEmpty(logs)
      BY <2>1 DEF AllNonEmpty
    <3>2. B = (DOMAIN logs \ outgoing) \cup Landed(outgoing, from, to)
      BY <2>2
    <3>3. logs1 = Arrived(logs, outgoing, from, to)
      OBVIOUS
    <3>4. DOMAIN Arrived(logs, outgoing, from, to) = (DOMAIN logs \ outgoing) \cup Landed(outgoing, from, to)
      BY DEF Arrived, Landed
    <3> HIDE DEF outgoing, landed1, logs1, A, B
    <3>5. DOMAIN logs1 = B
      BY <3>2, <3>3, <3>4
    <3>6. QED
      BY <3>1, <3>3, <3>5, ArrivedSays
  <2>4. Sound(B, entities)
    <3>1. outgoing \in SUBSET A /\ to \in entities
      BY <1>2
    <3> HIDE DEF A, outgoing, landed1
    <3>2. Sound(landed1, entities)
      BY <2>1, <2>2, <3>1, LandedIsSound
    <3>3. QED
      BY <2>1, <3>2 DEF Sound
  <2>5. into1 = Reverse(B)
    <3>1. Unhooked(into, outgoing) = Reverse(A \ outgoing)
      BY <2>1, UnhookingReverses DEF EdgeInv, Mirrors, Sound
    <3>2. QED
      BY <3>1, HookingReverses
  <2>6. sources = {Slot(t) : t \in {u \in B : u[3] = from}}
    <3> HIDE DEF into1, B
    <3>1. QED
      BY <2>5, SourcesOf
  <2>7. incoming = {t \in B : t[3] = from} /\ B \ incoming = rest
    BY <2>3, <2>6
  <2>8. landed2 = Landed(incoming, from, to)
    <3> HIDE DEF B
    <3>1. \A t \in incoming : Moved(t, from, to) = <<t[1], t[2], to>>
      BY <2>4, <2>7 DEF Sound, Moved
    <3>2. \A t \in incoming : Moved(t, from, to)[1] # Moved(t, from, to)[3] <=> t[1] # to
      BY <3>1
    <3>3. QED
      BY <3>1, <3>2 DEF Landed
  <2>9. DOMAIN logs' = C /\ \A u \in C : NonEmpty(logs'[u])
    <3>1. incoming \in SUBSET DOMAIN logs1 /\ AllNonEmpty(logs1)
      BY <2>3 DEF AllNonEmpty
    <3>2. C = (DOMAIN logs1 \ incoming) \cup Landed(incoming, from, to)
      BY <2>3, <2>7, <2>8
    <3>3. logs' = Arrived(logs1, incoming, from, to)
      BY <1>2
    <3> HIDE DEF incoming, landed2, logs1, B, C
    <3>4. DOMAIN logs' = C
      <4>1. DOMAIN Arrived(logs1, incoming, from, to) = (DOMAIN logs1 \ incoming) \cup Landed(incoming, from, to)
        BY ArrivedAt
      <4>2. QED
        BY <3>2, <3>3, <4>1
    <3>5. QED
      BY <3>1, <3>3, <3>4, ArrivedSays
  <2>10. Sound(C, entities)
    <3>1. incoming \in SUBSET B /\ rest \in SUBSET B
      BY <2>7
    <3> HIDE DEF B, incoming, landed2, rest
    <3>2. Sound(landed2, entities)
      BY <1>2, <2>4, <2>8, <3>1, LandedIsSound
    <3>3. QED
      BY <2>4, <3>1, <3>2 DEF Sound
  <2>11. into' = Reverse(C)
    <3>1. into' = Hooked(Dropped(into1, from), landed2) /\ rest = {t \in B : t[3] # from}
      BY <1>2 DEF Dropped
    <3> HIDE DEF into1, landed2, B, rest
    <3>2. Dropped(into1, from) = Reverse(rest)
      BY <2>5, <3>1, DroppingReverses
    <3>3. QED
      BY <3>1, <3>2, HookingReverses
  <2>12. slots1 = SlotsOf(B) /\ subjects1 = SubjectsOf(B)
    <3>1. \A t : Slot(t)[1] = t[1]
      BY DEF Slot
    <3>2. {sp \in slots : sp[1] # from} = SlotsOf(A \ outgoing)
      BY <3>1 DEF EdgeInv, Mirrors, SlotsOf
    <3>3. subjects \ {from} = SubjectsOf(A \ outgoing)
      BY DEF EdgeInv, Mirrors, SubjectsOf
    <3> HIDE DEF outgoing, landed1
    <3>4. QED
      BY <3>2, <3>3 DEF SlotsOf, SubjectsOf
  <2>13. slots2 = SlotsOf(rest) /\ PrunedSubjects(subjects1, slots2, sources) = SubjectsOf(rest)
    <3>1. SlotsOf(B \ rest) \subseteq sources /\ rest \in SUBSET B
      BY <2>6 DEF SlotsOf
    <3> HIDE DEF B, rest, sources, slots1, subjects1, logs1, incoming
    <3>2. slots2 = SlotsOf(rest)
      BY <2>3, <2>7, <2>12, <3>1, PruningLeaves
    <3> HIDE DEF slots2
    <3>3. QED
      BY <2>12, <3>1, <3>2, PruningLeaves
  <2>14. slots' = SlotsOf(C) /\ subjects' = SubjectsOf(C)
    <3> HIDE DEF rest, landed2, slots2, subjects1, sources
    <3>1. slots' = SlotsOf(rest) \cup SlotsOf(landed2) /\ subjects' = SubjectsOf(rest) \cup SubjectsOf(landed2)
      BY <1>2, <2>13 DEF SlotsOf, SubjectsOf
    <3>2. QED
      BY <3>1 DEF SlotsOf, SubjectsOf
  <2>15. Counts(entities', next_id')
    BY <1>2 DEF EdgeInv
  <2> HIDE DEF C
  <2>16. QED
    BY <1>2, <2>9, <2>10, <2>11, <2>14, <2>15 DEF EdgeInv, Mirrors
<1>3. QED
  BY <1>1, <1>2 DEF RepointEdges

(* What open accepts is a store as the calls could have left it.           *)
LEMMA OpeningKeeps ==
  ASSUME EdgeInv, NEW f \in Snapshots, Open(f)
  PROVE  EdgeInv'
<1>1. CASE Refuse
  BY <1>1, NothingChanges DEF Refuse
<1>2. CASE /\ Openable(f)
           /\ entities' = f.entities /\ next_id' = f.next_id
           /\ logs' = f.logs /\ subjects' = f.subjects /\ slots' = f.slots
           /\ into' = Reverse(DOMAIN f.logs)
  <2>1. Parses(f)
    BY EdgeAssumption
  <2>2. Counts(f.entities, f.next_id)
    BY <1>2, <2>1, EdgeAssumption DEF Parses, Openable, Counts
  <2>3. \A t \in DOMAIN f.logs : IsTriple(t) /\ Slot(t)[1] = t[1]
    BY <2>1 DEF Parses, Triple, IsTriple, Slot
  <2>4. \A t \in DOMAIN f.logs : Slot(t) \in f.slots /\ t[1] \in f.subjects
    BY <2>1, <2>3 DEF Parses
  <2>5. Sound(DOMAIN f.logs, f.entities)
    BY <1>2, <2>3, <2>4 DEF Openable, Sound
  <2>6. \A t \in DOMAIN f.logs : NonEmpty(f.logs[t])
    BY <1>2, <2>1 DEF Parses, Openable, NonEmpty
  <2>7. f.slots = SlotsOf(DOMAIN f.logs)
    BY <1>2, <2>4 DEF Openable, SlotsOf
  <2>8. f.subjects = SubjectsOf(DOMAIN f.logs)
    <3>1. \A s \in f.subjects : \E t \in DOMAIN f.logs : t[1] = s
      BY <1>2, <2>3 DEF Openable
    <3>2. QED
      BY <2>4, <3>1 DEF SubjectsOf
  <2>9. QED
    BY <1>2, <2>2, <2>5, <2>6, <2>7, <2>8 DEF EdgeInv, Mirrors
<1>3. QED
  BY <1>1, <1>2 DEF Open

LEMMA EdgeInvStep == EdgeInv /\ [EdgesNext]_edgeVars => EdgeInv'
  BY NothingChanges, CreatingKeeps, SayingKeeps, ErasingKeeps, RepointingKeeps, OpeningKeeps
  DEF EdgesNext, Relate, Unrelate

LEMMA InvReopens == EdgeInv => Reopens
<1> SUFFICES ASSUME EdgeInv PROVE Reopens
  OBVIOUS
<1> DEFINE f == [entities |-> entities, next_id |-> next_id, logs |-> logs,
                 subjects |-> subjects, slots |-> slots]
<1>1. \A t \in DOMAIN logs : logs[t] # <<>>
  BY DEF EdgeInv, NonEmpty
<1>2. \A t : Slot(t)[1] = t[1]
  BY DEF Slot
<1>3. Openable(f)
  BY <1>1, <1>2 DEF Openable, EdgeInv, Counts, Sound, Mirrors, SubjectsOf, SlotsOf
<1>4. QED
  BY <1>3 DEF Reopens, EdgeInv, Mirrors, SubjectsOf, SlotsOf

(* Whatever was said, deleted and merged, in whatever order and from       *)
(* whatever snapshot, the store saved now opens as itself.                 *)
THEOREM OpensAgain == EdgesSpec => []Reopens
<1>1. EdgeInv /\ [EdgesNext]_edgeVars => EdgeInv'
  BY EdgeInvStep
<1>2. QED
  BY <1>1, EdgeInvInit, InvReopens, PTL DEF EdgesSpec

-----------------------------------------------------------------------------
(* A sorted log says what it said                                          *)

Says(l) == {l[i] : i \in DOMAIN l}
UpTo(c, i) == {j \in DOMAIN c : c[j].at < c[i].at \/ (c[j].at = c[i].at /\ j <= i)}

LEMMA VersionsAreTimed ==
  ASSUME NEW c \in Seq(Version), NEW k \in DOMAIN c
  PROVE  c[k] \in Version /\ c[k].at \in Nat /\ k \in Nat
<1>1. c[k] \in Version /\ k \in Nat
  OBVIOUS
<1>2. c[k].at \in Times
  BY <1>1 DEF Version
<1>3. QED
  BY <1>1, <1>2, EdgeAssumption

LEMMA PlacesDiffer ==
  ASSUME NEW c \in Seq(Version), NEW i \in DOMAIN c, NEW j \in DOMAIN c,
         c[i].at < c[j].at \/ (c[i].at = c[j].at /\ i < j)
  PROVE  Place(c, i) < Place(c, j)
<1>1. \A k \in DOMAIN c : c[k].at \in Nat /\ k \in Nat
  BY VersionsAreTimed
<1>2. UpTo(c, i) \subseteq UpTo(c, j) /\ j \in UpTo(c, j) /\ j \notin UpTo(c, i)
  BY <1>1 DEF UpTo
<1>3. IsFiniteSet(UpTo(c, j))
  <2>1. IsFiniteSet(1..Len(c)) /\ UpTo(c, j) \subseteq 1..Len(c)
    <3>1. Len(c) \in Int /\ 1 \in Int /\ DOMAIN c = 1..Len(c)
      OBVIOUS
    <3>2. QED
      BY <3>1, FS_Interval DEF UpTo
  <2>2. QED
    BY <2>1, FS_Subset
<1>4. /\ Cardinality(UpTo(c, i)) \in Nat /\ Cardinality(UpTo(c, j)) \in Nat
      /\ Cardinality(UpTo(c, i)) <= Cardinality(UpTo(c, j))
      /\ Cardinality(UpTo(c, j)) # Cardinality(UpTo(c, i))
  BY <1>2, <1>3, FS_Subset, FS_CardinalityType
<1>5. QED
  BY <1>4 DEF Place, UpTo

LEMMA PlacesAreAll ==
  ASSUME NEW c \in Seq(Version)
  PROVE  /\ \A i, j \in DOMAIN c : Place(c, i) = Place(c, j) => i = j
         /\ \A k \in DOMAIN c : \E i \in DOMAIN c : Place(c, i) = k
         /\ \A i \in DOMAIN c : Place(c, i) \in DOMAIN c
<1> DEFINE n == Len(c)
<1>1. n \in Nat /\ DOMAIN c = 1..n
  OBVIOUS
<1>2. ASSUME NEW i \in DOMAIN c, NEW j \in DOMAIN c, i # j PROVE Place(c, i) # Place(c, j)
  <2>1. c[i].at \in Nat /\ c[j].at \in Nat /\ i \in Nat /\ j \in Nat
    BY VersionsAreTimed
  <2>2. \/ c[i].at < c[j].at \/ (c[i].at = c[j].at /\ i < j)
        \/ c[j].at < c[i].at \/ (c[j].at = c[i].at /\ j < i)
    BY <1>2, <2>1
  <2>3. Place(c, i) \in Nat /\ Place(c, j) \in Nat
    <3>1. IsFiniteSet(1..n)
      BY <1>1, FS_Interval
    <3>2. \A k \in DOMAIN c : IsFiniteSet(UpTo(c, k))
      BY <1>1, <3>1, FS_Subset DEF UpTo
    <3>3. QED
      BY <3>2, FS_CardinalityType DEF Place, UpTo
  <2>4. Place(c, i) < Place(c, j) \/ Place(c, j) < Place(c, i)
    BY <2>2, PlacesDiffer
  <2>5. QED
    BY <2>3, <2>4
<1>3. ASSUME NEW i \in DOMAIN c PROVE Place(c, i) \in 1..n
  <2>1. UpTo(c, i) \subseteq 1..n /\ i \in UpTo(c, i) /\ IsFiniteSet(1..n) /\ Cardinality(1..n) = n
    <3>1. i \in Nat /\ c[i].at = c[i].at
      BY VersionsAreTimed
    <3>2. UpTo(c, i) \subseteq 1..n /\ i \in UpTo(c, i)
      BY <1>1, <3>1 DEF UpTo
    <3>3. 1 \in Int /\ n \in Int /\ (1 > n => 1..n = {}) /\ n - 1 + 1 = n
      BY <1>1
    <3>4. IsFiniteSet(1..n) /\ Cardinality(1..n) = n
      BY <1>1, <3>2, <3>3, FS_Interval
    <3>5. QED
      BY <3>2, <3>4
  <2>2. IsFiniteSet(UpTo(c, i)) /\ Cardinality(UpTo(c, i)) <= n /\ Cardinality(UpTo(c, i)) \in Nat
    BY <2>1, FS_Subset, FS_CardinalityType
  <2>3. Cardinality(UpTo(c, i)) # 0
    BY <2>1, <2>2, FS_EmptySet
  <2>4. QED
    BY <1>1, <2>2, <2>3 DEF Place, UpTo
<1> DEFINE place == [i \in 1..n |-> Place(c, i)]
<1>4. place \in Injection(1..n, 1..n)
  BY <1>1, <1>2, <1>3 DEF Injection, IsInjective
<1>5. place \in Surjection(1..n, 1..n)
  BY <1>1, <1>4, FS_Injection, FS_Interval
<1>6. \A k \in 1..n : \E i \in 1..n : place[i] = k
  BY <1>5 DEF Surjection
<1>7. QED
  BY <1>1, <1>2, <1>3, <1>6

(* sort_by_key loses no version and makes none up.                         *)
LEMMA SortingSays ==
  ASSUME NEW c \in Seq(Version)
  PROVE  Sorted(c) \in Seq(Version) /\ Len(Sorted(c)) = Len(c) /\ Says(Sorted(c)) = Says(c)
<1> DEFINE n == Len(c)
           at(k) == CHOOSE i \in DOMAIN c : Place(c, i) = k
<1>1. n \in Nat /\ DOMAIN c = 1..n
  OBVIOUS
<1>2. ASSUME NEW k \in 1..n PROVE at(k) \in 1..n /\ Place(c, at(k)) = k
  BY <1>1, PlacesAreAll
<1>3. Sorted(c) = [k \in 1..n |-> c[at(k)]]
  BY DEF Sorted
<1>4. Sorted(c) \in Seq(Version) /\ Len(Sorted(c)) = n /\ DOMAIN Sorted(c) = 1..n
  <2>1. \A k \in 1..n : c[at(k)] \in Version
    BY <1>1, <1>2
  <2>2. Sorted(c) \in [1..n -> Version]
    BY <1>3, <2>1
  <2>3. QED
    BY <1>1, <2>2, SequenceOf
<1>5. ASSUME NEW i \in 1..n PROVE \E k \in 1..n : c[at(k)] = c[i]
  <2>1. Place(c, i) \in 1..n /\ at(Place(c, i)) = i
    BY <1>1, <1>2, PlacesAreAll
  <2>2. QED
    BY <2>1
<1>6. Says(Sorted(c)) = Says(c)
  <2> HIDE DEF at, n
  <2>1. Says(c) = {c[i] : i \in 1..n} /\ Says(Sorted(c)) = {c[at(k)] : k \in 1..n}
    BY <1>1, <1>3, <1>4 DEF Says
  <2>2. QED
    BY <1>2, <1>5, <2>1
<1>7. QED
  BY <1>4, <1>6

LEMMA AbsorbingSays ==
  ASSUME NEW l \in Seq(Version), NEW m \in Seq(Version)
  PROVE  Absorbed(l, m) \in Seq(Version) /\ Says(Absorbed(l, m)) = Says(l) \cup Says(m)
<1>1. CASE l = <<>>
  BY <1>1 DEF Absorbed, Says
<1>2. CASE l # <<>>
  <2> DEFINE c == l \o m
  <2>1. /\ c \in Seq(Version) /\ Len(l) \in Nat /\ Len(m) \in Nat /\ Len(c) = Len(l) + Len(m)
        /\ \A i \in 1..Len(l) : c[i] = l[i]
        /\ \A i \in 1..Len(m) : c[Len(l) + i] = m[i]
    OBVIOUS
  <2>2. ASSUME NEW i \in 1..Len(c), i \notin 1..Len(l)
        PROVE  i - Len(l) \in 1..Len(m) /\ i = Len(l) + (i - Len(l))
    BY <2>1, <2>2
  <2>3. Says(c) = Says(l) \cup Says(m)
    <3>1. Says(c) = {c[i] : i \in 1..Len(c)} /\ Says(l) = {l[i] : i \in 1..Len(l)}
          /\ Says(m) = {m[i] : i \in 1..Len(m)}
      BY <2>1 DEF Says
    <3>2. \A i \in 1..Len(c) : c[i] \in Says(l) \cup Says(m)
      BY <2>1, <2>2, <3>1
    <3>3. \A i \in 1..Len(l) : l[i] \in Says(c)
      BY <2>1, <3>1
    <3>4. ASSUME NEW i \in 1..Len(m) PROVE m[i] \in Says(c)
      <4>1. Len(l) + i \in 1..Len(c) /\ c[Len(l) + i] = m[i]
        BY <2>1
      <4>2. QED
        BY <3>1, <4>1
    <3>5. QED
      BY <3>1, <3>2, <3>3, <3>4
  <2> HIDE DEF c
  <2>4. Absorbed(l, m) = Sorted(c)
    BY <1>2 DEF Absorbed, c
  <2>5. QED
    BY <2>1, <2>3, <2>4, SortingSays
<1>3. QED
  BY <1>1, <1>2

-----------------------------------------------------------------------------
(* What a map of logs says                                                 *)

Fact(t, v) == [t |-> t, v |-> v]
FactsOf(ls) == UNION {{[t |-> t, v |-> ls[t][i]] : i \in DOMAIN ls[t]} : t \in DOMAIN ls}
Logs(ls) == \A t \in DOMAIN ls : t \in Triple /\ ls[t] \in Seq(Version)

LEMMA FactsSay ==
  ASSUME NEW ls
  PROVE  /\ \A t \in DOMAIN ls : \A v \in Says(ls[t]) : Fact(t, v) \in FactsOf(ls)
         /\ \A f \in FactsOf(ls) : f.t \in DOMAIN ls /\ f.v \in Says(ls[f.t]) /\ f = Fact(f.t, f.v)
<1>1. ASSUME NEW t \in DOMAIN ls, NEW v \in Says(ls[t]) PROVE Fact(t, v) \in FactsOf(ls)
  <2>1. PICK i \in DOMAIN ls[t] : v = ls[t][i]
    BY DEF Says
  <2>2. QED
    BY <2>1 DEF Fact, FactsOf
<1>2. ASSUME NEW f \in FactsOf(ls) PROVE f.t \in DOMAIN ls /\ f.v \in Says(ls[f.t]) /\ f = Fact(f.t, f.v)
  <2>1. PICK t \in DOMAIN ls : \E i \in DOMAIN ls[t] : f = [t |-> t, v |-> ls[t][i]]
    BY DEF FactsOf
  <2>2. PICK i \in DOMAIN ls[t] : f = [t |-> t, v |-> ls[t][i]]
    BY <2>1
  <2>3. QED
    BY <2>2 DEF Says, Fact
<1>3. QED
  BY <1>1, <1>2

(* Two maps that say the same of the same triples.                         *)
LEMMA FactsMatch ==
  ASSUME NEW ls, NEW fs,
         \A t \in DOMAIN ls : \A v \in Says(ls[t]) : Fact(t, v) \in fs,
         \A f \in fs : f.t \in DOMAIN ls /\ f.v \in Says(ls[f.t]) /\ f = Fact(f.t, f.v)
  PROVE  FactsOf(ls) = fs
<1>1. ASSUME NEW f \in FactsOf(ls) PROVE f \in fs
  BY FactsSay
<1>2. ASSUME NEW f \in fs PROVE f \in FactsOf(ls)
  BY FactsSay
<1>3. QED
  BY <1>1, <1>2

Within(fs, S) == {f \in fs : f.t \in S}
Outside(fs, S) == {f \in fs : f.t \notin S}
MovedFacts(fs, from, to) ==
  {g \in {Fact(Moved(f.t, from, to), f.v) : f \in fs} : g.t[1] # g.t[3]}

(* One pass of a merge moves what it takes and says no less.               *)
LEMMA ArrivedFacts ==
  ASSUME NEW l, Logs(l), NEW gone \in SUBSET DOMAIN l, NEW from \in Ids, NEW to \in Ids,
         \A t, u \in gone : Moved(t, from, to) = Moved(u, from, to) => t = u
  PROVE  /\ Logs(Arrived(l, gone, from, to))
         /\ FactsOf(Arrived(l, gone, from, to)) =
              Outside(FactsOf(l), gone) \cup MovedFacts(Within(FactsOf(l), gone), from, to)
<1> DEFINE M(t) == Moved(t, from, to)
           arriving == {v \in gone : M(v)[1] # M(v)[3]}
           rest == DOMAIN l \ gone
           landed == {M(t) : t \in arriving}
           a == Arrived(l, gone, from, to)
           old(u) == IF u \in rest THEN l[u] ELSE <<>>
           stay == Outside(FactsOf(l), gone)
           move == Within(FactsOf(l), gone)
<1>0. /\ \A f : f \in stay <=> f \in FactsOf(l) /\ f.t \notin gone
      /\ \A f : f \in move <=> f \in FactsOf(l) /\ f.t \in gone
  BY DEF Outside, Within
<1> HIDE DEF stay, move
<1>1. a = [v \in rest \cup landed |->
             IF v \notin landed THEN l[v]
             ELSE LET t == CHOOSE t \in arriving : M(t) = v IN Absorbed(old(v), l[t])]
  BY DEF Arrived
<1>2. DOMAIN a = rest \cup landed /\ \A u \in rest : u \notin landed => a[u] = l[u]
  BY <1>1
<1>3. ASSUME NEW t \in arriving
      PROVE  /\ a[M(t)] = Absorbed(old(M(t)), l[t])
             /\ old(M(t)) \in Seq(Version) /\ l[t] \in Seq(Version)
  <2>1. M(t) \in landed /\ (CHOOSE u \in arriving : M(u) = M(t)) = t
    BY <1>3
  <2>2. a[M(t)] = Absorbed(old(M(t)), l[t])
    BY <1>1, <2>1
  <2>3. QED
    BY <2>2 DEF Logs
<1>4. ASSUME NEW t \in arriving
      PROVE  a[M(t)] \in Seq(Version) /\ Says(a[M(t)]) = Says(old(M(t))) \cup Says(l[t])
  <2> HIDE DEF a, old
  <2>1. QED
    BY <1>3, AbsorbingSays
<1>5. ASSUME NEW t \in gone PROVE M(t) \in Triple
  BY <1>5 DEF Logs, Triple, Moved
<1>6. Logs(a)
  <2>1. ASSUME NEW u \in rest, u \notin landed PROVE u \in Triple /\ a[u] \in Seq(Version)
    BY <1>2, <2>1 DEF Logs
  <2>2. \A u \in landed : u \in Triple /\ a[u] \in Seq(Version)
    BY <1>4, <1>5
  <2>3. QED
    BY <1>2, <2>1, <2>2 DEF Logs
<1>7. ASSUME NEW u \in DOMAIN a, NEW v \in Says(a[u])
      PROVE  Fact(u, v) \in stay \cup MovedFacts(move, from, to)
  <2>1. CASE u \in rest /\ v \in Says(l[u])
    <3>1. Fact(u, v) \in FactsOf(l) /\ Fact(u, v).t = u
      BY <2>1, FactsSay DEF Fact
    <3>2. QED
      BY <1>0, <2>1, <3>1
  <2>2. ASSUME NEW t \in arriving, u = M(t), v \in Says(l[t])
        PROVE  Fact(u, v) \in MovedFacts(move, from, to)
    <3>1. Fact(t, v) \in FactsOf(l) /\ Fact(t, v).t = t /\ Fact(t, v).v = v
      BY <2>2, FactsSay DEF Fact
    <3>2. Fact(t, v) \in move /\ Fact(u, v) = Fact(M(Fact(t, v).t), Fact(t, v).v)
      BY <1>0, <2>2, <3>1
    <3>3. Fact(u, v).t = u /\ u[1] # u[3]
      BY <2>2 DEF Fact
    <3> HIDE DEF M
    <3>4. QED
      BY <3>2, <3>3 DEF MovedFacts, M
  <2>3. CASE u \notin landed
    BY <1>2, <1>7, <2>1, <2>3
  <2>4. CASE u \in landed
    <3>1. PICK t \in arriving : u = M(t)
      BY <2>4
    <3>2. v \in Says(old(u)) \/ v \in Says(l[t])
      BY <1>4, <1>7, <3>1
    <3>3. v \in Says(old(u)) => u \in rest /\ v \in Says(l[u])
      BY DEF Says
    <3>4. QED
      BY <2>1, <2>2, <3>1, <3>2, <3>3
  <2>5. QED
    BY <2>3, <2>4
<1>8. ASSUME NEW f \in stay PROVE f.t \in DOMAIN a /\ f.v \in Says(a[f.t]) /\ f = Fact(f.t, f.v)
  <2>1. f.t \in rest /\ f.v \in Says(l[f.t]) /\ f = Fact(f.t, f.v)
    BY <1>0, FactsSay
  <2>2. CASE f.t \in landed
    <3>1. PICK t \in arriving : f.t = M(t)
      BY <2>2
    <3>2. old(f.t) = l[f.t]
      BY <2>1
    <3>3. QED
      BY <1>2, <1>4, <2>1, <3>1, <3>2
  <2>3. CASE f.t \notin landed
    BY <1>2, <2>1, <2>3
  <2>4. QED
    BY <2>2, <2>3
<1>9. ASSUME NEW g \in MovedFacts(move, from, to)
      PROVE  g.t \in DOMAIN a /\ g.v \in Says(a[g.t]) /\ g = Fact(g.t, g.v)
  <2>1. PICK f \in move : g = Fact(M(f.t), f.v) /\ g.t[1] # g.t[3]
    BY DEF MovedFacts
  <2>2. g.t = M(f.t) /\ g.v = f.v
    BY <2>1 DEF Fact
  <2>3. f.t \in arriving /\ f.v \in Says(l[f.t])
    BY <1>0, <2>1, <2>2, FactsSay
  <2>4. M(f.t) \in landed
    BY <2>3
  <2>5. M(f.t) \in DOMAIN a /\ f.v \in Says(a[M(f.t)])
    <3> HIDE DEF a, old, arriving, M
    <3>1. QED
      BY <1>2, <1>4, <2>3, <2>4
  <2>6. QED
    BY <2>1, <2>2, <2>5
<1>10. FactsOf(a) = stay \cup MovedFacts(move, from, to)
  <2> DEFINE all == stay \cup MovedFacts(move, from, to)
  <2>1. \A u \in DOMAIN a : \A v \in Says(a[u]) : Fact(u, v) \in all
    BY <1>7
  <2>2. \A f \in all : f.t \in DOMAIN a /\ f.v \in Says(a[f.t]) /\ f = Fact(f.t, f.v)
    BY <1>8, <1>9
  <2> HIDE DEF a, all
  <2>3. FactsOf(a) = all
    BY <2>1, <2>2, FactsMatch
  <2>4. QED
    BY <2>3 DEF all, stay, move
<1>11. QED
  BY <1>6, <1>10 DEF stay, move

-----------------------------------------------------------------------------
(* The calls, as what they make of the facts                               *)

TellInv ==
  /\ EdgeInv
  /\ Logs(logs) /\ said \in Nat
  /\ \A f \in FactsOf(logs) : f.v.id \notin (said + 1)..MaxSaid

LEMMA FactsAre == facts = FactsOf(logs) /\ facts' = FactsOf(logs')
  BY DEF facts, FactsOf

(* Every triple with a log says something.                                 *)
LEMMA TouchingIs ==
  ASSUME TellInv, NEW e
  PROVE  Facts!Touching(e) = {t \in DOMAIN logs : t[1] = e \/ t[3] = e}
<1>1. ASSUME NEW t \in DOMAIN logs PROVE \E f \in facts : f.t = t
  <2>1. logs[t] \in Seq(Version) /\ logs[t] # <<>>
    BY DEF TellInv, EdgeInv, NonEmpty, Logs
  <2>2. logs[t][1] \in Says(logs[t])
    BY <2>1 DEF Says
  <2>3. Fact(t, logs[t][1]) \in facts
    <3> DEFINE v == logs[t][1]
    <3> HIDE DEF v
    <3>1. Fact(t, v) \in FactsOf(logs)
      BY <2>2, FactsSay DEF v
    <3>2. QED
      BY <3>1, FactsAre DEF v
  <2>4. Fact(t, logs[t][1]).t = t
    BY DEF Fact
  <2>5. QED
    BY <2>3, <2>4
<1>2. \A f \in facts : f.t \in DOMAIN logs
  BY FactsSay, FactsAre
<1>3. QED
  BY <1>1, <1>2 DEF Facts!Touching

LEMMA TriplesAreFinite ==
  ASSUME NEW A \in SUBSET Triple
  PROVE  IsFiniteSet(A)
<1> DEFINE S == (Ids \X Predicates) \X Ids
           h == [t \in Triple |-> <<Slot(t), t[3]>>]
<1>1. IsFiniteSet(S)
  <2>1. IsFiniteSet(Ids \X Predicates)
    BY FS_Product, EdgeAssumption
  <2>2. QED
    BY <2>1, FS_Product, EdgeAssumption
<1>2. h \in [Triple -> S]
  BY DEF Triple, Slot
<1>3. \A t, u \in Triple : h[t] = h[u] => t = u
  <2>1. ASSUME NEW t \in Triple, NEW u \in Triple, h[t] = h[u] PROVE t = u
    <3>1. t = <<t[1], t[2], t[3]>> /\ u = <<u[1], u[2], u[3]>>
      BY DEF Triple
    <3>2. Slot(t) = Slot(u) /\ t[3] = u[3]
      BY <2>1
    <3>3. QED
      BY <3>1, <3>2, TripleBySlot DEF IsTriple
  <2>2. QED
    BY <2>1
<1>4. h \in Injection(Triple, S)
  BY <1>2, <1>3 DEF Injection, IsInjective
<1>5. IsFiniteSet(Triple)
  BY <1>1, <1>4, FS_Injection
<1>6. QED
  BY <1>5, FS_Subset

(* A count of two disjoint sets of triples.                                *)
LEMMA CountsAdd ==
  ASSUME NEW A \in SUBSET Triple, NEW B \in SUBSET Triple, A \cap B = {}
  PROVE  Cardinality(A) + Cardinality(B) = Cardinality(A \cup B)
<1>1. IsFiniteSet(A) /\ IsFiniteSet(B)
  BY TriplesAreFinite
<1>2. Cardinality(A) \in Nat /\ Cardinality(B) \in Nat /\ Cardinality({}) = 0
  BY <1>1, FS_CardinalityType, FS_EmptySet
<1>3. Cardinality(A \cup B) = Cardinality(A) + Cardinality(B) - Cardinality(A \cap B)
  BY <1>1, FS_Union
<1>4. Cardinality(A \cap B) = 0
  BY <1>2
<1>5. QED
  BY <1>2, <1>3, <1>4

LEMMA TellsInit == EdgesInit => TellInv /\ Facts!FInit
<1> SUFFICES ASSUME EdgesInit PROVE TellInv /\ Facts!FInit
  OBVIOUS
<1>1. DOMAIN logs = {} /\ said = 0 /\ entities = {} /\ out = Answer("none", 0)
  BY DEF EdgesInit
<1>2. FactsOf(logs) = {}
  BY <1>1 DEF FactsOf
<1>3. TellInv
  BY <1>1, <1>2, EdgeInvInit DEF TellInv, Logs
<1>4. QED
  BY <1>1, <1>2, <1>3, FactsAre DEF Facts!FInit, Facts!Answer, Answer

LEMMA NothingTold ==
  ASSUME TellInv, UNCHANGED edgeVars
  PROVE  TellInv' /\ Facts!FRefuse
<1>1. UNCHANGED <<entities, logs, said, out>>
  BY DEF edgeVars, svars, forward
<1>2. EdgeInv'
  BY NothingChanges DEF TellInv
<1>3. QED
  BY <1>1, <1>2, FactsAre DEF TellInv, Facts!FRefuse, Facts!fvars

LEMMA CreatingTells ==
  ASSUME TellInv, CreateEntity
  PROVE  TellInv' /\ Facts!FCreate
<1>1. /\ next_id \in Ids /\ entities' = entities \cup {next_id}
      /\ out' = Answer("created", next_id) /\ UNCHANGED <<logs, said>>
  BY DEF CreateEntity, forward
<1>2. next_id \notin entities
  BY DEF TellInv, EdgeInv, Counts
<1>3. EdgeInv'
  BY CreatingKeeps DEF TellInv
<1>4. QED
  BY <1>1, <1>2, <1>3, FactsAre DEF TellInv, Facts!FCreate, Facts!Answer, Answer

LEMMA SayingTells ==
  ASSUME TellInv, NEW s \in Ids, NEW p \in Predicates, NEW o \in Ids, NEW version \in Version,
         version.id = said + 1, PushEdge(s, p, o, version)
  PROVE  TellInv' /\ (Facts!FRefuse \/ \E f \in facts' : Facts!FSay(f))
<1> DEFINE t == <<s, p, o>>
<1>1. CASE Refuse
  BY <1>1, NothingTold DEF Refuse
<1>2. CASE /\ {s, o} \subseteq entities /\ s # o
           /\ said < MaxSaid /\ said' = said + 1
           /\ logs' = [u \in DOMAIN logs \cup {t} |->
                         IF u = t THEN Append(LogOf(t), version) ELSE logs[u]]
           /\ out' = Answer("ok", 0) /\ UNCHANGED entities
  <2> DEFINE f == Fact(t, version)
  <2>1. LogOf(t) \in Seq(Version) /\ t \in Triple /\ said \in Nat /\ MaxSaid \in Nat
    BY EdgeAssumption DEF LogOf, TellInv, Logs, Triple
  <2>2. Logs(logs')
    <3>1. Append(LogOf(t), version) \in Seq(Version)
      BY <2>1
    <3> HIDE DEF t
    <3>2. QED
      BY <1>2, <2>1, <3>1 DEF TellInv, Logs
  <2>3. Says(logs'[t]) = Says(LogOf(t)) \cup {version}
    <3>1. logs'[t] = Append(LogOf(t), version)
      BY <1>2
    <3>2. Len(LogOf(t)) \in Nat /\ DOMAIN LogOf(t) = 1..Len(LogOf(t))
      BY <2>1
    <3>3. /\ DOMAIN Append(LogOf(t), version) = 1..Len(LogOf(t)) \cup {Len(LogOf(t)) + 1}
          /\ \A i \in 1..Len(LogOf(t)) : Append(LogOf(t), version)[i] = LogOf(t)[i]
          /\ Append(LogOf(t), version)[Len(LogOf(t)) + 1] = version
      BY <2>1, <3>2
    <3>4. QED
      BY <3>1, <3>2, <3>3 DEF Says
  <2>4. DOMAIN logs' = DOMAIN logs \cup {t} /\ \A u \in DOMAIN logs : u # t => logs'[u] = logs[u]
    BY <1>2
  <2>5. Says(LogOf(t)) = IF t \in DOMAIN logs THEN Says(logs[t]) ELSE {}
    BY DEF LogOf, Says
  <2> HIDE DEF t
  <2>6. FactsOf(logs') = FactsOf(logs) \cup {f}
    <3> DEFINE all == FactsOf(logs) \cup {f}
    <3>1. ASSUME NEW u \in DOMAIN logs', NEW v \in Says(logs'[u]) PROVE Fact(u, v) \in all
      BY <2>3, <2>4, <2>5, FactsSay
    <3>2. ASSUME NEW g \in all
          PROVE  g.t \in DOMAIN logs' /\ g.v \in Says(logs'[g.t]) /\ g = Fact(g.t, g.v)
      <4>1. CASE g = f
        BY <2>3, <2>4, <4>1 DEF Fact
      <4>2. CASE g \in FactsOf(logs)
        BY <2>3, <2>4, <2>5, <4>2, FactsSay
      <4>3. QED
        BY <4>1, <4>2
    <3> HIDE DEF all
    <3>3. FactsOf(logs') = all
      BY <3>1, <3>2, FactsMatch
    <3>4. QED
      BY <3>3 DEF all
  <2>7. f.t = t /\ f.v = version
    BY DEF Fact
  <2>8. f \notin FactsOf(logs)
    BY <1>2, <2>1, <2>7 DEF TellInv
  <2> HIDE DEF f
  <2>9. TellInv'
    <3>1. EdgeInv'
      BY SayingKeeps DEF TellInv
    <3>2. said' = said + 1 /\ said' \in Nat
      BY <1>2, <2>1
    <3>3. said + 1 \notin (said' + 1)..MaxSaid /\ (said' + 1)..MaxSaid \subseteq (said + 1)..MaxSaid
      BY <2>1, <3>2
    <3>4. \A g \in FactsOf(logs') : g.v.id \notin (said' + 1)..MaxSaid
      BY <2>6, <2>7, <3>3 DEF TellInv
    <3>5. QED
      BY <2>2, <3>1, <3>2, <3>4 DEF TellInv
  <2>10. t[1] = s /\ t[2] = p /\ t[3] = o /\ version.at \in Times /\ version.valid \in Intervals
    BY DEF t, Version
  <2>11. Facts!FSay(f)
    BY <1>2, <2>6, <2>7, <2>8, <2>10, FactsAre DEF Facts!FSay, Facts!Answer, Answer
  <2>12. QED
    BY <2>6, <2>9, <2>11, FactsAre
<1>3. QED
  BY <1>1, <1>2 DEF PushEdge

LEMMA SameCount ==
  ASSUME NEW S
  PROVE  Facts!Cardinality(S) = Cardinality(S)
  BY DEF Facts!Cardinality, Cardinality

LEMMA ErasingTells ==
  ASSUME TellInv, NEW e \in Ids, EraseEdges(e)
  PROVE  TellInv' /\ (Facts!FRefuse \/ Facts!FErase(e))
<1> DEFINE A == DOMAIN logs
           outgoing == {t \in A : t[1] = e}
           into1 == Unhooked(into, outgoing)
           sources == IF e \in DOMAIN into1 THEN into1[e] ELSE {}
           incoming == {t \in A \ outgoing : t[3] = e /\ Slot(t) \in sources}
           gone == outgoing \cup incoming
<1>1. CASE Refuse
  BY <1>1, NothingTold DEF Refuse
<1>2. CASE /\ e \in entities /\ logs' = Without(logs, gone)
           /\ out' = Answer("erased", Cardinality(outgoing) + Cardinality(incoming))
           /\ UNCHANGED <<entities, said>>
  <2>1. \A t \in A : IsTriple(t) /\ t \in Triple
    BY DEF TellInv, EdgeInv, Sound, Logs
  <2>2. into1 = Reverse(A \ outgoing)
    BY <2>1, UnhookingReverses DEF TellInv, EdgeInv, Mirrors
  <2>3. sources = {Slot(t) : t \in {u \in A \ outgoing : u[3] = e}}
    <3> DEFINE B == A \ outgoing
    <3>1. into1 = Reverse(B)
      BY <2>2
    <3> HIDE DEF into1, B
    <3>2. sources = {Slot(t) : t \in {u \in B : u[3] = e}}
      BY <3>1, SourcesOf
    <3>3. QED
      BY <3>2 DEF B
  <2>4. gone = {t \in A : t[1] = e \/ t[3] = e}
    BY <2>3
  <2>5. gone = Facts!Touching(e)
    BY <2>4, TouchingIs
  <2>6. Cardinality(outgoing) + Cardinality(incoming) = Cardinality(gone)
    <3>1. outgoing \in SUBSET Triple /\ incoming \in SUBSET Triple /\ outgoing \cap incoming = {}
      BY <2>1
    <3> HIDE DEF outgoing, incoming
    <3>2. QED
      BY <3>1, CountsAdd
  <2>7. DOMAIN logs' = A \ gone /\ \A t \in A \ gone : logs'[t] = logs[t]
    BY <1>2 DEF Without
  <2>8. Logs(logs')
    BY <2>7 DEF TellInv, Logs
  <2> HIDE DEF gone
  <2>9. FactsOf(logs') = {f \in FactsOf(logs) : f.t \notin gone}
    <3> DEFINE fs == {f \in FactsOf(logs) : f.t \notin gone}
    <3>1. \A u \in DOMAIN logs' : \A v \in Says(logs'[u]) : Fact(u, v) \in fs
      BY <2>7, FactsSay DEF Fact
    <3>2. \A f \in fs : f.t \in DOMAIN logs' /\ f.v \in Says(logs'[f.t]) /\ f = Fact(f.t, f.v)
      BY <2>7, FactsSay
    <3> HIDE DEF fs
    <3>3. FactsOf(logs') = fs
      BY <3>1, <3>2, FactsMatch
    <3>4. QED
      BY <3>3 DEF fs
  <2>10. TellInv'
    <3>1. EdgeInv'
      BY ErasingKeeps DEF TellInv
    <3>2. QED
      BY <1>2, <2>8, <2>9, <3>1 DEF TellInv
  <2>11. facts' = {f \in facts : f.t[1] # e /\ f.t[3] # e}
    <3>1. \A f \in FactsOf(logs) : f.t \in A
      BY FactsSay
    <3>2. QED
      BY <2>4, <2>9, <3>1, FactsAre
  <2>12. Facts!FErase(e)
    <3>1. /\ e \in entities /\ UNCHANGED <<entities, said>>
          /\ out' = Answer("erased", Cardinality(Facts!Touching(e)))
      BY <1>2, <2>5, <2>6
    <3>2. QED
      BY <2>11, <3>1, SameCount DEF Facts!FErase, Facts!Answer, Answer
  <2>13. QED
    BY <2>10, <2>12
<1>3. QED
  BY <1>1, <1>2 DEF EraseEdges

(* No triple moves twice, and no two move to one place: what points from   *)
(* an entity differs elsewhere, because nothing points at itself.          *)
LEMMA MovesApart ==
  ASSUME NEW from, NEW to, NEW gone, \A t \in gone : IsTriple(t),
         (\A t \in gone : t[1] = from /\ t[3] # from) \/ (\A t \in gone : t[3] = from /\ t[1] # from)
  PROVE  \A t, u \in gone : Moved(t, from, to) = Moved(u, from, to) => t = u
<1> SUFFICES ASSUME NEW t \in gone, NEW u \in gone, Moved(t, from, to) = Moved(u, from, to)
             PROVE  t = u
  OBVIOUS
<1>1. t[1] = u[1] /\ t[2] = u[2] /\ t[3] = u[3]
  BY DEF Moved
<1>2. QED
  BY <1>1 DEF IsTriple

(* Two passes, each over half of what touches an entity, move it all.      *)
LEMMA TwoPasses ==
  ASSUME NEW from, NEW to, from # to, NEW fs, NEW fs1, NEW fs2,
         \A f \in fs : IsTriple(f.t) /\ f.t[1] # f.t[3] /\ f = Fact(f.t, f.v),
         fs1 = {f \in fs : f.t[1] # from} \cup MovedFacts({f \in fs : f.t[1] = from}, from, to),
         fs2 = {f \in fs1 : f.t[3] # from} \cup MovedFacts({f \in fs1 : f.t[3] = from}, from, to)
  PROVE  fs2 = MovedFacts(fs, from, to)
<1> DEFINE M(t) == Moved(t, from, to)
           all == MovedFacts(fs, from, to)
           first == MovedFacts({f \in fs : f.t[1] = from}, from, to)
           second == MovedFacts({f \in fs1 : f.t[3] = from}, from, to)
<1>1. \A t, v : Fact(t, v).t = t /\ Fact(t, v).v = v
  BY DEF Fact
<1>2. ASSUME NEW hs, NEW g
      PROVE  g \in MovedFacts(hs, from, to) <=> \E f \in hs : g = Fact(M(f.t), f.v) /\ M(f.t)[1] # M(f.t)[3]
  BY <1>1 DEF MovedFacts
<1>3. ASSUME NEW f \in fs
      PROVE  /\ f.t[1] # from /\ f.t[3] # from => M(f.t) = f.t /\ Fact(M(f.t), f.v) = f
             /\ f.t[1] = from => M(f.t)[3] # from
             /\ f.t[3] = from => f.t[1] # from
  <2>1. IsTriple(f.t) /\ f.t[1] # f.t[3] /\ f = Fact(f.t, f.v)
    OBVIOUS
  <2>2. f.t[1] # from /\ f.t[3] # from => M(f.t) = f.t
    BY <2>1 DEF Moved, IsTriple
  <2>3. M(f.t)[3] = IF f.t[3] = from THEN to ELSE f.t[3]
    BY DEF Moved
  <2> HIDE DEF M
  <2>4. QED
    BY <2>1, <2>2, <2>3
<1> HIDE DEF M
<1>4. ASSUME NEW g \in all PROVE g \in fs2
  <2>1. PICK f \in fs : g = Fact(M(f.t), f.v) /\ M(f.t)[1] # M(f.t)[3]
    BY <1>2
  <2>2. CASE f.t[1] = from
    <3>1. g \in first
      BY <1>2, <2>1, <2>2
    <3>2. g.t[3] # from
      BY <1>1, <1>3, <2>1, <2>2
    <3>3. QED
      BY <3>1, <3>2
  <2>3. CASE f.t[3] = from
    <3>1. f \in fs1
      BY <1>3, <2>3
    <3>2. g \in second
      BY <1>2, <2>1, <2>3, <3>1
    <3>3. QED
      BY <3>2
  <2>4. CASE f.t[1] # from /\ f.t[3] # from
    BY <1>3, <2>1, <2>4
  <2>5. QED
    BY <2>2, <2>3, <2>4
<1>5. ASSUME NEW g \in first PROVE g \in all
  BY <1>2
<1>6. ASSUME NEW g \in fs2 PROVE g \in all
  <2>1. CASE g \in second
    <3> DEFINE half == {f \in fs1 : f.t[3] = from}
    <3>0. g \in MovedFacts(half, from, to)
      BY <2>1
    <3>1. PICK f \in fs1 : f.t[3] = from /\ g = Fact(M(f.t), f.v) /\ M(f.t)[1] # M(f.t)[3]
      <4> HIDE DEF half
      <4>1. \E f \in half : g = Fact(M(f.t), f.v) /\ M(f.t)[1] # M(f.t)[3]
        BY <1>2, <3>0
      <4>2. QED
        BY <4>1 DEF half
    <3>2. f \notin first
      <4>1. ASSUME f \in first PROVE FALSE
        <5>1. PICK h \in fs : h.t[1] = from /\ f = Fact(M(h.t), h.v)
          BY <1>2, <4>1
        <5>2. f.t[3] # from
          BY <1>1, <1>3, <5>1
        <5>3. QED
          BY <3>1, <5>2
      <4>2. QED
        BY <4>1
    <3>3. f \in fs
      BY <3>2
    <3>4. QED
      BY <1>2, <3>1, <3>3
  <2>2. CASE g \in fs1 /\ g.t[3] # from /\ g \notin first
    <3>1. g \in fs /\ g.t[1] # from
      BY <2>2
    <3>2. g = Fact(M(g.t), g.v) /\ M(g.t)[1] # M(g.t)[3]
      BY <1>3, <2>2, <3>1
    <3>3. QED
      BY <1>2, <3>1, <3>2
  <2>3. QED
    BY <1>5, <2>1, <2>2
<1>7. QED
  BY <1>4, <1>6

LEMMA RepointingTells ==
  ASSUME TellInv, NEW from \in Ids, NEW to \in Ids, RepointEdges(from, to)
  PROVE  TellInv' /\ (Facts!FRefuse \/ Facts!FRepoint(from, to))
<1> DEFINE A == DOMAIN logs
           outgoing == {t \in A : t[1] = from}
           landed1 == {<<to, t[2], t[3]>> : t \in {u \in outgoing : u[3] # to}}
           logs1 == Arrived(logs, outgoing, from, to)
           into1 == Hooked(Unhooked(into, outgoing), landed1)
           sources == IF from \in DOMAIN into1 THEN into1[from] ELSE {}
           incoming == {t \in DOMAIN logs1 : t[3] = from /\ Slot(t) \in sources}
           B == (A \ outgoing) \cup landed1
           gone == outgoing \cup incoming
<1>1. CASE Refuse
  BY <1>1, NothingTold DEF Refuse
<1>2. CASE /\ {from, to} \subseteq entities /\ from # to
           /\ logs' = Arrived(logs1, incoming, from, to)
           /\ out' = Answer("moved", Cardinality(outgoing) + Cardinality(incoming))
           /\ UNCHANGED <<entities, said>>
  <2>1. \A t \in A : IsTriple(t) /\ t \in Triple /\ t[1] # t[3]
    BY DEF TellInv, EdgeInv, Sound, Logs
  <2>2. \A t \in outgoing : Moved(t, from, to) = <<to, t[2], t[3]>>
    BY <2>1 DEF Moved
  <2>3. landed1 = Landed(outgoing, from, to)
    <3>1. \A t \in outgoing : Moved(t, from, to)[1] # Moved(t, from, to)[3] <=> t[3] # to
      BY <2>2
    <3>2. QED
      BY <2>2, <3>1 DEF Landed
  <2>4. DOMAIN logs1 = B
    <3>1. DOMAIN logs1 = (DOMAIN logs \ outgoing) \cup Landed(outgoing, from, to)
      BY DEF Arrived, Landed
    <3>2. QED
      BY <2>3, <3>1
  <2>5. into1 = Reverse(B)
    <3>1. Unhooked(into, outgoing) = Reverse(A \ outgoing)
      BY <2>1, UnhookingReverses DEF TellInv, EdgeInv, Mirrors
    <3>2. QED
      BY <3>1, HookingReverses
  <2>6. sources = {Slot(t) : t \in {u \in B : u[3] = from}}
    <3> HIDE DEF into1, B
    <3>1. QED
      BY <2>5, SourcesOf
  <2>7. incoming = {t \in A : t[3] = from /\ t[1] # from}
    <3>1. \A t \in landed1 : t[3] # from
      <4>1. \A t \in outgoing : <<to, t[2], t[3]>>[3] # from
        BY <2>1
      <4>2. QED
        BY <4>1
    <3>2. incoming = {t \in B : t[3] = from}
      BY <2>4, <2>6
    <3>3. QED
      BY <2>1, <3>1, <3>2
  <2>8. gone = Facts!Touching(from)
    <3>1. gone = {t \in A : t[1] = from \/ t[3] = from}
      BY <2>7
    <3>2. QED
      BY <3>1, TouchingIs
  <2>9. Cardinality(outgoing) + Cardinality(incoming) = Cardinality(gone)
    <3>1. outgoing \in SUBSET Triple /\ incoming \in SUBSET Triple /\ outgoing \cap incoming = {}
      BY <2>1, <2>7
    <3> HIDE DEF outgoing, incoming
    <3>2. QED
      BY <3>1, CountsAdd
  <2>10. /\ Logs(logs1)
         /\ FactsOf(logs1) = Outside(FactsOf(logs), outgoing)
                               \cup MovedFacts(Within(FactsOf(logs), outgoing), from, to)
    <3>1. \A t, u \in outgoing : Moved(t, from, to) = Moved(u, from, to) => t = u
      BY <2>1, MovesApart
    <3> HIDE DEF outgoing
    <3>2. outgoing \in SUBSET DOMAIN logs
      BY DEF outgoing
    <3>3. QED
      BY <3>1, <3>2, ArrivedFacts DEF TellInv
  <2>11. /\ Logs(logs')
         /\ FactsOf(logs') = Outside(FactsOf(logs1), incoming)
                               \cup MovedFacts(Within(FactsOf(logs1), incoming), from, to)
    <3>1. \A t, u \in incoming : Moved(t, from, to) = Moved(u, from, to) => t = u
      BY <2>1, <2>7, MovesApart
    <3>2. incoming \in SUBSET DOMAIN logs1
      OBVIOUS
    <3>3. logs' = Arrived(logs1, incoming, from, to)
      BY <1>2
    <3> DEFINE b == Arrived(logs1, incoming, from, to)
    <3> HIDE DEF incoming, logs1
    <3>4. /\ Logs(b)
          /\ FactsOf(b) = Outside(FactsOf(logs1), incoming)
                            \cup MovedFacts(Within(FactsOf(logs1), incoming), from, to)
      <4>1. Logs(logs1)
        BY <2>10
      <4>2. QED
        BY <3>1, <3>2, <4>1, ArrivedFacts
    <3> HIDE DEF b
    <3>5. QED
      BY <3>3, <3>4 DEF b
  <2>12. FactsOf(logs') = MovedFacts(FactsOf(logs), from, to)
    <3> DEFINE fs == FactsOf(logs)
               fs1 == FactsOf(logs1)
    <3>1. \A f \in fs : f.t \in A /\ f = Fact(f.t, f.v)
      BY FactsSay
    <3>2. \A f \in fs1 : f.t \in B
      BY <2>4, FactsSay
    <3>3. fs1 = {f \in fs : f.t[1] # from} \cup MovedFacts({f \in fs : f.t[1] = from}, from, to)
      <4>1. Outside(fs, outgoing) = {f \in fs : f.t[1] # from}
        BY <3>1 DEF Outside
      <4>2. Within(fs, outgoing) = {f \in fs : f.t[1] = from}
        BY <3>1 DEF Within
      <4>3. fs1 = Outside(fs, outgoing) \cup MovedFacts(Within(fs, outgoing), from, to)
        BY <2>10
      <4> HIDE DEF fs, fs1, outgoing
      <4>4. QED
        BY <4>1, <4>2, <4>3
    <3>4. FactsOf(logs') = {f \in fs1 : f.t[3] # from} \cup MovedFacts({f \in fs1 : f.t[3] = from}, from, to)
      <4>0. incoming = {t \in B : t[3] = from}
        BY <2>4, <2>6
      <4>1. Outside(fs1, incoming) = {f \in fs1 : f.t[3] # from}
        BY <3>2, <4>0 DEF Outside
      <4>2. Within(fs1, incoming) = {f \in fs1 : f.t[3] = from}
        BY <3>2, <4>0 DEF Within
      <4>3. FactsOf(logs') = Outside(fs1, incoming) \cup MovedFacts(Within(fs1, incoming), from, to)
        BY <2>11
      <4> HIDE DEF fs1, incoming
      <4>4. QED
        BY <4>1, <4>2, <4>3
    <3>5. \A f \in fs : IsTriple(f.t) /\ f.t[1] # f.t[3] /\ f = Fact(f.t, f.v)
      BY <2>1, <3>1
    <3> DEFINE fs2 == FactsOf(logs')
    <3> HIDE DEF fs, fs1, fs2
    <3>6. fs2 = {f \in fs1 : f.t[3] # from} \cup MovedFacts({f \in fs1 : f.t[3] = from}, from, to)
      BY <3>4 DEF fs2
    <3>7. fs2 = MovedFacts(fs, from, to)
      BY <1>2, <3>3, <3>5, <3>6, TwoPasses
    <3>8. QED
      BY <3>7 DEF fs, fs2
  <2>13. TellInv'
    <3>1. EdgeInv'
      BY RepointingKeeps DEF TellInv
    <3>2. \A g \in FactsOf(logs') : \E f \in FactsOf(logs) : g.v = f.v
      BY <2>12 DEF MovedFacts, Fact
    <3>3. QED
      BY <1>2, <2>11, <3>1, <3>2 DEF TellInv
  <2>14. \A t : Facts!Renamed(t, from, to) = Moved(t, from, to)
    BY DEF Facts!Renamed, Moved
  <2>15. facts' = {g \in {[t |-> Facts!Renamed(f.t, from, to), v |-> f.v] : f \in facts} :
                     g.t[1] # g.t[3]}
    BY <2>12, <2>14, FactsAre DEF MovedFacts, Fact
  <2>16. Facts!FRepoint(from, to)
    <3>1. /\ from \in entities /\ to \in entities /\ from # to /\ UNCHANGED <<entities, said>>
          /\ out' = Answer("moved", Cardinality(Facts!Touching(from)))
      BY <1>2, <2>8, <2>9
    <3>2. QED
      BY <2>15, <3>1, SameCount DEF Facts!FRepoint, Facts!Answer, Answer
  <2>17. QED
    BY <2>13, <2>16
<1>3. QED
  BY <1>1, <1>2 DEF RepointEdges

LEMMA OpeningTells ==
  ASSUME TellInv, NEW f \in Snapshots, Open(f)
  PROVE  TellInv' /\ (Facts!FRefuse \/ Facts!FOpen(f))
<1>1. CASE Refuse
  BY <1>1, NothingTold DEF Refuse
<1>2. CASE /\ Openable(f) /\ entities' = f.entities /\ logs' = f.logs /\ said' = f.said
           /\ out' = Answer("opened", 0)
  <2>1. Parses(f) /\ ToldApart(f)
    BY EdgeAssumption
  <2>2. Logs(logs') /\ said' \in Nat
    BY <1>2, <2>1 DEF Parses, Logs
  <2>3. EdgeInv'
    BY OpeningKeeps DEF TellInv
  <2>4. \A g \in FactsOf(logs') : g.v.id \notin (said' + 1)..MaxSaid
    <3>1. \A t \in DOMAIN logs' : \A v \in Says(logs'[t]) : v.id \notin (said' + 1)..MaxSaid
      BY <1>2, <2>1 DEF ToldApart, Says
    <3>2. QED
      BY <3>1, FactsSay
  <2>5. TellInv'
    BY <2>2, <2>3, <2>4 DEF TellInv
  <2>6. \A g \in facts' : {g.t[1], g.t[3]} \subseteq entities' /\ g.t[1] # g.t[3]
    <3>1. \A g \in facts' : g.t \in DOMAIN logs'
      BY FactsSay, FactsAre
    <3>2. QED
      BY <2>3, <3>1 DEF EdgeInv, Sound
  <2>7. facts' = FactsOf(f.logs)
    BY <1>2, FactsAre
  <2>8. Facts!FOpen(f)
    BY <1>2, <2>6, <2>7 DEF Facts!FOpen, Facts!Answer, Answer, FactsOf
  <2>9. QED
    BY <2>5, <2>8
<1>3. QED
  BY <1>1, <1>2 DEF Open

LEMMA StepTells ==
  ASSUME TellInv, [EdgesNext]_edgeVars
  PROVE  TellInv' /\ [Facts!FNext]_(Facts!fvars)
<1>1. CASE UNCHANGED edgeVars
  BY <1>1, NothingTold DEF Facts!FNext
<1>2. CASE CreateEntity
  BY <1>2, CreatingTells DEF Facts!FNext
<1>3. said \in Nat
  BY DEF TellInv
<1>4. ASSUME NEW s \in Ids, NEW o \in Ids, NEW p \in Predicates, NEW valid \in Intervals,
             NEW at \in Times, Relate(s, p, o, valid, at)
      PROVE  TellInv' /\ [Facts!FNext]_(Facts!fvars)
  <2> DEFINE version == [present |-> TRUE, valid |-> valid, at |-> at, id |-> said + 1]
  <2>1. version \in Version /\ version.id = said + 1 /\ PushEdge(s, p, o, version)
    BY <1>3, <1>4 DEF Relate, Version
  <2> HIDE DEF version
  <2>2. QED
    BY <2>1, SayingTells DEF Facts!FNext
<1>5. ASSUME NEW s \in Ids, NEW o \in Ids, NEW p \in Predicates, NEW start \in Instants,
             NEW at \in Times, Unrelate(s, p, o, start, at)
      PROVE  TellInv' /\ [Facts!FNext]_(Facts!fvars)
  <2> DEFINE version == [present |-> FALSE, valid |-> {t \in Instants : t >= start}, at |-> at,
                         id |-> said + 1]
  <2>1. {t \in Instants : t >= start} \in Intervals
    BY EdgeAssumption
  <2>2. version \in Version /\ version.id = said + 1 /\ PushEdge(s, p, o, version)
    BY <1>3, <1>5, <2>1 DEF Unrelate, Version
  <2> HIDE DEF version
  <2>3. QED
    BY <2>2, SayingTells DEF Facts!FNext
<1>6. ASSUME NEW e \in Ids, EraseEdges(e) PROVE TellInv' /\ [Facts!FNext]_(Facts!fvars)
  BY <1>6, ErasingTells DEF Facts!FNext
<1>7. ASSUME NEW from \in Ids, NEW to \in Ids, RepointEdges(from, to)
      PROVE  TellInv' /\ [Facts!FNext]_(Facts!fvars)
  BY <1>7, RepointingTells DEF Facts!FNext
<1>8. ASSUME NEW f \in Snapshots, Open(f) PROVE TellInv' /\ [Facts!FNext]_(Facts!fvars)
  BY <1>8, OpeningTells DEF Facts!FNext
<1>9. QED
  BY <1>1, <1>2, <1>4, <1>5, <1>6, <1>7, <1>8 DEF EdgesNext

(* The two maps, the two levels and the logs implement a set of things     *)
(* said: what a merge moves is said of the other, what a deletion takes is *)
(* what touched the entity, both counts are exact, and nothing else is     *)
(* lost or made up (relate, erase_edges, repoint_edges in rm-store).       *)
THEOREM EdgesImplementFacts == EdgesSpec => ImplementsEdgeFacts
<1>1. TellInv /\ [EdgesNext]_edgeVars => TellInv' /\ [Facts!FNext]_(Facts!fvars)
  BY StepTells
<1>2. QED
  BY <1>1, TellsInit, PTL DEF EdgesSpec, ImplementsEdgeFacts, Facts!FSpec

-----------------------------------------------------------------------------
(* Level by level                                                          *)

(* What holds of 0, and of n + 1 when of n, holds of every number.         *)
LEMMA Climbs ==
  ASSUME NEW S, 0 \in S, \A n \in Nat : n \in S => n + 1 \in S
  PROVE  Nat \subseteq S
<1> SUFFICES ASSUME NEW m \in Nat, m \notin S PROVE FALSE
  OBVIOUS
<1> DEFINE Out == {n \in Nat : n \notin S}
<1>1. m \in Out /\ Out \subseteq Nat
  OBVIOUS
<1>2. PICK least \in Out : \A n \in Out : ~(<<n, least>> \in OpToRel(<, Nat))
  BY <1>1, NatLessThanWellFounded, WFMin
<1>3. least \in Nat /\ least \notin S /\ least # 0
  BY <1>2
<1>4. least - 1 \in Nat /\ least - 1 < least /\ (least - 1) + 1 = least
  BY <1>3
<1>5. least - 1 \in Out
  BY <1>3, <1>4
<1>6. <<least - 1, least>> \in OpToRel(<, Nat)
  BY <1>3, <1>4 DEF OpToRel
<1>7. QED
  BY <1>2, <1>5, <1>6

Start(w) == [reached |-> {}, seen |-> {}, frontier |-> w.seeds \cap entities, truncated |-> FALSE]
LevelsUpTo(w, n, f) ==
  f = [d \in 0..n |-> Level(w, IF d = 0 THEN Start(w) ELSE f[d - 1], d)]

LEMMA LevelsExist ==
  ASSUME NEW w, NEW n \in Nat
  PROVE  \E f : LevelsUpTo(w, n, f)
<1> DEFINE S == {m \in Nat : \E f : LevelsUpTo(w, m, f)}
<1>1. 0 \in S
  <2> DEFINE f == [d \in 0..0 |-> Level(w, Start(w), d)]
  <2>1. f = [d \in 0..0 |-> Level(w, IF d = 0 THEN Start(w) ELSE f[d - 1], d)]
    OBVIOUS
  <2>2. QED
    BY <2>1 DEF LevelsUpTo
<1>2. ASSUME NEW m \in Nat, m \in S PROVE m + 1 \in S
  <2>1. PICK f : LevelsUpTo(w, m, f)
    BY <1>2
  <2> DEFINE g == [d \in 0..(m + 1) |-> IF d = m + 1 THEN Level(w, f[m], d) ELSE f[d]]
  <2>2. ASSUME NEW d \in 0..(m + 1)
        PROVE  g[d] = Level(w, IF d = 0 THEN Start(w) ELSE g[d - 1], d)
    <3>1. CASE d = m + 1
      <4>1. d # 0 /\ d - 1 = m /\ m \in 0..(m + 1) /\ m # m + 1
        BY <3>1
      <4>2. g[d - 1] = f[m]
        BY <4>1
      <4>3. QED
        BY <3>1, <4>1, <4>2
    <3>2. CASE d = 0
      <4>1. d \in 0..m /\ d # m + 1
        BY <3>2
      <4>2. f[d] = Level(w, IF d = 0 THEN Start(w) ELSE f[d - 1], d)
        BY <2>1, <4>1 DEF LevelsUpTo
      <4>3. QED
        BY <3>2, <4>1, <4>2
    <3>3. CASE d # 0 /\ d # m + 1
      <4>1. d \in 0..m /\ d - 1 \in 0..(m + 1) /\ d - 1 # m + 1
        BY <3>3
      <4>2. f[d] = Level(w, IF d = 0 THEN Start(w) ELSE f[d - 1], d)
        BY <2>1, <4>1 DEF LevelsUpTo
      <4>3. g[d] = f[d] /\ g[d - 1] = f[d - 1]
        BY <3>3, <4>1
      <4>4. QED
        BY <3>3, <4>2, <4>3
    <3>4. QED
      BY <3>1, <3>2, <3>3
  <2>3. g = [d \in 0..(m + 1) |-> Level(w, IF d = 0 THEN Start(w) ELSE g[d - 1], d)]
    <3>1. g = [d \in 0..(m + 1) |-> g[d]]
      OBVIOUS
    <3> HIDE DEF g
    <3>2. QED
      BY <2>2, <3>1
  <2>4. LevelsUpTo(w, m + 1, g)
    BY <2>3 DEF LevelsUpTo
  <2> HIDE DEF g
  <2>5. QED
    BY <2>4
<1>3. n \in S
  <2> HIDE DEF S
  <2>1. QED
    BY <1>1, <1>2, Climbs
<1>4. QED
  BY <1>3

(* A walk is the last of its levels.                                       *)
LEMMA WalkIsLast ==
  ASSUME NEW w, w.hops \in Nat
  PROVE  \E f : LevelsUpTo(w, w.hops, f) /\ Neighborhood(w) = f[w.hops]
<1> DEFINE F == CHOOSE f : f = [d \in 0..w.hops |-> Level(w, IF d = 0 THEN Start(w) ELSE f[d - 1], d)]
<1>1. \E f : f = [d \in 0..w.hops |-> Level(w, IF d = 0 THEN Start(w) ELSE f[d - 1], d)]
  BY LevelsExist DEF LevelsUpTo
<1>2. F = [d \in 0..w.hops |-> Level(w, IF d = 0 THEN Start(w) ELSE F[d - 1], d)]
  BY <1>1
<1>3. Neighborhood(w) = F[w.hops]
  BY DEF Neighborhood, Start
<1>4. QED
  <2> HIDE DEF F
  <2>1. QED
    BY <1>2, <1>3 DEF LevelsUpTo

Met(all) == {r.entity : r \in all}
Pairs(es, d) == {[entity |-> e, distance |-> d] : e \in es}
Onward(w, all) == {e \in entities \ Met(all) : \E a \in Met(all) : Related(w, a, e)}
Further(w, all, d) == all \cup Pairs(Onward(w, all), d)
WithinUpTo(w, n, f) ==
  f = [d \in 0..n |-> IF d = 0 THEN Pairs(w.seeds \cap entities, 0) ELSE Further(w, f[d - 1], d)]

LEMMA ReachesExist ==
  ASSUME NEW w, NEW n \in Nat
  PROVE  \E f : WithinUpTo(w, n, f)
<1> DEFINE S == {m \in Nat : \E f : WithinUpTo(w, m, f)}
           zero == Pairs(w.seeds \cap entities, 0)
<1>1. 0 \in S
  <2> DEFINE f == [d \in 0..0 |-> zero]
  <2>1. f = [d \in 0..0 |-> IF d = 0 THEN zero ELSE Further(w, f[d - 1], d)]
    OBVIOUS
  <2>2. QED
    BY <2>1 DEF WithinUpTo
<1>2. ASSUME NEW m \in Nat, m \in S PROVE m + 1 \in S
  <2>1. PICK f : WithinUpTo(w, m, f)
    BY <1>2
  <2> DEFINE g == [d \in 0..(m + 1) |-> IF d = m + 1 THEN Further(w, f[m], d) ELSE f[d]]
  <2>2. ASSUME NEW d \in 0..(m + 1)
        PROVE  g[d] = IF d = 0 THEN zero ELSE Further(w, g[d - 1], d)
    <3>1. CASE d = m + 1
      <4>1. d # 0 /\ d - 1 = m /\ m \in 0..(m + 1) /\ m # m + 1
        BY <3>1
      <4>2. g[d - 1] = f[m]
        BY <4>1
      <4>3. QED
        BY <3>1, <4>1, <4>2
    <3>2. CASE d = 0
      <4>1. d \in 0..m /\ d # m + 1
        BY <3>2
      <4>2. f[d] = zero
        BY <2>1, <3>2, <4>1 DEF WithinUpTo
      <4>3. QED
        BY <3>2, <4>1, <4>2
    <3>3. CASE d # 0 /\ d # m + 1
      <4>1. d \in 0..m /\ d - 1 \in 0..(m + 1) /\ d - 1 # m + 1
        BY <3>3
      <4>2. f[d] = Further(w, f[d - 1], d)
        BY <2>1, <3>3, <4>1 DEF WithinUpTo
      <4>3. g[d] = f[d] /\ g[d - 1] = f[d - 1]
        BY <3>3, <4>1
      <4>4. QED
        BY <3>3, <4>2, <4>3
    <3>4. QED
      BY <3>1, <3>2, <3>3
  <2>3. g = [d \in 0..(m + 1) |-> IF d = 0 THEN zero ELSE Further(w, g[d - 1], d)]
    <3>1. g = [d \in 0..(m + 1) |-> g[d]]
      OBVIOUS
    <3> HIDE DEF g, zero
    <3>2. QED
      BY <2>2, <3>1
  <2>4. WithinUpTo(w, m + 1, g)
    BY <2>3 DEF WithinUpTo
  <2> HIDE DEF g
  <2>5. QED
    BY <2>4
<1>3. n \in S
  <2> HIDE DEF S
  <2>1. QED
    BY <1>1, <1>2, Climbs
<1>4. QED
  BY <1>3

LEMMA ReachIsLast ==
  ASSUME NEW w, w.hops \in Nat
  PROVE  \E f : WithinUpTo(w, w.hops, f) /\ InReach(w) = f[w.hops]
<1> DEFINE body(f) ==
             [n \in 0..w.hops |->
                IF n = 0 THEN {[entity |-> e, distance |-> 0] : e \in w.seeds \cap entities}
                ELSE LET known == f[n - 1]
                         met == {r.entity : r \in known}
                     IN known \cup {[entity |-> b, distance |-> n] : b \in
                                      {e \in entities \ met : \E a \in met : Related(w, a, e)}}]
           F == CHOOSE f : f = body(f)
<1>1. \A f : body(f) = [d \in 0..w.hops |-> IF d = 0 THEN Pairs(w.seeds \cap entities, 0)
                                           ELSE Further(w, f[d - 1], d)]
  BY DEF Pairs, Further, Onward, Met
<1>2. \E f : f = body(f)
  <2>1. PICK f : WithinUpTo(w, w.hops, f)
    BY ReachesExist
  <2> HIDE DEF body
  <2>2. f = body(f)
    BY <1>1, <2>1 DEF WithinUpTo
  <2>3. QED
    BY <2>2
<1>3. F = body(F)
  <2> HIDE DEF body
  <2>1. QED
    BY <1>2
<1>4. InReach(w) = F[w.hops]
  BY DEF InReach
<1>5. QED
  <2> HIDE DEF F, body
  <2>1. QED
    BY <1>1, <1>3, <1>4 DEF WithinUpTo

-----------------------------------------------------------------------------
(* The nearest                                                             *)

(* Found entities, each with a distance short of d.                        *)
Known(all, d) ==
  /\ IsFiniteSet(all)
  /\ \A r \in all : /\ r = [entity |-> r.entity, distance |-> r.distance]
                    /\ r.entity \in Nat /\ r.distance \in Nat /\ r.distance < d
Nearest(all, n) == {r \in all : Cardinality({q \in all : Nearer(q, r)}) < n}

LEMMA FewAreNearest ==
  ASSUME NEW all, NEW d \in Nat, Known(all, d), NEW n \in Nat, Cardinality(all) <= n
  PROVE  Nearest(all, n) = all
<1> SUFFICES ASSUME NEW r \in all PROVE Cardinality({q \in all : Nearer(q, r)}) < n
  BY DEF Nearest
<1>1. ~Nearer(r, r)
  BY DEF Nearer, Known
<1>2. {q \in all : Nearer(q, r)} \in SUBSET (all \ {r})
  BY <1>1
<1>3. /\ IsFiniteSet(all \ {r}) /\ Cardinality(all \ {r}) = Cardinality(all) - 1
      /\ Cardinality(all) \in Nat
  BY FS_RemoveElement, FS_CardinalityType DEF Known
<1>4. /\ Cardinality({q \in all : Nearer(q, r)}) <= Cardinality(all \ {r})
      /\ Cardinality({q \in all : Nearer(q, r)}) \in Nat
  BY <1>2, <1>3, FS_Subset, FS_CardinalityType
<1>5. QED
  BY <1>3, <1>4

LEMMA PairsAre ==
  ASSUME NEW es \in SUBSET entities, entities \subseteq Nat, IsFiniteSet(entities),
         NEW d \in Nat, NEW all, Known(all, d)
  PROVE  /\ IsFiniteSet(es) /\ IsFiniteSet(Pairs(es, d)) /\ Cardinality(Pairs(es, d)) = Cardinality(es)
         /\ Cardinality(es) \in Nat /\ Cardinality(all) \in Nat
         /\ Cardinality(all \cup Pairs(es, d)) = Cardinality(all) + Cardinality(es)
         /\ Known(all \cup Pairs(es, d), d + 1)
         /\ Met(all \cup Pairs(es, d)) = Met(all) \cup es
<1>1. IsFiniteSet(es) /\ Cardinality(es) \in Nat /\ Cardinality(all) \in Nat /\ IsFiniteSet(all)
  BY FS_Subset, FS_CardinalityType DEF Known
<1> DEFINE f == [e \in es |-> [entity |-> e, distance |-> d]]
<1>2. f \in Bijection(es, Pairs(es, d))
  <2>1. f \in [es -> Pairs(es, d)] /\ \A p \in Pairs(es, d) : \E e \in es : f[e] = p
    BY DEF Pairs
  <2>2. \A a, b \in es : f[a] = f[b] => a = b
    BY DEF Pairs
  <2>3. QED
    BY <2>1, <2>2 DEF Bijection, Injection, IsInjective, Surjection
<1>3. IsFiniteSet(Pairs(es, d)) /\ Cardinality(Pairs(es, d)) = Cardinality(es)
  BY <1>1, <1>2, FS_Bijection DEF ExistsBijection
<1>4. \A p \in Pairs(es, d) : /\ p.distance = d /\ p.entity \in es
                              /\ p = [entity |-> p.entity, distance |-> p.distance]
  BY DEF Pairs
<1>5. all \cap Pairs(es, d) = {}
  BY <1>4 DEF Known
<1>6. Cardinality(all \cup Pairs(es, d)) = Cardinality(all) + Cardinality(es)
  <2>1. /\ IsFiniteSet(all \cup Pairs(es, d)) /\ Cardinality({}) = 0
        /\ Cardinality(all \cup Pairs(es, d))
             = Cardinality(all) + Cardinality(Pairs(es, d)) - Cardinality(all \cap Pairs(es, d))
    BY <1>1, <1>3, FS_Union, FS_EmptySet
  <2>2. Cardinality(all \cap Pairs(es, d)) = 0
    BY <1>5, <2>1
  <2>3. QED
    BY <1>1, <1>3, <2>1, <2>2
<1>7. Known(all \cup Pairs(es, d), d + 1)
  <2>1. IsFiniteSet(all \cup Pairs(es, d))
    BY <1>1, <1>3, FS_Union
  <2>2. ASSUME NEW r \in all \cup Pairs(es, d)
        PROVE  /\ r = [entity |-> r.entity, distance |-> r.distance]
               /\ r.entity \in Nat /\ r.distance \in Nat /\ r.distance < d + 1
    BY <1>4 DEF Known
  <2>3. QED
    BY <2>1, <2>2 DEF Known
<1>8. Met(all \cup Pairs(es, d)) = Met(all) \cup es
  <2>1. \A e \in es : [entity |-> e, distance |-> d] \in Pairs(es, d)
    BY DEF Pairs
  <2>2. QED
    BY <1>4, <2>1 DEF Met
<1>9. QED
  BY <1>1, <1>3, <1>6, <1>7, <1>8

(* The first of some numbers are all of them when there is room.           *)
LEMMA FirstAreAll ==
  ASSUME NEW due \in SUBSET Nat, IsFiniteSet(due), NEW room \in Nat
  PROVE  FirstOf(due, room) = due <=> Cardinality(due) <= room
<1> DEFINE below(i) == {j \in due : j < i}
<1>1. Cardinality(due) \in Nat
  BY FS_CardinalityType
<1>2. ASSUME NEW i \in due
      PROVE  /\ IsFiniteSet(below(i)) /\ Cardinality(below(i)) \in Nat
             /\ Cardinality(below(i)) <= Cardinality(due) - 1
  <2>1. below(i) \in SUBSET (due \ {i})
    OBVIOUS
  <2>2. IsFiniteSet(due \ {i}) /\ Cardinality(due \ {i}) = Cardinality(due) - 1
    BY FS_RemoveElement
  <2> HIDE DEF below
  <2>3. QED
    BY <2>1, <2>2, FS_Subset, FS_CardinalityType
<1>3. ASSUME Cardinality(due) <= room PROVE FirstOf(due, room) = due
  <2>1. \A i \in due : Cardinality(below(i)) < room
    BY <1>1, <1>2, <1>3
  <2>2. QED
    BY <2>1 DEF FirstOf
<1>4. ASSUME FirstOf(due, room) = due PROVE Cardinality(due) <= room
  <2> DEFINE rank == [i \in due |-> Cardinality(below(i))]
  <2>1. \A i \in due : Cardinality(below(i)) < room
    BY <1>4 DEF FirstOf
  <2>2. ASSUME NEW i \in due, NEW j \in due, i < j
        PROVE  Cardinality(below(i)) < Cardinality(below(j))
    <3>0. \A k \in due : k < i => k < j
      BY <2>2
    <3>1. below(i) \in SUBSET below(j) /\ i \in below(j) /\ i \notin below(i)
      <4>1. below(i) \subseteq below(j)
        BY <3>0
      <4>2. i \in Nat /\ ~(i < i)
        OBVIOUS
      <4>3. QED
        BY <2>2, <4>1, <4>2
    <3>2. /\ Cardinality(below(i)) <= Cardinality(below(j))
          /\ Cardinality(below(j)) # Cardinality(below(i))
      <4>1. IsFiniteSet(below(j))
        BY <1>2
      <4> HIDE DEF below
      <4>2. QED
        BY <3>1, <4>1, FS_Subset
    <3>3. Cardinality(below(i)) \in Nat /\ Cardinality(below(j)) \in Nat
      BY <1>2
    <3> HIDE DEF below
    <3>4. QED
      BY <3>2, <3>3
  <2>3. rank \in Injection(due, 0..(room - 1))
    <3>1. \A i \in due : Cardinality(below(i)) \in 0..(room - 1)
      BY <1>2, <2>1
    <3>2. ASSUME NEW i \in due, NEW j \in due, i # j
          PROVE  Cardinality(below(i)) # Cardinality(below(j))
      <4>1. i < j \/ j < i
        BY <3>2
      <4>2. Cardinality(below(i)) \in Nat /\ Cardinality(below(j)) \in Nat
        BY <1>2
      <4> HIDE DEF below
      <4>3. QED
        BY <2>2, <4>1, <4>2
    <3> HIDE DEF below
    <3>3. QED
      BY <3>1, <3>2 DEF Injection, IsInjective
  <2>4. IsFiniteSet(0..(room - 1)) /\ Cardinality(0..(room - 1)) = room
    <3>1. 0 \in Int /\ room - 1 \in Int /\ (0 > room - 1 => room = 0) /\ (room - 1) - 0 + 1 = room
      OBVIOUS
    <3>2. QED
      BY <3>1, FS_Interval
  <2>5. QED
    BY <2>3, <2>4, FS_Injection
<1>5. QED
  BY <1>3, <1>4

(* What is farther than n others leaves the n nearest as they were.        *)
LEMMA NearestStay ==
  ASSUME NEW es \in SUBSET entities, entities \subseteq Nat, IsFiniteSet(entities),
         NEW d \in Nat, NEW all, Known(all, d), NEW n \in Nat, Cardinality(all) > n
  PROVE  /\ Nearest(all \cup Pairs(es, d), n) = Nearest(all, n)
         /\ Cardinality(all \cup Pairs(es, d)) > n
<1> DEFINE new == Pairs(es, d)
           more == all \cup new
<1>1. /\ IsFiniteSet(more) /\ Cardinality(all) \in Nat /\ Cardinality(es) \in Nat
      /\ Cardinality(more) = Cardinality(all) + Cardinality(es)
  BY PairsAre DEF Known
<1>2. \A p \in new : p.distance = d
  BY DEF Pairs
<1>3. ASSUME NEW r \in all PROVE {q \in more : Nearer(q, r)} = {q \in all : Nearer(q, r)}
  BY <1>2 DEF Nearer, Known
<1>4. ASSUME NEW r \in new PROVE ~(Cardinality({q \in more : Nearer(q, r)}) < n)
  <2>1. \A q \in all : Nearer(q, r)
    BY <1>2 DEF Nearer, Known
  <2>2. all \in SUBSET {q \in more : Nearer(q, r)} /\ {q \in more : Nearer(q, r)} \in SUBSET more
    BY <2>1
  <2> DEFINE close == {q \in more : Nearer(q, r)}
  <2> HIDE DEF close, more
  <2>3. IsFiniteSet(close) /\ Cardinality(close) \in Nat /\ Cardinality(all) <= Cardinality(close)
    BY <1>1, <2>2, FS_Subset, FS_CardinalityType DEF close
  <2>4. QED
    BY <1>1, <2>3 DEF close
<1>5. QED
  BY <1>1, <1>3, <1>4 DEF Nearest

(* With room left, the nearest are joined by the first of a level.         *)
LEMMA NearestGrow ==
  ASSUME NEW due \in SUBSET entities, entities \subseteq Nat, IsFiniteSet(entities),
         NEW d \in Nat, NEW all, Known(all, d), NEW n \in Nat, Cardinality(all) <= n
  PROVE  Nearest(all \cup Pairs(due, d), n) = all \cup Pairs(FirstOf(due, n - Cardinality(all)), d)
<1> DEFINE new == Pairs(due, d)
           more == all \cup new
           room == n - Cardinality(all)
           pair(e) == [entity |-> e, distance |-> d]
<1>0. Cardinality(all) \in Nat /\ IsFiniteSet(due)
  BY PairsAre
<1>1. Cardinality(all) \in Nat /\ room \in Nat /\ IsFiniteSet(due)
  BY <1>0
<1>2. \A p \in new : p.distance = d /\ p.entity \in due
  BY DEF Pairs
<1>3. ASSUME NEW r \in all PROVE r \in Nearest(more, n)
  <2>1. {q \in more : Nearer(q, r)} = {q \in all : Nearer(q, r)}
    BY <1>2 DEF Nearer, Known
  <2>2. r \in Nearest(all, n)
    BY FewAreNearest
  <2>3. QED
    BY <2>1, <2>2 DEF Nearest
<1>4. ASSUME NEW e \in due
      PROVE  pair(e) \in Nearest(more, n) <=> e \in FirstOf(due, room)
  <2> DEFINE below == {j \in due : j < e}
             near == {q \in more : Nearer(q, pair(e))}
  <2>1. near = all \cup Pairs(below, d)
    <3>1. \A q \in all : Nearer(q, pair(e))
      BY DEF Nearer, Known
    <3>2. \A j \in due : Nearer(pair(j), pair(e)) <=> j < e
      BY DEF Nearer
    <3>3. QED
      BY <3>1, <3>2 DEF Pairs
  <2>2. below \in SUBSET entities
    OBVIOUS
  <2> HIDE DEF below, near
  <2>3. Cardinality(near) = Cardinality(all) + Cardinality(below) /\ Cardinality(below) \in Nat
    BY <2>1, <2>2, PairsAre
  <2>4. pair(e) \in more
    BY DEF Pairs
  <2>5. pair(e) \in Nearest(more, n) <=> Cardinality(near) < n
    BY <2>4 DEF Nearest, near
  <2>6. e \in FirstOf(due, room) <=> Cardinality(below) < room
    BY DEF FirstOf, below
  <2>7. QED
    BY <1>1, <2>3, <2>5, <2>6
<1>5. FirstOf(due, room) \subseteq due
  BY DEF FirstOf
<1>6. \A p \in new : \E e \in due : p = pair(e)
  BY DEF Pairs
<1>7. \A p \in Pairs(FirstOf(due, room), d) : \E e \in FirstOf(due, room) : p = pair(e)
  BY DEF Pairs
<1>8. \A e \in FirstOf(due, room) : pair(e) \in Pairs(FirstOf(due, room), d)
  BY DEF Pairs
<1>9. Nearest(more, n) \subseteq more
  BY DEF Nearest
<1> DEFINE first == FirstOf(due, room)
           joining == Pairs(first, d)
           near == Nearest(more, n)
<1>10. more = all \cup new
  OBVIOUS
<1> HIDE DEF room, new, pair, more, first, joining, near
<1>11. ASSUME NEW r \in near PROVE r \in all \cup joining
  <2>1. CASE r \in all
    BY <2>1
  <2>2. CASE r \in new
    <3>1. PICK e \in due : r = pair(e)
      BY <1>6, <2>2
    <3>2. e \in first
      BY <1>4, <1>11, <3>1 DEF first, near
    <3>3. r \in joining
      BY <1>8, <3>1, <3>2 DEF first, joining
    <3>4. QED
      BY <3>3
  <2>3. QED
    BY <1>9, <1>10, <1>11, <2>1, <2>2 DEF near
<1>12. ASSUME NEW r \in joining PROVE r \in near
  <2>1. PICK e \in first : r = pair(e)
    BY <1>7, <1>12 DEF first, joining
  <2>2. QED
    BY <1>4, <1>5, <2>1 DEF first, near
<1>13. near = all \cup joining
  BY <1>3, <1>11, <1>12 DEF near
<1>14. QED
  BY <1>13 DEF near, more, new, joining, first, room

-----------------------------------------------------------------------------
(* Walks                                                                   *)

(* By the forward map or by the reverse one, a neighbour is what an edge in*)
(* force relates.                                                          *)
LEMMA NeighboursAre ==
  ASSUME EdgeInv, NEW w, w.direction \in {"out", "in", "both"}, NEW id
  PROVE  Neighbours(id, w) = {e \in entities : Related(w, id, e)}
<1> DEFINE On(t) == InForce(LogOf(t), w.valid_t, w.tx_t) # {}
<1>1. \A t \in DOMAIN logs : IsTriple(t) /\ t[1] \in entities /\ t[3] \in entities
  BY DEF EdgeInv, Sound
<1>2. \A t \in DOMAIN logs : LogOf(t) = logs[t]
  BY DEF LogOf
<1>3. EdgesFrom(id, w.valid_t, w.tx_t) = {t \in DOMAIN logs : t[1] = id /\ On(t)}
  BY <1>2 DEF EdgesFrom
<1>4. {<<sp[1], sp[2], id>> : sp \in IF id \in DOMAIN into THEN into[id] ELSE {}}
        = {t \in DOMAIN logs : t[3] = id}
  <2>1. (IF id \in DOMAIN into THEN into[id] ELSE {}) = {Slot(t) : t \in {u \in DOMAIN logs : u[3] = id}}
    BY SourcesOf DEF EdgeInv, Mirrors
  <2>2. \A t \in DOMAIN logs : t[3] = id => <<Slot(t)[1], Slot(t)[2], id>> = t
    BY <1>1 DEF Slot, IsTriple
  <2>3. QED
    BY <2>1, <2>2
<1>5. EdgesInto(id, w.valid_t, w.tx_t) = {t \in DOMAIN logs : t[3] = id /\ On(t)}
  BY <1>4 DEF EdgesInto
<1> DEFINE onward == {t \in DOMAIN logs : t[1] = id /\ On(t) /\ Wants(w, t[2]) /\ w.direction # "in"}
           back == {t \in DOMAIN logs : t[3] = id /\ On(t) /\ Wants(w, t[2]) /\ w.direction # "out"}
<1>6. Neighbours(id, w) = {t[3] : t \in onward} \cup {t[1] : t \in back}
  BY <1>3, <1>5 DEF Neighbours
<1>7. ASSUME NEW e
      PROVE  Related(w, id, e) <=> (\E t \in onward : t[3] = e) \/ (\E t \in back : t[1] = e)
  BY <1>2 DEF Related
<1> HIDE DEF On
<1>8. QED
  BY <1>1, <1>6, <1>7

(* After a level the walk has the nearest of what is in reach, knows       *)
(* whether that is all of it, and if so what is due next.                  *)
LevelIs(w, s, all, d) ==
  /\ Known(all, d + 1)
  /\ s.reached = Nearest(all, w.budget)
  /\ s.truncated \in BOOLEAN /\ (s.truncated <=> Cardinality(all) > w.budget)
  /\ ~s.truncated => s.seen = Met(all) /\ (d < w.hops => Due(s) = Onward(w, all))

LEMMA LevelReaches ==
  ASSUME EdgeInv, entities \subseteq Nat, IsFiniteSet(entities),
         NEW w, w.hops \in Nat, w.budget \in Nat, w.direction \in {"out", "in", "both"},
         NEW d \in Nat, d <= w.hops, NEW all, Known(all, d), NEW due \in SUBSET entities, NEW s,
         s.reached = Nearest(all, w.budget), s.truncated \in BOOLEAN,
         s.truncated <=> Cardinality(all) > w.budget,
         ~s.truncated => s.seen = Met(all) /\ Due(s) = due,
         \A a \in Met(all), e \in entities : Related(w, a, e) => e \in Met(all) \cup due
  PROVE  LevelIs(w, Level(w, s, d), all \cup Pairs(due, d), d)
<1> DEFINE more == all \cup Pairs(due, d)
           b == w.budget
<1>1. /\ Known(more, d + 1) /\ Cardinality(all) \in Nat /\ IsFiniteSet(due) /\ Cardinality(due) \in Nat
      /\ Cardinality(more) = Cardinality(all) + Cardinality(due) /\ Met(more) = Met(all) \cup due
  BY PairsAre
<1>2. CASE s.truncated
  <2>1. Nearest(more, b) = Nearest(all, b) /\ Cardinality(more) > b
    BY <1>2, NearestStay
  <2>2. Level(w, s, d) = s
    BY <1>2 DEF Level
  <2>3. s.truncated <=> Cardinality(more) > b
    BY <1>2, <2>1
  <2>4. s.reached = Nearest(more, b)
    BY <2>1
  <2> HIDE DEF more
  <2>5. LevelIs(w, s, more, d)
    BY <1>1, <1>2, <2>3, <2>4 DEF LevelIs
  <2>6. QED
    BY <2>2, <2>5 DEF more
<1>3. CASE ~s.truncated
  <2> DEFINE room == b - Cardinality(all)
             taken == FirstOf(due, room)
             passed(id) == s.seen \cup {i \in s.frontier : i <= id}
             onward == IF d = w.hops THEN {} ELSE UNION {Neighbours(id, w) \ passed(id) : id \in taken}
             t == Level(w, s, d)
  <2>1. Cardinality(all) <= b /\ room \in Nat
    BY <1>1, <1>3
  <2>2. s.reached = all
    BY <2>1, FewAreNearest
  <2>3. /\ t.reached = s.reached \cup Pairs(taken, d) /\ t.seen = s.seen \cup taken
        /\ t.frontier = onward /\ t.truncated = (taken # due)
    BY <1>3, <2>2 DEF Level, Pairs
  <2>4. t.reached = Nearest(more, b)
    <3>1. Nearest(all \cup Pairs(due, d), w.budget)
            = all \cup Pairs(FirstOf(due, w.budget - Cardinality(all)), d)
      <4> DEFINE n == w.budget
      <4>1. n \in Nat /\ Cardinality(all) <= n
        BY <2>1
      <4> HIDE DEF n
      <4>2. Nearest(all \cup Pairs(due, d), n) = all \cup Pairs(FirstOf(due, n - Cardinality(all)), d)
        BY <4>1, NearestGrow
      <4>3. QED
        BY <4>2 DEF n
    <3>2. Nearest(more, b) = all \cup Pairs(taken, d)
      BY <3>1
    <3> HIDE DEF t, more, onward, taken
    <3>3. QED
      BY <2>2, <2>3, <3>2
  <2>5. taken = due <=> Cardinality(due) <= room
    BY <1>1, <2>1, FirstAreAll
  <2>6. t.truncated <=> Cardinality(more) > b
    <3> HIDE DEF t, more, taken, onward
    <3>1. taken # due <=> Cardinality(more) > b
      BY <1>1, <2>1, <2>5
    <3>2. QED
      BY <2>3, <3>1, Zenon
  <2>7. ASSUME ~t.truncated PROVE t.seen = Met(more) /\ (d < w.hops => Due(t) = Onward(w, more))
    <3>1. taken = due /\ t.seen = Met(more)
      <4> HIDE DEF t, more, taken, onward
      <4>1. QED
        BY <1>1, <1>3, <2>3, <2>7
    <3>2. ASSUME d < w.hops PROVE Due(t) = Onward(w, more)
      <4> DEFINE front == UNION {Neighbours(id, w) \ passed(id) : id \in due}
      <4>1. t.frontier = front /\ Due(t) = front \ Met(more)
        <5>1. onward = front
          BY <3>1, <3>2
        <5> HIDE DEF t, onward, front, more
        <5>2. QED
          BY <2>3, <3>1, <5>1 DEF Due
      <4>2. \A id : Neighbours(id, w) = {e \in entities : Related(w, id, e)}
        BY NeighboursAre
      <4>3. ASSUME NEW e \in Due(t) PROVE e \in Onward(w, more)
        <5>1. PICK id \in due : e \in Neighbours(id, w)
          BY <4>1
        <5>2. id \in Met(more) /\ e \notin Met(more)
          BY <1>1, <4>1
        <5>3. QED
          BY <4>2, <5>1, <5>2 DEF Onward
      <4>4. ASSUME NEW e \in Onward(w, more) PROVE e \in Due(t)
        <5>1. PICK a \in Met(more) : Related(w, a, e)
          BY DEF Onward
        <5>2. e \in entities /\ e \notin Met(more) /\ e \notin Met(all) /\ e \notin due
          BY <1>1 DEF Onward
        <5>3. a \in due
          BY <1>1, <5>1, <5>2
        <5>4. e \notin passed(a)
          BY <1>3, <5>2 DEF Due
        <5>5. e \in Neighbours(a, w)
          BY <4>2, <5>1, <5>2
        <5> HIDE DEF passed
        <5>6. e \in front
          BY <5>3, <5>4, <5>5
        <5>7. QED
          BY <4>1, <5>2, <5>6
      <4>5. QED
        BY <4>3, <4>4
    <3>3. QED
      BY <3>1, <3>2
  <2>8. t.truncated \in BOOLEAN
    BY <2>3
  <2> HIDE DEF t, more
  <2>9. LevelIs(w, t, more, d)
    BY <1>1, <2>4, <2>6, <2>7, <2>8, Zenon DEF LevelIs
  <2>10. QED
    BY <2>9 DEF t, more
<1>4. QED
  BY <1>2, <1>3

LEMMA WalkReaches ==
  ASSUME EdgeInv, entities \subseteq Nat, IsFiniteSet(entities), NEW w \in Walks
  PROVE  /\ Neighborhood(w).reached = Nearest(InReach(w), w.budget)
         /\ Neighborhood(w).truncated <=> Cardinality(InReach(w)) > w.budget
<1>1. w.hops \in Nat /\ w.budget \in Nat /\ w.direction \in {"out", "in", "both"}
  BY WalkAssumption
<1>2. PICK f : LevelsUpTo(w, w.hops, f) /\ Neighborhood(w) = f[w.hops]
  BY <1>1, WalkIsLast
<1>3. PICK g : WithinUpTo(w, w.hops, g) /\ InReach(w) = g[w.hops]
  BY <1>1, ReachIsLast
<1> DEFINE S == {d \in Nat : d <= w.hops => LevelIs(w, f[d], g[d], d)}
           seeds == w.seeds \cap entities
<1>4. 0 \in S
  <2>1. f[0] = Level(w, Start(w), 0)
    BY <1>1, <1>2 DEF LevelsUpTo
  <2>2. g[0] = {} \cup Pairs(seeds, 0)
    BY <1>1, <1>3 DEF WithinUpTo
  <2>3. Known({}, 0) /\ Nearest({}, w.budget) = {} /\ Met({}) = {} /\ Cardinality({}) = 0
    BY FS_EmptySet DEF Known, Nearest, Met
  <2>4. /\ Start(w).reached = {} /\ Start(w).truncated = FALSE /\ Start(w).seen = {}
        /\ Due(Start(w)) = seeds
    BY DEF Start, Due
  <2>5. seeds \in SUBSET entities /\ ~(0 > w.budget) /\ 0 <= w.hops /\ 0 \in Nat
    BY <1>1
  <2> DEFINE none == {}
             s == Start(w)
  <2>6. /\ Known(none, 0) /\ s.reached = Nearest(none, w.budget) /\ s.truncated \in BOOLEAN
        /\ s.truncated <=> Cardinality(none) > w.budget
        /\ ~s.truncated => s.seen = Met(none) /\ Due(s) = seeds
        /\ \A a \in Met(none), e \in entities : Related(w, a, e) => e \in Met(none) \cup seeds
    BY <2>3, <2>4, <2>5
  <2> HIDE DEF seeds, none, s
  <2>7. LevelIs(w, Level(w, s, 0), none \cup Pairs(seeds, 0), 0)
    BY <1>1, <2>5, <2>6, LevelReaches
  <2>8. QED
    BY <2>1, <2>2, <2>7 DEF none, s
<1>5. ASSUME NEW d \in Nat, d \in S PROVE d + 1 \in S
  <2>1. SUFFICES ASSUME d + 1 <= w.hops PROVE LevelIs(w, f[d + 1], g[d + 1], d + 1)
    OBVIOUS
  <2>2. d + 1 \in 0..w.hops /\ d + 1 # 0 /\ (d + 1) - 1 = d /\ d < w.hops /\ d <= w.hops
    BY <1>1, <2>1
  <2>3. f[d + 1] = Level(w, f[d], d + 1)
    BY <1>2, <2>2 DEF LevelsUpTo
  <2>4. g[d + 1] = g[d] \cup Pairs(Onward(w, g[d]), d + 1)
    BY <1>3, <2>2 DEF WithinUpTo, Further
  <2>5. LevelIs(w, f[d], g[d], d)
    BY <1>5, <2>2
  <2> DEFINE all == g[d]
             s == f[d]
             due == Onward(w, all)
  <2>6. /\ due \in SUBSET entities
        /\ \A a \in Met(all), e \in entities : Related(w, a, e) => e \in Met(all) \cup due
    BY DEF Onward
  <2> HIDE DEF all, s, due
  <2>7. /\ Known(all, d + 1) /\ s.reached = Nearest(all, w.budget) /\ s.truncated \in BOOLEAN
        /\ s.truncated <=> Cardinality(all) > w.budget
        /\ ~s.truncated => s.seen = Met(all) /\ Due(s) = due
    BY <2>2, <2>5 DEF LevelIs, all, s, due
  <2>8. LevelIs(w, Level(w, s, d + 1), all \cup Pairs(due, d + 1), d + 1)
    BY <1>1, <2>1, <2>6, <2>7, LevelReaches
  <2>9. QED
    BY <2>3, <2>4, <2>8 DEF all, s, due
<1>6. w.hops \in S
  <2> HIDE DEF S
  <2>1. QED
    BY <1>1, <1>4, <1>5, Climbs
<1>7. LevelIs(w, f[w.hops], g[w.hops], w.hops)
  BY <1>1, <1>6
<1>8. QED
  BY <1>2, <1>3, <1>7 DEF LevelIs

LEMMA EntitiesStay ==
  /\ EdgesInit => entities \subseteq Ids
  /\ entities \subseteq Ids /\ [EdgesNext]_edgeVars => entities' \subseteq Ids
<1>1. EdgesInit => entities \subseteq Ids
  BY DEF EdgesInit
<1>2. ASSUME entities \subseteq Ids, [EdgesNext]_edgeVars PROVE entities' \subseteq Ids
  <2>1. CASE UNCHANGED entities
    BY <1>2, <2>1
  <2>2. CASE CreateEntity
    BY <1>2, <2>2 DEF CreateEntity
  <2>3. ASSUME NEW f \in Snapshots, Open(f) PROVE entities' \subseteq Ids
    <3>1. f.entities \subseteq Ids
      BY EdgeAssumption DEF Parses
    <3>2. entities' = entities \/ entities' = f.entities
      BY <2>3 DEF Open, Refuse, edgeVars, svars
    <3>3. QED
      BY <1>2, <3>1, <3>2
  <2>4. ASSUME NEW s, NEW p, NEW o, NEW version, PushEdge(s, p, o, version) PROVE entities' \subseteq Ids
    BY <2>1, <2>4 DEF PushEdge, Refuse, edgeVars, svars
  <2>5. ASSUME NEW e, EraseEdges(e) PROVE entities' \subseteq Ids
    BY <2>1, <2>5 DEF EraseEdges, Refuse, edgeVars, svars
  <2>6. ASSUME NEW from, NEW to, RepointEdges(from, to) PROVE entities' \subseteq Ids
    BY <2>1, <2>6 DEF RepointEdges, Refuse, edgeVars, svars
  <2>7. CASE UNCHANGED edgeVars
    BY <2>1, <2>7 DEF edgeVars, svars
  <2>8. QED
    BY <1>2, <2>2, <2>3, <2>4, <2>5, <2>6, <2>7 DEF EdgesNext, Relate, Unrelate
<1>3. QED
  BY <1>1, <1>2

(* In whatever store, from whatever seeds, over however many hops and      *)
(* within whatever budget: a walk, breadth first and level by level, finds *)
(* exactly the nearest of what is in reach, each at its shortest distance, *)
(* and says truncated exactly when it left something out (rm-graph).       *)
THEOREM WalksFindTheNearest == EdgesSpec => []WalksAreExact
<1> DEFINE Inv == EdgeInv /\ entities \subseteq Ids
<1>0. EdgesInit => Inv
  BY EdgeInvInit, EntitiesStay
<1>1. Inv /\ [EdgesNext]_edgeVars => Inv'
  BY EdgeInvStep, EntitiesStay
<1>2. Inv => WalksAreExact
  <2>1. SUFFICES ASSUME EdgeInv, entities \subseteq Ids PROVE WalksAreExact
    OBVIOUS
  <2>2. entities \subseteq Nat /\ IsFiniteSet(entities)
    BY <2>1, EdgeAssumption, FS_Subset
  <2>3. \A w \in Walks :
          /\ Neighborhood(w).reached = Nearest(InReach(w), w.budget)
          /\ Neighborhood(w).truncated <=> Cardinality(InReach(w)) > w.budget
    BY <2>1, <2>2, WalkReaches
  <2>4. QED
    BY <2>3 DEF WalksAreExact, Nearest
<1>3. QED
  <2> HIDE DEF Inv
  <2>1. QED
    BY <1>0, <1>1, <1>2, PTL DEF EdgesSpec
=============================================================================
