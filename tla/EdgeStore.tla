------------------------------ MODULE EdgeStore ------------------------------
(***************************************************************************)
(* The edges of MemoryStore (crates/rm-store/src/lib.rs): a forward map    *)
(* subject -> predicate -> object -> version log that is saved, and a      *)
(* reverse map that is derived from it, patched by every call and rebuilt  *)
(* by a restore. Entities are here for the ids they hand out.              *)
(*                                                                         *)
(* The nested forward map is its logs by triple, with the keys its two     *)
(* outer levels hold, because a level may be left behind empty. Abstracted:*)
(* of a version's provenance only the observation time and, as a ghost,    *)
(* the order in which versions were said; a valid interval is the set of   *)
(* instants it contains.                                                   *)
(***************************************************************************)
EXTENDS Naturals, Sequences, FiniteSets

CONSTANTS Ids, Predicates, Times, Instants, Intervals, MaxSaid, Snapshots

Version == [present : BOOLEAN, valid : Intervals, at : Times, id : Nat]

Triple == Ids \X Predicates \X Ids
Slot(t) == <<t[1], t[2]>>

(* A snapshot that parses at all: nested maps, so a triple's levels exist. *)
Parses(f) ==
  /\ f.entities \subseteq Ids /\ f.next_id \in Nat /\ f.said \in Nat
  /\ f.subjects \subseteq Ids /\ f.slots \subseteq Ids \X Predicates
  /\ f.logs \in [DOMAIN f.logs -> Seq(Version)] /\ DOMAIN f.logs \subseteq Triple
  /\ \A t \in DOMAIN f.logs : Slot(t) \in f.slots
  /\ \A sp \in f.slots : sp[1] \in f.subjects

(* The ghosts of a snapshot: what it says was not said later.              *)
ToldApart(f) ==
  \A t \in DOMAIN f.logs : \A i \in DOMAIN f.logs[t] : f.logs[t][i].id \notin (f.said + 1)..MaxSaid

ASSUME EdgeAssumption ==
  /\ Ids \subseteq Nat /\ IsFiniteSet(Ids)
  /\ IsFiniteSet(Predicates)
  /\ Times \subseteq Nat
  /\ Instants \subseteq Nat /\ Intervals \subseteq SUBSET Instants
  /\ \A t \in Instants : {u \in Instants : u >= t} \in Intervals
  /\ MaxSaid \in Nat
  /\ \A f \in Snapshots : Parses(f) /\ ToldApart(f)

VARIABLES
  entities, \* the ids of the entities there are
  next_id,  \* the id the next entity gets
  logs,     \* triple to version log
  subjects, \* the keys of the outer level of the forward map
  slots,    \* the keys of its middle level, as <<subject, predicate>>
  into,     \* object to the set of <<subject, predicate>> that point at it
  said,     \* ghost: how many versions were said
  out       \* what the last call that was not refused answered

forward == <<logs, subjects, slots>>
svars == <<entities, next_id, forward, into, said>>
edgeVars == <<svars, out>>

Answer(is, n) == [is |-> is, n |-> n]

EdgesInit ==
  /\ entities = {} /\ next_id = 0
  /\ logs = [t \in {} |-> <<>>] /\ subjects = {} /\ slots = {}
  /\ into = [o \in {} |-> {}]
  /\ said = 0
  /\ out = Answer("none", 0)

(* An error: nothing has changed.                                          *)
Refuse == UNCHANGED edgeVars

CreateEntity ==
  /\ next_id \in Ids
  /\ entities' = entities \cup {next_id}
  /\ next_id' = next_id + 1
  /\ out' = Answer("created", next_id)
  /\ UNCHANGED <<forward, into, said>>

LogOf(t) == IF t \in DOMAIN logs THEN logs[t] ELSE <<>>

(* The reverse map with an entry for each triple in added.                 *)
Hooked(in, added) ==
  [o \in DOMAIN in \cup {t[3] : t \in added} |->
     (IF o \in DOMAIN in THEN in[o] ELSE {})
       \cup {Slot(t) : t \in {a \in added : a[3] = o}}]

(* Mutant: the set left behind empty is kept.                              *)
UnhookedOnly(in, gone) ==
  [o \in DOMAIN in |-> in[o] \ {Slot(t) : t \in {g \in gone : g[3] = o}}]

(* unhook_reverse of each triple in gone: the last one takes the entry.    *)
Unhooked(in, gone) ==
  LET left(o) == in[o] \ {Slot(t) : t \in {g \in gone : g[3] = o}}
  IN [o \in {x \in DOMAIN in : left(x) # {} \/ \A g \in gone : g[3] # x} |-> left(o)]

PushEdge(s, p, o, version) ==
  LET t == <<s, p, o>>
  IN \/ /\ ~({s, o} \subseteq entities)
        /\ Refuse
     \/ /\ {s, o} \subseteq entities /\ s = o
        /\ Refuse
     \/ /\ {s, o} \subseteq entities /\ s # o
        /\ said < MaxSaid /\ said' = said + 1
        /\ logs' = [u \in DOMAIN logs \cup {t} |->
                      IF u = t THEN Append(LogOf(t), version) ELSE logs[u]]
        /\ subjects' = subjects \cup {s}
        /\ slots' = slots \cup {<<s, p>>}
        /\ into' = Hooked(into, {t})
        /\ out' = Answer("ok", 0)
        /\ UNCHANGED <<entities, next_id>>

Relate(s, p, o, valid, at) ==
  PushEdge(s, p, o, [present |-> TRUE, valid |-> valid, at |-> at, id |-> said + 1])

(* A tombstone from an instant on, observed at another.                    *)
Unrelate(s, p, o, from, at) ==
  PushEdge(s, p, o, [present |-> FALSE, valid |-> {t \in Instants : t >= from},
                     at |-> at, id |-> said + 1])

Without(l, gone) == [t \in DOMAIN l \ gone |-> l[t]]

(* prune_empty of each pair in touched, given the triples that are left.   *)
PrunedSlots(sl, left, touched) ==
  sl \ {sp \in touched : \A t \in left : Slot(t) # sp}
PrunedSubjects(su, sl, touched) ==
  su \ {s \in su : (\E sp \in touched : sp[1] = s) /\ \A sp \in sl : sp[1] # s}

(* Outgoing: the subtree of e, and what pointed from it in the reverse     *)
(* map. Incoming: whatever the reverse map still names.                    *)
EraseEdges(e) ==
  \/ /\ e \notin entities
     /\ Refuse
  \/ /\ e \in entities
     /\ LET outgoing == {t \in DOMAIN logs : t[1] = e}
            into1 == Unhooked(into, outgoing)
            sources == IF e \in DOMAIN into1 THEN into1[e] ELSE {}
            incoming == {t \in DOMAIN logs \ outgoing : t[3] = e /\ Slot(t) \in sources}
            left == DOMAIN logs \ (outgoing \cup incoming)
            slots1 == {sp \in slots : sp[1] # e}
        IN /\ logs' = Without(logs, outgoing \cup incoming)
           /\ slots' = PrunedSlots(slots1, left, sources)
           /\ subjects' = PrunedSubjects(subjects \ {e}, slots', sources)
           /\ into' = [o \in DOMAIN into1 \ {e} |-> into1[o]]
           /\ out' = Answer("erased", Cardinality(outgoing) + Cardinality(incoming))
     /\ UNCHANGED <<entities, next_id, said>>

(* sort_by_key on the ingestion time, which is stable: the place of the    *)
(* i-th version is how many do not come after it.                          *)
Place(c, i) ==
  Cardinality({j \in DOMAIN c : c[j].at < c[i].at \/ (c[j].at = c[i].at /\ j <= i)})
Sorted(c) == [k \in 1..Len(c) |-> c[CHOOSE i \in DOMAIN c : Place(c, i) = k]]

(* Mutant: the arriving log replaces the one that is there.                *)
AbsorbedOver(log, arriving) == arriving

(* absorb_edge: a log that is there is extended and sorted, an empty slot  *)
(* takes the arriving log as it stood.                                     *)
Absorbed(log, arriving) ==
  IF log = <<>> THEN arriving ELSE Sorted(log \o arriving)

(* One pass of repoint_edges: the triples of gone leave, and those that    *)
(* stay two-ended arrive where Moved puts them.                            *)
Moved(t, from, to) ==
  <<IF t[1] = from THEN to ELSE t[1], t[2], IF t[3] = from THEN to ELSE t[3]>>

Arrived(l, gone, from, to) ==
  LET arriving == {t \in gone : Moved(t, from, to)[1] # Moved(t, from, to)[3]}
      rest == DOMAIN l \ gone
      landed == {Moved(t, from, to) : t \in arriving}
  IN [u \in rest \cup landed |->
        IF u \notin landed THEN l[u]
        ELSE LET t == CHOOSE t \in arriving : Moved(t, from, to) = u
             IN Absorbed(IF u \in rest THEN l[u] ELSE <<>>, l[t])]

RepointEdges(from, to) ==
  \/ /\ ~({from, to} \subseteq entities)
     /\ Refuse
  \/ /\ {from, to} \subseteq entities /\ from = to
     /\ Refuse
  \/ /\ {from, to} \subseteq entities /\ from # to
     /\ LET outgoing == {t \in DOMAIN logs : t[1] = from}
            landed1 == {<<to, t[2], t[3]>> : t \in {u \in outgoing : u[3] # to}}
            logs1 == Arrived(logs, outgoing, from, to)
            subjects1 == (subjects \ {from}) \cup {t[1] : t \in landed1}
            slots1 == {sp \in slots : sp[1] # from} \cup {Slot(t) : t \in landed1}
            into1 == Hooked(Unhooked(into, outgoing), landed1)
            sources == IF from \in DOMAIN into1 THEN into1[from] ELSE {}
            incoming == {t \in DOMAIN logs1 : t[3] = from /\ Slot(t) \in sources}
            landed2 == {<<t[1], t[2], to>> : t \in {u \in incoming : u[1] # to}}
            slots2 == PrunedSlots(slots1, DOMAIN logs1 \ incoming, sources)
        IN /\ logs' = Arrived(logs1, incoming, from, to)
           /\ slots' = slots2 \cup {Slot(t) : t \in landed2}
           /\ subjects' = PrunedSubjects(subjects1, slots2, sources) \cup {t[1] : t \in landed2}
           /\ into' = Hooked([o \in DOMAIN into1 \ {from} |-> into1[o]], landed2)
           /\ out' = Answer("moved", Cardinality(outgoing) + Cardinality(incoming))
     /\ UNCHANGED <<entities, next_id, said>>

(* open: what a snapshot must satisfy, and the reverse map it is given.    *)
Reverse(triples) ==
  [o \in {t[3] : t \in triples} |-> {Slot(t) : t \in {u \in triples : u[3] = o}}]

Openable(f) ==
  /\ \A e \in f.entities : e < f.next_id
  /\ f.subjects \subseteq f.entities
  /\ \A s \in f.subjects : \E sp \in f.slots : sp[1] = s
  /\ \A sp \in f.slots : \E t \in DOMAIN f.logs : Slot(t) = sp
  /\ \A t \in DOMAIN f.logs :
       t[3] \in f.entities /\ t[1] # t[3] /\ f.logs[t] # <<>>

(* A store begins as a snapshot, or with nothing where it is refused.      *)
Open(f) ==
  /\ next_id = 0
  /\ \/ /\ ~Openable(f)
        /\ Refuse
     \/ /\ Openable(f)
        /\ entities' = f.entities /\ next_id' = f.next_id
        /\ logs' = f.logs /\ subjects' = f.subjects /\ slots' = f.slots
        /\ into' = Reverse(DOMAIN f.logs)
        /\ said' = f.said
        /\ out' = Answer("opened", 0)

EdgesNext ==
  \/ CreateEntity
  \/ \E s, o \in Ids, p \in Predicates, valid \in Intervals, at \in Times :
       Relate(s, p, o, valid, at)
  \/ \E s, o \in Ids, p \in Predicates, from \in Instants, at \in Times :
       Unrelate(s, p, o, from, at)
  \/ \E e \in Ids : EraseEdges(e)
  \/ \E from, to \in Ids : RepointEdges(from, to)
  \/ \E f \in Snapshots : Open(f)

EdgesSpec == EdgesInit /\ [][EdgesNext]_edgeVars

-----------------------------------------------------------------------------
(* Reads. The version in force at an instant, as known by another: of those*)
(* that cover it the latest ingested, the later one in the log on a tie,   *)
(* and no edge when that one is a tombstone.                               *)
InForce(log, valid_t, tx_t) ==
  LET seen == {i \in DOMAIN log : log[i].at <= tx_t /\ valid_t \in log[i].valid}
  IN {log[i] : i \in {j \in seen :
        /\ \A k \in seen : log[k].at < log[j].at \/ (log[k].at = log[j].at /\ k <= j)
        /\ log[j].present}}

EdgesFrom(s, valid_t, tx_t) ==
  {t \in DOMAIN logs : t[1] = s /\ InForce(logs[t], valid_t, tx_t) # {}}

(* By the reverse map, each triple resolved again in the forward one.      *)
EdgesInto(o, valid_t, tx_t) ==
  {t \in {<<sp[1], sp[2], o>> : sp \in IF o \in DOMAIN into THEN into[o] ELSE {}} :
     InForce(LogOf(t), valid_t, tx_t) # {}}

(* open is a door that accepts what the front door could have built: what  *)
(* is in memory always opens again, as itself, reverse map included. No    *)
(* sequence of relates, erasures and merges leaves an empty level, an edge *)
(* with one end, or a reverse entry that names nothing.                    *)
Reopens ==
  /\ Openable([entities |-> entities, next_id |-> next_id, logs |-> logs,
               subjects |-> subjects, slots |-> slots])
  /\ into = Reverse(DOMAIN logs)
  /\ subjects = {t[1] : t \in DOMAIN logs} /\ slots = {Slot(t) : t \in DOMAIN logs}

(* Forward map, reverse map, levels and logs implement a set of things     *)
(* said, counts included: nothing said is lost by a merge, a deletion      *)
(* takes all of an entity's edges and no other, and a triple that a pass   *)
(* over the outgoing edges took is not counted again as incoming.          *)
facts == UNION {{[t |-> t, v |-> logs[t][i]] : i \in DOMAIN logs[t]} : t \in DOMAIN logs}
Facts == INSTANCE EdgeFacts
ImplementsEdgeFacts == Facts!FSpec
=============================================================================
