------------------------------ MODULE EdgeFacts ------------------------------
(***************************************************************************)
(* What the edge half of MemoryStore promises (crates/rm-store/src/lib.rs):*)
(* a set of things said about pairs of entities. Saying adds to it, a      *)
(* deletion takes exactly what touches an entity, and a merge renames an   *)
(* entity in everything said. EdgeStore is shown to implement it.          *)
(***************************************************************************)
EXTENDS Naturals, FiniteSets

CONSTANTS
  Ids,        \* entity ids
  Predicates, \* names of relationships
  Times,      \* observation times
  Instants,   \* instants of valid time
  Intervals,  \* valid intervals, as the sets of instants they contain
  MaxSaid,    \* bound: how many times something is said
  Snapshots   \* what a restore may be handed

VARIABLES
  entities, \* the entities there are
  facts,    \* what was said: a triple, and a version of it
  said,     \* how many times something was said
  out       \* what the last call answered

fvars == <<entities, facts, said, out>>

Answer(is, n) == [is |-> is, n |-> n]
Touching(e) == {f.t : f \in {g \in facts : g.t[1] = e \/ g.t[3] = e}}

(* The triple t, said of to where it was said of from.                     *)
Renamed(t, from, to) ==
  <<IF t[1] = from THEN to ELSE t[1], t[2], IF t[3] = from THEN to ELSE t[3]>>

FInit == entities = {} /\ facts = {} /\ said = 0 /\ out = Answer("none", 0)

FCreate ==
  \E e \in Ids \ entities :
    /\ entities' = entities \cup {e}
    /\ out' = Answer("created", e)
    /\ UNCHANGED <<facts, said>>

(* Something new is said of two entities there are.                        *)
FSay(f) ==
  /\ f \notin facts /\ facts' = facts \cup {f}
  /\ said' = said + 1
  /\ f.t[1] \in entities /\ f.t[3] \in entities /\ f.t[1] # f.t[3]
  /\ f.t[2] \in Predicates
  /\ f.v.id = said' /\ f.v.at \in Times /\ f.v.valid \in Intervals
  /\ out' = Answer("ok", 0)
  /\ UNCHANGED entities

FErase(e) ==
  /\ e \in entities
  /\ out' = Answer("erased", Cardinality(Touching(e)))
  /\ facts' = {f \in facts : f.t[1] # e /\ f.t[3] # e}
  /\ UNCHANGED <<entities, said>>

(* What would now relate an entity to itself is no longer said.            *)
FRepoint(from, to) ==
  /\ from \in entities /\ to \in entities /\ from # to
  /\ out' = Answer("moved", Cardinality(Touching(from)))
  /\ facts' = {g \in {[t |-> Renamed(f.t, from, to), v |-> f.v] : f \in facts} :
                 g.t[1] # g.t[3]}
  /\ UNCHANGED <<entities, said>>

(* A call that is refused leaves everything as it was.                     *)
FRefuse == UNCHANGED fvars

(* A restored store relates only entities it has, none to itself, and says *)
(* what the snapshot says.                                                 *)
FOpen(f) ==
  /\ out' = Answer("opened", 0)
  /\ entities' = f.entities
  /\ facts' = UNION {{[t |-> t, v |-> f.logs[t][i]] : i \in DOMAIN f.logs[t]} :
                       t \in DOMAIN f.logs}
  /\ \A g \in facts' : {g.t[1], g.t[3]} \subseteq entities' /\ g.t[1] # g.t[3]
  /\ said' = f.said

FNext ==
  \/ FRefuse
  \/ FCreate
  \/ \E f \in facts' : FSay(f)
  \/ \E e \in Ids : FErase(e)
  \/ \E from, to \in Ids : FRepoint(from, to)
  \/ \E f \in Snapshots : FOpen(f)

FSpec == FInit /\ [][FNext]_fvars
=============================================================================
