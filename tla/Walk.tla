-------------------------------- MODULE Walk --------------------------------
(***************************************************************************)
(* Walks over the edges of the store (crates/rm-graph/src/lib.rs): breadth *)
(* first from the seeds that exist, each level in ascending order, until   *)
(* the hops or the budget run out. The crate holds nothing, so a walk is a *)
(* function of the store; what it answers is a set of entities with their  *)
(* distances, in the order (distance, entity) it was pushed in.            *)
(***************************************************************************)
EXTENDS EdgeStore

CONSTANT Walks

ASSUME WalkAssumption ==
  \A w \in Walks :
    /\ w.seeds \subseteq Nat /\ w.hops \in Nat /\ w.budget \in Nat
    /\ w.direction \in {"out", "in", "both"}
    /\ \A named \in w.predicates : named \subseteq Predicates

(* At most one set of names: none at all is every predicate, and an empty  *)
(* set is no predicate.                                                    *)
Wants(w, p) == \A named \in w.predicates : p \in named

Neighbours(id, w) ==
  LET crossed(edges) == {t \in edges : Wants(w, t[2])}
      onward == IF w.direction \in {"out", "both"}
                THEN crossed(EdgesFrom(id, w.valid_t, w.tx_t)) ELSE {}
      back == IF w.direction \in {"in", "both"}
              THEN crossed(EdgesInto(id, w.valid_t, w.tx_t)) ELSE {}
  IN {t[3] : t \in onward} \cup {t[1] : t \in back}

(* Mutant: the budget is asked before whether the entity was seen.         *)
DueAgain(s) == s.frontier

(* What of a level is not a second visit. An entity of the level that an   *)
(* earlier one of it also points at is due again on the next.              *)
Due(s) == s.frontier \ s.seen

FirstOf(ids, n) == {i \in ids : Cardinality({j \in ids : j < i}) < n}

(* One level at the distance d. The entity that finds the budget spent is  *)
(* what makes the walk truncated, and nothing follows it.                  *)
Level(w, s, d) ==
  LET room == w.budget - Cardinality(s.reached)
      taken == FirstOf(Due(s), room)
      passed(id) == s.seen \cup {i \in s.frontier : i <= id}
  IN IF s.truncated THEN s
     ELSE [reached |-> s.reached \cup {[entity |-> id, distance |-> d] : id \in taken},
           seen |-> s.seen \cup taken,
           frontier |-> IF d = w.hops THEN {}
                        ELSE UNION {Neighbours(id, w) \ passed(id) : id \in taken},
           truncated |-> taken # Due(s)]

Neighborhood(w) ==
  LET start == [reached |-> {}, seen |-> {}, frontier |-> w.seeds \cap entities,
                truncated |-> FALSE]
      level[d \in 0..w.hops] == Level(w, IF d = 0 THEN start ELSE level[d - 1], d)
  IN level[w.hops]

-----------------------------------------------------------------------------
(* What is in reach, from the facts alone: a pair that an edge in force    *)
(* relates, in the direction asked for.                                    *)
Related(w, a, b) ==
  \E t \in DOMAIN logs :
    /\ InForce(logs[t], w.valid_t, w.tx_t) # {} /\ Wants(w, t[2])
    /\ \/ w.direction # "in" /\ t[1] = a /\ t[3] = b
       \/ w.direction # "out" /\ t[3] = a /\ t[1] = b

InReach(w) ==
  LET within[n \in 0..w.hops] ==
        IF n = 0 THEN {[entity |-> e, distance |-> 0] : e \in w.seeds \cap entities}
        ELSE LET known == within[n - 1]
                 met == {r.entity : r \in known}
             IN known \cup {[entity |-> b, distance |-> n] : b \in
                              {e \in entities \ met : \E a \in met : Related(w, a, e)}}
  IN within[w.hops]

Nearer(a, b) == a.distance < b.distance \/ (a.distance = b.distance /\ a.entity < b.entity)

(* A walk finds what is in reach, each at its shortest distance, nearest   *)
(* first, up to its budget; and it says truncated exactly when something in*)
(* reach was left out, also when a level that only repeats what was seen   *)
(* meets a spent budget. Backward walks read the reverse map, and agree.   *)
WalksAreExact ==
  \A w \in Walks :
    \A found \in {Neighborhood(w)}, all \in {InReach(w)} :
      /\ found.reached = {r \in all : Cardinality({q \in all : Nearer(q, r)}) < w.budget}
      /\ found.truncated <=> Cardinality(all) > w.budget
=============================================================================
