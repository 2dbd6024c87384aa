----------------------------- MODULE MCEdgeStore -----------------------------
(* Three entities; two predicates, for the levels of the maps; two         *)
(* instants, for what ends; two observation times, for the order of logs.  *)
EXTENDS Walk, TLC

AnyPredicate == Permutations(Predicates)

TwoInstants == {{2}, {1, 2}}

(* Walks in each direction, past the end of what there is, with and without*)
(* room for all of it, over every predicate and over none.                 *)
Ask(seeds, hops, budget, direction, predicates) ==
  [seeds |-> seeds, hops |-> hops, budget |-> budget, direction |-> direction,
   predicates |-> predicates, valid_t |-> 1 + (hops % 2), tx_t |-> 2]
SomeWalks ==
  {Ask({0}, 2, 2, "out", {}), Ask({0, 1, 7}, 3, 2, "both", {}),
   Ask({2}, 1, 3, "in", {}), Ask({1, 2}, 2, 3, "both", {{}}),
   Ask({1}, 2, 0, "out", {})}

(* Snapshots a restore may find: two that open, one of them with a log of  *)
(* two versions and a chain to merge away, and one for each check. What    *)
(* they say is told from what is said later by its id.                     *)
SaidBefore(at, id) == [present |-> TRUE, valid |-> {1, 2}, at |-> at, id |-> MaxSaid + id]
Snap(es, n, ls, su, sl) ==
  [entities |-> es, next_id |-> n, logs |-> ls, subjects |-> su, slots |-> sl, said |-> 1]
Edge(s, p, o) == [t \in {<<s, p, o>>} |-> <<SaidBefore(1, 1)>>]
Chain(p) ==
  [t \in {<<2, p, 0>>, <<0, p, 1>>} |->
     IF t[1] = 2 THEN <<SaidBefore(1, 1), SaidBefore(2, 2)>> ELSE <<SaidBefore(2, 3)>>]
SomeSnapshots ==
  UNION {{Snap({0, 2}, 3, Edge(2, p, 0), {2}, {<<2, p>>}),
          Snap({0, 1, 2}, 3, Chain(p), {0, 2}, {<<2, p>>, <<0, p>>}),
          Snap({0, 2}, 2, Edge(2, p, 0), {2}, {<<2, p>>}),
          Snap({0, 2}, 3, Edge(2, p, 1), {2}, {<<2, p>>}),
          Snap({0, 2}, 3, Edge(2, p, 2), {2}, {<<2, p>>}),
          Snap({0, 2}, 3, Edge(2, p, 0), {0, 2}, {<<2, p>>}),
          Snap({0, 2}, 3, Edge(2, p, 0), {0, 2}, {<<2, p>>, <<0, p>>}),
          Snap({0, 2}, 3, [t \in {<<2, p, 0>>} |-> <<>>], {2}, {<<2, p>>})} :
         p \in Predicates}
=============================================================================
