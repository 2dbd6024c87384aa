---------------------------- MODULE MCVectorIndex ----------------------------
(* Three entries, two stored vectors, one vector that is refused, and two  *)
(* queries: one that tells the vectors apart and one whose adjustment      *)
(* makes them tie except for one entry.                                    *)
EXTENDS VectorIndex

MCIds == 1..3
MCRaw == {"a", "b", "zero"}
MCVecs == {"A", "B"}
MCPrepare == [v \in MCRaw |-> CASE v = "a" -> {"A"} [] v = "b" -> {"B"} [] OTHER -> {}]
MCScore ==
  [q \in {"near", "boost"} |-> [i \in MCIds |-> [v \in MCVecs |->
     IF q = "near" THEN (IF v = "A" THEN 2 ELSE 1) ELSE (IF i = 3 THEN 2 ELSE 1)]]]

(* Files a restore may find: pairs that agree, that disagree, and one that *)
(* names an id twice.                                                      *)
MCFiles ==
  {[ids |-> <<2, 1>>, rows |-> <<"A", "B">>], [ids |-> <<3>>, rows |-> <<"A", "B">>],
   [ids |-> <<1, 2>>, rows |-> <<"A">>], [ids |-> <<2, 2>>, rows |-> <<"A", "B">>]}
=============================================================================
