------------------------------ MODULE MCEngine ------------------------------
(* Names that tell little, addresses that tell all: one name in common is  *)
(* a question, one address in common a match.                              *)
EXTENDS Engine

Weigh(a, b, f, w) == IF f \in DOMAIN a \cap DOMAIN b /\ a[f] = b[f] THEN w ELSE 0
MCScore == [a \in Record |-> [b \in Record |-> Weigh(a, b, "name", 2) + Weigh(a, b, "mail", 3)]]

Named == [f \in {"name"} |-> 1]
At(m) == [f \in {"name", "mail"} |-> IF f = "name" THEN 1 ELSE m]
Namesakes == {Named, At(1)}
=============================================================================
