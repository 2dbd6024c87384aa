------------------------------ MODULE MCSessions ------------------------------
(* Two clients, a table with room for two sessions, and a third minted.    *)
EXTENDS Sessions, TLC

AnyOfThem == Permutations(Clients) \cup Permutations(Threads)
=============================================================================
