----------------------------- MODULE MCAlgorithms -----------------------------
(* Seven that share nothing, each run while the others have not begun: any *)
(* two short values compared, four records resolved, the days around the   *)
(* years that are leap years and are not, a vocabulary asked about, a short*)
(* history read under every strategy, the log of one slot, and the edges   *)
(* of a store.                                                             *)
EXTENDS Resolution, Comparing, Calendar, Arity, Reference, Belief, MCEdgeStore

vars == <<resolution, calendar, arity, compared, heard, log, edgeVars>>

Init ==
  /\ ResolutionInit /\ CalendarInit /\ ArityInit /\ ComparingInit /\ ReferenceInit
  /\ BeliefInit /\ EdgesInit

NotBegun(but) ==
  /\ but = "resolution" \/ phase = "idle"
  /\ but = "calendar" \/ day = 0
  /\ but = "arity" \/ pass = "waits"
  /\ but = "comparing" \/ compared = Apart
  /\ but = "reference" \/ heard = <<>>
  /\ but = "belief" \/ log = <<>>
  /\ but = "edges" \/ next_id = 0

Next ==
  \/ /\ NotBegun("resolution") /\ (Begin \/ ResolutionStep)
     /\ UNCHANGED <<calendar, arity, compared, heard, log, edgeVars>>
  \/ /\ NotBegun("calendar") /\ CalendarStep
     /\ UNCHANGED <<resolution, arity, compared, heard, log, edgeVars>>
  \/ /\ NotBegun("arity") /\ ArityStep
     /\ UNCHANGED <<resolution, calendar, compared, heard, log, edgeVars>>
  \/ /\ NotBegun("comparing") /\ CompareTwo
     /\ UNCHANGED <<resolution, calendar, arity, heard, log, edgeVars>>
  \/ /\ NotBegun("reference") /\ Hear
     /\ UNCHANGED <<resolution, calendar, arity, compared, log, edgeVars>>
  \/ /\ NotBegun("belief") /\ BeliefNext
     /\ UNCHANGED <<resolution, calendar, arity, compared, heard, edgeVars>>
  \/ /\ NotBegun("edges") /\ EdgesNext
     /\ UNCHANGED <<resolution, calendar, arity, compared, heard, log>>

Spec == Init /\ [][Next]_vars

-----------------------------------------------------------------------------
Strings(S, n) == UNION {[1..k -> S] : k \in 0..n}
MCSpellings == Strings({"x", "y"}, 4)
MCPhrases == Strings({"x", "y", "z"}, 3)
MCProseNames == LET some == Strings({"x", "y"}, 2) IN [owner : {{}} \cup {{o} : o \in some}, head : some]

(* Short histories of silence and claims over three instants, of claims by *)
(* three sources, and longer ones of two values.                           *)
Lists(S, n) == UNION {[1..k -> S] : k \in 1..n}
Said3(values, instants, sources) ==
  [value : values, from : instants, at : {1, 2}, source : sources]
MCHistories ==
  Lists(Said3({"it", "la", Absent, Silent}, {1, 2, 3}, {"user"}), 3)
    \cup Lists(Said3({"it", "la", Absent, Silent}, {1}, {"user", "tool", "agent"}), 3)
    \cup Lists(Said3({"it", "lot"}, {1, 2, 3}, {"user"}), 4)

MCSize == [v \in {"it", "la", "lot"} |-> IF v = "lot" THEN 3 ELSE 2]
MCOrders == [user_first |-> <<"user", "tool">>, users_only |-> <<"user">>, unranked |-> <<>>]

MCRules ==
  <<[field |-> "name", how |-> "possessive_aware", agree |-> 4, disagree |-> -3],
    [field |-> "role", how |-> "token_jaccard", agree |-> 3, disagree |-> -2]>>

Ben == [owner |-> {}, head |-> <<"b", "e", "n">>]
Bne == [owner |-> {}, head |-> <<"b", "n", "e">>]
BenSon == [owner |-> {<<"b", "e", "n">>}, head |-> <<"s", "o", "n">>]

Known(name, role) ==
  [f \in {"name"} \cup (IF role = <<>> THEN {} ELSE {"role"}) |-> IF f = "name" THEN name ELSE role]

MCRecords ==
  {Known(Ben, <<>>), Known(Bne, <<>>), Known(BenSon, <<>>),
   Known(Ben, <<"cook">>), Known(Bne, <<"cook", "wife">>), Known(Ben, <<"wife">>),
   [f \in {"role"} |-> <<"cook">>]}

MCBlocks(record) == {f \in DOMAIN record : f = "role"} \cup
  (IF "name" \in DOMAIN record THEN {record.name.head[1]} ELSE {})
MCGiven == [1..4 -> MCRecords]

MCSpans == {<<-730500, -718700>>, <<-27000, 50000>>}
MCCycles == {-5, 0}
=============================================================================
