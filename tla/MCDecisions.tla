----------------------------- MODULE MCDecisions -----------------------------
(* Two titles, a reach and one inside it, a choice and its revision.       *)
EXTENDS Recall, TLC

CONSTANTS a, b, c1, c2

Work == <<"work">>
Inner == <<"work", "inner">>

Ask(title, choice, scope, from, supersedes) ==
  [title |-> title, choice |-> choice, scope |-> scope, from |-> from, supersedes |-> supersedes,
   status |-> "accepted", because |-> Absent, context |-> Absent]

SomeDecides ==
  {Ask(a, "this", Work, 0, Absent), Ask(a, "that", Work, 1, b),
   Ask(b, "this", Universal, 0, a)}
    \cup {[Ask(b, "this", Work, 0, Absent) EXCEPT !.status = "rejected"]}
SomeRescopes ==
  {[title |-> t, scope |-> Inner] : t \in {a, b}} \cup {[title |-> a, scope |-> <<"work", Blank>>]}
OtherNotes == {[title |-> b, attribute |-> "owner", value |-> "me", scope |-> Inner, from |-> 0]}
Standpoints == {<<Blank>>, Work, Inner, <<"home">>}
Processes == Permutations({c1, c2})
OneLegacy == {a}
Overlap(x, y) ==
  Cardinality({n \in 1..2 : x[n] = y[n]})
    + IF x[2] # "scope" /\ x[2] = y[2] /\ x[3] = y[3] THEN 1 ELSE 0
SomeQueries == {Text(a, "choice", "this")}
=============================================================================
