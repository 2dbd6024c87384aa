----------------------------- MODULE MCDocuments -----------------------------
(* Two processes over a tree of two documents that may be edited once: text *)
(* before any heading, a heading with nothing under it, a hash in a code    *)
(* block. Ada and her nickname are one entity; the responses have holes,    *)
(* bad positions, dates in the future, absences, the prompt's example, and  *)
(* a relation between two mentions of one entity.                           *)
EXTENDS Documents

AnyProcess == Permutations(Procs)

TheNames == {"", "example", "ada", "adie", "acme", "globex"}
TheWho == ("" :> 0) @@ ("example" :> 9) @@ ("ada" :> 1) @@ ("adie" :> 1)
            @@ ("acme" :> 2) @@ ("globex" :> 3)

Says(x) == [is |-> "text", says |-> x]
Heading(n, x) == [is |-> "heading", depth |-> n, title |-> x]
Empty == [is |-> "blank"]
Fence == [is |-> "fence"]

Notes(x) == <<Says("stub"), Heading(1, "Work"), Empty, Says(x), Empty>>
Code == <<Heading(1, "Code"), Heading(2, "Sub"), Fence, Heading(1, "derive"), Fence, Says("both")>>
TwoFiles == <<"a", "b">>
TheTrees == {[f \in {"a", "b"} |-> IF f = "a" THEN Notes(x) ELSE Code] : x \in {"moved", "joined"}}

Mention(x) == [reads |-> TRUE, name |-> x]
Garbled == [reads |-> FALSE, name |-> ""]
Fact(s, a, v, d) == [reads |-> TRUE, subject |-> s, attribute |-> a, value |-> v, days |-> d]
Relation(s, o, d) == [reads |-> TRUE, subject |-> s, predicate |-> "works", object |-> o, days |-> d]
Closure(s, d) == [reads |-> TRUE, subject |-> s, predicate |-> "works", days |-> d]
Response(ms, fs, rs, cs) == [mentions |-> ms, facts |-> fs, relations |-> rs, closures |-> cs]

Stub == <<Says("stub")>>
Moved == <<Says("moved")>>
Joined == <<Says("joined")>>
Both == <<Fence, Heading(1, "derive"), Fence, Says("both")>>
Told == <<Says("told")>>
TheLines == {Told}

TheNamesIn ==
  (Stub :> {}) @@ (Moved :> {"ada", "adie", "globex"}) @@ (Joined :> {"ada", "acme"})
    @@ (Both :> {"ada", "adie"}) @@ (Told :> {"ada", "acme"})

TheReplies ==
  (Stub :> {Response(<<Mention("example")>>, <<Fact(1, "role", {"acme"}, {})>>, <<>>, <<>>)})
  @@ (Moved :> {Response(<<Garbled, Mention("ada"), Mention("globex"), Mention("adie")>>,
                         <<Fact(2, "employer", {"globex"}, {}), Fact(2, "employer", {"example"}, {})>>,
                         <<Relation(2, 3, {}), Relation(2, 2, {}), Relation(2, 1, {})>>,
                         <<Closure(4, {})>>)})
  @@ (Joined :> {Response(<<Mention(""), Mention("ada"), Mention("acme")>>,
                          <<Fact(2, "siblings", {}, {}), Fact(7, "role", {"acme"}, {})>>,
                          <<Relation(2, 3, {1})>>, <<>>)})
  @@ (Both :> {Response(<<Mention("ada"), Mention("adie")>>, <<>>, <<Relation(1, 2, {})>>, <<>>),
               Response(<<Mention("example"), Mention("ada")>>, <<>>, <<>>,
                        <<Closure(2, {-1}), Closure(2, {1}), Closure(1, {})>>)})
  @@ (Told :> {Response(<<Mention("ada"), Mention("acme")>>, <<Fact(1, "siblings", {}, {})>>,
                        <<Relation(1, 2, {})>>, <<>>)})
=============================================================================
