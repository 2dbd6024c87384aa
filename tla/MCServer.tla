------------------------------- MODULE MCServer -------------------------------
(* A client that may shake hands for an old revision, a new one or none it *)
(* names, send modern requests, and get a line wrong in each way the       *)
(* server tells apart.                                                     *)
EXTENDS Server

Base ==
  [is |-> "message", id |-> "given", wellFormed |-> TRUE, method |-> "list",
   envelope |-> "none", asks |-> Nobody, from |-> Nobody, tool |-> "none", args |-> [f \in {} |-> ""]]

Call(tool) ==
  [Base EXCEPT !.method = "call", !.tool = tool, !.args = [f \in Required[tool] |-> "good"]]

Unclear(tool) == [Call(tool) EXCEPT !.args = [f \in Required[tool] \cup {"value", "absent"} |-> "good"]]

MCOffered == {"remember", "note", "decide", "recall", "about", "resolve"}
MCLegacy == <<"2025-11-25", "2024-11-05">>
MCStructured == {"2025-11-25"}

MCMessages ==
  {[Base EXCEPT !.is = "undecodable"], [Base EXCEPT !.is = "garbage"], [Base EXCEPT !.is = "blank"],
   [Base EXCEPT !.id = "null"], [Base EXCEPT !.id = "absent", !.wellFormed = FALSE],
   [Base EXCEPT !.id = "absent", !.method = "initialize", !.asks = "2024-11-05", !.from = "ann"],
   [Base EXCEPT !.method = "initialize", !.asks = "2024-11-05", !.from = "ann"],
   [Base EXCEPT !.method = "initialize", !.asks = "2019", !.from = "bob"],
   [Base EXCEPT !.method = "initialize", !.asks = "2025-11-25"],
   [Base EXCEPT !.envelope = "other"], [Base EXCEPT !.envelope = "current"],
   [Base EXCEPT !.method = "discover"], [Base EXCEPT !.method = "other"],
   [Call("recall") EXCEPT !.tool = "rescope"], Unclear("note"),
   Call("resolve"), Call("recall"),
   [Call("decide") EXCEPT !.envelope = "current"], Call("remember")}
=============================================================================
