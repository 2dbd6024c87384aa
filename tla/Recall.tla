-------------------------------- MODULE Recall --------------------------------
(***************************************************************************)
(* Recall over the decision log (crates/rm-engine/src/read.rs, commit_     *)
(* recall in crates/rm-host/src/command.rs): the k nearest assertions that *)
(* apply, each with where it stands in its slot. A vector is the text it   *)
(* was embedded from and similarity a number per pair of texts. Host       *)
(* commands write corrections, so a later version in a slot has replaced   *)
(* the earlier ones. Left out: the filters by session and by source, and   *)
(* how much a hit shows (located, stated, traced: the same hits).          *)
(***************************************************************************)
EXTENDS Decisions

CONSTANTS
  Similarity(_, _), \* of two texts, a number
  Queries,          \* texts that are asked about
  Boost             \* what a boosted entity gains

Unbounded == At(MaxClock, MaxClock)

(* Query: as_of is a point on both clocks, or none; boost is a set.        *)
Query(text, k, here) ==
  [text |-> text, k |-> k, here |-> here, bounded |-> FALSE, at |-> Unbounded,
   entity |-> Absent, boost |-> {}]
AsOf(q, at) == [q EXCEPT !.bounded = TRUE, !.at = at]
Boosting(q, entities) == [q EXCEPT !.boost = entities]

(* The scope that was last recorded, of those the query's clocks can see.  *)
Reach(e, at) ==
  LET scopes == {i \in Slot(e, "scope") : log[i].at <= at.tx /\ log[i].from <= at.valid}
  IN IF scopes = {} THEN Absent ELSE log[Highest(scopes)].value

(* in_scope, of an assertion.                                              *)
InScope(i, q) ==
  /\ q.entity \in {Absent, log[i].e}
  /\ \/ q.here = Nowhere
     \/ Reach(log[i].e, q.at) = Absent
     \/ AppliesAt(Reach(log[i].e, q.at), q.here)
  /\ q.bounded => log[i].at <= q.at.tx /\ log[i].from <= q.at.valid

Adjusted(i, q) ==
  Similarity(q.text, index[i]) + IF log[i].e \in q.boost THEN Boost ELSE 0

Hits(S, q) == {[id |-> i, score |-> Adjusted(i, q)] : i \in S}

(* By score, and by id on a tie.                                           *)
Better(g, h) ==
  \/ g.score > h.score
  \/ g.score = h.score /\ g.id < h.id

(* The k best of some: fewer than k of them are better.                    *)
Best(k, hits) == {h \in hits : Cardinality({g \in hits : Better(g, h)}) < k}

(* Mutant: the nearest are fetched first and filtered then.                *)
NearestThenKept(q) == {h \in Best(q.k, Hits(DOMAIN log, q)) : InScope(h.id, q)}

(* search_adjusted: filter and boost run inside the scan.                  *)
Nearest(q) == Best(q.k, Hits({i \in DOMAIN log : InScope(i, q)}, q))

(* still_stands: nothing the store learned later, as of the query.         *)
StillStands(i, q) ==
  \A j \in Slot(log[i].e, log[i].attribute) :
    log[j].at > log[i].at => log[j].at > q.at.tx

SlotOf(i) == <<log[i].e, log[i].attribute>>

(* Hits in an order: each with how many come before it.                    *)
Arranged(placed) ==
  [n \in 1..Cardinality(placed) |-> (CHOOSE p \in placed : p.before = n - 1).hit]
Placed(h, before) == [hit |-> h, before |-> Cardinality(before)]

(* Mutant: hits are left in the order of their scores.                     *)
NotDemoted(hits, q) == Arranged({Placed(h, {g \in hits : Better(g, h)}) : h \in hits})

(* demote_replaced: below the rest, when its slot has one that stands.     *)
DemoteReplaced(hits, q) ==
  LET live == {SlotOf(h.id) : h \in {g \in hits : StillStands(g.id, q)}}
      demoted == {h \in hits : ~StillStands(h.id, q) /\ SlotOf(h.id) \in live}
      Ahead(g, h) == IF (g \in demoted) = (h \in demoted) THEN Better(g, h) ELSE h \in demoted
  IN Arranged({Placed(h, {g \in hits : Ahead(g, h)}) : h \in hits})

Recalled(q) == DemoteReplaced(Nearest(q), q)

-----------------------------------------------------------------------------
(* "k means k results that apply", and a reach is read at the query's own  *)
(* clocks, "so a scoped recall and a scoped decisions agree about the same *)
(* instant": who is on the list is found, and nobody else is. However few  *)
(* are asked for, none that applies makes room for one that does not, or   *)
(* for one that is less near; a boosted assertion is rescued from wherever *)
(* it was.                                                                 *)
RecallIsExact ==
  Quiet => \A text \in Queries, here \in Positions :
    /\ \A at \in Points :
         LET hits == Recalled(AsOf(Query(text, Len(log), here), at))
         IN {log[h.id].e : h \in {g \in Elements(hits) : log[g.id].attribute = "choice"}}
              = Listed(at, here)
    /\ \A favoured \in {{}} \cup {{e} : e \in DOMAIN names} :
         LET q == Boosting(Query(text, 2, here), favoured)
             hits == Elements(Recalled(q))
         IN \A i \in DOMAIN log \ {h.id : h \in hits} :
              InScope(i, q) =>
                Cardinality(hits) = 2 /\ \A h \in hits : h.score >= Adjusted(i, q)

(* An agent that states the first hit states nothing that was replaced,    *)
(* when the one in force of its slot is among the hits, however few are    *)
(* asked for. "Same slot only", and "anything not demoted keeps its score  *)
(* order exactly": a hit is below one less near only for that reason.      *)
LiveAnswerFirst ==
  Quiet => \A text \in Queries, k \in 1..Len(log) :
    LET q == Query(text, k, Nowhere)
        hits == Recalled(q)
        Outlived(i) ==
          /\ ~StillStands(i, q)
          /\ \E h \in Elements(hits) : SlotOf(h.id) = SlotOf(i) /\ StillStands(h.id, q)
    IN \A m, n \in DOMAIN hits : m < n =>
         /\ Outlived(hits[m].id) => Outlived(hits[n].id)
         /\ Better(hits[n], hits[m]) => Outlived(hits[n].id) /\ ~Outlived(hits[m].id)

(* As the doc of decide has it: the old decision's status is retired, "so  *)
(* Standing::still_stands on its choice is the question 'is this still     *)
(* what we do'". Where a decision was superseded, the answer is no.        *)
RetiredChoiceFalls ==
  \A e \in DOMAIN names : Superseders(e, Unbounded) # {} =>
    \A text \in Queries :
      LET q == Query(text, Len(log), Nowhere)
      IN \A h \in Elements(Recalled(q)) :
           SlotOf(h.id) = <<e, "choice">> => ~StillStands(h.id, q)
=============================================================================
