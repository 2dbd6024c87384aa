------------------------------- MODULE Decisions -------------------------------
(***************************************************************************)
(* The decision log (crates/rm-host/src/command.rs) as the processes that  *)
(* share a store drive it. A command reads its clock and asks the embedder *)
(* first (plan_decide, plan_rescope, plan_note, reindex_texts), waits for  *)
(* the lock, and then commits in one step what it planned against whatever *)
(* the store has become (commit_decide and the others; that a commit is    *)
(* one step is StoreFile's AnswersAreTrue and NoLostUpdate).               *)
(*                                                                         *)
(* Entities are numbered as they are created. The versions of all slots    *)
(* are one log, in the order of the writes: an assertion's id is its place *)
(* there, since no host command takes one away. The vector of an assertion *)
(* is the text it was embedded from.                                       *)
(***************************************************************************)
EXTENDS Scopes, FiniteSets

CONSTANTS
  Clients,
  Decides,     \* what decide may be asked: see Decide below
  Rescopes,    \* titles and scopes rescope may be asked
  Notes,       \* what note may be asked about something of kind decision
  Absent,      \* no value; no title
  Configured,  \* where an asker may be told it stands
  Legacy,      \* decisions recorded before scopes existed
  MaxClock,    \* bound: the last instant a clock shows
  MaxCommands  \* bound: commands begun

Statuses == {"proposed", "accepted", "rejected", "deprecated"}
DecisionFields == {"status", "choice", "because", "context", "scope"}

ASSUME DecisionsAssumption ==
  /\ Absent \notin Statuses \cup {"superseded"}
  /\ \A d \in Decides : d.from \in 0..MaxClock /\ d.title # Absent /\ d.scope # Absent
  /\ \A r \in Rescopes : r.scope # Absent
  /\ \A n \in Notes : n.from \in 0..MaxClock /\ n.title # Absent
  /\ IsFiniteSet(Legacy) /\ Absent \notin Legacy
  /\ MaxClock \in Nat \ {0} /\ MaxCommands \in Nat

VARIABLES
  clock,
  plan,    \* what each process is about to commit
  begun,   \* how many commands were begun
  names,   \* the title of each entity of kind decision
  log,     \* the versions
  edges,   \* the versions of supersedes edges
  index,   \* the text behind each assertion's vector
  decided  \* ghost: titles, as often as they were decided

stored == <<names, log, edges, index, decided>>
vars == <<clock, plan, begun, stored>>

Idle == [is |-> "idle"]
Elements(s) == {s[i] : i \in DOMAIN s}
Lowest(S) == CHOOSE x \in S : \A y \in S : x <= y
Highest(S) == CHOOSE x \in S : \A y \in S : y <= x

Version(e, attribute, value, from, at) ==
  [e |-> e, attribute |-> attribute, value |-> value, from |-> from, at |-> at]

(* embed_field: the text names the decision as well as the field.          *)
Text(title, attribute, value) == <<title, attribute, value>>

Init ==
  /\ clock = 1 /\ begun = 0
  /\ plan = [c \in Clients |-> Idle]
  /\ \E s \in [1..Cardinality(Legacy) -> Legacy] :
       Elements(s) = Legacy /\ names = s
  /\ log = [i \in 1..(2 * Len(names)) |->
              IF i % 2 = 1 THEN Version((i + 1) \div 2, "status", "accepted", 1, 1)
              ELSE Version(i \div 2, "choice", names[i \div 2], 1, 1)]
  /\ index = [i \in DOMAIN log |-> Text(names[log[i].e], log[i].attribute, log[i].value)]
  /\ edges = <<>> /\ decided = names

-----------------------------------------------------------------------------
(* Reads, at a point on both clocks.                                       *)

At(valid, tx) == [valid |-> valid, tx |-> tx]

(* visible, as places in the log.                                          *)
Visible(e, attribute, at) ==
  {i \in DOMAIN log : /\ log[i].e = e /\ log[i].attribute = attribute
                      /\ log[i].at <= at.tx /\ log[i].from <= at.valid}

(* held: a tombstone that is last is no value.                             *)
Held(e, attribute, at) ==
  LET visible == Visible(e, attribute, at)
  IN IF visible = {} THEN Absent ELSE log[Highest(visible)].value

Slot(e, attribute) == {i \in DOMAIN log : log[i].e = e /\ log[i].attribute = attribute}

(* Mutant: only what the list would show is looked at.                     *)
TitledNow(title) ==
  {e \in DOMAIN names : names[e] = title /\ Held(e, "choice", At(clock, clock)) # Absent}

(* find_decision: by exact title, the lowest entity that has it.           *)
Titled(title) == {e \in DOMAIN names : names[e] = title}

InForce(x, at) == x.at <= at.tx /\ x.from <= at.valid
Superseders(e, at) == {x.new : x \in {y \in Elements(edges) : y.old = e /\ InForce(y, at)}}
Superseded(e, at) == {x.old : x \in {y \in Elements(edges) : y.new = e /\ InForce(y, at)}}

(* chain: along the first edge each time, until there is none or it leads  *)
(* to where the walk has been.                                             *)
Beyond(e, way, at) == IF way = "forward" THEN Superseders(e, at) ELSE Superseded(e, at)
Chain(e, way, at) ==
  LET walk[path \in Seq(DOMAIN names)] ==
        LET next == Beyond(path[Len(path)], way, at)
        IN IF next = {} THEN Tail(path)
           ELSE IF Lowest(next) \in Elements(path) THEN Tail(path)
           ELSE walk[Append(path, Lowest(next))]
  IN walk[<<e>>]

Status(e, at) == IF Held(e, "status", at) = Absent THEN "accepted" ELSE Held(e, "status", at)

(* Mutant: a decision nothing replaced stands, whatever its status.        *)
StandsUnreplaced(e, at) == Superseders(e, at) = {}

(* still_stands, as a line of decisions has it and as decision has it.     *)
StandsInList(e, at) == Superseders(e, at) = {} /\ Status(e, at) = "accepted"
StandsInDetail(e, at) == Chain(e, "forward", at) = <<>> /\ Status(e, at) = "accepted"

OutOfReach(e, at, here) ==
  here # Nowhere /\ Held(e, "scope", at) # Absent /\ ~AppliesAt(Held(e, "scope", at), here)

(* decisions: who is on the list, and what a line says.                    *)
Listed(at, here) ==
  {e \in DOMAIN names : ~OutOfReach(e, at, here) /\ Held(e, "choice", at) # Absent}
Line(e, at) ==
  [choice |-> Held(e, "choice", at), status |-> Status(e, at),
   stands |-> StandsInList(e, at), revisions |-> Cardinality(Visible(e, "choice", at)),
   by |-> IF Superseders(e, at) = {} THEN Absent ELSE Lowest(Superseders(e, at))]

(* decision: whether there is an answer, and the answer.                   *)
Found(title, at, here) ==
  IF Titled(title) = {} THEN "unknown"
  ELSE LET e == Lowest(Titled(title))
       IN IF Held(e, "status", at) = Absent THEN
            IF Slot(e, "status") = {} THEN "refused" ELSE "not yet"
          ELSE IF OutOfReach(e, at, here) THEN "not here" ELSE "found"
Detail(e, at) ==
  [choice |-> Held(e, "choice", at), status |-> Status(e, at), stands |-> StandsInDetail(e, at),
   back |-> Chain(e, "back", at), forward |-> Chain(e, "forward", at)]

-----------------------------------------------------------------------------
(* Plans.                                                                  *)

Tick == clock < MaxClock /\ clock' = clock + 1 /\ UNCHANGED <<plan, begun, stored>>

Begin(c, p) ==
  /\ plan[c] = Idle /\ begun < MaxCommands
  /\ plan' = [plan EXCEPT ![c] = p]
  /\ begun' = begun + 1
  /\ UNCHANGED <<clock, stored>>

(* plan_decide: what it refuses is never planned. A decision is dated when *)
(* it was decided, and known as of the clock.                              *)
PlanDecide(c, d) ==
  /\ d.title # Absent /\ d.choice # Absent /\ Valid(d.scope) /\ d.status \in Statuses
  /\ Begin(c, [is |-> "decide", d |-> d, at |-> clock,
               from |-> IF d.from = 0 THEN clock ELSE d.from])

PlanRescope(c, r) ==
  /\ r.title # Absent /\ Valid(r.scope)
  /\ Begin(c, [is |-> "rescope", r |-> r, at |-> clock])

(* plan_note: a reach that is not one is refused.                          *)
PlanNote(c, n) ==
  /\ n.scope # Absent => Valid(n.scope)
  /\ Begin(c, [is |-> "note", n |-> n, at |-> clock,
               from |-> IF n.from = 0 THEN clock ELSE n.from])

(* reindex_texts: each assertion's text from what its slot holds last.     *)
Rebuilt ==
  [i \in DOMAIN log |->
     Text(names[log[i].e], log[i].attribute,
          log[Highest(Slot(log[i].e, log[i].attribute))].value)]

(* A store with anything else in it is refused.                            *)
PlanReindex(c) ==
  /\ \A i \in DOMAIN log : log[i].attribute \in DecisionFields
  /\ Begin(c, [is |-> "reindex", texts |-> Rebuilt])

-----------------------------------------------------------------------------
(* Commits.                                                                *)

Done(c) == plan' = [plan EXCEPT ![c] = Idle] /\ UNCHANGED <<clock, begun>>

Field(attribute, value) == [attribute |-> attribute, value |-> value]

(* A field that is blank is not written.                                   *)
Filled(attribute, value) == IF value = Absent THEN <<>> ELSE <<Field(attribute, value)>>
Fields(d) ==
  Filled("status", d.status) \o Filled("choice", d.choice) \o Filled("because", d.because)
    \o Filled("context", d.context) \o Filled("scope", d.scope)

(* Mutant: the edge is known as of when the decision was made.             *)
LinkBackdated(p, e, old) ==
  IF old = {} THEN edges
  ELSE IF Lowest(old) = e THEN edges
  ELSE Append(edges, [new |-> e, old |-> Lowest(old), from |-> p.from, at |-> p.from])

(* The edge from the new decision to the old, once both ends exist.        *)
Link(p, e, old) ==
  IF old = {} THEN edges
  ELSE IF Lowest(old) = e THEN edges
  ELSE Append(edges, [new |-> e, old |-> Lowest(old), from |-> p.from, at |-> p.at])

(* commit_decide: retire, then write every field to the entity that has    *)
(* the title or to a new one, then link.                                   *)
CommitDecide(c) ==
  /\ plan[c].is = "decide"
  /\ LET p == plan[c]
         d == p.d
         old == IF d.supersedes = Absent THEN {} ELSE Titled(d.supersedes)
         e == IF Titled(d.title) = {} THEN Len(names) + 1 ELSE Lowest(Titled(d.title))
         retired == IF old = {} THEN <<>>
                    ELSE <<Version(Lowest(old), "status", "superseded", p.from, p.at)>>
         fields == Fields(d)
         written == [i \in DOMAIN fields |->
                       Version(e, fields[i].attribute, fields[i].value, p.from, p.at)]
     IN /\ names' = IF e = Len(names) + 1 THEN Append(names, d.title) ELSE names
        /\ log' = log \o retired \o written
        /\ index' = index \o [i \in DOMAIN retired |->
                                 Text(d.supersedes, "status", "superseded")]
                          \o [i \in DOMAIN written |->
                                 Text(d.title, written[i].attribute, written[i].value)]
        /\ edges' = Link(p, e, old)
        /\ decided' = Append(decided, d.title)
  /\ Done(c)

(* A correction is true from now on. A reach that was never written down   *)
(* was true from the decision's start.                                     *)
RescopedFrom(e, at) ==
  LET choices == Visible(e, "choice", At(MaxClock, MaxClock))
  IN IF Held(e, "scope", At(at, at)) # Absent \/ choices = {} THEN at
     ELSE log[Lowest(choices)].from

(* commit_rescope: an unknown title is refused; what is held already is    *)
(* not written again; nothing but the scope is written.                    *)
CommitRescope(c) ==
  /\ plan[c].is = "rescope"
  /\ LET r == plan[c].r
         at == plan[c].at
         e == Lowest(Titled(r.title))
     IN \/ Titled(r.title) = {} /\ UNCHANGED stored
        \/ /\ Titled(r.title) # {} /\ Held(e, "scope", At(at, at)) = r.scope
           /\ UNCHANGED stored
        \/ /\ Titled(r.title) # {} /\ Held(e, "scope", At(at, at)) # r.scope
           /\ log' = Append(log, Version(e, "scope", r.scope, RescopedFrom(e, at), at))
           /\ index' = Append(index, Text(r.title, "scope", r.scope))
           /\ UNCHANGED <<names, edges, decided>>
  /\ Done(c)

(* commit_note, of something of kind decision: the resolver takes the same *)
(* name and kind for the same thing. It writes what it is asked to, and a  *)
(* reach beside it if it is given one.                                     *)
CommitNote(c) ==
  /\ plan[c].is = "note"
  /\ LET p == plan[c]
         n == p.n
         e == IF Titled(n.title) = {} THEN Len(names) + 1 ELSE Lowest(Titled(n.title))
         fields == <<Field(n.attribute, n.value)>> \o Filled("scope", n.scope)
         written == [i \in DOMAIN fields |->
                       Version(e, fields[i].attribute, fields[i].value, p.from, p.at)]
     IN /\ names' = IF e = Len(names) + 1 THEN Append(names, n.title) ELSE names
        /\ log' = log \o written
        /\ index' = index \o [i \in DOMAIN written |->
                                 Text(n.title, written[i].attribute, written[i].value)]
        /\ UNCHANGED <<edges, decided>>
  /\ Done(c)

(* Mutant: what was planned is swapped in, whatever was written since.     *)
SwapUnchecked(texts) == index' = texts

(* rebuild_index: a vector for every assertion, or the index as it was.    *)
Swap(texts) == index' = IF DOMAIN texts = DOMAIN log THEN texts ELSE index

CommitReindex(c) ==
  /\ plan[c].is = "reindex"
  /\ Swap(plan[c].texts)
  /\ UNCHANGED <<names, log, edges, decided>>
  /\ Done(c)

Next ==
  \/ Tick
  \/ \E c \in Clients :
       \/ \E d \in Decides : PlanDecide(c, d)
       \/ \E r \in Rescopes : PlanRescope(c, r)
       \/ \E n \in Notes : PlanNote(c, n)
       \/ PlanReindex(c)
       \/ CommitDecide(c) \/ CommitRescope(c) \/ CommitNote(c) \/ CommitReindex(c)

Spec == Init /\ [][Next]_vars

-----------------------------------------------------------------------------
Positions == {Position(raw) : raw \in Configured}
Points == [valid : 1..MaxClock, tx : 1..MaxClock]

(* No read looks at a plan or at the clock: whatever is stored is also     *)
(* stored where nobody is planning and the clock has run out, and there    *)
(* reads are compared.                                                     *)
Quiet == clock = MaxClock /\ \A c \in Clients : plan[c] = Idle

-----------------------------------------------------------------------------
(* Two decisions planned under one title, by processes that knew nothing   *)
(* of each other, are one decision: "the fields of one decision cannot     *)
(* scatter across two entities", and it was revised as often as it was     *)
(* decided, however often it was given another reach in between.           *)
OneDecisionPerTitle ==
  /\ \A e, f \in DOMAIN names : names[e] = names[f] => e = f
  /\ \A e \in DOMAIN names :
       Cardinality(Visible(e, "choice", At(MaxClock, MaxClock)))
         = Cardinality({i \in DOMAIN decided : decided[i] = names[e]})

(* The list and the detail of a decision say the same of whether it stands *)
(* and of what it was replaced by, though each works it out for itself, and*)
(* what the list shows an asker can be looked up from where it stands. At  *)
(* whatever point on the two clocks a decision is read as superseded, there*)
(* is one it can be reached by, read at the same point.                    *)
ListAndDetailAgree ==
  Quiet => \A e \in DOMAIN names, at \in Points :
    /\ \A here \in Positions : e \in Listed(at, here) => Found(names[e], at, here) = "found"
    /\ Line(e, at).stands = Detail(e, at).stands
    /\ Line(e, at).by = IF Detail(e, at).forward = <<>> THEN Absent ELSE Detail(e, at).forward[1]
    /\ Held(e, "status", at) = "superseded" => Superseders(e, at) # {}

(* Whatever commits between the reading of the texts and the swap, every   *)
(* assertion has a vector, and one that speaks of its own decision's field.*)
EveryAssertionIsIndexed ==
  /\ DOMAIN index = DOMAIN log
  /\ \A i \in DOMAIN log :
       /\ index[i][1] = names[log[i].e] /\ index[i][2] = log[i].attribute
       /\ \E j \in Slot(log[i].e, log[i].attribute) : index[i][3] = log[j].value

(* What the log answered about a past transaction time it answers for      *)
(* ever: a decision recorded late, or backdated, changes no answer the     *)
(* store gave before it was told.                                          *)
HeardLaterTellsNothing ==
  stored' # stored => \A at \in Points :
    /\ \A i \in DOMAIN log' \ DOMAIN log : log'[i].at > at.tx
    => \A e \in DOMAIN names :
         /\ Line(e, at)' = Line(e, at) /\ Detail(e, at)' = Detail(e, at)
         /\ Held(e, "scope", at)' = Held(e, "scope", at)

(* The rewrite-history door: giving a decision that has a reach another    *)
(* one changes nothing about where it reached before; giving a reach to    *)
(* one that never had any lets no question about its past see it as        *)
(* universal. Of commands that commit in the order of their clocks, and    *)
(* decisions that are not dated ahead of them.                             *)
CorrectionsKeepThePast ==
  \A c \in Clients, e \in DOMAIN names, at \in 1..MaxClock :
    /\ CommitRescope(c) /\ plan[c].at = at /\ plan[c].r.title = names[e]
    /\ \A i \in DOMAIN log : log[i].at <= at /\ log[i].from <= log[i].at
    => \A valid \in 1..MaxClock :
         IF \E i \in Slot(e, "scope") : log[i].from <= at
         THEN valid < at =>
                Held(e, "scope", At(valid, MaxClock))' = Held(e, "scope", At(valid, MaxClock))
         ELSE Visible(e, "choice", At(valid, MaxClock)) # {} =>
                Held(e, "scope", At(valid, MaxClock))' = plan[c].r.scope

(* No command rewrites what was answered about a past, of either clock.    *)
PastAnswersStay == [][HeardLaterTellsNothing /\ CorrectionsKeepThePast]_vars
=============================================================================
