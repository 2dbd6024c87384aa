----------------------------- MODULE Documents -----------------------------
(***************************************************************************)
(* Commands that read text into the store: ingest over a tree of documents *)
(* (crates/rm-host/src/ingest.rs, its branch in crates/rm-cli/src/run.rs)  *)
(* and remember (crates/rm-host/src/command.rs). Each plans without a lock,*)
(* one model call per section, and commits what it planned under the lock; *)
(* the store may have moved in between. A commit that fails is not saved.  *)
(*                                                                         *)
(* Resolution is Engine's: a name is recognised as the entity Who gives.   *)
(* The store is its facts, the versions of its edges, and the ledger of    *)
(* what was read. A fact's ref is what its provenance names.               *)
(***************************************************************************)
EXTENDS Extraction, Chunks

CONSTANTS
  Procs, Who,
  Files,       \* the paths under the root, in order
  Trees,       \* what the tree may hold: path to document
  Lines,       \* what may be said to remember
  NamesIn,     \* the names that a text contains
  Replies,     \* a text to the usable responses the model may give
  Session,     \* what RMEM_SESSION says, or Unset
  Unset,
  CliAtHost,   \* the author cli@<host>
  AtSigns,     \* sessions with an @ in their name
  Limit,       \* CONSECUTIVE_FAILURE_LIMIT
  MaxCommands, MaxEdits

IsList(s) == s \in Seq({s[i] : i \in DOMAIN s})

(* What parses as a response, whatever is in it.                           *)
IsResponse(reply) ==
  /\ \A list \in {reply.mentions, reply.facts, reply.relations, reply.closures} : IsList(list)
  /\ \A i \in DOMAIN reply.relations : reply.relations[i].days \subseteq Int
  /\ \A i \in DOMAIN reply.closures : reply.closures[i].days \subseteq Int

ASSUME DocumentsAssumption ==
  /\ \A name \in Names : Who[name] \in Nat
  /\ Limit \in Nat \ {0} /\ MaxCommands \in Nat /\ MaxEdits \in Nat
  /\ IsList(Files)
  /\ \A tree \in Trees, i \in DOMAIN Files :
       /\ DOMAIN tree = {Files[j] : j \in DOMAIN Files} /\ IsList(tree[Files[i]])
       /\ \A k \in DOMAIN Sections(tree[Files[i]]) :
            Sections(tree[Files[i]])[k].text \in DOMAIN Replies
  /\ Lines \subseteq DOMAIN Replies
  /\ \A text \in DOMAIN Replies : \A reply \in Replies[text] : IsResponse(reply)

VARIABLES
  tree,     \* the documents on disk
  clock,    \* what now was for the last command
  edits,    \* how often the tree was edited
  store,    \* facts, edges and read
  job,      \* what each process is doing
  answered, \* ghost: the sections a usable response was given for
  last      \* ghost: the last turn that was committed, and the edges before it

vars == <<tree, clock, edits, store, job, answered, last>>

Idle == [pc |-> "idle", kind |-> "none", at |-> 0, seen |-> {}, files |-> <<>>,
         left |-> <<>>, planned |-> <<>>, failing |-> 0, tries |-> <<>>, began |-> 0]

(* attribution: a session that names itself is used verbatim.              *)
Author == IF Session = Unset THEN CliAtHost ELSE Session

NoTurn == [at |-> 0, ref |-> Author, names |-> {}]
Nothing == [mentions |-> <<>>, facts |-> <<>>, relations |-> <<>>, closures |-> <<>>]

Init ==
  /\ tree \in Trees
  /\ clock = 0 /\ edits = 0
  /\ store = [facts |-> {}, edges |-> [t \in {} |-> <<>>], read |-> {}]
  /\ job = [p \in Procs |-> Idle]
  /\ answered = {}
  /\ last = [turn |-> NoTurn, extraction |-> Nothing, before |-> store.edges]

(* An author edits what is under the root.                                 *)
Edit ==
  /\ edits < MaxEdits /\ edits' = edits + 1
  /\ tree' \in Trees \ {tree}
  /\ UNCHANGED <<clock, store, job, answered, last>>

-----------------------------------------------------------------------------
(* source_ref: a section is known by its path, its heading and its text.   *)
SourceRef(path, section) ==
  [path |-> path, heading |-> section.heading, text |-> section.text]

RefsOf(path, document) ==
  [k \in DOMAIN Sections(document) |-> SourceRef(path, Sections(document)[k])]

IsDocument(ref) == ref # Author
HasAt(ref) == IsDocument(ref) \/ ref \in AtSigns \cup {CliAtHost}

(* The ledger is read under a shared lock, which is then let go.           *)
ReadLedger(p) ==
  /\ job[p].pc = "idle" /\ clock < MaxCommands
  /\ clock' = clock + 1
  /\ job' = [job EXCEPT ![p] = [Idle EXCEPT !.pc = "planning", !.kind = "ingest",
                                  !.at = clock', !.seen = store.read, !.files = Files,
                                  !.began = edits]]
  /\ UNCHANGED <<tree, edits, store, answered, last>>

OpenFile(p) ==
  /\ job[p].pc = "planning" /\ job[p].left = <<>> /\ job[p].files # <<>>
  /\ job' = [job EXCEPT ![p].left = RefsOf(Head(job[p].files), tree[Head(job[p].files)]),
                        ![p].files = Tail(@)]
  /\ UNCHANGED <<tree, clock, edits, store, answered, last>>

Turn(p, ref, text) == [at |-> job[p].at, ref |-> ref, names |-> NamesIn[text]]

Skip(p) ==
  /\ job[p].left # <<>> /\ Head(job[p].left) \in job[p].seen
  /\ job' = [job EXCEPT ![p].left = Tail(@)]
  /\ UNCHANGED <<tree, clock, edits, store, answered, last>>

(* plan_remember of a document's section, when it can be used.             *)
Planned(turn, reply) ==
  [turn |-> turn, reply |-> reply, extraction |-> WithoutAbsences(Extract(reply, turn))]

(* How many failures in a row there are after one more answer.             *)
Failing(n, usable) == IF usable THEN 0 ELSE n + 1

(* Mutant: what could not be read is planned as having said nothing.       *)
PlannedAnyway(p, ref) == <<[turn |-> Turn(p, ref, ref.text), reply |-> Nothing,
                            extraction |-> Nothing]>>

(* A section that could not be read is only reported.                      *)
PlannedOfFailure(p, ref) == <<>>

Answer(p, ref, usable, planned) ==
  /\ job' = [job EXCEPT ![p].left = Tail(@),
                        ![p].planned = @ \o planned,
                        ![p].failing = Failing(@, usable),
                        ![p].tries = Append(@, usable)]
  /\ UNCHANGED <<tree, clock, edits, store, last>>

Read(p) ==
  /\ job[p].left # <<>> /\ Head(job[p].left) \notin job[p].seen
  /\ \E ref \in {Head(job[p].left)}, reply \in Replies[Head(job[p].left).text] :
       /\ Answer(p, ref, TRUE, <<Planned(Turn(p, ref, ref.text), reply)>>)
       /\ answered' = answered \cup {ref}

Fail(p) ==
  /\ job[p].left # <<>> /\ Head(job[p].left) \notin job[p].seen
  /\ Failing(job[p].failing, FALSE) < Limit
  /\ \E ref \in {Head(job[p].left)} : Answer(p, ref, FALSE, PlannedOfFailure(p, ref))
  /\ UNCHANGED answered

(* The run ends with the error, and nothing it paid for is written.        *)
GiveUp(p) ==
  /\ job[p].left # <<>> /\ Head(job[p].left) \notin job[p].seen
  /\ Failing(job[p].failing, FALSE) >= Limit
  /\ job' = [job EXCEPT ![p] = [Idle EXCEPT !.kind = "gave up", !.tries = Append(job[p].tries, FALSE)]]
  /\ UNCHANGED <<tree, clock, edits, store, answered, last>>

(* remember: one turn, by somebody who can say that there is none.         *)
Remember(p, text) ==
  /\ job[p].pc = "idle" /\ clock < MaxCommands
  /\ clock' = clock + 1
  /\ \E reply \in Replies[text], turn \in {[at |-> clock', ref |-> Author, names |-> NamesIn[text]]} :
       job' = [job EXCEPT ![p] =
                 [Idle EXCEPT !.pc = "planning", !.kind = "remember", !.at = clock',
                    !.planned = <<[turn |-> turn, reply |-> reply,
                                   extraction |-> Extract(reply, turn)]>>]]
  /\ UNCHANGED <<tree, edits, store, answered, last>>

(* survey, for a dry run: the sections a run would pay for, by the places  *)
(* they have in the tree, and how many they are.                           *)
Unread(seen, documents) ==
  UNION {{<<i, k>> : k \in {n \in DOMAIN RefsOf(Files[i], documents[Files[i]]) :
                              RefsOf(Files[i], documents[Files[i]])[n] \notin seen}} :
           i \in DOMAIN Files}
Survey(seen, documents) == Cardinality(Unread(seen, documents))

-----------------------------------------------------------------------------
(* Edges: a log of versions for each triple, each valid from an instant on.*)
Forever == MaxCommands + 1

LogOf(edges, t) == IF t \in DOMAIN edges THEN edges[t] ELSE <<>>

InForce(edges, t, valid_t, tx_t) ==
  LET log == LogOf(edges, t)
      seen == {i \in DOMAIN log : log[i].at <= tx_t /\ log[i].from <= valid_t}
  IN \E i \in seen :
       /\ log[i].present
       /\ \A j \in seen : log[j].at < log[i].at \/ (log[j].at = log[i].at /\ j <= i)

EntityOf(extraction, i) == Who[extraction.mentions[i].name]

TripleOf(extraction, r) ==
  <<EntityOf(extraction, r.subject), r.predicate, EntityOf(extraction, r.object)>>

(* What the turn itself relates the subject of a closure to.               *)
Spared(extraction, closure) ==
  {EntityOf(extraction, extraction.relations[i].object) :
     i \in {j \in DOMAIN extraction.relations :
              /\ extraction.relations[j].predicate = closure.predicate
              /\ EntityOf(extraction, extraction.relations[j].subject)
                   = EntityOf(extraction, closure.subject)}}

(* Mutant: what was known at the moment the closure speaks about.          *)
AsKnownThen(closure) == closure.at

(* Which edges a closure ends is asked of what the store holds now.        *)
AsKnownAt(closure) == Forever

Doomed(edges, extraction, closure) ==
  {t \in DOMAIN edges :
     /\ t[1] = EntityOf(extraction, closure.subject) /\ t[2] = closure.predicate
     /\ InForce(edges, t, closure.at, AsKnownAt(closure))
     /\ t[3] \notin Spared(extraction, closure)}

Ended(edges, turn, extraction, closure) ==
  [t \in DOMAIN edges |->
     IF t \in Doomed(edges, extraction, closure)
     THEN Append(edges[t], [present |-> FALSE, from |-> closure.at, at |-> turn.at])
     ELSE edges[t]]

(* ingest_prepared: a kind for each mention, the facts on the entity their *)
(* mention resolved to, the relations, and what the closures end.          *)
FactsOf(turn, extraction) ==
  {[entity |-> EntityOf(extraction, i), attribute |-> "kind", value |-> {"thing"},
    from |-> turn.at, at |-> turn.at, ref |-> turn.ref] : i \in DOMAIN extraction.mentions}
  \cup
  {[entity |-> EntityOf(extraction, f.subject), attribute |-> f.attribute, value |-> f.value,
    from |-> f.from, at |-> turn.at, ref |-> turn.ref] :
     f \in {extraction.facts[i] : i \in DOMAIN extraction.facts}}

Related(edges, turn, extraction) ==
  LET triple == [i \in DOMAIN extraction.relations |-> TripleOf(extraction, extraction.relations[i])]
      of(t) == Those(extraction.relations, {i \in DOMAIN triple : triple[i] = t})
  IN [t \in DOMAIN edges \cup {triple[i] : i \in DOMAIN triple} |->
        LogOf(edges, t) \o [k \in DOMAIN of(t) |->
                              [present |-> TRUE, from |-> of(t)[k].from, at |-> turn.at]]]

Closed(edges, turn, extraction) ==
  LET after[n \in 0..Len(extraction.closures)] ==
        IF n = 0 THEN edges
        ELSE Ended(after[n - 1], turn, extraction, extraction.closures[n])
  IN after[Len(extraction.closures)]

EdgesAfter(edges, turn, extraction) == Closed(Related(edges, turn, extraction), turn, extraction)

(* An error of ingest: an extraction it does not accept, or two mentions   *)
(* that turn out to be one entity, related to itself.                      *)
Fails(extraction) ==
  \/ ~Acceptable(extraction)
  \/ \E i \in DOMAIN extraction.relations :
       LET t == TripleOf(extraction, extraction.relations[i]) IN t[1] = t[3]

(* commit_remember of one plan; ingest marks the section read besides.     *)
Committed(s, planned) ==
  [facts |-> s.facts \cup FactsOf(planned.turn, planned.extraction),
   edges |-> EdgesAfter(s.edges, planned.turn, planned.extraction),
   read |-> s.read \cup {ref \in {planned.turn.ref} : IsDocument(ref)}]

(* The store after the first n of what was planned.                        *)
StoreAfter(s, planned, n) ==
  LET after[m \in 0..Len(planned)] ==
        IF m = 0 THEN s ELSE Committed(after[m - 1], planned[m])
  IN after[n]

(* commit_tree: a source_ref without an @ is taken for a hand-written one. *)
HandWritten(facts) == \E f \in facts : ~HasAt(f.ref)

Refused(p) ==
  \/ job[p].kind = "ingest" /\ HandWritten(store.facts)
  \/ \E i \in DOMAIN job[p].planned : Fails(job[p].planned[i].extraction)

Ready(p) == job[p].pc = "planning" /\ job[p].left = <<>> /\ job[p].files = <<>>

(* Under the lock; what fails half way was only in memory.                 *)
Refuse(p) ==
  /\ Ready(p) /\ Refused(p)
  /\ job' = [job EXCEPT ![p] = Idle]
  /\ UNCHANGED <<tree, clock, edits, store, answered, last>>

Commit(p) ==
  /\ Ready(p) /\ ~Refused(p)
  /\ LET planned == job[p].planned
         n == Len(planned)
     IN /\ store' = StoreAfter(store, planned, n)
        /\ last' = IF n = 0 THEN last
                   ELSE [turn |-> planned[n].turn, extraction |-> planned[n].extraction,
                         before |-> StoreAfter(store, planned, n - 1).edges]
  /\ job' = [job EXCEPT ![p] = Idle]
  /\ UNCHANGED <<tree, clock, edits, answered>>

Next ==
  \/ Edit
  \/ \E p \in Procs :
       \/ ReadLedger(p) \/ OpenFile(p) \/ Skip(p) \/ Read(p) \/ Fail(p) \/ GiveUp(p)
       \/ Refuse(p) \/ Commit(p)
       \/ \E text \in Lines : Remember(p, text)

Spec == Init /\ [][Next]_vars

-----------------------------------------------------------------------------
(* The tree is read whole: no line of it is dropped between two sections,  *)
(* sent twice, or taken for a heading inside a code block.                 *)
TreeIsReadWhole == \A i \in DOMAIN Files : SendsAll(tree[Files[i]])

(* Positions survive dropping: whatever was dropped of a response, what is *)
(* kept of it is about the mention the model wrote it about; ingest accepts*)
(* its shape; and a document never asserts that there is none.             *)
ReadAsWritten ==
  \A p \in Procs :
    \A planned \in {job[p].planned[i] : i \in DOMAIN job[p].planned} :
      LET kept == planned.extraction
          name(i) == planned.reply.mentions[i].name
          keptName(i) == kept.mentions[i].name
      IN /\ Acceptable(kept)
         /\ \A k \in DOMAIN kept.facts : \E i \in DOMAIN planned.reply.facts :
              /\ name(planned.reply.facts[i].subject) = keptName(kept.facts[k].subject)
              /\ planned.reply.facts[i].attribute = kept.facts[k].attribute
              /\ planned.reply.facts[i].value = kept.facts[k].value
         /\ \A k \in DOMAIN kept.relations : \E i \in DOMAIN planned.reply.relations :
              /\ name(planned.reply.relations[i].subject) = keptName(kept.relations[k].subject)
              /\ name(planned.reply.relations[i].object) = keptName(kept.relations[k].object)
         /\ \A k \in DOMAIN kept.closures : \E i \in DOMAIN planned.reply.closures :
              name(planned.reply.closures[i].subject) = keptName(kept.closures[k].subject)

(* Later observations may say otherwise.                                   *)
SaidSince(t) ==
  LET log == LogOf(store.edges, t) IN \E i \in DOMAIN log : log[i].at > last.turn.at

Asserted == {TripleOf(last.extraction, last.extraction.relations[i]) :
               i \in DOMAIN last.extraction.relations}

(* The ledger tells the truth: a section is marked read only once it was   *)
(* answered, nothing is in the store of a section that is not marked, and a*)
(* dry run that consults it is what a run costs: over a tree nobody edited,*)
(* each section it counts is one model call, and there are no others.      *)
LedgerIsTrue ==
  /\ store.read \subseteq answered
  /\ \A f \in store.facts : IsDocument(f.ref) => f.ref \in store.read /\ f.value # {}
  /\ \A p \in Procs :
       Ready(p) /\ job[p].kind = "ingest" /\ job[p].began = edits =>
         Len(job[p].tries) = Survey(job[p].seen, tree)

(* A closure ends every other edge of its subject and predicate, also one  *)
(* learned of after the moment it speaks about, and ends nothing else, nor *)
(* anything before that moment. "I moved from Acme to Globex" does not     *)
(* close Globex as fast as it opens it, whichever of its mentions the turn *)
(* says it about.                                                          *)
ClosesTheRest ==
  /\ \A i \in DOMAIN last.extraction.relations :
       \A r \in {last.extraction.relations[i]} :
         \A t \in {TripleOf(last.extraction, r)}, at \in 0..MaxCommands :
           at >= r.from => InForce(store.edges, t, at, Forever) \/ SaidSince(t)
  /\ \A t \in DOMAIN store.edges :
       LET closures == {c \in {last.extraction.closures[i] : i \in DOMAIN last.extraction.closures} :
                          t[1] = EntityOf(last.extraction, c.subject) /\ t[2] = c.predicate}
           was(at) == InForce(last.before, t, at, Forever)
           is(at) == InForce(store.edges, t, at, Forever)
       IN /\ \A c \in closures :
               t \notin Asserted /\ was(c.at) => ~is(c.at) \/ SaidSince(t)
          /\ \A at \in (-1)..MaxCommands :
               /\ was(at) /\ ~is(at) => t \notin Asserted /\ \E c \in closures : c.at <= at
               /\ ~was(at) /\ is(at) => t \in Asserted

(* A store that holds what somebody wrote by hand is not one ingest writes *)
(* to, also when it was written while the run was planning.                *)
OnlyAScratchStore ==
  [][(\E f \in store.facts : ~IsDocument(f.ref)) =>
       {f \in store'.facts : IsDocument(f.ref)} = {f \in store.facts : IsDocument(f.ref)}]_vars
=============================================================================
