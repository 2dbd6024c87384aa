-------------------------------- MODULE Engine --------------------------------
(***************************************************************************)
(* The write half of Engine (crates/rm-engine/src/lib.rs, persist.rs): the *)
(* store's version logs, the vector index, the identity records, and what  *)
(* ties them together: assertions, which name a position in a log, and the *)
(* blocking map, which is derived from identity. Every call keeps the four *)
(* in step, and confirm, which merges two entities, moves all of them.     *)
(*                                                                         *)
(* Abstracted: values, times, provenance and holder of a version (it is    *)
(* who wrote it and, as a ghost, of whom it was said; Belief has the       *)
(* rest), vectors (an id in the index or not), scores to a natural number  *)
(* per pair of records, edges to the pairs related (see EdgeStore).        *)
(***************************************************************************)
EXTENDS Naturals, Sequences, FiniteSets

CONSTANTS
  Ids,           \* entity ids, from 0
  Attributes,
  Fields,        \* identity fields
  Values,        \* their values
  Blocking,      \* the fields blocked on, exactly; {} for no blocking
  Mentions,      \* records an observation may carry
  Score,         \* Score[a][b]: the evidence that two records are one entity
  ReviewAt,
  MatchAt,
  NoOne,         \* no entity: remember_as of a new one
  Tombstone,     \* what wrote a version that forget wrote
  MaxAssertions, \* bound: assertions written
  MaxEdges,      \* bound: pairs related
  MaxLog         \* bound: the length of a log

Record == UNION {[F -> Values] : F \in SUBSET Fields}

ASSUME EngineAssumption ==
  /\ Ids \subseteq Nat /\ Mentions \subseteq Record /\ Blocking \subseteq Fields
  /\ Score \in [Record -> [Record -> Nat]]
  /\ ReviewAt \in Nat /\ MatchAt \in Nat /\ ReviewAt <= MatchAt
  /\ NoOne \notin Nat /\ Tombstone \notin Nat
  /\ MaxAssertions \in Nat /\ MaxEdges \in Nat /\ MaxLog \in Nat

VARIABLES
  next_id,        \* the store's entities are 0..next_id - 1
  logs,           \* <<entity, attribute>> to its versions
  edges,          \* the pairs the store relates
  index,          \* the assertions that have a vector
  identity,       \* the entities there are, and what each is known by
  blocks,         \* blocking key to the entities under it
  assertions,     \* where each assertion's version is
  review,         \* open questions
  rejected,       \* pairs answered "different"
  next_assertion,
  next_review,
  became,         \* ghost: what each absorbed entity was merged into
  asked           \* ghost: the pairs that were ever filed as questions

stored == <<next_id, logs, edges>>
known == <<identity, blocks>>
facts == <<assertions, index, next_assertion>>
questions == <<review, rejected, next_review, asked>>
vars == <<stored, known, facts, questions, became>>

Entities == 0..(next_id - 1)
Elements(s) == {s[i] : i \in DOMAIN s}
Without(f, S) == [x \in DOMAIN f \ S |-> f[x]]
With(f, x, v) == [y \in DOMAIN f \cup {x} |-> IF y = x THEN v ELSE f[y]]

Init ==
  /\ next_id = 0 /\ logs = [x \in {} |-> <<>>] /\ edges = {}
  /\ index = {} /\ assertions = [x \in {} |-> <<>>] /\ next_assertion = 0
  /\ identity = [x \in {} |-> <<>>] /\ blocks = [x \in {} |-> <<>>]
  /\ review = [x \in {} |-> <<>>] /\ rejected = {} /\ next_review = 0
  /\ became = [x \in {} |-> 0] /\ asked = {}

History(e, a) == IF <<e, a>> \in DOMAIN logs THEN logs[<<e, a>>] ELSE <<>>

-----------------------------------------------------------------------------
(* Identity and the blocking map.                                          *)

KeysFor(record) == {<<f, record[f]>> : f \in Blocking \cap DOMAIN record}

(* key_entity: under every key of the record, once.                        *)
Keyed(bs, e, record) ==
  [k \in DOMAIN bs \cup KeysFor(record) |->
     LET ids == IF k \in DOMAIN bs THEN bs[k] ELSE <<>>
     IN IF k \in KeysFor(record) /\ e \notin Elements(ids) THEN Append(ids, e) ELSE ids]

Ascending(S) == CHOOSE s \in [1..Cardinality(S) -> S] :
                  \A i, j \in 1..Cardinality(S) : i < j => s[i] < s[j]

(* What is left of ids without e, in order.                                *)
Rest(ids, e) ==
  LET at == Ascending({i \in DOMAIN ids : ids[i] # e})
  IN [n \in DOMAIN at |-> ids[at[n]]]

(* A field held already keeps its first spelling.                          *)
Fold(record, mention) ==
  [f \in DOMAIN record \cup DOMAIN mention |->
     IF f \in DOMAIN record THEN record[f] ELSE mention[f]]

(* Mutant: a field learned is not keyed.                                   *)
RememberIdentityUnkeyed(ids, bs, e, mention) ==
  identity' = [ids EXCEPT ![e] = Fold(@, mention)] /\ blocks' = bs

(* remember_identity, on an identity map and a blocking map.               *)
RememberIdentity(ids, bs, e, mention) ==
  /\ identity' = [ids EXCEPT ![e] = Fold(@, mention)]
  /\ blocks' = IF DOMAIN mention \subseteq DOMAIN ids[e] THEN bs
               ELSE Keyed(bs, e, Fold(ids[e], mention))

Candidates(mention) ==
  IF Blocking = {} THEN DOMAIN identity
  ELSE UNION {Elements(blocks[k]) : k \in KeysFor(mention) \cap DOMAIN blocks}

(* The best match, the lowest id on a tie.                                 *)
Matches(mention) ==
  {e \in Candidates(mention) \cap DOMAIN identity : Score[mention][identity[e]] >= MatchAt}
Best(mention) ==
  CHOOSE e \in Matches(mention) :
    \A o \in Matches(mention) :
      \/ Score[mention][identity[e]] > Score[mention][identity[o]]
      \/ Score[mention][identity[e]] = Score[mention][identity[o]] /\ e <= o

Undecided(mention) ==
  {e \in Candidates(mention) \cap DOMAIN identity :
     Score[mention][identity[e]] >= ReviewAt /\ Score[mention][identity[e]] < MatchAt}

-----------------------------------------------------------------------------
(* Observations.                                                           *)

(* create_entity. The id is new, so keying it only appends.                *)
CreateEntity(mention) ==
  /\ next_id \in Ids
  /\ next_id' = next_id + 1
  /\ identity' = With(identity, next_id, mention)
  /\ blocks' = Keyed(blocks, next_id, mention)

Said(by, of) == [by |-> by, of |-> of]

(* write: the version, its vector, and the position that ties the two.     *)
Write(e, a) ==
  /\ next_assertion < MaxAssertions
  /\ logs' = With(logs, <<e, a>>, Append(History(e, a), Said(next_assertion, e)))
  /\ index' = index \cup {next_assertion}
  /\ assertions' = With(assertions, next_assertion,
                        [entity |-> e, attribute |-> a, version |-> Len(History(e, a)) + 1])
  /\ next_assertion' = next_assertion + 1
  /\ UNCHANGED <<edges, became>>

Pair(a, b) == IF a < b THEN <<a, b>> ELSE <<b, a>>

(* Compared by record: the asking entity was created a moment ago.         *)
AlreadyRejected(mention, other) ==
  \E p \in rejected :
    /\ {p[1], p[2]} \subseteq DOMAIN identity
    /\ \/ identity[p[1]] = mention /\ identity[p[2]] = identity[other]
       \/ identity[p[2]] = mention /\ identity[p[1]] = identity[other]

(* file_review for each of others, lowest first.                           *)
File(e, others) ==
  LET n == Cardinality(others)
      other(r) == CHOOSE o \in others : Cardinality({x \in others : x < o}) = r - next_review
  IN /\ review' = [r \in DOMAIN review \cup next_review..(next_review + n - 1) |->
                     IF r \in DOMAIN review THEN review[r] ELSE Pair(e, other(r))]
     /\ next_review' = next_review + n
     /\ asked' = asked \cup {Pair(e, o) : o \in others}
     /\ UNCHANGED rejected

(* The decision remember takes once its vector fits.                       *)
Resolve(mention, a) ==
  \/ /\ Matches(mention) # {}
     /\ LET e == Best(mention)
        IN Write(e, a) /\ RememberIdentity(identity, blocks, e, mention)
     /\ UNCHANGED <<next_id, questions>>
  \/ /\ Matches(mention) = {}
     /\ CreateEntity(mention)
     /\ Write(next_id, a)
     /\ File(next_id, {o \in Undecided(mention) : ~AlreadyRejected(mention, o)})

(* Mutant: the index is asked when the version is written.                 *)
RememberUnchecked(mention, a, fits) ==
  \/ fits /\ Resolve(mention, a)
  \/ /\ ~fits /\ Matches(mention) # {} /\ next_assertion < MaxAssertions
     /\ LET e == Best(mention)
        IN logs' = With(logs, <<e, a>>, Append(History(e, a), Said(next_assertion, e)))
     /\ next_assertion' = next_assertion + 1
     /\ UNCHANGED <<next_id, edges, known, assertions, index, questions, became>>

(* fits: whether the index takes the vector, found out before any write.   *)
Remember(mention, a, fits) ==
  \/ fits /\ Resolve(mention, a)
  \/ ~fits /\ UNCHANGED vars

(* The caller knows the entity, or that there is none.                     *)
RememberAs(e, mention, a, fits) ==
  \/ /\ fits /\ e \in DOMAIN identity
     /\ RememberIdentity(identity, blocks, e, mention)
     /\ Write(e, a)
     /\ UNCHANGED <<next_id, questions>>
  \/ /\ fits /\ e = NoOne
     /\ CreateEntity(mention)
     /\ Write(next_id, a)
     /\ UNCHANGED questions
  \/ /\ ~fits \/ e \notin DOMAIN identity \cup {NoOne}
     /\ UNCHANGED vars

-----------------------------------------------------------------------------
(* Answers.                                                                *)

(* Mutant: positions are handed on as they were.                           *)
AdoptInPlace(absorbed, kept) ==
  [i \in DOMAIN assertions |->
     [assertions[i] EXCEPT !.entity = IF @ = absorbed THEN kept ELSE @]]

(* adopt_assertions: the survivor's own log stood in front.                *)
Adopt(absorbed, kept) ==
  [i \in DOMAIN assertions |->
     LET x == assertions[i]
     IN IF x.entity # absorbed THEN x
        ELSE [entity |-> kept, attribute |-> x.attribute,
              version |-> x.version + Len(History(kept, x.attribute))]]

(* Mutant: only the logs both of them have are copied.                     *)
MoveSharedLogs(absorbed, kept) ==
  LET moved == {a \in Attributes : {<<absorbed, a>>, <<kept, a>>} \subseteq DOMAIN logs}
      left == {x \in DOMAIN logs : x[1] # absorbed \/ x[2] \notin moved}
  IN [x \in left \cup {<<kept, a>> : a \in moved} |->
        IF x[1] = kept THEN History(kept, x[2]) \o History(absorbed, x[2]) ELSE logs[x]]

(* Copy every log behind the survivor's, then erase it.                    *)
MoveLogs(absorbed, kept) ==
  LET moved == {a \in Attributes : <<absorbed, a>> \in DOMAIN logs}
      left == {x \in DOMAIN logs : x[1] # absorbed}
  IN [x \in left \cup {<<kept, a>> : a \in moved} |->
        IF x[1] = kept THEN History(kept, x[2]) \o History(absorbed, x[2]) ELSE logs[x]]

Renamed(x, absorbed, kept) == IF x = absorbed THEN kept ELSE x
RenamedPair(p, absorbed, kept) ==
  Pair(Renamed(p[1], absorbed, kept), Renamed(p[2], absorbed, kept))

(* Questions are renamed; one about a single entity is settled, and of     *)
(* those that are now the same the first stays.                            *)
RenamedReview(open, absorbed, kept) ==
  LET to(r) == RenamedPair(open[r], absorbed, kept)
      live == {r \in DOMAIN open : to(r)[1] # to(r)[2]}
  IN [r \in {s \in live : \A t \in live : to(t) = to(s) => s <= t} |-> to(r)]

(* Mutant: what was answered of the absorbed entity stays filed under it.  *)
RenamedSettledNot(pairs, absorbed, kept) == pairs

RenamedSettled(pairs, absorbed, kept) ==
  {p \in {RenamedPair(q, absorbed, kept) : q \in pairs} : p[1] # p[2]}

RenamedEdges(es, absorbed, kept) ==
  {p \in {<<Renamed(q[1], absorbed, kept), Renamed(q[2], absorbed, kept)>> : q \in es} :
     p[1] # p[2]}

(* The absorbed id is struck from every key it stood under.                *)
Struck(bs, e) == [k \in {q \in DOMAIN bs : Rest(bs[q], e) # <<>>} |-> Rest(bs[k], e)]

(* The survivor is the lower id; the pair of a question is in order.       *)
Confirm(r) ==
  /\ r \in DOMAIN review
  /\ LET kept == review[r][1]
         absorbed == review[r][2]
     IN /\ logs' = MoveLogs(absorbed, kept)
        /\ edges' = RenamedEdges(edges, absorbed, kept)
        /\ assertions' = Adopt(absorbed, kept)
        /\ RememberIdentity(Without(identity, {absorbed}), Struck(blocks, absorbed),
                            kept, identity[absorbed])
        /\ review' = RenamedReview(Without(review, {r}), absorbed, kept)
        /\ rejected' = RenamedSettled(rejected, absorbed, kept)
        /\ became' = [e \in DOMAIN became \cup {absorbed} |->
                        IF e = absorbed THEN kept ELSE Renamed(became[e], absorbed, kept)]
  /\ UNCHANGED <<next_id, index, next_assertion, next_review, asked>>

Reject(r) ==
  /\ r \in DOMAIN review
  /\ review' = Without(review, {r})
  /\ rejected' = rejected \cup {review[r]}
  /\ UNCHANGED <<stored, known, facts, next_review, asked, became>>

-----------------------------------------------------------------------------
(* Forgetting, erasing, relating. The store, not identity, says whether an *)
(* entity exists: an absorbed one still does.                              *)

DropVectors(e, a) ==
  LET doomed == {i \in DOMAIN assertions : assertions[i].entity = e /\ assertions[i].attribute = a}
  IN index' = index \ doomed /\ assertions' = Without(assertions, doomed)

(* A tombstone no assertion stands behind.                                 *)
Forget(e, a) ==
  /\ e \in Entities
  /\ Len(History(e, a)) < MaxLog
  /\ logs' = With(logs, <<e, a>>, Append(History(e, a), Said(Tombstone, e)))
  /\ DropVectors(e, a)
  /\ UNCHANGED <<next_id, edges, known, next_assertion, questions, became>>

Erase(e, a) ==
  /\ e \in Entities
  /\ logs' = Without(logs, {<<e, a>>})
  /\ DropVectors(e, a)
  /\ UNCHANGED <<next_id, edges, known, next_assertion, questions, became>>

(* relate and unrelate: either puts a version on the pair.                 *)
Relate(s, o) ==
  /\ {s, o} \subseteq Entities /\ s # o
  /\ Cardinality(edges) < MaxEdges
  /\ edges' = edges \cup {<<s, o>>}
  /\ UNCHANGED <<next_id, logs, known, facts, questions, became>>

EraseEdges(e) ==
  /\ e \in Entities
  /\ edges' = {p \in edges : e \notin {p[1], p[2]}}
  /\ UNCHANGED <<next_id, logs, known, facts, questions, became>>

(* rebuild_index, on the assertions vectors were supplied for: all of them *)
(* and no other, or the index stays as it was.                             *)
RebuildIndex(given) ==
  /\ index' = IF given = DOMAIN assertions THEN given ELSE index
  /\ UNCHANGED <<stored, known, assertions, next_assertion, questions, became>>

-----------------------------------------------------------------------------
(* Snapshot and restore.                                                   *)

(* rebuild_blocks: identity, lowest id first.                              *)
Rebuilt(ids) ==
  [k \in UNION {KeysFor(ids[e]) : e \in DOMAIN ids} |->
     Ascending({e \in DOMAIN ids : k \in KeysFor(ids[e])})]

(* restore: what a snapshot must satisfy.                                  *)
Restorable ==
  /\ \A i \in DOMAIN assertions : i < next_assertion
  /\ \A r \in DOMAIN review : r < next_review
  /\ DOMAIN identity \subseteq Entities
  /\ \A i \in DOMAIN assertions :
       LET x == assertions[i]
       IN /\ x.entity \in DOMAIN identity
          /\ x.version <= Len(History(x.entity, x.attribute))
          /\ i \in index
  /\ Cardinality(index) = Cardinality(DOMAIN assertions)
  /\ \A r \in DOMAIN review : {review[r][1], review[r][2]} \subseteq DOMAIN identity

Reopen ==
  /\ Restorable
  /\ blocks' = Rebuilt(identity)
  /\ UNCHANGED <<stored, identity, facts, questions, became>>

Next ==
  \/ \E mention \in Mentions, a \in Attributes, fits \in BOOLEAN :
       \/ Remember(mention, a, fits)
       \/ \E e \in Entities \cup {NoOne} : RememberAs(e, mention, a, fits)
  \/ \E r \in DOMAIN review : Confirm(r) \/ Reject(r)
  \/ \E e \in Entities, a \in Attributes : Forget(e, a) \/ Erase(e, a)
  \/ \E s, o \in Entities : Relate(s, o)
  \/ \E e \in Entities : EraseEdges(e)
  \/ \E given \in SUBSET (0..(next_assertion - 1)) : RebuildIndex(given)
  \/ Reopen

Spec == Init /\ [][Next]_vars

-----------------------------------------------------------------------------
(* A search hit is read by its assertion's position in a log. Through      *)
(* merges that append one log behind another, tombstones no assertion      *)
(* stands behind and erasures, the version there is the one the assertion  *)
(* wrote: "a real, well-formed, wrong fact" is never returned.             *)
RecallReadsItsOwn ==
  \A i \in DOMAIN assertions :
    LET x == assertions[i]
    IN /\ x.version \in DOMAIN History(x.entity, x.attribute)
       /\ History(x.entity, x.attribute)[x.version].by = i

(* No "fact in the store with nothing able to find it": a version no       *)
(* assertion claims was forgotten, and the tombstone follows it in the log.*)
OnlyForgottenGoesQuiet ==
  \A x \in DOMAIN logs :
    \A n \in DOMAIN logs[x] :
      \/ logs[x][n].by = Tombstone
      \/ logs[x][n].by \in DOMAIN assertions
      \/ \E m \in DOMAIN logs[x] : m > n /\ logs[x][m].by = Tombstone

(* What an entity is by now.                                               *)
Now(e) == IF e \in DOMAIN became THEN became[e] ELSE e

(* What was said of an entity is found at the entity it became: nothing an *)
(* observation wrote stays behind at an absorbed id, however many merges   *)
(* came in whatever order.                                                 *)
WhatWasSaidFollows ==
  \A x \in DOMAIN logs :
    \A n \in DOMAIN logs[x] :
      LET v == logs[x][n]
      IN v.by # Tombstone => x[1] = Now(v.of)

(* The engine in memory can always be saved and opened again, and opens as *)
(* one that resolves every mention alike: each assertion has its version   *)
(* and its vector and no vector is left over, and the blocking map patched *)
(* by every call stands for the entities identity derives.                 *)
ReopensAlike ==
  /\ Restorable
  /\ index = DOMAIN assertions
  /\ DOMAIN blocks = DOMAIN Rebuilt(identity)
  /\ \A k \in DOMAIN blocks :
       /\ Elements(blocks[k]) = Elements(Rebuilt(identity)[k])
       /\ Len(blocks[k]) = Len(Rebuilt(identity)[k])

EachQuestionOnce ==
  /\ \A r \in DOMAIN review :
       review[r][1] < review[r][2] /\ {review[r][1], review[r][2]} \subseteq DOMAIN identity
  /\ \A r, s \in DOMAIN review : review[r] = review[s] => r = s

(* A question is neither lost nor answered by nobody: of what was asked,   *)
(* through any number of merges, the two are one by now, or were told      *)
(* apart ("a settled different survives the merge"), or the question is    *)
(* open, once, of two entities that still are two. It may be both open and *)
(* settled: see RejectedStaySettled.                                       *)
QuestionsStand ==
  /\ EachQuestionOnce
  /\ \A p \in asked :
       LET now == Pair(Now(p[1]), Now(p[2]))
       IN now[1] = now[2] \/ now \in rejected \/ \E r \in DOMAIN review : review[r] = now

(* As the comment on reject says it: what was answered "no, different" is  *)
(* not asked again; the question "stops coming back". A merge renames an   *)
(* open question onto a settled one and asks it again.                     *)
RejectedStaySettled == \A r \in DOMAIN review : review[r] \notin rejected
=============================================================================
