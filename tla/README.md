# A verification of rusty-memory

rusty-memory is a memory for agents: it stores what was said about people and
things, when it was said and for when it holds, merges the many mentions of one
entity, and answers questions about the present and about any past. This
directory holds TLA+ models of the parts that carry that promise, the TLC runs
that check them on small instances, and TLAPS proofs of the central properties
for every value of their constants. Paths below are relative to `src/`.

## The system and its parts

| part (crate) | state | operations | works with |
| --- | --- | --- | --- |
| times, provenance, scopes (`rm-core`) | none | intervals, observation times, what an assertion claims of earlier ones, ancestor-or-self scopes | all |
| store (`rm-store`) | entities, a version log per entity and attribute, a forward and a reverse edge map | `assert`, `assert_resolved`, `as_of`, `relate`, `unrelate`, `erase`, `erase_edges`, `repoint_edges`, `open` | owned by the engine |
| vector index (`rm-index`) | parallel arrays of ids and rows, and the position of each id | `insert`, `remove`, `search_adjusted`, `snapshot`, `restore`, `open_split` | owned by the engine |
| resolution (`rm-resolve`) | a union-find for one call | comparing two values, scoring a pair of records, blocking keys, clustering | `remember`, `review`, the facade |
| survivorship (`rm-survivor`) | none | `merge` under six strategies, `timeline`, `held_at` | every read of a slot |
| walks (`rm-graph`) | none | bounded breadth-first neighbourhood | the store's edges |
| engine (`rm-engine`) | all of the above, identity records, the blocking map, assertions (id to log position), the review queue and what it settled | `remember`, `remember_as`, `confirm`, `reject`, `forget`, `erase`, `relate`, `rebuild_index`, `ingest_prepared`, snapshot and restore; `about`, `recall`, `holders_of`, `edges_*` | one owner at a time |
| host (`rm-host`) | two files and an OS lock; the decision log and the ingest ledger inside the store; a configuration file it reads | `with_write`, `with_read`; `decide`, `rescope`, `note`, `reindex`, `ingest`, `remember`, `recall`, `about` | every command loads an engine, changes it, saves it |
| extraction (`rm-extract`) | the arity of attributes while it is being asked | a turn into mentions, facts, relations and closures; arity in batches | a provider, before the lock; the host commits what it gives |
| providers, embedders (`rm-providers`, `rm-embed`) | an HTTP agent, built at first use | a post with its attempts and waits; a local embedder | asked by host commands, before the lock |
| MCP server (`rm-mcp`) | over stdio a handshake, over HTTP a bounded table of sessions | lines or requests, answered in order or by threads | calls the host |
| command line (`rm-cli`) | none | one host command per run | the host |
| conformance, benchmarks (`rm-conform`, `rm-contrast`, `benches`) | none | an oracle of survivorship, generators, measurements | compare with the rest |
| facade (`rusty-memory`) | none | re-exports | |

There is no server that owns a store. Processes (a command line run, an MCP
server, another one) meet only at the store file: each command takes an
advisory lock, reads two files into an engine in memory, works on it alone,
writes the two files back and drops the lock. Model calls come before the lock,
so a command plans against one store and commits against another. Inside one
command nothing is concurrent. What is hard is therefore of four kinds:

* **between processes** - the lock, its bounded wait, crashes and I/O errors
  among the four file operations of a save, and commands that plan outside the
  lock what they commit inside it (reindex, decide, rescope, note, ingest);
* **between structures** - one call has to keep several structures in step that
  are derived from one another (rows and positions, forward and reverse maps,
  positions in logs, the blocking map, the review queue, positions of mentions
  in a response), and a merge of two entities moves all of them at once;
* **between times** - writes are not in the order of their observations (a
  caller reads its clock before it waits for the lock), valid time and
  transaction time are independent, and several readers answer from one store by
  different rules;
* **with others** - a provider that is slow, limited, gone or wrong, a client
  that changes its protocol or drops a session, a document edited while it is
  read.

What makes each part correct:

* *store file*: a command is atomic, an answer is true of the file, the two
  files belong together, nobody waits for ever.
* *index*: it is an exact search over a map, whatever was removed before.
* *edges and walks*: both directions agree, what is in memory can be reopened, a
  merge loses nothing; a walk finds what is in reach and says when it did not.
* *engine*: a hit is read at the version it was written as, everything said is
  findable until it is forgotten, what was said follows the entity through every
  merge, a restart changes nothing, no question is lost, open twice or asked again.
* *reads of a slot*: the answer of a rule does not depend on the order of
  arrival, a later write does not change a past belief, concluding something
  does not change what it was concluded from.
* *resolution*: clusters are the chains of matches and nothing else, no question
  is lost or settled, a similarity is a similarity.
* *decision log*: one decision per title, list and detail agree, what stands is
  first, what was answered about a past stays, each assertion keeps a vector of
  its own field.
* *reading documents*: every line is read once, the ledger is true, what a model
  said of one mention is not recorded of another, a closure ends what it should.
* *providers and the server*: no more is asked than can help and never with the
  lock held, every request gets its own answer in a form its client can read, a
  write is recorded against whoever asked.

The inventory with one entry per part, and the list of hazards at their lines,
is in `PROJECT.json` (`components`, `hazards`).

## The modules

| module | models | abstract counterpart |
| --- | --- | --- |
| `StoreFile` | `rm-host/src/store.rs`: lock, load, save, `with_write`, `with_read`, with the doors `Engine::open_split` and `VectorIndex::open_split` | `SerialStore` |
| `VectorIndex` | `rm-index/src/lib.rs` | `VectorMap` |
| `EdgeStore` | the edges of `rm-store/src/lib.rs` | `EdgeFacts` |
| `Walk` (extends `EdgeStore`) | `rm-graph/src/lib.rs` | `InReach`, in the module |
| `Engine` | the writes of `rm-engine/src/lib.rs`, and restore | - |
| `Survivor` | `rm-survivor/src/lib.rs`: operators only | `Rule` in the module; `Reference`, the oracle `rm-conform/src/reference.rs` |
| `Belief` (uses `Survivor`) | one slot: `assert` and `assert_resolved` of `rm-store`, and its readers `as_of`, `about`, `standing`, `held` | - |
| `Scopes` | `rm-core/src/scope.rs`, `rm-host/src/scope.rs`: operators only | - |
| `Decisions` (extends `Scopes`) | the decision log of `rm-host/src/command.rs`: plan, commit, and the reads `decisions` and `decision` | - |
| `Recall` (extends `Decisions`) | `rm-engine/src/read.rs` and `commit_recall` over that log | the list, and the k most like among what applies, in `RecallIsExact` |
| `Extraction` | `rm-extract/src/lib.rs` and `validate_extraction` of `rm-engine/src/ingest.rs`: operators only | - |
| `Chunks` | `chunks` of `rm-host/src/ingest.rs`: operators only | the lines themselves |
| `Documents` (extends both) | `plan_tree`, `commit_tree`, `survey`, `plan_remember`, `commit_remember`, `ingest_prepared` | - |
| `Provider` | `post` of `rm-providers/src/lib.rs`, the agent of `network.rs` | - |
| `Hosts` (extends `Provider`) | what both binaries make of a command: model calls, then the lock (`rm-cli/src/run.rs`, `call_tool` of `rm-mcp/src/serve.rs`) | - |
| `Server` (extends `Hosts`) | `rm-mcp` over stdio: `serve.rs`, `jsonrpc.rs`, `version.rs`, the reading of arguments in `tools.rs` | - |
| `Sessions` | the session table of `rm-mcp/src/session.rs`, the request threads of `http.rs` that share it, the handshake of `serve.rs` and `version.rs` | - |
| `Similarity` and `Comparing`, `Resolution` | `rm-resolve/src/compare.rs` and `lib.rs` | `Chained`, the closure of matches |
| `Calendar` | `rm-host/src/time.rs` | the calendar, a day at a time |
| `Arity` | `rm-extract/src/arity.rs` | - |

`Storage_proofs` (`StoreFile` and `VectorIndex`), `EdgeStore_proofs`,
`Engine_proofs`, `Sessions_proofs`, `Documents_proofs`, `Decisions_proofs` (with
`Recall`), `Server_proofs` and `Algorithms_proofs` (`Comparing`, `Resolution`,
`Arity`, `Calendar`, `Survivor` and `Belief`) hold theorems and their proofs. The
`MC*` modules only give constants their values, except `MCAlgorithms`, which puts
the pure algorithms, the log of one slot and the edges of a store side by side,
and `MCStorage`, which does so with the store file and the index: parts that
share nothing, each run while the others have not begun.

**StoreFile.** A process has a program counter through `with_write`: `lock`
(`Acquire`, `Backoff`, `GiveUp`, `LockFails`), `read` and `readvec` (the two
reads of `load` and the door), `run` (the command), `vtmp`, `vren`, `jtmp`,
`jren` (write and rename of the vectors, then of the snapshot) and `unlock`.
Each is one action with its failure branch beside it; `Advance(p)` is whatever
`p` does next of its own. The OS lock is two sets of holders. An engine is
abstracted to the ids and rows of its index, the next assertion id, and the
requests it has absorbed: that last field is what lets a lost update be seen. A
command adds an entry, drops one with a swap-remove, or rebuilds the index in
order; those are the three ways in which calls of the engine move rows. A crash
may come at any step and leaves the temporary being written torn; a process may
also hang where it is. `Legacy` starts from a snapshot written before the
vectors had a file of their own.

**VectorIndex.** `ids`, `rows` and `position` as in the code. A vector is a
value, what preparing it gives (or refuses) and its score against a query are
constants, so a score stands for the dot product with the caller's adjustment.
Search is the code's: filter, score, partition at k, sort, break ties by id. The
abstract map knows no rows and states the answer as the k best.

**EdgeStore and Walk.** The nested forward map is a function from triples to
logs plus the keys of its two outer levels, because a level left empty is a
corrupt snapshot; the reverse map is patched by each call as in the code.
`RepointEdges` makes the two passes of the code, the second from what the first
left. A refused call is a step that changes nothing. A store is opened before
anything is put in it. Versions carry a ghost that numbers them in the order
they were said. `EdgeFacts` knows a set of facts said about pairs, and no maps.
A walk is the code's level-by-level loop, with direction, predicates, hops and
budget, over whatever store has been reached; `InReach` is reachability within
the hops.

**Engine.** One action per public call that writes. `Remember` takes its
decision from candidates under the blocking map, the best score and the review
band; `Confirm` moves logs, edges, assertions, identity, the blocking map and
both question sets. Whether the index takes a vector is an input that is
decided before anything is written. A version is who wrote it (an assertion, or
a tombstone of `forget`) and, as a ghost, of whom it was said; another ghost
records what each absorbed entity became. `Reopen` is a snapshot followed by a
restore: it is enabled when the restored state passes every check of `restore`,
and leaves the blocking map as rebuilt.

**Survivor, Reference and Belief.** A slot's log grows by an assertion with any
time of observation and of validity, or by a resolution of what was known by
some time. Answers are sets: empty for none, a singleton for a survivor, more
for a refusal. Values are told apart by identity and by length. `Survivor` has
all six strategies, silent candidates and ranked sources included; the logs of
`Belief` have neither, since no read of the store makes a silent candidate and a
configuration cannot choose the strategy that ranks sources, so short histories
with both are compared with the oracle in `MCAlgorithms` instead. `Reference` is
that oracle, written from the documented rule of each strategy: loops, counts and
a running best where the code sorts and groups. Its loops are recursive functions
of how far they have got, so that they can be reasoned about.

**Scopes, Decisions and Recall.** A command of the log is planned without the lock
(`PlanDecide`, `PlanRescope`, `PlanNote`, `PlanReindex`: the clock is read and
texts are embedded) and committed under it, in one step, against whatever the
store is by then (`CommitDecide` and the others; that a commit is one step is what
`StoreFile` is about). Between the two the clock may tick and the other process
may commit. A decision is an entity with a title; the versions of all slots are
one log in the order of the writes, so an assertion's id is its place;
`supersedes` edges carry both times; the vector of an assertion is the text it was
embedded from. `decisions` and `decision` are read at a point on both clocks, each
by its own code: the list asks for an edge into the decision, the detail follows
the chain. A note writes what it is asked to, and a reach beside it. `Recall` is
the search with filter and boost applied inside the scan, then `demote_replaced`;
the hits of a search are a set of ids with their scores, and a sorted list is what
each one's place in the order makes it. No read looks at a plan or at the clock,
so whatever is stored is also stored in a state where nobody is planning and the
clock has run out: reads are compared there (`Quiet`), and nothing is lost by it.

**Extraction, Chunks and Documents.** A run reads the ledger under a shared
lock (`ReadLedger`), opens each document (`OpenFile`), skips the sections it has
read (`Skip`) and asks a model about the others one at a time: `Read`, `Fail`, or
`GiveUp` after `CONSECUTIVE_FAILURE_LIMIT` failures in a row. `Remember` plans one
turn. `Commit` applies everything a plan holds or, when any of it is refused,
nothing (`Refuse`), and files what was read. Documents are edited (`Edit`)
between those steps. A model's response is four lists of items that refer to
mentions by position; dropping a mention renumbers what refers to it, as the
code does. `Survey`, the dry run, repeats the loop of the run it prices.

**Provider, Hosts and Server.** A post is asked, answered, dropped or refused,
waited on for as long as the provider says or the schedule gives, and asked
again while that is worth it. Ghosts keep what a provider asked for and has not
been given: within a post what is left of a wait, and over the posts of one
command what a failed one left owing, since the next chunk of an ingest asks the
same provider. The slate is wiped with the plan, as the code makes a provider for
each. `Hosts` puts the model calls of each command before
its lock, in both binaries: reindex and ingest list under a shared lock, plan
under none, and commit under an exclusive one that they may not get. A store is
the batches of vectors written, each with its author, if it records any, and its
kind: made by the provider or by the local embedder. Every writing tool signs what
it writes but `resolve`, whose confirm or reject records nobody. `Server` reads
lines in order, blank ones among them, and answers each at most once; a line is a
record of what the code tells apart in it. Tools that differ only in what they ask
of the engine are one tool; what they do there is in the modules above.

**Sessions.** A thread serves one request: `Arrive` reads its head and the
clock, `Resume` looks the session up and answers the call or settles the
handshake (what a request does between its lookup and the next use of the table
touches nothing that is shared, so it is one step with it), `EndOld` ends the
session a new handshake replaces, `Mint` makes room and hands out an id, and
`Reply` or `ReplyLost` is what becomes of the answer. The lock on the table is
held for one use at a time, so those are the steps that interleave, and the
clock may tick between them. Which of two sessions last used at one moment is
evicted depends on a map's order and is left open. Ids are drawn at random from
a space in which none is drawn twice. Clients are outside the repository: one
sends what it was last given, has any number of requests under way at once, up to
`HandshakesAtOnce` of them an initialize, and handshakes again when told that its
session is gone. Ghosts record when a session last answered (until it is ended,
makes room, or is looked up by requests out of the order of their clocks) and
which replies never arrived.

**Similarity, Comparing, Resolution, Calendar, Arity.** A similarity is an exact
fraction where the code has an `f64`; weights are whole bits. `Comparing` takes
any two values and a comparator. `Resolution` takes one
step for one turn of a loop: a pair scored, a path halved, a union, a record
gathered, a question checked again. `Calendar` carries the code's arithmetic for
days and dates along a calendar that is walked one day at a time. `Arity` asks
about a vocabulary in batches, in context and bare, and puts the two together.

## The runs

Passing runs:

* `storage` - two processes, two commands, two polls of a held lock, two strikes
  (crash or I/O error) anywhere and a process that hangs for good, lock in hand
  if it has it, from an empty store or one in the old shape. No committed write
  is lost, answers are true, unless a strike fell between the two renames every
  loaded engine has each vector in its own row, the whole implements
  `SerialStore`, and every command of another process ends. Two strikes reach a
  failed save on top of a failed save. Beside it the index on its own: three ids,
  two stored vectors and one that is refused, two queries, k up to 3, and every
  answer is compared with the search it was asked for. Three entries are what a
  swap-removal needs to have a first, a middle and a last row; the four snapshots
  offered to restore are one that opens and one for each check.
* `engine_merge` - three entities, three assertions, a tombstone, an edge. Two
  merges in a row in either direction, a refused pair, a mention that teaches an
  entity a blocking field, erasing and rebuilding in between. Two kinds of
  mention are enough: a name (a question when it meets another) and a name with
  an address (a match when it meets another). Every question ever asked is
  answered, moot or open, once.
* `decisions` - two processes, three commands, three instants, over one decision
  recorded before scopes existed: two decisions of one title planned at once, a
  supersession of what has been superseded meanwhile, a rescoping with an old
  clock, a reindex around a commit, a backdated decision. `Boost` is as large as
  a difference in similarity.
* `documents` - two processes, two documents, three commands and an edit, a limit
  of two failures in a row, responses with holes, with positions out of range,
  with a future date and with a relation of somebody to themselves.
* `sessions` - two clients, two threads, a table of two, three sessions minted,
  two ticks with an idle timeout of two. Both threads may serve one client, so its
  lookups may come out of the order of their clocks. A call runs under the
  handshake its client made for that session, use keeps a session alive unless its
  requests crossed, and no row is left that nobody can reach. Three sessions
  overfill the table, and two ticks let one session be used between its mint and
  the moment it would have expired.
* `stdio` - one server and one command line, up to three lines of every kind, one
  of them a call, one command of the command line (a reindex, or an ingest of up to
  two sections), three attempts with a doubling delay, and providers that ask for
  as long a wait as is allowed or a longer one. Three lines are two handshakes, the
  second with another name, another revision or neither, and what is written under
  it; two sections are a chunk whose post was given up and the next one.
* `algorithms` - seven parts that share nothing, each while the others have not
  begun. Every two short strings, phrases or names in prose compared, with words
  said twice among the phrases. Any four records of seven resolved under two rules.
  Every day of two spans of decades around century years. A vocabulary of five
  asked in batches of four, any of which fails. Histories of three claims,
  silences and retractions by up to three sources, and of four claims, under every
  strategy, against the oracle. Every log of three assertions over three valid
  instants and two observation times, of one holder and the store itself, and every
  resolution of one under every strategy that reads the store: the readers agree
  when the log is in order, a past belief is settled, a resolution changes no
  answer. Each assertion claims to correct what came before, the strictest case:
  what it claims is read by `standing` alone, and any other claim has it call fewer
  of them corrected. And three entities, two predicates, two instants and two observation
  times, two versions said on top of what a restored store holds: an edge from,
  into and between merged entities, an edge whose slot is taken, a level whose
  last entry leaves while its sibling stays, and a merged log that is sorted with
  a tie in it. Restored snapshots include one per check of `open`. What is in
  memory always reopens as itself, the maps implement `EdgeFacts`, the returned
  counts included, and walks over every store reached are exact.

Runs that find what the code does to be other than what it says:

* `file_mispair` - `save` says that an interrupted write leaves the previous
  snapshot intact; after a reindex that only reordered rows it opens with the
  vectors of other ids.
* `documents_scratch` - `commit_tree` says that one hand-written note is enough
  to make an ingest refuse a store, because nothing but an ingest writes an `@`
  into a `source_ref`; with `RMEM_SESSION` unset the author of every command is
  `cli@<host>`.
* `engine_settled` - `reject` says that the question stops coming back; a later
  `confirm` renames another open question onto the settled pair and leaves it open.
* `decisions_standing` - `decide` says that `still_stands` on a decision's choice
  answers "is this still what we do"; superseding writes the status alone, and
  `recall` goes on saying that the old choice stands.
* `algorithms_fair` - a comparator is said, and tested, to be within 0 and 1 and
  symmetric; `token_jaccard` counts the words of one side, each as often as it is
  said, and of "a a" and "a" it is 2.0 one way and 0.5 the other.

Each is described with its lines under `findings`. Every property of a passing
run has a mutant in `PROJECT.json`: a change to one definition, of the kind a bug
would be, under which TLC finds that property violated.

`CHECK_DEADLOCK FALSE` is set where a behaviour may stop: when the commands,
lines, edits or versions of a bound are spent (`storage`, `decisions`, `documents`,
`stdio`), when the clock and the mints are (`sessions`), and when a computation is
done (`algorithms`). Symmetry is over interchangeable
processes, clients and threads (the properties of those runs name none) and over
two predicates; the runs with liveness use none.

## What was learnt of the code

Besides the five findings, these came out of the modelling. Some differ from what
a comment hopes for, others are only worth knowing; no run states them.

* `save` (store.rs:285) expects a crash between the renames to leave rows the next
  open "neither reads nor minds"; when the number of rows changed, the next open
  refuses the store.
* `touched` is "refreshed on every lookup" so that "a session in steady use is
  never collected" (session.rs:64-66); of two requests one client has under way,
  the one whose head was read first may be looked up last and puts the time back,
  and the session may then be collected early. `UseKeepsAlive` excepts it.
* A provider that asks for a longer wait than is allowed ends its post, so that no
  request "spends quota it was just told there is none of" (lib.rs:243-248); an
  ingest then asks it at once for its next chunk, until
  `CONSECUTIVE_FAILURE_LIMIT` (ingest.rs:230-241). `AsksPatiently` excepts it.
* A client's name is "recorded against every write it makes" (serve.rs:100-102);
  `resolve` confirms or rejects with no author at all. `SignedByItsClient` says so.
* `already_rejected` compares identity records, and a record that has learned a
  field since is another record: the same mention is asked about again.
* `confirm` copies versions with their holder as it was, also when the holder is
  the entity it absorbs.
* The standing that `recall` reports counts another holder's view as a
  correction, and goes by the transaction clock where `held` goes by arrival.
* A tie between versions of one moment is broken by their place, and a merge puts
  the absorbed entity's log behind: its version wins, whichever was said last.
* `reindex_texts` embeds the last value of a slot for every assertion of it, so one
  that was revised is found by the text of its successor.
* `remember` and `ingest` embed with the provider whatever embedder is configured
  (serve.rs:491), and a store then holds vectors of two kinds until a reindex.
* Two runs over one tree that plan at once both pay for, and both assert, a chunk
  neither had read.
* `longest` counts characters and the oracle of `rm-conform` bytes; and when all
  candidates agree but one comes from an unlisted source, the code answers where
  the oracle refuses. The model compares them where these do not differ.
* `parse_day` reads a plus sign; a year above 9999 or below zero is written in a
  form that is not read back.
* The default waits of a post sum to under eight seconds where its comment speaks
  of about a minute; no read timeout is set (network.rs), so a provider that
  accepts and never answers holds the server for good; a line that is not UTF-8
  ends the loop (serve.rs:221).
* One section whose two mentions resolve to one entity, related to itself, makes
  a whole ingest refuse, and the next one again; a closure is reported as having
  ended an edge that was said again since.
* `init` looks for a configuration, then probes the provider, then writes: one
  written during the probe is replaced without `--force`.

## Bounds

Every bound is a constant: `MaxRequests`, `MaxTries`, `MaxStrikes`, `MaxWedged`
(StoreFile), `MaxK` (VectorIndex), `MaxSaid` (EdgeStore), `MaxAssertions`,
`MaxEdges`, `MaxLog` (Engine), `MaxVersions` (Belief), `MaxClock`, `MaxCommands`
(Decisions), `MaxCommands`, `MaxEdits` (Documents), `Hints` (Provider),
`MaxTexts`, `MaxChunks` (Hosts), `MaxLines`, `MaxCalls`, `MaxCommands` (Server),
`Threads`, `HandshakesAtOnce`, `MaxClock`, `MaxMinted` (Sessions), `N`, `Spans`,
`Cycles`, `Attributes` (the algorithms). `MaxSessions`, `Idle`, `Limit`,
`Attempts`, `BaseDelay`, `MaxDelay`, `Batch` and `MsPerDay` are the code's own
limits, with small values. `MaxTries` stands for the polls that fit in
`LOCK_WAIT`. `MaxLines` counts twice a line that neither shakes hands nor calls a
tool, and `MaxCalls` bounds those that call one: what such a line needs beside it
is one more, where a write needs two handshakes before it. Counters of ids are as
wide as the code's 64 bits for any run that could be made, so they are natural
numbers.

## Fairness

`StoreFile` and `Server` claim that something happens. `FairSpec` of `StoreFile`
assumes weak fairness of each process's own next step: a process that is
scheduled and has not hung runs its command on. Nothing is assumed about issuing
commands, crashing, hanging, or the order in which waiting processes get the
lock; the code polls and gives up, and that is what makes a wait end.

`Server` assumes weak fairness of the server's own steps only: of its command
(`HostStep`), of a sleep ending and of its answering. The command line may stop
anywhere, lock in hand. Nothing makes a provider answer, so `RequestsEnd` excepts
a post that is for ever under way.

## What is proved

`Storage_proofs`, of `StoreFile` for any set of processes and any bounds:

* `TypeCorrect`, `LockSafe` from `FileInv`: types, `LockDiscipline`, and
  `TmpFiles`, which says what the two temporaries hold at each program counter.
  The strengthening is needed because a rename publishes a temporary, so the
  type of the snapshot depends on who wrote the temporary and that nobody else
  could have since.
* `NoWriteIsLost` and `NothingIsStale` together, as `HistoryInv`: neither is
  inductive alone, a save is right because the load was and the other way round,
  and both need the lock to be exclusive.
* `PairSafe` and `ImageSafe` from `PairInv`, which says for each step of a
  save what the two files and the engine in hand have to do with each other, and
  that a snapshot with vectors of its own has them in order (`OwnRows`).
* `AnswersTrue` from `AnswerInv`, which adds that numbers of requests are handed
  out once (`Apart`) and what is committed at each program counter.
* `Implements`: from the conjunction of those invariants, every step maps to a
  step of `SerialStore` or to none.

and of `VectorIndex` for any finite set of ids, any vectors, scores, filters and
k: `IndexSafe` (the arrays are parallel and `position` is the inverse of
`ids`) and `IndexImplementsMap`.

`EdgeStore_proofs`, for any entities, predicates, times and restored stores:

* `OpensAgain`: the snapshot of what is in memory is always one the next open
  accepts and reads back to the same maps. The invariant is `Mirrors`: the reverse
  map and the keys of both outer levels are what the triples determine. It is
  carried through hooking, unhooking, dropping and pruning by one lemma each;
  `RepointEdges` is argued pass by pass, the second from what the first left,
  with no log empty after either.
* `EdgesImplementFacts`: every call is a step of `EdgeFacts` or none. The ghost
  that numbers versions is what the sorted logs are read back by; a merge is
  shown to rename an entity in everything said, and to lose none of it.
* `WalksFindTheNearest`, of a walk over any store that has been reached. The
  levels of the walk are a recursive function; what the n-th level holds is shown
  by a least level at which it would be otherwise.

`Engine_proofs`, for any entities, attributes, mentions, evidence, thresholds and
blocking fields: `ReadsItsOwn`, `NothingGoesQuiet`, `SaidFollows`,
`QuestionsAlwaysStand` and `ReopensAlways`. The first four are from `EngineInv`;
none of them is inductive. What ties them is `Claimed`: whatever version names a
live assertion, that assertion names its place, so erasing one slot cannot strand
a version of another. A merge is argued in `MovedLogs`: every place of the logs
goes to one place of the merged logs and nothing else is there; `Adopt` moves
positions by the same map (`AdoptedPlace`), so what held of a place holds of its
image. `Absorptions` says that an absorbed entity is known no longer, so it is
absorbed once and nothing it became is absorbed with it in the same step.
`FileStep` shows that the questions `file_review` files are of different entities
and that the newcomer is the higher of each pair. `ReopensAlways` adds `InStep`:
the index has the live assertions and no other, and the blocking map, which every
call patches, is what a restore would build.

`Sessions_proofs`, for any clients, limits and finitely many threads:
`TableBounded`, `RunsUnderItsOwn` and `GoneStaysGone`, for any number of requests
one client has under way, rest on `TableStep`, a fact about every step: a session
the table has afterwards is one it had before, under the same handshake, or the
one new session there was room for. The invariant adds what everybody who has an
id knows of it (`ClientBound`, `Fits`), without which a call could be answered
under a handshake that its request never expected. `UseKeepsItAlive` has no
hypothesis either. It excepts in the property a session whose requests crossed: of
two requests of one client the one whose head was read first may be looked up
last, and puts the session's last use back, which is a thing the code does and not
a weakness of the argument. `NoRowOutlivesItsUse` has the hypothesis
`HandshakesAtOnce = 1`, a client that awaits the answer to one initialize before
it sends another: of two crossing ones the second answer makes the client forget
the session of the first.

`Decisions_proofs`, for any processes, commands, titles and clocks:

* `AlwaysIndexed`: every assertion keeps a vector of its own decision's field
  whatever commits between a reindex's two locks. The property is not inductive,
  since it says nothing of the texts a plan has already read: `LogInv` adds that
  those are, and stay, texts of the slots they were read for (`Fits`), which
  survives because the log and the names only grow (`Prefix`, `StillFits`); a
  swap then takes them only when they cover the log. What a commit writes is
  argued once, in `Written`.
* `ListAgrees`, `OnePerTitle` and `PastStays`, from what goes with what: names are
  unlike, an edge joins two decisions, a choice has a status and a reach beside
  it, a status that reads superseded has an edge beside it (`DatedInv`,
  `WholeInv`), and there is a choice for each time a title was decided
  (`CountInv`). A chain is a recursive function over paths; that it exists and
  what it begins with go by how many decisions are left to visit.
* `RecallAlwaysExact` and `LiveAlwaysFirst`: hits are in a strict order, so how
  many come before one is its place (`PlacesAre`), the k best are those in the
  first k places (`BestIs`), and demoting is another order of the same hits
  (`DemotingIs`). Similarity may be any numbers (`Numbers`).

All but the first have the hypothesis `NotesOfOtherThings`: no `note` writes a
field of a decision by its name. `note` would take one, and a status or a choice
written by hand has nothing beside it. One half of `PastStays`, that a reach
which was never written down is backfilled from the decision's beginning, also
speaks only of commits in the order of their clocks and of decisions not dated
ahead of them: of one dated ahead and later dated earlier, the first choice in
the log is not its earliest.

`Algorithms_proofs`:

* `ClustersClosed`, `QuestionsOpen` and `ResolvedExactly`, for any number of
  records, rules, blocking and thresholds. The invariant is of eight parts; the
  trees are joined as far as pairs have been compared (`Sound`, `United`) and
  never cyclic because sizes grow towards the root (`Rooted`), which is what keeps
  the halving of a path from closing one.
* `EveryNameAccountedFor`: batches partition the names, whichever call fails.
* `EveryDayHasItsDate`, of every day and every date, by the eras, centuries and
  leap days of the code's own formulas.
* `RulesAreFollowed`: merging by recency, and reading an instant off the merged
  timeline, give what the rule says of the history itself. A timeline is looked at
  by the instants something begins at (`Froms`, `Begun`); merging restatements
  leaves in force at each instant what opened there (`StandsSince`), and a span
  covers an instant when it is the last to begin by then (`SpanCovers`).
* `OracleAlwaysAgrees`: the merge of every strategy, the spans of a timeline and
  what they hold at any instant are those of `Reference`, for histories of any
  length, values and sources. The two are written in different ways, so each loop
  of the oracle is followed turn by turn: one that keeps what scores higher ends
  with the first of the highest (`FirstKept`), which ranking finds too
  (`FirstBestIs`); its counts stand in the order in which values first appear
  (`Tallies`), so a tie goes to the value heard first; and after each moment its
  facts are the spans begun by then (`Followed`), a restatement opening none
  because what stands last is what opened at the moment before (`FollowedLast`).
  `ReferenceAssumption`: a history is a list of candidates with times and, where
  they have a value, its length.
* `ComparingIsFair`, of values of any length. The loop of `jaro` matches greedily,
  letter by letter of one side; that it is the same from the other is tested of
  samples (`comparison_is_symmetric`).
  What it makes is a `Stable` matching: two letters that could be matched are not
  only if one of them is matched with the other or with one before it
  (`OneMoreLetter`). There is one such matching (`OnlyOneStable`), and turned round
  it is still one, so it does not matter whose letters the loop is over
  (`MatchedBothWays`); as many are then out of order on one side as on the other
  (`CrossedBothWays`). That leaves arithmetic: the three parts of Jaro, and a boost
  scaled to what is left to gain, stay within one. `ComparingAssumption`: values are
  lists, and a name has one owner at most. Phrases may say a word twice, and are as
  like as anything else under every comparator but `token_jaccard`, which the
  property excepts there.
* `PastIsSettled`, `ReadersAlwaysAgree` and `ResolvingIsSafe`, for any log, holders
  and times: a slot's log only grows (`LogGrows`) by versions that are known later;
  a resolution opens at every instant what was open there (`SameOpenings`), which
  makes the same spans (`SameSpans`).

`Documents_proofs`, for any processes, documents, edits of them, responses that
have the shape that was asked for, and limits. The invariant is `DocInv`:

* `AlwaysReadAsWritten`: what is kept of a list is its items at some places, in
  their order, so the item at a place is found at that place's rank (`ThoseAre`);
  a reference to a mention is such a rank (`MentionsAre`). Every plan of every
  command carries this (`PlanOk`), whatever happens between planning and commit.
* `LedgerAlwaysTrue`: a run has asked about each unread section it has passed.
  `Walked` says where in the tree it is, in files opened and sections passed, and
  how many those were; it speaks only of a run that began after the last edit,
  since a dry run and a run are of one tree. `StoreOk` says of the store that
  nothing is kept of a section that is not marked read.
* `AlwaysClosesTheRest`: closures of one turn are applied one after the other and
  each reads what the one before left. `EndedIs` gives an edge's log after one
  closure, none of which begins anything, so what a turn ended stays ended; what
  the turn says again is spared by each and is what was said last (`SaidLast`).
* `TreeAlwaysReadWhole`, of every document there is: what has been read so far is
  what was sent and what is in the open section (`ReadSoFar`), and trimming drops
  nothing but blank lines (`TrimmingKeeps`).

`Server_proofs`, for any processes, lines, texts and limits: `PatientAlways` (a
post by itself: it asks only when nothing is left of the wait it was told, and
what it slept is within the longest wait for each request made; over the posts of
a command, `Owes`: only a failed post leaves anything owing, and only an ingest
goes on from one; posts are under way only while completing or embedding, locks
are held only while holding); `OneKindOfVector` (what a reindex has made and has
left to make is what it listed, and what it listed stays listed, so one that
covers the store relabels every vector of it); `AnswersAlways` (answers are those
of the lines read so far, in their order and without those that want none) and
`SignedAlways` (the handshake a line is read under stays the last one before it
until it is answered, nobody else writes as the server, and an answered question
is signed by nobody).

All rest on the named assumptions of the modules (each has one, named for it:
`EngineAssumption`, `DocumentsAssumption`, `ReferenceAssumption`; `StoreFile` has
two, `BoundsAssumption` and `FilesAssumption`), which TLC evaluates in the runs,
and on the hypotheses named above, which stand in the theorems. Proved but in no
run of their own, because other properties of the same run fall with them: types,
`LockDiscipline`, `LoadedIsCurrent`, `PairAgrees`, `IndexInv`, `Bounded`,
`GoneIsGone`.

The prover takes no induction over data: the library's induction theorems have an
operator as a parameter. Where a recursive function had to be argued about
(levels of a walk, chains, lines of a document, letters matched, the loops of the
oracle), the argument is of a least counterexample in a set of numbers, from the
well-foundedness of `<` (`Climbs`). The folds of the community modules and
`SelectSeq` are beyond that, which is why the models state with sets what the
code does by sorting or filtering, wherever a theorem is about it: the hits of
`Recall`, the candidates of `Survivor`, which are at places and not in a list.

Only model-checked:

* liveness (`EveryCommandEnds`, `RequestsEnd`), which under fairness is out of the
  prover's reach.

Every invariant and every action property of a passing run is stated by a theorem.

## What is not modelled

* Text: how a string is normalised and comes apart, what a prompt or an answer is
  worded like, JSON, schemas and help; `render.rs`, `format.rs`, `args.rs`. Where
  a conversion decides something (days and dates, sections, similarity, the
  reading of arguments) it is modelled by what it decides.
* Configuration: which file, which keys, which refusals. It is read once per
  process, changes no store, and its strategies, thresholds and embedders are
  constants of the models.
* Transport: TLS, proxies, HTTP framing and the checks of a request's head.
* Numbers: the arithmetic of `f32` and `f64` (weights are whole bits, similarities
  exact fractions, scores given), and the hashing of the local embedder.
* Holders of versions are in `Belief` and not in `Engine`; the filters of recall by
  session and by source, and how much of a hit is shown.
* `rm-conform` apart from its oracle, `rm-contrast` and `benches`: generators,
  measurements and comparisons with other systems, with no state of this one.

## Plan

Done, in this order: `StoreFile` with `SerialStore` and proofs; `VectorIndex`
with `VectorMap` and proofs; `EdgeStore` with `EdgeFacts`; `Engine` and proofs;
`Survivor` and `Belief`; `Sessions` and proofs; then `Scopes`, `Decisions` and
`Recall`; `Walk`; `Extraction`, `Chunks` and `Documents`; `Provider`, `Hosts` and
`Server`; `Similarity`, `Resolution`, `Calendar`, `Arity` and `Reference`; then
proofs about each of them.

Left:

1. holders in `Engine`: what `confirm` leaves behind of a view held by the entity
   it absorbs;
2. `init` as a command that checks, waits and writes.
