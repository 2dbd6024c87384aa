--------------------------------- MODULE Hosts ---------------------------------
(***************************************************************************)
(* What the two binaries make of a command: the calls on a model it needs, *)
(* made first and holding nothing, and then the store's lock over a load,  *)
(* a change and a save (run in crates/rm-cli/src/run.rs, call_tool in      *)
(* crates/rm-mcp/src/serve.rs). Decisions and Documents say what the       *)
(* changes are and StoreFile how a save can fail; here a write is a batch  *)
(* of vectors and who is recorded as its author.                           *)
(*                                                                         *)
(* The configuration and the environment are fixed while the processes     *)
(* run: which embedder the file names, and whether the variable it names   *)
(* for the key is set.                                                     *)
(***************************************************************************)
EXTENDS Provider, Sequences, FiniteSets

CONSTANTS
  Nobody,     \* no author
  MaxTexts,   \* bound: texts embedded for one command, or one chunk
  MaxChunks   \* bound: chunks an ingest finds unread; below the five failures
              \* in a row at which it gives up

ASSUME HostsAssumption == MaxTexts \in Nat \ {0} /\ MaxChunks \in 1..4

(* The commands by what they need: a completion, an embedding, or neither. *)
Extracting == {"remember", "ingest"}
Embedding == {"note", "decide", "rescope", "recall", "reindex"}
Reviewing == {"about", "resolve"}
Tools == Extracting \cup Embedding \cup Reviewing

Mutates(tool) == tool \notin {"recall", "about"}
ListsFirst(tool) == tool \in {"reindex", "ingest"}
Decided == {"decide", "rescope"}
Signing == {"remember", "note", "decide", "rescope"}

VARIABLES
  embedder,  \* [provider] embedder
  keySet,    \* whether the API key is in the environment
  run,       \* what each process is doing
  held,      \* how each process holds the lock
  store      \* the batches of vectors written, in order

hosts == <<embedder, keySet, run, held, store>>

Idle == [stage |-> "idle"]

HostsInit ==
  /\ ProviderInit
  /\ embedder \in {"http", "local"} /\ keySet \in BOOLEAN
  /\ run = [p \in Procs |-> Idle] /\ held = [p \in Procs |-> "no"] /\ store = <<>>

(* Mutant: every plan is given the provider.                               *)
ProvidersAlways(tool) == "http"

(* The vectors a command's plan holds were made by the provider when the   *)
(* configuration says so, and for what was extracted whatever it says:     *)
(* plan_remember is given the provider twice.                              *)
KindOf(tool) == IF tool \in Extracting THEN "http" ELSE embedder

NeedsProvider(r) ==
  r.tool \in Extracting \/ (r.tool \in Embedding /\ embedder = "http" /\ r.texts # 0)

(* "texts" is how many are left to embed, "saw" the batches the store had  *)
(* when they were listed, "made" the vectors of the chunks read whole and  *)
(* "part" those of the one being read.                                     *)
Fresh(tool, by, line) ==
  [stage |-> IF ListsFirst(tool) THEN "listing" ELSE "planning",
   tool |-> tool, by |-> by, line |-> line,
   texts |-> IF tool \in Embedding THEN 1 ELSE 0, saw |-> 0, chunks |-> 1, made |-> 0, part |-> 0]

Begin(p, tool, by, line) ==
  /\ run[p].stage = "idle"
  /\ run' = [run EXCEPT ![p] = Fresh(tool, by, line)]
  /\ UNCHANGED <<embedder, keySet, held, store>>
  /\ UNCHANGED provider

Ended(r, ok) == [stage |-> "ended", tool |-> r.tool, by |-> r.by, line |-> r.line, ok |-> ok]

Refuse(p) == run' = [run EXCEPT ![p] = Ended(@, FALSE)]

CanShare(p) == \A q \in Procs \ {p} : held[q] # "alone"
CanOwn(p) == \A q \in Procs \ {p} : held[q] = "no"

(* The batches that put something in the index: answering a review, or a   *)
(* turn with nothing in it, does not.                                      *)
Indexed == {i \in DOMAIN store : store[i].vectors > 0}

(* The first read of a reindex or an ingest, under a shared lock of its    *)
(* own. A reindex is refused a store that holds anything but decisions.    *)
List(p) ==
  /\ run[p].stage = "listing" /\ CanShare(p)
  /\ \/ /\ run[p].tool = "ingest"
        /\ \E n \in 1..MaxChunks :
             run' = [run EXCEPT ![p] = [@ EXCEPT !.stage = "planning", !.chunks = n]]
     \/ /\ run[p].tool = "reindex"
        /\ IF \A i \in Indexed : store[i].tool \in Decided
           THEN run' = [run EXCEPT ![p] = [@ EXCEPT !.stage = "planning",
                                    !.texts = Cardinality(Indexed), !.saw = Len(store)]]
           ELSE Refuse(p)
  /\ UNCHANGED <<embedder, keySet, held, store>>
  /\ UNCHANGED provider

(* The provider is built for the command that needs it, with no agent, and *)
(* not without the key; local vectors, and none at all, need no provider.  *)
Plan(p) ==
  /\ run[p].stage = "planning"
  /\ \/ /\ NeedsProvider(run[p]) /\ ~keySet
        /\ Refuse(p)
        /\ UNCHANGED provider
     \/ /\ NeedsProvider(run[p]) /\ keySet
        /\ run' = [run EXCEPT ![p] = [@ EXCEPT !.stage =
                     IF run[p].tool \in Extracting THEN "completing" ELSE "embedding"]]
        /\ post' = [post EXCEPT ![p] = FreshPost(0)]
        /\ UNCHANGED agent
     \/ /\ ~NeedsProvider(run[p])
        /\ run' = [run EXCEPT ![p] = [@ EXCEPT !.stage = "locking", !.made = run[p].texts]]
        /\ UNCHANGED provider
  /\ UNCHANGED <<embedder, keySet, held, store>>

(* What is next once a text, or a completion, has been answered.           *)
Onwards(r) ==
  IF r.texts > 0 THEN [r EXCEPT !.stage = "embedding"]
  ELSE LET whole == [r EXCEPT !.chunks = @ - 1, !.made = @ + r.part, !.part = 0]
       IN [whole EXCEPT !.stage = IF whole.chunks = 0 THEN "locking" ELSE "completing"]

(* A chunk that could not be read is left out of an ingest, for the next   *)
(* one to read, and the next chunk's completion is asked for at once; any  *)
(* other command ends with the error of its post.                          *)
Without(r) == Onwards([r EXCEPT !.texts = 0, !.part = 0])

(* The provider goes with the plan that was made with it.                  *)
Advance(p, r) ==
  LET asks == r.stage \in {"completing", "embedding"} IN
  /\ run' = [run EXCEPT ![p] = r]
  /\ post' = [post EXCEPT ![p] = IF asks THEN FreshPost(@.owed) ELSE NoPost]
  /\ agent' = [agent EXCEPT ![p] = @ /\ asks]

TakeReply(p) ==
  /\ post[p].stage \in {"useful", "failed"}
  /\ \/ /\ post[p].stage = "failed" /\ run[p].tool = "ingest"
        /\ Advance(p, Without(run[p]))
     \/ /\ post[p].stage = "failed" /\ run[p].tool # "ingest"
        /\ Advance(p, Ended(run[p], FALSE))
     \/ /\ post[p].stage = "useful" /\ run[p].stage = "completing"
        /\ \E n \in 0..MaxTexts : Advance(p, Onwards([run[p] EXCEPT !.texts = n]))
     \/ /\ post[p].stage = "useful" /\ run[p].stage = "embedding"
        /\ Advance(p, Onwards([run[p] EXCEPT !.texts = @ - 1, !.part = @ + 1]))
  /\ UNCHANGED <<embedder, keySet, held, store>>

Grants(p) == IF Mutates(run[p].tool) THEN CanOwn(p) ELSE CanShare(p)

Acquire(p) ==
  /\ run[p].stage = "locking"
  /\ Grants(p)
  /\ held' = [held EXCEPT ![p] = IF Mutates(run[p].tool) THEN "alone" ELSE "shared"]
  /\ run' = [run EXCEPT ![p] = [@ EXCEPT !.stage = "holding"]]
  /\ UNCHANGED <<embedder, keySet, store>> /\ UNCHANGED provider

(* Mutant: the lock is waited for as long as it takes.                     *)
WaitForEver(p) == FALSE

(* acquire_within: the lock is tried until the deadline.                   *)
TimeOut(p) ==
  /\ \/ run[p].stage = "listing" /\ ~CanShare(p)
     \/ run[p].stage = "locking" /\ ~Grants(p)
  /\ Refuse(p)
  /\ UNCHANGED <<embedder, keySet, held, store>> /\ UNCHANGED provider

(* What an ingest writes names its document instead of an author, and the  *)
(* answer to a review question names no one.                               *)
Batch(r) ==
  [tool |-> r.tool, by |-> IF r.tool \in Signing THEN r.by ELSE Nobody, line |-> r.line,
   vectors |-> r.made, kind |-> KindOf(r.tool)]

(* rebuild_index refuses a plan that does not cover the store by count.    *)
Covers(r) == r.made = Cardinality(Indexed)

Change(p) ==
  LET r == run[p] IN
  \/ /\ Mutates(r.tool) /\ r.tool # "reindex"
     /\ store' = Append(store, Batch(r))
  \/ /\ r.tool = "reindex" /\ Covers(r)
     /\ store' = [i \in DOMAIN store |-> [store[i] EXCEPT !.kind = IF i <= r.saw THEN embedder ELSE @]]
  \/ /\ ~Mutates(r.tool)
     /\ UNCHANGED store

(* The change and the save, or a refusal that leaves the file as it was:   *)
(* the engine may refuse any of them, and a reindex that does not cover.   *)
Finish(p) ==
  /\ run[p].stage = "holding"
  /\ held' = [held EXCEPT ![p] = "no"]
  /\ \/ Change(p) /\ run' = [run EXCEPT ![p] = Ended(@, TRUE)]
     \/ Refuse(p) /\ UNCHANGED store
  /\ UNCHANGED <<embedder, keySet>> /\ UNCHANGED provider

(* One step of the command a process runs, its requests apart.             *)
HostStep(p) ==
  List(p) \/ Plan(p) \/ TakeReply(p) \/ Acquire(p) \/ TimeOut(p) \/ Finish(p)

ProviderStep(p) == PostsStep(p) /\ UNCHANGED hosts

-----------------------------------------------------------------------------

(* "Clamping it and sleeping the clamp would be ... a request that spends  *)
(* quota it was just told there is none of": a provider is not asked again *)
(* within a post before the time it last asked for, nor what it will not   *)
(* answer otherwise, nor more often or for longer than a post may. A       *)
(* command's other posts hold to that time too, but for an ingest: a chunk *)
(* whose post was given up is followed by the next chunk's, at once, until *)
(* CONSECUTIVE_FAILURE_LIMIT. And no lock is held over a request or over   *)
(* the sleep between two, which would be an outage for every other writer. *)
AsksPatiently ==
  /\ ComesBackWhenAsked /\ PatienceIsBounded
  /\ \A p \in Procs :
       post[p].stage = "ask" /\ post[p].owed > 0 => run[p].tool = "ingest"
  /\ \A p \in Procs : post[p].stage \in {"ask", "wait"} => held[p] = "no"

(* Every vector came from the embedder the configuration names, except     *)
(* those of what was extracted, which the provider embeds whatever it      *)
(* names: the one way a store comes to hold vectors of two kinds.          *)
OnlyExtractionMixes ==
  \A i \in Indexed : store[i].kind = embedder \/ store[i].tool \in Extracting

Rebuilt(p) ==
  /\ run[p].stage = "holding" /\ run[p].tool = "reindex"
  /\ run'[p].stage = "ended" /\ run'[p].ok

(* Only the commands that extract may leave a vector of another embedder   *)
(* than the one configured, and a reindex that succeeds leaves the vectors *)
(* of one, whatever was written between its reading of the texts and its   *)
(* commit.                                                                 *)
VectorsOfOneKind ==
  [][/\ OnlyExtractionMixes'
     /\ \A p \in Procs : Rebuilt(p) => \A i \in Indexed : store'[i].kind = embedder]_hosts
=============================================================================
