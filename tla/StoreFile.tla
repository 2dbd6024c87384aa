------------------------------ MODULE StoreFile ------------------------------
(***************************************************************************)
(* The store file and the processes that share it: with_write, with_read,  *)
(* Lock, load and save of crates/rm-host/src/store.rs, down to the two     *)
(* files a store is (memory.json, the snapshot, and memory.vec, the rows   *)
(* of the vector index) and the door they are opened through               *)
(* (Engine::open_split, VectorIndex::open_split).                          *)
(*                                                                         *)
(* Abstracted: an engine is its vector index (the ids and, row by row, the *)
(* id each vector was embedded for), the next assertion id, and the        *)
(* requests it has absorbed. A command is one of three kinds of change to  *)
(* that ("add", "drop", "reindex") or a read.                              *)
(***************************************************************************)
EXTENDS Naturals, Sequences, FiniteSets

CONSTANTS
  Procs,       \* processes sharing the store
  MaxRequests, \* bound: commands issued in one behaviour
  MaxTries,    \* polls of a held lock that fit in LOCK_WAIT
  MaxStrikes,  \* bound: crashes and I/O failures in one behaviour
  MaxWedged,   \* bound: processes that hang for good
  Legacy,      \* may the store start as one written before the files split
  NoFile,      \* no file at that path
  Torn         \* a temporary file that was not written to its end

WriteKinds == {"add", "drop", "reindex"}
ReadKinds == {"recall"}
Kinds == WriteKinds \cup ReadKinds

Request == [num : Nat, kind : Kinds]
Rows == Seq(Nat)

(* What VectorIndex and Persisted carry, as far as save and load tell      *)
(* apart: rows[i] is the assertion the i-th vector was embedded for.       *)
Image == [ids : Rows, rows : Rows, next : Nat, done : Seq(Request)]

(* memory.json. "own" holds the vectors of a store written before they     *)
(* were moved beside the snapshot; save writes NoFile there.               *)
Snapshot == [ids : Rows, own : Rows \cup {NoFile}, next : Nat, done : Seq(Request)]

ASSUME BoundsAssumption ==
  /\ MaxRequests \in Nat /\ MaxTries \in Nat /\ MaxStrikes \in Nat /\ MaxWedged \in Nat
  /\ Legacy \in BOOLEAN
ASSUME FilesAssumption ==
  /\ NoFile \notin Snapshot /\ NoFile \notin Rows /\ NoFile \notin Request
  /\ Torn \notin Snapshot /\ Torn \notin Rows
  /\ NoFile # Torn

VARIABLES
  json, vec,     \* the two files of the store
  jtmp, vtmp,    \* the temporary file beside each of them
  excl, shared,  \* who holds the OS lock on memory.json.lock, and how
  pc,            \* where each process is in with_write or with_read
  req, tries,    \* its command, and its polls of the lock so far
  mem,           \* the engine it loaded
  outcome,       \* how its last command ended
  issued, strikes, wedged, \* counters of the bounds, and who hangs
  halfSaves,     \* history: the strikes that fell between the two renames
  log            \* history: the writes committed by a rename, in order

files == <<json, vec, jtmp, vtmp>>
lock == <<excl, shared>>
damage == <<strikes, halfSaves>>
ghosts == <<issued, damage, wedged, log>>
vars == <<files, lock, pc, req, tries, mem, outcome, ghosts>>

EmptyImage == [ids |-> <<>>, rows |-> <<>>, next |-> 0, done |-> <<>>]

(* A three-assertion store in the old shape: the snapshot holds its        *)
(* vectors, and the first save moves them out.                             *)
LegacySnapshot ==
  [ids |-> <<0, 1, 2>>, own |-> <<0, 1, 2>>, next |-> 3, done |-> <<>>]

Locked == {"read", "readvec", "run", "vtmp", "vren", "jtmp", "jren", "unlock"}
PCs == {"idle", "lock"} \cup Locked

Init ==
  /\ json \in IF Legacy THEN {NoFile, LegacySnapshot} ELSE {NoFile}
  /\ vec = NoFile /\ jtmp = NoFile /\ vtmp = NoFile
  /\ excl = {} /\ shared = {}
  /\ pc = [p \in Procs |-> "idle"]
  /\ req = [p \in Procs |-> [num |-> 0, kind |-> "recall"]]
  /\ tries = [p \in Procs |-> 0]
  /\ mem = [p \in Procs |-> EmptyImage]
  /\ outcome = [p \in Procs |-> "none"]
  /\ issued = 0 /\ wedged = {}
  /\ strikes = 0 /\ halfSaves = 0
  /\ log = <<>>

-----------------------------------------------------------------------------
(* Commands on the image.                                                  *)

(* VectorIndex::remove: the last row is swapped into the hole.             *)
SwapRemove(s, i) ==
  [k \in 1..(Len(s) - 1) |-> IF k = i THEN s[Len(s)] ELSE s[k]]

(* The orders a rebuild may leave the rows in: assertion_ids lists them    *)
(* ascending, and there is one such order.                                 *)
Ascending(s) ==
  {t \in [1..Len(s) -> {s[k] : k \in 1..Len(s)}] :
     \A i, j \in 1..Len(s) : i < j => t[i] < t[j]}

(* Mutant: the ids close the gap in order while the rows swap.             *)
ShiftRemove(s, i) == [k \in 1..(Len(s) - 1) |-> IF k < i THEN s[k] ELSE s[k + 1]]
ResultsOutOfStep(e, r) ==
  LET image(ids, rows, next) ==
        [ids |-> ids, rows |-> rows, next |-> next, done |-> Append(e.done, r)]
  IN CASE r.kind = "add" ->
            {image(Append(e.ids, e.next), Append(e.rows, e.next), e.next + 1)}
       [] r.kind = "drop" ->
            {image(ShiftRemove(e.ids, i), SwapRemove(e.rows, i), e.next) :
               i \in DOMAIN e.ids}
       [] r.kind = "reindex" ->
            {image(t, t, e.next) : t \in Ascending(e.ids)}
       [] OTHER -> {}

(* Engine::write appends a row; drop_vectors removes one; rebuild_index    *)
(* replaces the index by one built in assertion order. Empty when the      *)
(* command has nothing to work on.                                         *)
Results(e, r) ==
  LET image(ids, rows, next) ==
        [ids |-> ids, rows |-> rows, next |-> next, done |-> Append(e.done, r)]
  IN CASE r.kind = "add" ->
            {image(Append(e.ids, e.next), Append(e.rows, e.next), e.next + 1)}
       [] r.kind = "drop" ->
            {image(SwapRemove(e.ids, i), SwapRemove(e.rows, i), e.next) :
               i \in DOMAIN e.ids}
       [] r.kind = "reindex" ->
            {image(t, t, e.next) : t \in Ascending(e.ids)}
       [] OTHER -> {}

-----------------------------------------------------------------------------
(* Steps of one process. A wedged process takes none.                      *)

At(p, here) == pc[p] = here /\ p \notin wedged
Goto(p, there) == pc' = [pc EXCEPT ![p] = there]
IsWrite(p) == req[p].kind \in WriteKinds

(* The engine and the guard end with the call: with_write keeps neither.   *)
Return(p) ==
  /\ Goto(p, "idle")
  /\ excl' = excl \ {p} /\ shared' = shared \ {p}
  /\ mem' = [mem EXCEPT ![p] = EmptyImage]
  /\ tries' = [tries EXCEPT ![p] = 0]

(* An I/O error, one of the strikes: the function returns through `?`, and *)
(* the lock guard drops on the way out.                                    *)
Strike(p) ==
  /\ strikes < MaxStrikes /\ strikes' = strikes + 1
  /\ halfSaves' = IF pc[p] \in {"jtmp", "jren"} THEN halfSaves + 1 ELSE halfSaves
Fail(p) ==
  /\ Strike(p)
  /\ Goto(p, "unlock")
  /\ outcome' = [outcome EXCEPT ![p] = "err"]
  /\ UNCHANGED <<json, lock, req, tries, mem, issued, wedged, log>>

Begin(p) ==
  /\ At(p, "idle") /\ issued < MaxRequests
  /\ issued' = issued + 1
  /\ \E k \in Kinds : req' = [req EXCEPT ![p] = [num |-> issued + 1, kind |-> k]]
  /\ Goto(p, "lock")
  /\ outcome' = [outcome EXCEPT ![p] = "none"]
  /\ UNCHANGED <<files, lock, tries, mem, damage, wedged, log>>

(* Mutant: a writer does not wait for readers.                             *)
FreeOfWriters(p) == excl = {}

(* try_lock is exclusive of everyone, try_lock_shared of a writer only.    *)
Free(p) == excl = {} /\ (IsWrite(p) => shared = {})

Acquire(p) ==
  /\ At(p, "lock") /\ Free(p)
  /\ IF IsWrite(p) THEN excl' = excl \cup {p} /\ UNCHANGED shared
                   ELSE shared' = shared \cup {p} /\ UNCHANGED excl
  /\ Goto(p, "read")
  /\ UNCHANGED <<files, req, tries, mem, outcome, ghosts>>

(* WouldBlock before the deadline: sleep and poll again.                   *)
Backoff(p) ==
  /\ At(p, "lock") /\ ~Free(p) /\ tries[p] < MaxTries
  /\ tries' = [tries EXCEPT ![p] = @ + 1]
  /\ UNCHANGED <<files, lock, pc, req, mem, outcome, ghosts>>

(* Mutant: the deadline is never seen to pass.                             *)
GiveUpNever(p) ==
  /\ At(p, "lock") /\ ~Free(p) /\ tries[p] > MaxTries
  /\ Return(p)
  /\ outcome' = [outcome EXCEPT ![p] = "refused"]
  /\ UNCHANGED <<files, req, ghosts>>

(* WouldBlock past the deadline. "Nothing was written."                    *)
GiveUp(p) ==
  /\ At(p, "lock") /\ ~Free(p) /\ tries[p] = MaxTries
  /\ Return(p)
  /\ outcome' = [outcome EXCEPT ![p] = "refused"]
  /\ UNCHANGED <<files, req, ghosts>>

(* load reads the snapshot. No file there is an empty store.               *)
ReadJson(p) ==
  /\ At(p, "read")
  /\ IF json = NoFile
       THEN /\ mem' = [mem EXCEPT ![p] = EmptyImage]
            /\ Goto(p, "run")
       ELSE /\ mem' = [mem EXCEPT ![p] =
                        [ids |-> json.ids, next |-> json.next, done |-> json.done,
                         rows |-> IF json.own = NoFile THEN <<>> ELSE json.own]]
            /\ Goto(p, "readvec")
  /\ UNCHANGED <<files, lock, req, tries, outcome, ghosts>>

(* The door: with vectors beside the snapshot they must be one per id;     *)
(* without, the snapshot must hold its own.                                *)
Opens(j, v) == IF v = NoFile THEN j.own # NoFile ELSE Len(v) = Len(j.ids)

(* The vectors are then read and the pair opened. A vector file that       *)
(* cannot be read counts as none: `std::fs::read(..).ok()`.                *)
OpenSplit(p, v) ==
  /\ IF Opens(json, v)
       THEN /\ mem' = [mem EXCEPT ![p].rows = IF v = NoFile THEN @ ELSE v]
            /\ Goto(p, "run")
            /\ UNCHANGED outcome
       ELSE /\ Goto(p, "unlock")
            /\ outcome' = [outcome EXCEPT ![p] = "err"]
            /\ UNCHANGED mem
  /\ UNCHANGED <<files, lock, req, tries, issued, wedged, log>>

ReadVec(p) ==
  /\ At(p, "readvec")
  /\ \/ OpenSplit(p, vec) /\ UNCHANGED damage
     \/ OpenSplit(p, NoFile) /\ vec # NoFile /\ Strike(p)

(* Mutant: the lock spans the read but not the save.                       *)
RunUnlocking(p) ==
  /\ At(p, "run")
  /\ \E e \in Results(mem[p], req[p]) : mem' = [mem EXCEPT ![p] = e]
  /\ excl' = excl \ {p} /\ UNCHANGED shared
  /\ Goto(p, "vtmp")
  /\ UNCHANGED <<files, req, tries, outcome, ghosts>>

(* The command itself, on the loaded engine. It may refuse its input, and  *)
(* then nothing is saved.                                                  *)
Run(p) ==
  /\ At(p, "run")
  /\ \/ /\ \E e \in Results(mem[p], req[p]) : mem' = [mem EXCEPT ![p] = e]
        /\ Goto(p, "vtmp")
        /\ UNCHANGED outcome
     \/ /\ ~IsWrite(p)
        /\ Goto(p, "unlock")
        /\ outcome' = [outcome EXCEPT ![p] = "ok"]
        /\ UNCHANGED mem
     \/ /\ Goto(p, "unlock")
        /\ outcome' = [outcome EXCEPT ![p] = "err"]
        /\ UNCHANGED mem
  /\ UNCHANGED <<files, lock, req, tries, ghosts>>

(* save, first half: the vectors are written aside and renamed over.       *)
WriteVecTmp(p) ==
  /\ At(p, "vtmp")
  /\ \/ /\ vtmp' = mem[p].rows
        /\ Goto(p, "vren")
        /\ UNCHANGED <<json, lock, req, tries, mem, outcome, ghosts>>
     \/ vtmp' = Torn /\ Fail(p)
  /\ UNCHANGED <<vec, jtmp>>

RenameVec(p) ==
  /\ At(p, "vren")
  /\ \/ /\ vec' = vtmp
        /\ Goto(p, "jtmp")
        /\ UNCHANGED <<json, lock, req, tries, mem, outcome, ghosts>>
     \/ UNCHANGED vec /\ Fail(p)
  /\ vtmp' = NoFile
  /\ UNCHANGED jtmp

(* Engine::snapshot_meta: everything but the vectors.                      *)
SnapshotMeta(e) == [ids |-> e.ids, own |-> NoFile, next |-> e.next, done |-> e.done]

(* save, second half: the snapshot, whose rename is the commit.            *)
WriteJsonTmp(p) ==
  /\ At(p, "jtmp")
  /\ \/ /\ jtmp' = SnapshotMeta(mem[p])
        /\ Goto(p, "jren")
        /\ UNCHANGED <<json, lock, req, tries, mem, outcome, ghosts>>
     \/ jtmp' = Torn /\ Fail(p)
  /\ UNCHANGED <<vec, vtmp>>

(* Mutant: the rename's error is dropped.                                  *)
RenameJsonUnchecked(p) ==
  /\ At(p, "jren")
  /\ \/ json' = jtmp /\ log' = Append(log, req[p]) /\ UNCHANGED damage
     \/ Strike(p) /\ UNCHANGED <<json, log>>
  /\ Goto(p, "unlock")
  /\ outcome' = [outcome EXCEPT ![p] = "ok"]
  /\ jtmp' = NoFile
  /\ UNCHANGED <<vec, vtmp, lock, req, tries, mem, issued, wedged>>

RenameJson(p) ==
  /\ At(p, "jren")
  /\ \/ /\ json' = jtmp
        /\ log' = Append(log, req[p])
        /\ Goto(p, "unlock")
        /\ outcome' = [outcome EXCEPT ![p] = "ok"]
        /\ UNCHANGED <<lock, req, tries, mem, issued, damage, wedged>>
     \/ Fail(p)
  /\ jtmp' = NoFile
  /\ UNCHANGED <<vec, vtmp>>

(* The guard drops and the answer is returned.                             *)
Unlock(p) ==
  /\ At(p, "unlock")
  /\ Return(p)
  /\ UNCHANGED <<files, req, outcome, ghosts>>

(* The lock file cannot be opened or locked, or the snapshot cannot be     *)
(* read: an error of its own, never reported as contention.                *)
LockFails(p) ==
  /\ At(p, "lock") /\ Strike(p)
  /\ Return(p)
  /\ outcome' = [outcome EXCEPT ![p] = "err"]
  /\ UNCHANGED <<files, req, issued, wedged, log>>

ReadFails(p) == At(p, "read") /\ Fail(p) /\ UNCHANGED <<vec, jtmp, vtmp>>

(* The process is killed. The kernel closes the descriptor, which drops    *)
(* the lock; a temporary file being written may be left cut short.         *)
Crash(p) ==
  /\ pc[p] # "idle" /\ Strike(p)
  /\ Return(p)
  /\ outcome' = [outcome EXCEPT ![p] = "crashed"]
  /\ wedged' = wedged \ {p}
  /\ vtmp' \in {vtmp} \cup IF pc[p] = "vtmp" THEN {Torn} ELSE {}
  /\ jtmp' \in {jtmp} \cup IF pc[p] = "jtmp" THEN {Torn} ELSE {}
  /\ UNCHANGED <<json, vec, req, issued, log>>

(* The process hangs where it is, lock in hand if it holds one.            *)
Wedge(p) ==
  /\ pc[p] # "idle" /\ p \notin wedged /\ Cardinality(wedged) < MaxWedged
  /\ wedged' = wedged \cup {p}
  /\ UNCHANGED <<files, lock, pc, req, tries, mem, outcome, issued, damage, log>>

Step(p) ==
  \/ Acquire(p) \/ Backoff(p) \/ GiveUp(p)
  \/ ReadJson(p) \/ ReadVec(p) \/ Run(p)
  \/ WriteVecTmp(p) \/ RenameVec(p) \/ WriteJsonTmp(p) \/ RenameJson(p)
  \/ Unlock(p) \/ LockFails(p) \/ ReadFails(p)

Next ==
  \/ \E p \in Procs : Begin(p) \/ Step(p) \/ Crash(p) \/ Wedge(p)

Spec == Init /\ [][Next]_vars

(* What a command does when no file operation fails it on the way in.      *)
Advance(p) ==
  \/ Acquire(p) \/ Backoff(p) \/ GiveUp(p)
  \/ ReadJson(p) \/ ReadVec(p) \/ Run(p)
  \/ WriteVecTmp(p) \/ RenameVec(p) \/ WriteJsonTmp(p) \/ RenameJson(p)
  \/ Unlock(p)

(* A process that is scheduled runs its own command to its end; nobody     *)
(* has to issue a command, crash or hang, and no lock or file need fail.   *)
FairSpec == Spec /\ \A p \in Procs : WF_vars(Advance(p))

-----------------------------------------------------------------------------
(* Properties.                                                             *)

(* Every variable holds what its code counterpart can hold.                *)
TypeOK ==
  /\ json \in Snapshot \cup {NoFile}
  /\ vec \in Rows \cup {NoFile}
  /\ jtmp \in Snapshot \cup {NoFile, Torn}
  /\ vtmp \in Rows \cup {NoFile, Torn}
  /\ excl \in SUBSET Procs /\ shared \in SUBSET Procs
  /\ pc \in [Procs -> PCs]
  /\ req \in [Procs -> Request]
  /\ tries \in [Procs -> 0..MaxTries]
  /\ mem \in [Procs -> Image]
  /\ outcome \in [Procs -> {"none", "ok", "err", "refused", "crashed"}]
  /\ issued \in 0..MaxRequests /\ strikes \in 0..MaxStrikes /\ halfSaves \in Nat
  /\ wedged \in SUBSET Procs
  /\ log \in Seq(Request)

(* Whoever is between lock and unlock holds the lock, and no one else does *)
(* (a dead holder leaves nothing behind); a writer is alone, so a reader   *)
(* "still waits for a writer that is mid-save rather than reading whatever *)
(* the rename left behind".                                                *)
LockDiscipline ==
  /\ \A p \in Procs : p \in excl <=> pc[p] \in Locked /\ IsWrite(p)
  /\ \A p \in Procs : p \in shared <=> pc[p] \in Locked /\ ~IsWrite(p)
  /\ \A p, q \in excl : p = q
  /\ excl # {} => shared = {}

(* No committed write is ever overwritten by a save that did not read it   *)
(* (with_write: "The lock has to span the read as well as the write"): the *)
(* snapshot on disk has absorbed exactly the committed writes, in order,   *)
(* whatever crashes and failures came in between.                          *)
NoLostUpdate == (IF json \in {NoFile, Torn} THEN <<>> ELSE json.done) = log

(* What a process works on is never stale: from its load to its unlock the *)
(* engine in its hands is the committed store, plus its own change once it *)
(* made one and until that is committed.                                   *)
LoadedIsCurrent ==
  \A p \in Procs :
    /\ pc[p] \in {"readvec", "run"} => mem[p].done = log
    /\ pc[p] \in {"vtmp", "vren", "jtmp", "jren"} => mem[p].done = Append(log, req[p])
    /\ pc[p] = "unlock" /\ outcome[p] = "ok" => mem[p].done = log

Committed(r) == \E i \in DOMAIN log : log[i] = r

(* An answer tells the truth about the file: a write that answered Ok is   *)
(* in the store to stay, and one that answered with an error, or gave up   *)
(* on the lock ("Nothing was written."), is not and never will be.         *)
AnswersAreTrue ==
  \A p \in Procs : IsWrite(p) =>
    /\ outcome[p] = "ok" => Committed(req[p])
    /\ outcome[p] \in {"err", "refused"} => ~Committed(req[p])

(* The rows a snapshot would be opened with.                               *)
RowsFor(j, v) == IF v = NoFile THEN j.own ELSE v

(* The window between the two renames is the only one that can hurt the    *)
(* pair: unless a crash or an I/O error ever fell into it, a store nobody  *)
(* is saving opens, and every vector is the one its id was embedded for.   *)
PairAgrees ==
  halfSaves = 0 /\ json # NoFile /\ (\A p \in Procs : pc[p] \notin {"jtmp", "jren"})
    => RowsFor(json, vec) = json.ids

(* And so does every engine that was loaded or is about to be saved.       *)
ImageAgrees ==
  halfSaves = 0 => \A p \in Procs :
    pc[p] \in {"run", "vtmp", "vren", "jtmp", "jren"} => mem[p].rows = mem[p].ids

(* save: "An interrupted write leaves the previous snapshot intact". So a  *)
(* store nobody is writing, if it opens, opens with its own vectors.       *)
OpensWithItsOwnVectors ==
  excl = {} /\ json # NoFile /\ Opens(json, vec) => RowsFor(json, vec) = json.ids

(* LOCK_WAIT is bounded so that "one stuck process" does not become two:   *)
(* every command of a process that does not itself hang ends, even behind  *)
(* a holder that hangs for good.                                           *)
EveryCommandEnds ==
  \A p \in Procs : (pc[p] # "idle") ~> (pc[p] = "idle" \/ p \in wedged)

(* The lock and the two renames implement a store in which every command   *)
(* is one atomic step.                                                     *)
pending == [p \in Procs |-> IF pc[p] = "idle" THEN NoFile ELSE req[p]]
taken == {p \in Procs : pc[p] # "idle" /\ Committed(req[p])}
shown == [p \in Procs |-> IF pc[p] = "unlock" /\ outcome[p] = "ok" /\ ~IsWrite(p)
                            THEN {mem[p].done} ELSE {}]
answered == [p \in Procs |-> IF pc[p] = "idle" THEN outcome[p] ELSE "none"]

Serial ==
  INSTANCE SerialStore WITH
    store <- log, call <- pending, effect <- taken, view <- shown, answer <- answered,
    Nums <- 1..MaxRequests, NoCall <- NoFile
ImplementsSerialStore == Serial!SSpec
=============================================================================
