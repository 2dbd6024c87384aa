----------------------------- MODULE SerialStore -----------------------------
(***************************************************************************)
(* What rm-host promises its callers about one memory store shared by      *)
(* several processes (crates/rm-host/src/store.rs, the comments of         *)
(* with_write and with_read): every command takes effect at one moment     *)
(* between its call and its answer, a write that answers Ok has taken      *)
(* effect exactly once, a write that answers with an error or is refused   *)
(* has taken none, and a reader is shown the store as some prefix of the   *)
(* committed writes left it.                                               *)
(*                                                                         *)
(* StoreFile (lock, load, two renames) is shown to implement this module.  *)
(***************************************************************************)
EXTENDS Naturals, Sequences

CONSTANTS
  Procs,      \* processes sharing the store: rmem runs, rmem-mcp servers
  WriteKinds, \* commands run under with_write
  ReadKinds,  \* commands run under with_read
  Nums,       \* the numbers that tell requests apart
  NoCall      \* a process with nothing called

VARIABLES
  store,   \* the requests that have taken effect, in order
  call,    \* call[p]: the request p is waiting on, or NoCall
  effect,  \* effect[p]: has p's pending write taken effect
  view,    \* view[p]: what p's pending read was shown, at most one store
  answer   \* answer[p]: how p's last call ended, "none" while it is pending

svars == <<store, call, effect, view, answer>>

Kinds == WriteKinds \cup ReadKinds

SInit ==
  /\ store = <<>>
  /\ call = [p \in Procs |-> NoCall]
  /\ effect = {}
  /\ view = [p \in Procs |-> {}]
  /\ answer = [p \in Procs |-> "none"]

(* A process issues a command.                                             *)
Call(p) ==
  /\ call[p] = NoCall
  /\ \E n \in Nums, k \in Kinds : call' = [call EXCEPT ![p] = [num |-> n, kind |-> k]]
  /\ answer' = [answer EXCEPT ![p] = "none"]
  /\ UNCHANGED <<store, effect, view>>

(* A write takes effect: once, on top of everything already committed.     *)
TakeEffect(p) ==
  /\ call[p] # NoCall
  /\ call[p].kind \in WriteKinds
  /\ p \notin effect
  /\ store' = Append(store, call[p])
  /\ effect' = effect \cup {p}
  /\ UNCHANGED <<call, view, answer>>

(* A read is shown exactly the committed store.                            *)
Observe(p) ==
  /\ call[p] # NoCall
  /\ call[p].kind \in ReadKinds
  /\ view' = [view EXCEPT ![p] = {store}]
  /\ UNCHANGED <<store, call, effect, answer>>

Answer(p, a) ==
  /\ call[p] # NoCall
  /\ call' = [call EXCEPT ![p] = NoCall]
  /\ answer' = [answer EXCEPT ![p] = a]
  /\ effect' = effect \ {p}
  /\ view' = [view EXCEPT ![p] = {}]
  /\ UNCHANGED store

(* Ok: a write only once it took effect, a read only once it was shown     *)
(* the store.                                                              *)
AnswerOk(p) ==
  /\ Answer(p, "ok")
  /\ IF call[p].kind \in WriteKinds THEN p \in effect ELSE view[p] # {}

(* An error, or a refusal of the lock: nothing was written.                *)
AnswerErr(p) ==
  /\ \E a \in {"err", "refused"} : Answer(p, a)
  /\ p \notin effect

(* The process dies: it answers nothing, whether or not it took effect.    *)
Die(p) == Answer(p, "crashed")

SNext ==
  \E p \in Procs : \/ Call(p) \/ TakeEffect(p) \/ Observe(p)
                   \/ AnswerOk(p) \/ AnswerErr(p) \/ Die(p)

SSpec == SInit /\ [][SNext]_svars
=============================================================================
