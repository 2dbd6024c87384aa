------------------------------- MODULE Provider -------------------------------
(***************************************************************************)
(* A process's provider (crates/rm-providers/src/lib.rs): one POST at a    *)
(* time, repeated while its failure might not repeat. Each process builds  *)
(* a provider for the command it runs, with no agent yet. The first        *)
(* request builds it, if the certificate bundle can be read just then, and *)
(* it is kept until the command's posts are done.                          *)
(*                                                                         *)
(* Time is what the process has slept since the post began, so a reply     *)
(* that names a time to come back can be held to it; what is left of that  *)
(* wait when a post is given up is owed by the command's next. Abstracted: *)
(* bodies, to whether the parser of wire.rs finds in them what was asked   *)
(* for (an error body, an empty one and one that is not JSON are all the   *)
(* post's failure, whatever the status); the wording and redaction of      *)
(* errors; the proxy, which a process cannot see change.                   *)
(***************************************************************************)
EXTENDS Naturals

CONSTANTS
  Procs,
  Attempts,   \* Retry.attempts
  BaseDelay,
  MaxDelay,
  Hints       \* bound: the waits a provider asks for

ASSUME ProviderAssumption ==
  /\ Attempts \in Nat /\ BaseDelay \in Nat /\ MaxDelay \in Nat /\ Hints \subseteq Nat
  /\ BaseDelay <= MaxDelay

AtLeast(a, b) == IF a >= b THEN a ELSE b
AtMost(a, b) == IF a <= b THEN a ELSE b

(* What a request comes to: an answer, a status (429, a 5xx, any other), a *)
(* connection dropped or never made, or a host that is not there.          *)
Answers == [is : {"ok"}, after : {{}}, useful : BOOLEAN]
Statuses == [is : {"limited", "failing", "refusing"}, after : {{}} \cup {{h} : h \in Hints}, useful : {FALSE}]
Failures == [is : {"dropped", "unreachable"}, after : {{}}, useful : {FALSE}]
Replies == Answers \cup Statuses \cup Failures

WorthRepeating(r) == r.is \in {"limited", "failing", "dropped"}

VARIABLES
  agent,  \* whether the process's provider has its agent
  post    \* the post each process has under way

provider == <<agent, post>>

NoPost == [stage |-> "none"]
Settled(useful, owed) == [stage |-> IF useful THEN "useful" ELSE "failed", owed |-> owed]
Posts ==
  [stage : {"ask", "wait"}, tried : Nat, delay : Nat, asked : SUBSET Nat,
   slept : Nat, left : Nat, owed : Nat, spent : BOOLEAN]

ProviderInit ==
  /\ agent = [p \in Procs |-> FALSE] /\ post = [p \in Procs |-> NoPost]

(* Ghosts: "left" is what is left of the wait this post was last asked     *)
(* for, "owed" what is left of the waits the command's earlier posts were, *)
(* and "spent" whether a post went on from a reply that will be the same   *)
(* again.                                                                  *)
FreshPost(owed) ==
  [stage |-> "ask", tried |-> 0, delay |-> BaseDelay, asked |-> {}, slept |-> 0,
   left |-> 0, owed |-> owed, spent |-> FALSE]

Less(wait, time) == IF time >= wait THEN 0 ELSE wait - time
Unslept(q) == AtLeast(q.left, q.owed)

Final(r) == r.is \in {"ok", "refusing", "unreachable"}

(* A reply that is not worth repeating, comes last or asks for longer than *)
(* the ceiling is the post's answer; any other is slept on.                *)
TooLong(r) == \E h \in r.after : h > MaxDelay

AfterReply(q, r) ==
  LET told == [q EXCEPT !.tried = @ + 1,
                        !.left = IF r.after = {} THEN @ ELSE CHOOSE h \in r.after : TRUE,
                        !.spent = @ \/ Final(r)]
  IN IF told.tried < Attempts /\ WorthRepeating(r) /\ ~TooLong(r)
     THEN [told EXCEPT !.stage = "wait", !.asked = r.after]
     ELSE Settled(r.useful, Unslept(told))

(* An agent that cannot be built, its bundle unreadable or its proxy not   *)
(* one, fails the post where it stands: it is not repeated, and not kept.  *)
CannotBuild(p) ==
  /\ ~agent[p]
  /\ post' = [post EXCEPT ![p] = Settled(FALSE, Unslept(@))]
  /\ UNCHANGED agent

Send(p) ==
  /\ agent' = [agent EXCEPT ![p] = TRUE]
  /\ \E r \in Replies : post' = [post EXCEPT ![p] = AfterReply(@, r)]

Ask(p) == post[p].stage = "ask" /\ (CannotBuild(p) \/ Send(p))

After(q, wait) ==
  [q EXCEPT !.stage = "ask", !.asked = {}, !.slept = @ + wait, !.left = Less(@, wait),
            !.owed = Less(@, wait), !.delay = AtMost(2 * q.delay, MaxDelay)]

(* Mutant: the schedule knows better than the provider.                    *)
SleptTheDelay(q) == After(q, q.delay)

Slept(q) == After(q, IF q.asked = {} THEN q.delay ELSE CHOOSE h \in q.asked : TRUE)

Sleep(p) ==
  /\ post[p].stage = "wait"
  /\ post' = [post EXCEPT ![p] = Slept(@)]
  /\ UNCHANGED agent

PostsStep(p) == Ask(p) \/ Sleep(p)

-----------------------------------------------------------------------------
(* A post makes no request before the time its own replies last asked for: *)
(* the wait is waited in full, or the post is given up. And it makes none  *)
(* after a reply that will be the same again.                              *)
ComesBackWhenAsked ==
  /\ \A p \in Procs : post[p].stage = "ask" => post[p].left = 0
  /\ \A p \in Procs : post[p].stage \in {"ask", "wait"} => ~post[p].spent

(* A post ends: it has made fewer requests than it may while it goes on,   *)
(* and what it has slept is within the ceiling for each of them.           *)
PatienceIsBounded ==
  \A p \in Procs :
    post[p].stage \in {"ask", "wait"} =>
      post[p].tried < AtLeast(Attempts, 1) /\ post[p].slept <= post[p].tried * MaxDelay
=============================================================================
