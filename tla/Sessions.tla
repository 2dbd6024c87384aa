------------------------------- MODULE Sessions -------------------------------
(***************************************************************************)
(* The table of sessions (crates/rm-mcp/src/session.rs) and the request    *)
(* threads that share it (answer in http.rs, with the handshake of         *)
(* serve.rs and version.rs). Every request has a connection, a thread and  *)
(* a Server of its own; the id in its head is all that ties it to the      *)
(* handshake its client made in an earlier one.                            *)
(*                                                                         *)
(* A thread reads the clock once, with the head, and takes the table's     *)
(* lock at each use of it, so between the two, and between two uses, other *)
(* threads run and time passes. Abstracted: the head's checks (a request   *)
(* here passed them), tools (StoreFile has what a call does to the store), *)
(* requests that carry their own version, notifications: neither touches   *)
(* the table beyond the lookup.                                            *)
(***************************************************************************)
EXTENDS Naturals, FiniteSets

CONSTANTS
  Clients,
  Threads,      \* bound: requests the server runs at once
  Versions,     \* the handshake revisions served
  Newest,
  Asked,        \* revisions a client may ask for, served or not
  Nobody,       \* the client of no handshake
  MaxSessions,
  Idle,
  HandshakesAtOnce, \* initializes one client has under way at once; of calls, any number
  MaxClock,     \* bound: ticks
  MaxMinted     \* bound: sessions minted

ASSUME SessionsAssumption ==
  /\ IsFiniteSet(Clients) /\ IsFiniteSet(Threads) /\ Nobody \notin Clients
  /\ Newest \in Versions /\ Nobody \notin Versions
  /\ MaxSessions \in Nat \ {0} /\ Idle \in Nat \ {0}
  /\ HandshakesAtOnce \in Nat /\ MaxClock \in Nat /\ MaxMinted \in Nat

NoSession == 0
Handshake == [client : Clients \cup {Nobody}, negotiated : Versions \cup {Nobody}]
NoHandshake == [client |-> Nobody, negotiated |-> Nobody]

VARIABLES
  clock,
  live,    \* the table: id to handshake and time of last use
  minted,  \* ids handed out: 1..minted
  thread,  \* what each thread is doing
  has,     \* the session a client was last given
  agreed,  \* and the handshake it was given it for
  used,    \* ghost: id to the latest request it has answered, by its clock, unless it was
           \* ended, replaced or evicted to make room, or a request was looked up after one
           \* whose head was read later
  lost     \* ghost: sessions their clients were never told of

table == <<live, minted, used>>
clients == <<has, agreed, lost>>
vars == <<clock, table, thread, clients>>

Idling == [pc |-> "idle"]

Init ==
  /\ clock = 0 /\ live = [i \in {} |-> <<>>] /\ minted = 0
  /\ thread = [t \in Threads |-> Idling]
  /\ has = [c \in Clients |-> NoSession] /\ agreed = [c \in Clients |-> NoHandshake]
  /\ used = [i \in {} |-> 0] /\ lost = {}

At(t, pc) == thread[t].pc = pc
Handshaking(t) ==
  \/ At(t, "settled") \/ At(t, "mint")
  \/ (At(t, "head") \/ At(t, "answered")) /\ thread[t].kind = "initialize"
HandshakesOf(c) == {t \in Threads : Handshaking(t) /\ thread[t].from = c}
Becomes(t, r) == thread' = [thread EXCEPT ![t] = r]
GoesTo(t, pc) == thread' = [thread EXCEPT ![t].pc = pc]
Forgets(c, id) ==
  IF has[c] = id
  THEN has' = [has EXCEPT ![c] = NoSession] /\ agreed' = [agreed EXCEPT ![c] = NoHandshake]
  ELSE UNCHANGED <<has, agreed>>

-----------------------------------------------------------------------------
(* The table.                                                              *)

Expired(entry, now) == entry.touched + Idle <= now

Without(f, S) == [x \in DOMAIN f \ S |-> f[x]]
With(f, x, v) == [y \in DOMAIN f \cup {x} |-> IF y = x THEN v ELSE f[y]]

Fresh(now) == {i \in DOMAIN live : ~Expired(live[i], now)}

(* evict: what a mint may leave. Expired sessions go; then, until there is *)
(* room for one, whichever was used longest ago.                           *)
Evicted(now) ==
  {left \in SUBSET Fresh(now) :
     /\ Cardinality(left) < MaxSessions
     /\ left = Fresh(now) \/ Cardinality(left) = MaxSessions - 1
     /\ \A k \in left, x \in Fresh(now) \ left : live[x].touched <= live[k].touched}

-----------------------------------------------------------------------------
(* A request.                                                              *)

(* A client sends a request and a thread reads its head, then the clock.   *)
(* A client that asks to end its session is done with it. Of its own       *)
(* requests a client may have several under way.                           *)
Arrive(t, c, kind, ask) ==
  /\ At(t, "idle")
  /\ kind = "initialize" => Cardinality(HandshakesOf(c)) < HandshakesAtOnce
  /\ Becomes(t, [pc |-> "head", from |-> c, kind |-> kind, ask |-> ask, session |-> has[c],
                 now |-> clock, expects |-> agreed[c]])
  /\ \/ kind # "delete" /\ UNCHANGED <<has, agreed>>
     \/ kind = "delete" /\ has[c] # NoSession /\ Forgets(c, has[c])
  /\ UNCHANGED <<clock, table, lost>>

(* DELETE: end the session, answered before there is a body.               *)
End(t) ==
  /\ At(t, "head") /\ thread[t].kind = "delete"
  /\ live' = Without(live, {thread[t].session})
  /\ used' = Without(used, {thread[t].session})
  /\ Becomes(t, Idling)
  /\ UNCHANGED <<clock, minted, clients>>

(* The body is short or no text.                                           *)
BadBody(t) ==
  /\ At(t, "head") /\ thread[t].kind # "delete"
  /\ Becomes(t, Idling)
  /\ UNCHANGED <<clock, table, clients>>

(* A version that is served comes straight back.                           *)
Negotiate(ask) == IF ask \in Versions THEN ask ELSE Newest

Answered(r, under) ==
  [pc |-> "answered", from |-> r.from, kind |-> r.kind, session |-> r.session,
   under |-> under, expects |-> r.expects]

(* handle, in a Server of the request's own: a call is answered under what *)
(* was resumed; an initialize settles a handshake, and one that is new to  *)
(* the session needs an id. Or the configuration or the store does not     *)
(* open. Nothing shared is touched, so this ends the step of the lookup.   *)
Handle(t, resumed) ==
  LET r == thread[t]
      settled == [client |-> r.from, negotiated |-> Negotiate(r.ask)]
  IN \/ r.kind = "call" /\ Becomes(t, Answered(r, resumed))
     \/ r.kind = "initialize" /\ settled = resumed /\ Becomes(t, Answered(r, resumed))
     \/ /\ r.kind = "initialize" /\ settled # resumed
        /\ Becomes(t, [pc |-> "settled", from |-> r.from, session |-> r.session,
                       now |-> r.now, under |-> settled])
     \/ Becomes(t, Idling)

(* Mutant: a lookup is no use.                                             *)
NotTouched(r) == live

Touched(r) == [live EXCEPT ![r.session].touched = r.now]

(* Mutant: a client with no such session is served as a stranger.          *)
ServeStranger(t) == Handle(t, NoHandshake)

(* 404: no such session.                                                   *)
Refuse(t) ==
  Becomes(t, [pc |-> "refused", from |-> thread[t].from, session |-> thread[t].session])

(* resume, with the clock the head was read at; a session that has expired *)
(* is dropped on the way.                                                  *)
Resume(t) ==
  LET r == thread[t]
      found == r.session \in DOMAIN live /\ ~Expired(live[r.session], r.now)
  IN /\ At(t, "head") /\ r.kind # "delete"
     /\ \/ /\ r.session = NoSession
           /\ Handle(t, NoHandshake)
           /\ UNCHANGED <<live, used>>
        \/ /\ found
           /\ live' = Touched(r)
           /\ used' = IF r.session \in DOMAIN used /\ used[r.session] <= r.now
                      THEN [used EXCEPT ![r.session] = r.now] ELSE Without(used, {r.session})
           /\ Handle(t, live[r.session].handshake)
        \/ /\ r.session # NoSession /\ ~found
           /\ live' = Without(live, {r.session})
           /\ Refuse(t)
           /\ UNCHANGED used
     /\ UNCHANGED <<clock, minted, clients>>

(* Mutant: a new handshake stands beside the old one.                      *)
EndOldNot(t) ==
  At(t, "settled") /\ GoesTo(t, "mint") /\ UNCHANGED <<clock, table, clients>>

(* A handshake on a live session replaces it.                              *)
EndOld(t) ==
  /\ At(t, "settled")
  /\ live' = Without(live, {thread[t].session})
  /\ used' = Without(used, {thread[t].session})
  /\ GoesTo(t, "mint")
  /\ UNCHANGED <<clock, minted, clients>>

(* mint_id: drawn at random, never drawn before.                           *)
NewId(r) == minted + 1

(* mint: the reply carries the new id.                                     *)
Mint(t) ==
  LET r == thread[t]
      id == NewId(r)
  IN /\ At(t, "mint") /\ minted < MaxMinted
     /\ \E left \in Evicted(r.now) :
          /\ live' = [i \in left \cup {id} |->
                        IF i = id THEN [handshake |-> r.under, touched |-> r.now] ELSE live[i]]
          /\ used' = With(Without(used, Fresh(r.now) \ left), id, r.now)
     /\ minted' = minted + 1
     /\ Becomes(t, [pc |-> "answered", from |-> r.from, kind |-> "initialize", session |-> id,
                    under |-> r.under, expects |-> NoHandshake])
     /\ UNCHANGED <<clock, clients>>

(* The reply arrives. A client told that its session is gone forgets it.   *)
Reply(t) ==
  LET r == thread[t]
      c == r.from
  IN /\ \/ /\ At(t, "answered") /\ r.kind = "initialize"
           /\ has' = [has EXCEPT ![c] = r.session]
           /\ agreed' = [agreed EXCEPT ![c] = r.under]
        \/ At(t, "answered") /\ r.kind = "call" /\ UNCHANGED <<has, agreed>>
        \/ At(t, "refused") /\ Forgets(c, r.session)
     /\ Becomes(t, Idling)
     /\ UNCHANGED <<clock, table, lost>>

(* The connection broke, or the client has gone.                           *)
ReplyLost(t) ==
  /\ At(t, "answered") \/ At(t, "refused")
  /\ lost' = IF /\ At(t, "answered") /\ thread[t].kind = "initialize"
                /\ has[thread[t].from] # thread[t].session
             THEN lost \cup {thread[t].session} ELSE lost
  /\ Becomes(t, Idling)
  /\ UNCHANGED <<clock, table, has, agreed>>

Tick ==
  /\ clock < MaxClock /\ clock' = clock + 1
  /\ UNCHANGED <<table, thread, clients>>

Next ==
  \/ \E t \in Threads :
       \/ \E c \in Clients :
            \/ \E kind \in {"call", "delete"} : Arrive(t, c, kind, Newest)
            \/ \E ask \in Asked : Arrive(t, c, "initialize", ask)
       \/ End(t) \/ BadBody(t) \/ Resume(t)
       \/ EndOld(t) \/ Mint(t) \/ Reply(t) \/ ReplyLost(t)
  \/ Tick

Spec == Init /\ [][Next]_vars

-----------------------------------------------------------------------------
(* The table "is bounded", whoever handshakes and never returns.           *)
Bounded == Cardinality(DOMAIN live) <= MaxSessions

(* A request that names a session runs under the handshake its client made *)
(* for that session, whatever was minted, replaced or evicted since: it is *)
(* never attributed to another and never answered in a revision the client *)
(* did not agree to ("rather than being quietly served as a stranger").    *)
RunsAsItself ==
  \A t \in Threads :
    At(t, "answered") /\ thread[t].kind = "call" /\ thread[t].session # NoSession =>
      thread[t].under = thread[t].expects

(* A client told that its session is gone has handshaked, and is told so   *)
(* again until it does: no id comes back, though lookups, ends and mints   *)
(* of several threads interleave.                                          *)
GoneIsGone == [][\A i \in 1..minted : i \notin DOMAIN live => i \notin DOMAIN live']_vars

(* "The timeout is idleness rather than age": a session neither ended nor  *)
(* replaced nor evicted to make room is refused only when the last request *)
(* it answered came Idle ago. Not so of a session whose requests crossed:  *)
(* "Refreshed on every lookup", touched takes the clock of the request     *)
(* looked up last, which may be older than the one it had.                 *)
UseKeepsAlive ==
  \A t \in Threads :
    At(t, "refused") /\ thread[t].session \in DOMAIN used =>
      used[thread[t].session] + Idle <= clock

(* No row "that nothing will ever read", of clients that await the answer  *)
(* to one initialize before the next: a session in the table is one its    *)
(* client holds, is being told of or is ending, unless the reply was lost. *)
NoDeadRows ==
  \A i \in DOMAIN live :
    \/ i \in lost
    \/ \E c \in Clients : has[c] = i
    \/ \E t \in Threads :
         /\ \/ At(t, "answered") /\ thread[t].kind = "initialize"
            \/ At(t, "head") /\ thread[t].kind = "delete"
         /\ thread[t].session = i
=============================================================================
