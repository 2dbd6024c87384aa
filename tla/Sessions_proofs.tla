---------------------------- MODULE Sessions_proofs ----------------------------
(***************************************************************************)
(* Theorems about Sessions, for any clients, threads, versions, limits and *)
(* number of requests under way: the table is bounded, a call runs under   *)
(* the handshake its client made for the session, an id that is gone stays *)
(* gone, and no session in use is refused unless its requests crossed.     *)
(* They rest on one fact about every step: a session the table still has   *)
(* is one it had, under the same handshake; the last also on the times of  *)
(* use. For clients that make one handshake at a time, the table keeps no  *)
(* row nobody needs: this rests on what a client has while it handshakes.  *)
(***************************************************************************)
EXTENDS Sessions, FiniteSetTheorems, TLAPS

Entry == [handshake : Handshake, touched : Nat]

(* What a thread may be doing, when n sessions have been minted.           *)
Doing(n) ==
  {Idling}
  \cup [pc : {"head"}, from : Clients, kind : {"call", "delete", "initialize"},
        ask : Asked \cup {Newest}, session : 0..n, now : Nat, expects : Handshake]
  \cup [pc : {"answered"}, from : Clients, kind : {"call", "initialize"},
        session : 0..n, under : Handshake, expects : Handshake]
  \cup [pc : {"settled", "mint"}, from : Clients, session : 0..n, now : Nat,
        under : Handshake]
  \cup [pc : {"refused"}, from : Clients, session : 0..n]

TypeOK ==
  /\ clock \in Nat /\ minted \in Nat
  /\ live \in [DOMAIN live -> Entry] /\ DOMAIN live \subseteq 1..minted
  /\ thread \in [Threads -> Doing(minted)]
  /\ has \in [Clients -> 0..minted] /\ agreed \in [Clients -> Handshake]

(* Whoever has the id of a session in the table has its handshake.         *)
ClientBound(c) == has[c] \in DOMAIN live => agreed[c] = live[has[c]].handshake
Fits(r, l) ==
  /\ r.pc = "head" /\ r.session \in DOMAIN l => r.expects = l[r.session].handshake
  /\ r.pc = "answered" /\ r.kind = "initialize" /\ r.session \in DOMAIN l =>
       r.under = l[r.session].handshake
  /\ r.pc = "answered" /\ r.kind = "call" /\ r.session # NoSession => r.under = r.expects
Bound ==
  /\ \A c \in Clients : ClientBound(c)
  /\ \A t \in Threads : Fits(thread[t], live)

SInv == TypeOK /\ Bound

(* What every step does to the table.                                      *)
Keeps ==
  /\ minted \in Nat /\ minted' \in Nat /\ minted <= minted'
  /\ \A i \in DOMAIN live' : i \in 0..minted =>
       i \in DOMAIN live /\ live'[i].handshake = live[i].handshake

(* Doing grows with the sessions minted.                                   *)
LEMMA DoingGrows ==
  ASSUME NEW m \in Nat, NEW n \in Nat, m <= n
  PROVE  Doing(m) \subseteq Doing(n)
<1>1. 0..m \subseteq 0..n OBVIOUS
<1>2. SUFFICES ASSUME NEW r \in Doing(m) PROVE r \in Doing(n)
  OBVIOUS
<1>3. QED BY <1>1 DEF Doing, Idling

(* What a thread carries at each place.                                    *)
LEMMA Carries ==
  ASSUME TypeOK, NEW t \in Threads
  PROVE  /\ At(t, "head") =>
              /\ thread[t].from \in Clients /\ thread[t].session \in 0..minted
              /\ thread[t].kind \in {"call", "delete", "initialize"}
              /\ thread[t].ask \in Asked \cup {Newest}
              /\ thread[t].now \in Nat /\ thread[t].expects \in Handshake
         /\ At(t, "answered") =>
              /\ thread[t].from \in Clients /\ thread[t].session \in 0..minted
              /\ thread[t].kind \in {"call", "initialize"}
              /\ thread[t].under \in Handshake /\ thread[t].expects \in Handshake
         /\ At(t, "settled") \/ At(t, "mint") =>
              /\ thread[t].from \in Clients /\ thread[t].session \in 0..minted
              /\ thread[t].now \in Nat /\ thread[t].under \in Handshake
              /\ thread[t] \in [pc : {"settled", "mint"}, from : Clients,
                                 session : 0..minted, now : Nat, under : Handshake]
         /\ At(t, "refused") =>
              thread[t].from \in Clients /\ thread[t].session \in 0..minted
<1>1. thread[t] \in Doing(minted) BY DEF TypeOK
<1>2. QED BY <1>1 DEF Doing, Idling, At

(* A thread that becomes r, and nothing else of the types changes.         *)
LEMMA BecomesTyped ==
  ASSUME TypeOK, NEW t \in Threads, NEW r \in Doing(minted'), Becomes(t, r),
         minted' \in Nat, minted <= minted'
  PROVE  /\ thread' \in [Threads -> Doing(minted')]
         /\ thread'[t] = r
         /\ \A u \in Threads : u # t => thread'[u] = thread[u]
<1>1. Doing(minted) \subseteq Doing(minted')
  BY DoingGrows DEF TypeOK
<1>2. QED BY <1>1 DEF TypeOK, Becomes

(* Keeping handshakes keeps every binding that nobody rewrites.            *)
LEMMA OthersBound ==
  ASSUME SInv, Keeps, NEW t \in Threads, NEW r, thread'[t] = r, Fits(r, live'),
         \A u \in Threads : u # t => thread'[u] = thread[u],
         \A c \in Clients : (has'[c] = has[c] /\ agreed'[c] = agreed[c]) \/ ClientBound(c)'
  PROVE  Bound'
<1>1. ASSUME NEW c \in Clients PROVE ClientBound(c)'
  <2>1. CASE ClientBound(c)'
    BY <2>1
  <2>2. CASE has'[c] = has[c] /\ agreed'[c] = agreed[c]
    <3>1. has[c] \in 0..minted /\ ClientBound(c)
      BY DEF SInv, TypeOK, Bound
    <3>2. QED BY <2>2, <3>1 DEF ClientBound, Keeps
  <2>3. QED BY <2>1, <2>2
<1>2. ASSUME NEW u \in Threads PROVE Fits(thread'[u], live')
  <2>1. CASE u = t
    BY <2>1 DEF Fits
  <2>2. CASE u # t
    <3>1. Fits(thread[u], live) /\ thread'[u] = thread[u]
      BY <2>2 DEF SInv, Bound
    <3>2. At(u, "head") \/ At(u, "answered") => thread[u].session \in 0..minted
      BY Carries DEF SInv
    <3>3. QED BY <3>1, <3>2 DEF Fits, Keeps, At
  <2>3. QED BY <2>1, <2>2
<1>3. QED BY <1>1, <1>2 DEF Bound

(* A step that leaves the table alone keeps everything.                    *)
LEMMA SameTable ==
  ASSUME TypeOK, UNCHANGED <<live, minted>>
  PROVE  Keeps
BY DEF TypeOK, Keeps

(* So does one that only takes sessions out of it.                         *)
LEMMA WithoutKeeps ==
  ASSUME TypeOK, NEW S, live' = Without(live, S), UNCHANGED minted
  PROVE  /\ Keeps
         /\ live' \in [DOMAIN live' -> Entry] /\ DOMAIN live' \subseteq DOMAIN live
<1>1. DOMAIN live' = DOMAIN live \ S /\ \A i \in DOMAIN live' : live'[i] = live[i]
  BY DEF Without
<1>2. live' = [i \in DOMAIN live' |-> live'[i]]
  BY DEF Without
<1>3. QED BY <1>1, <1>2 DEF TypeOK, Keeps

(* A step of one thread: the invariant holds if it does of that thread and *)
(* of the clients the step has something to say to.                        *)
LEMMA ThreadStep ==
  ASSUME SInv, Keeps, NEW t \in Threads, NEW r \in Doing(minted'), Becomes(t, r),
         clock' = clock,
         live' \in [DOMAIN live' -> Entry], DOMAIN live' \subseteq 1..minted',
         has' \in [Clients -> 0..minted'], agreed' \in [Clients -> Handshake],
         Fits(r, live'),
         \A c \in Clients : (has'[c] = has[c] /\ agreed'[c] = agreed[c]) \/ ClientBound(c)'
  PROVE  SInv'
<1>1. TypeOK BY DEF SInv
<1>2. minted' \in Nat /\ minted <= minted' BY DEF Keeps
<1>3. /\ thread' \in [Threads -> Doing(minted')] /\ thread'[t] = r
      /\ \A u \in Threads : u # t => thread'[u] = thread[u]
  BY <1>1, <1>2, BecomesTyped
<1>4. Bound' BY <1>3, OthersBound
<1>5. TypeOK' BY <1>1, <1>2, <1>3 DEF TypeOK
<1>6. QED BY <1>4, <1>5 DEF SInv

(* What a mint may leave is of the table, and has room for one more.       *)
LEMMA EvictedLeaves ==
  ASSUME NEW now, NEW left \in Evicted(now)
  PROVE  left \subseteq DOMAIN live /\ Cardinality(left) < MaxSessions
BY DEF Evicted, Fresh

(* What any step does to the table: handshakes are kept, and what is new   *)
(* is one session that was never there, for which there was room.          *)
TableStep ==
  /\ Keeps
  /\ live' \in [DOMAIN live' -> Entry] /\ DOMAIN live' \subseteq 1..minted'
  /\ \/ DOMAIN live' \subseteq DOMAIN live
     \/ \E left \in SUBSET DOMAIN live :
          Cardinality(left) < MaxSessions /\ DOMAIN live' = left \cup {minted + 1}

LEMMA Taken ==
  ASSUME TypeOK, NEW S, live' = Without(live, S), UNCHANGED minted
  PROVE  TableStep
BY WithoutKeeps DEF TypeOK, TableStep

LEMMA Same ==
  ASSUME TypeOK, UNCHANGED <<live, minted>>
  PROVE  TableStep
BY SameTable DEF TypeOK, TableStep

LEMMA TableSteps ==
  ASSUME TypeOK, [Next]_vars
  PROVE  TableStep
<1>1. ASSUME NEW t \in Threads, Resume(t) PROVE TableStep
  <2> DEFINE r == thread[t]
  <2>1. CASE UNCHANGED live
    BY <1>1, <2>1, Same DEF Resume
  <2>2. CASE r.session \in DOMAIN live /\ live' = Touched(r)
    <3>1. r.now \in Nat /\ minted' = minted
      BY <1>1, Carries DEF Resume
    <3>2. /\ DOMAIN live' = DOMAIN live
          /\ \A i \in DOMAIN live : live'[i].handshake = live[i].handshake
      BY <2>2 DEF Touched, TypeOK, Entry
    <3>3. live' \in [DOMAIN live -> Entry]
      BY <2>2, <3>1 DEF Touched, TypeOK, Entry
    <3>4. QED BY <3>1, <3>2, <3>3 DEF TableStep, Keeps, TypeOK
  <2>3. CASE live' = Without(live, {r.session})
    BY <1>1, <2>3, Taken DEF Resume
  <2>4. QED BY <1>1, <2>1, <2>2, <2>3 DEF Resume
<1>2. ASSUME NEW t \in Threads, Mint(t) PROVE TableStep
  <2> DEFINE r == thread[t]
             id == minted + 1
  <2>1. PICK left \in Evicted(r.now) :
          live' = [i \in left \cup {id} |->
                     IF i = id THEN [handshake |-> r.under, touched |-> r.now] ELSE live[i]]
    BY <1>2 DEF Mint, NewId
  <2>2. left \subseteq DOMAIN live /\ Cardinality(left) < MaxSessions
    BY EvictedLeaves
  <2>3. minted' = id /\ r.now \in Nat /\ r.under \in Handshake
    BY <1>2, Carries DEF Mint
  <2>4. minted \in Nat /\ DOMAIN live \subseteq 1..minted /\ live \in [DOMAIN live -> Entry]
    BY DEF TypeOK
  <2>5. DOMAIN live' = left \cup {id} BY <2>1
  <2>6. live' \in [left \cup {id} -> Entry]
    BY <2>1, <2>2, <2>3, <2>4 DEF Entry
  <2>7. Keeps
    BY <2>1, <2>2, <2>3, <2>4 DEF Keeps
  <2>8. QED BY <2>2, <2>3, <2>4, <2>5, <2>6, <2>7 DEF TableStep
<1>3. ASSUME NEW t \in Threads, End(t) PROVE TableStep
  BY <1>3, Taken DEF End
<1>4. ASSUME NEW t \in Threads, EndOld(t) PROVE TableStep
  BY <1>4, Taken DEF EndOld
<1>5. CASE UNCHANGED table
  BY <1>5, Same DEF table
<1>6. CASE UNCHANGED vars
  BY <1>6, Same DEF vars, table
<1>7. QED
  BY <1>1, <1>2, <1>3, <1>4, <1>5, <1>6 DEF Next, Arrive, BadBody, Reply, ReplyLost, Tick

-----------------------------------------------------------------------------
(* The invariant.                                                          *)

LEMMA InitInv == Init => SInv
BY SessionsAssumption DEF Init, SInv, TypeOK, Bound, ClientBound, Fits, Doing, Idling, Entry,
   NoSession, NoHandshake, Handshake

(* What a request does between its lookup and its next use of the table.   *)
LEMMA HandleFits ==
  ASSUME TypeOK, NEW t \in Threads, At(t, "head"), thread[t].kind # "delete",
         NEW resumed \in Handshake, Handle(t, resumed), UNCHANGED minted,
         thread[t].session # NoSession => thread[t].expects = resumed,
         thread[t].session \in DOMAIN live' => live'[thread[t].session].handshake = resumed
  PROVE  \E r \in Doing(minted') : Becomes(t, r) /\ Fits(r, live')
<1> DEFINE q == thread[t]
           settled == [client |-> q.from, negotiated |-> Negotiate(q.ask)]
<1>1. /\ q.from \in Clients /\ q.session \in 0..minted /\ q.now \in Nat
      /\ q.kind \in {"call", "initialize"} /\ q.expects \in Handshake
  BY Carries
<1>2. settled \in Handshake
  BY <1>1, SessionsAssumption DEF Handshake, Negotiate
<1>3. CASE Becomes(t, Answered(q, resumed))
  <2>1. Answered(q, resumed) \in Doing(minted')
    BY <1>1 DEF Answered, Doing
  <2>2. Fits(Answered(q, resumed), live')
    BY DEF Fits, Answered
  <2>3. QED BY <1>3, <2>1, <2>2
<1>4. CASE Becomes(t, [pc |-> "settled", from |-> q.from, session |-> q.session,
                       now |-> q.now, under |-> settled])
  <2> DEFINE r == [pc |-> "settled", from |-> q.from, session |-> q.session,
                   now |-> q.now, under |-> settled]
  <2>1. r \in Doing(minted')
    BY <1>1, <1>2 DEF Doing
  <2>2. Fits(r, live')
    BY DEF Fits
  <2>3. QED BY <1>4, <2>1, <2>2
<1>5. CASE Becomes(t, Idling)
  <2>1. Idling \in Doing(minted') /\ Fits(Idling, live')
    BY DEF Doing, Fits, Idling
  <2>2. QED BY <1>5, <2>1
<1>6. QED BY <1>3, <1>4, <1>5 DEF Handle

LEMMA NextInv ==
  ASSUME SInv, [Next]_vars
  PROVE  SInv'
<1> USE DEF NoSession
<1>1. TypeOK /\ Bound BY DEF SInv
<1>2. TableStep BY <1>1, TableSteps
<1>3. /\ Keeps /\ minted' \in Nat /\ minted <= minted'
      /\ live' \in [DOMAIN live' -> Entry] /\ DOMAIN live' \subseteq 1..minted'
      /\ 0 \notin DOMAIN live /\ 0 \notin DOMAIN live'
  BY <1>1, <1>2 DEF TableStep, Keeps, TypeOK
<1>4. Idling \in Doing(minted') /\ Fits(Idling, live')
  BY DEF Doing, Fits, Idling
<1>5. /\ has \in [Clients -> 0..minted'] /\ agreed \in [Clients -> Handshake]
      /\ 0 \in 0..minted'
  BY <1>1, <1>3 DEF TypeOK
<1>6. NoHandshake \in Handshake
  BY DEF NoHandshake, Handshake
<1>7. ASSUME NEW t \in Threads, NEW c \in Clients, NEW ask \in Asked \cup {Newest},
             NEW kind \in {"call", "delete", "initialize"}, Arrive(t, c, kind, ask)
      PROVE  SInv'
  <2> DEFINE r == [pc |-> "head", from |-> c, kind |-> kind, ask |-> ask, session |-> has[c],
                   now |-> clock, expects |-> agreed[c]]
  <2>1. Becomes(t, r) /\ UNCHANGED <<clock, live, minted>>
    BY <1>7 DEF Arrive, table
  <2>2. r \in Doing(minted')
    BY <1>1, <2>1 DEF TypeOK, Doing
  <2>3. Fits(r, live')
    BY <1>1, <2>1 DEF Fits, Bound, ClientBound
  <2>4. CASE UNCHANGED <<has, agreed>>
    BY <1>3, <1>5, <2>1, <2>2, <2>3, <2>4, ThreadStep
  <2>5. CASE Forgets(c, has[c])
    <3>1. /\ has' = [has EXCEPT ![c] = 0]
          /\ agreed' = [agreed EXCEPT ![c] = NoHandshake]
      BY <2>5 DEF Forgets
    <3>2. has' \in [Clients -> 0..minted'] /\ agreed' \in [Clients -> Handshake]
      BY <1>5, <1>6, <3>1
    <3>3. ASSUME NEW d \in Clients
          PROVE  (has'[d] = has[d] /\ agreed'[d] = agreed[d]) \/ ClientBound(d)'
      BY <1>3, <1>5, <3>1 DEF ClientBound
    <3>4. QED BY <1>3, <2>1, <2>2, <2>3, <3>2, <3>3, ThreadStep
  <2>6. QED BY <1>7, <2>4, <2>5 DEF Arrive
<1>8. ASSUME NEW t \in Threads, Becomes(t, Idling), UNCHANGED <<clock, has, agreed>>
      PROVE  SInv'
  BY <1>3, <1>4, <1>5, <1>8, ThreadStep
<1>9. ASSUME NEW t \in Threads, Resume(t) PROVE SInv'
  <2> DEFINE q == thread[t]
  <2>1. At(t, "head") /\ q.kind # "delete" /\ minted' = minted /\ UNCHANGED <<clock, has, agreed>>
    BY <1>9 DEF Resume, clients
  <2>2. q.from \in Clients /\ q.session \in 0..minted /\ Fits(q, live)
    BY <1>1, <2>1, Carries DEF Bound
  <2>3. SUFFICES \E r \in Doing(minted') : Becomes(t, r) /\ Fits(r, live')
    BY <1>3, <1>5, <2>1, ThreadStep
  <2>4. CASE q.session = 0 /\ Handle(t, NoHandshake)
    BY <1>1, <1>3, <1>6, <2>1, <2>4, HandleFits
  <2>5. CASE q.session \in DOMAIN live /\ Handle(t, live[q.session].handshake)
    <3>1. live[q.session].handshake \in Handshake /\ q.expects = live[q.session].handshake
      BY <1>1, <2>1, <2>2, <2>5 DEF TypeOK, Entry, Fits, At
    <3>2. q.session \in DOMAIN live' => live'[q.session].handshake = live[q.session].handshake
      BY <1>3, <2>2 DEF Keeps
    <3>3. QED BY <1>1, <2>1, <2>5, <3>1, <3>2, HandleFits
  <2>6. CASE Refuse(t)
    <3> DEFINE r == [pc |-> "refused", from |-> q.from, session |-> q.session]
    <3>1. Becomes(t, r) BY <2>6 DEF Refuse
    <3>2. r \in Doing(minted') BY <2>1, <2>2 DEF Doing
    <3>3. Fits(r, live') BY DEF Fits
    <3>4. QED BY <3>1, <3>2, <3>3
  <2>7. QED BY <1>9, <2>4, <2>5, <2>6 DEF Resume
<1>10. ASSUME NEW t \in Threads, EndOld(t) PROVE SInv'
  <2> DEFINE r == [thread[t] EXCEPT !.pc = "mint"]
  <2>1. UNCHANGED <<clock, minted, has, agreed>> /\ At(t, "settled")
    BY <1>10 DEF EndOld, clients
  <2>2. Becomes(t, r)
    BY <1>10 DEF EndOld, GoesTo, Becomes
  <2>3. r \in Doing(minted') /\ r.pc = "mint"
    <3>1. thread[t] \in [pc : {"settled", "mint"}, from : Clients, session : 0..minted,
                         now : Nat, under : Handshake]
      BY <1>1, <2>1, Carries
    <3>2. r \in [pc : {"settled", "mint"}, from : Clients, session : 0..minted,
                 now : Nat, under : Handshake] /\ r.pc = "mint"
      BY <3>1
    <3>3. QED BY <2>1, <3>2 DEF Doing
  <2>4. Fits(r, live') BY <2>3 DEF Fits
  <2>5. QED BY <1>3, <1>5, <2>1, <2>2, <2>3, <2>4, ThreadStep
<1>11. ASSUME NEW t \in Threads, Mint(t) PROVE SInv'
  <2> DEFINE q == thread[t]
             id == minted + 1
             r == [pc |-> "answered", from |-> q.from, kind |-> "initialize", session |-> id,
                   under |-> q.under, expects |-> NoHandshake]
  <2>1. UNCHANGED <<clock, has, agreed>> /\ minted' = id /\ Becomes(t, r)
    BY <1>11 DEF Mint, NewId, clients
  <2>2. q.from \in Clients /\ q.under \in Handshake
    BY <1>1, <1>11, Carries DEF Mint
  <2>3. r \in Doing(minted')
    BY <1>1, <1>6, <2>1, <2>2 DEF Doing, TypeOK
  <2>4. live'[id].handshake = q.under
    BY <1>11 DEF Mint, NewId
  <2>5. Fits(r, live') BY <2>4 DEF Fits
  <2>6. QED BY <1>3, <1>5, <2>1, <2>3, <2>5, ThreadStep
<1>12. ASSUME NEW t \in Threads, Reply(t) PROVE SInv'
  <2> DEFINE q == thread[t]
  <2>1. UNCHANGED <<clock, live, minted>> /\ Becomes(t, Idling)
    BY <1>12 DEF Reply, table
  <2>2. CASE UNCHANGED <<has, agreed>>
    BY <1>8, <2>1, <2>2
  <2>3. CASE /\ At(t, "answered") /\ q.kind = "initialize"
             /\ has' = [has EXCEPT ![q.from] = q.session]
             /\ agreed' = [agreed EXCEPT ![q.from] = q.under]
    <3>1. q.from \in Clients /\ q.session \in 0..minted /\ q.under \in Handshake /\ Fits(q, live)
      BY <1>1, <2>3, Carries DEF Bound
    <3>2. has' \in [Clients -> 0..minted'] /\ agreed' \in [Clients -> Handshake]
      BY <1>3, <1>5, <2>1, <2>3, <3>1
    <3>3. ASSUME NEW d \in Clients
          PROVE  (has'[d] = has[d] /\ agreed'[d] = agreed[d]) \/ ClientBound(d)'
      BY <1>5, <2>1, <2>3, <3>1 DEF ClientBound, Fits, At
    <3>4. QED BY <1>3, <1>4, <2>1, <3>2, <3>3, ThreadStep
  <2>4. CASE At(t, "refused") /\ has[q.from] = q.session /\ Forgets(q.from, q.session)
    <3>1. q.from \in Clients
      BY <1>1, <2>4, Carries
    <3>2. /\ has' = [has EXCEPT ![q.from] = 0]
          /\ agreed' = [agreed EXCEPT ![q.from] = NoHandshake]
      BY <2>4 DEF Forgets
    <3>3. has' \in [Clients -> 0..minted'] /\ agreed' \in [Clients -> Handshake]
      BY <1>5, <1>6, <3>1, <3>2
    <3>4. ASSUME NEW d \in Clients
          PROVE  (has'[d] = has[d] /\ agreed'[d] = agreed[d]) \/ ClientBound(d)'
      BY <1>3, <1>5, <3>1, <3>2 DEF ClientBound
    <3>5. QED BY <1>3, <1>4, <2>1, <3>3, <3>4, ThreadStep
  <2>5. QED BY <1>12, <2>2, <2>3, <2>4 DEF Reply, Forgets
<1>13. CASE Tick \/ UNCHANGED vars
  <2>1. UNCHANGED <<live, minted, thread, has, agreed>> /\ clock' \in Nat
    BY <1>1, <1>13 DEF Tick, vars, table, clients, TypeOK
  <2>2. QED BY <1>1, <2>1 DEF SInv, TypeOK, Bound, ClientBound, Fits
<1>14. QED
  BY <1>7, <1>8, <1>9, <1>10, <1>11, <1>12, <1>13
     DEF Next, End, BadBody, ReplyLost, table, clients

THEOREM SessionsInv == Spec => []SInv
<1>1. Init => SInv BY InitInv
<1>2. SInv /\ [Next]_vars => SInv' BY NextInv
<1>3. QED BY <1>1, <1>2, PTL DEF Spec

-----------------------------------------------------------------------------
(* The table is bounded, whatever clients ask, drop or never come back for:*)
(* a mint makes room before it takes a place (evict in session.rs).        *)
THEOREM TableBounded == Spec => []Bounded
<1>1. Init => Bounded
  <2>1. ASSUME Init PROVE DOMAIN live = {}
    BY <2>1 DEF Init
  <2>2. QED BY <2>1, FS_EmptySet, SessionsAssumption DEF Bounded
<1>2. SInv /\ Bounded /\ [Next]_vars => Bounded'
  <2>1. SUFFICES ASSUME SInv, Bounded, [Next]_vars PROVE Bounded'
    OBVIOUS
  <2>2. TypeOK /\ TableStep
    BY <2>1, TableSteps DEF SInv
  <2>3. IsFiniteSet(DOMAIN live) /\ Cardinality(DOMAIN live) \in Nat
    <3>1. IsFiniteSet(1..minted)
      <4>1. 1 \in Int /\ minted \in Int BY <2>2 DEF TypeOK
      <4>2. QED BY <4>1, FS_Interval
    <3>2. IsFiniteSet(DOMAIN live)
      BY <2>2, <3>1, FS_Subset DEF TypeOK
    <3>3. QED BY <3>2, FS_CardinalityType
  <2>4. CASE DOMAIN live' \subseteq DOMAIN live
    <3>1. Cardinality(DOMAIN live') <= Cardinality(DOMAIN live) /\ Cardinality(DOMAIN live') \in Nat
      BY <2>3, <2>4, FS_Subset, FS_CardinalityType
    <3>2. QED BY <2>1, <2>3, <3>1, SessionsAssumption DEF Bounded
  <2>5. ASSUME NEW left \in SUBSET DOMAIN live, Cardinality(left) < MaxSessions,
               DOMAIN live' = left \cup {minted + 1}
        PROVE  Bounded'
    <3>1. IsFiniteSet(left) /\ Cardinality(left) \in Nat
      BY <2>3, FS_Subset, FS_CardinalityType
    <3>2. minted + 1 \notin left
      BY <2>2 DEF TypeOK
    <3>3. Cardinality(DOMAIN live') = Cardinality(left) + 1
      BY <2>5, <3>1, <3>2, FS_AddElement
    <3>4. QED BY <2>5, <3>1, <3>3, SessionsAssumption DEF Bounded
  <2>6. QED BY <2>2, <2>4, <2>5 DEF TableStep
<1>3. QED BY <1>1, <1>2, SessionsInv, PTL DEF Spec

(* A call that names a session is answered under the handshake its client  *)
(* made for it, however many requests of however many clients replace,     *)
(* evict and look up sessions in the meantime (answer in http.rs).         *)
THEOREM RunsUnderItsOwn == Spec => []RunsAsItself
<1>1. SInv => RunsAsItself
  BY DEF SInv, Bound, Fits, RunsAsItself, At
<1>2. QED BY <1>1, SessionsInv, PTL

(* An id that has left the table never comes back to it.                   *)
THEOREM GoneStaysGone == Spec => GoneIsGone
<1>1. SInv /\ [Next]_vars =>
        [\A i \in 1..minted : i \notin DOMAIN live => i \notin DOMAIN live']_vars
  <2>1. SUFFICES ASSUME SInv, [Next]_vars
                 PROVE  \A i \in 1..minted : i \notin DOMAIN live => i \notin DOMAIN live'
    OBVIOUS
  <2>2. Keeps
    BY <2>1, TableSteps DEF SInv, TableStep
  <2>3. QED BY <2>2 DEF Keeps
<1>2. QED BY <1>1, SessionsInv, PTL DEF Spec, GoneIsGone

-----------------------------------------------------------------------------
(* Clients that await the answer to one initialize before the next.        *)

(* A request on its way to a handshake, and what its client has meanwhile: *)
(* the session it named or none of the table, and no longer that session   *)
(* once it is ended.                                                       *)
Making(r) ==
  r.pc \in {"settled", "mint"} \/ (r.pc \in {"head", "answered"} /\ r.kind = "initialize")
Place(r, mine, ids) == mine \notin ids \/ (r.pc # "mint" /\ r.session = mine)

OneHandshake ==
  \A t, u \in Threads :
    Making(thread[t]) /\ Making(thread[u]) /\ thread[t].from = thread[u].from => t = u
Placed ==
  \A t \in Threads : Making(thread[t]) => Place(thread[t], has[thread[t].from], DOMAIN live)
OneEach == OneHandshake /\ Placed

(* What a client is told is gone, is.                                      *)
Gone ==
  \A t \in Threads : At(t, "refused") => thread[t].session \in 1..minted \ DOMAIN live

LEMMA MakersCarry ==
  ASSUME TypeOK, NEW t \in Threads
  PROVE  /\ Making(thread[t]) <=> Handshaking(t)
         /\ Making(thread[t]) => thread[t].from \in Clients /\ thread[t].session \in 0..minted
<1>1. Making(thread[t]) <=> Handshaking(t)
  BY DEF Making, Handshaking, At
<1>2. QED
  BY <1>1, Carries DEF Making, At

LEMMA IdsGrow ==
  ASSUME TypeOK, TableStep
  PROVE  DOMAIN live' \subseteq DOMAIN live \cup {minted + 1} /\ minted \in Nat /\ minted' \in Nat
  BY DEF TableStep, TypeOK, Keeps

(* A step of one thread, which gives no other handshake's client a session *)
(* of the table.                                                           *)
LEMMA OneMoves ==
  ASSUME SInv, TableStep, OneEach, NEW t \in Threads, NEW r, Becomes(t, r),
         \A d \in Clients :
           \/ has'[d] = has[d] \/ has'[d] \notin DOMAIN live'
           \/ \A u \in Threads : u # t /\ Making(thread[u]) => thread[u].from # d,
         Making(r) =>
           /\ Place(r, has'[r.from], DOMAIN live')
           /\ \A u \in Threads : u # t /\ Making(thread[u]) => thread[u].from # r.from
  PROVE  OneEach'
<1>1. TypeOK /\ thread'[t] = r /\ \A u \in Threads : u # t => thread'[u] = thread[u]
  BY DEF SInv, TypeOK, Becomes
<1>2. OneHandshake'
  BY <1>1 DEF OneEach, OneHandshake
<1>3. ASSUME NEW u \in Threads, u # t, Making(thread[u])
      PROVE  Place(thread[u], has'[thread[u].from], DOMAIN live')
  <2> DEFINE d == thread[u].from
  <2>1. d \in Clients /\ has[d] \in 0..minted
    BY <1>1, <1>3, MakersCarry DEF TypeOK
  <2>2. Place(thread[u], has[d], DOMAIN live)
    BY <1>3 DEF OneEach, Placed
  <2>3. has[d] \in DOMAIN live' => has[d] \in DOMAIN live
    BY <1>1, <2>1, IdsGrow
  <2>4. has'[d] = has[d] \/ has'[d] \notin DOMAIN live'
    BY <1>3, <2>1
  <2>5. QED
    BY <2>2, <2>3, <2>4 DEF Place
<1>4. Placed'
  BY <1>1, <1>3 DEF Placed
<1>5. QED
  BY <1>2, <1>4 DEF OneEach

(* A client awaits one handshake before it begins another.                 *)
LEMMA ArrivesAlone ==
  ASSUME TypeOK, HandshakesAtOnce = 1, NEW c, Cardinality(HandshakesOf(c)) < HandshakesAtOnce
  PROVE  \A u \in Threads : Making(thread[u]) => thread[u].from # c
<1>1. IsFiniteSet(HandshakesOf(c))
  BY SessionsAssumption, FS_Subset DEF HandshakesOf
<1>2. Cardinality(HandshakesOf(c)) \in Nat
  BY <1>1, FS_CardinalityType
<1>3. Cardinality(HandshakesOf(c)) = 0
  BY <1>2
<1>4. HandshakesOf(c) = {}
  BY <1>1, <1>3, FS_EmptySet
<1>5. QED
  BY <1>4, MakersCarry DEF HandshakesOf

(* A step that leaves what clients have, of a thread that was on its way   *)
(* to a handshake if it is.                                                *)
LEMMA OneGoesOn ==
  ASSUME SInv, TableStep, OneEach, NEW t \in Threads, NEW r, Becomes(t, r), UNCHANGED has,
         Making(r) => /\ Making(thread[t]) /\ r.from = thread[t].from
                      /\ Place(r, has[thread[t].from], DOMAIN live')
  PROVE  OneEach'
<1>1. Making(r) => \A u \in Threads : u # t /\ Making(thread[u]) => thread[u].from # r.from
  BY DEF OneEach, OneHandshake
<1>2. QED
  BY <1>1, OneMoves

LEMMA NotMaking ==
  /\ ~Making(Idling)
  /\ \A from, session : ~Making([pc |-> "refused", from |-> from, session |-> session])
  BY DEF Making, Idling

LEMMA ResumeOneEach ==
  ASSUME SInv, OneEach, TableStep, NEW t \in Threads, Resume(t)
  PROVE  OneEach'
<1> DEFINE q == thread[t]
           mine == has[q.from]
<1>1. q.pc = "head" /\ q.kind # "delete" /\ UNCHANGED <<has, minted>>
  BY DEF Resume, At, clients
<1>2. q.kind \in {"call", "initialize"} /\ q.from \in Clients /\ mine \in 0..minted /\ TypeOK
  BY <1>1, Carries DEF At, SInv, TypeOK
<1>3. DOMAIN live' \subseteq DOMAIN live
  BY DEF Resume, Touched, Without
<1>4. q.kind = "initialize" => mine \notin DOMAIN live' \/ q.session = mine
  BY <1>1, <1>3 DEF OneEach, Placed, Place, Making
<1>5. ASSUME NEW resumed, Handle(t, resumed) PROVE OneEach'
  <2>1. CASE Becomes(t, Answered(q, resumed))
    <3> DEFINE a == Answered(q, resumed)
    <3>1. a.pc = "answered" /\ a.kind = q.kind /\ a.from = q.from /\ a.session = q.session
      BY DEF Answered
    <3> HIDE DEF a
    <3>2. Making(a) => Making(q) /\ a.from = q.from /\ Place(a, mine, DOMAIN live')
      BY <1>1, <1>4, <3>1 DEF Making, Place
    <3>3. QED
      BY <1>1, <2>1, <3>2, OneGoesOn DEF a
  <2>2. ASSUME NEW settled, q.kind = "initialize",
               Becomes(t, [pc |-> "settled", from |-> q.from, session |-> q.session,
                           now |-> q.now, under |-> settled])
        PROVE  OneEach'
    <3> DEFINE a == [pc |-> "settled", from |-> q.from, session |-> q.session,
                     now |-> q.now, under |-> settled]
    <3>1. Making(q) /\ a.from = q.from /\ Place(a, mine, DOMAIN live')
      BY <1>1, <1>4, <2>2 DEF Making, Place
    <3> HIDE DEF a
    <3>2. QED
      BY <1>1, <2>2, <3>1, OneGoesOn DEF a
  <2>3. CASE Becomes(t, Idling)
    BY <1>1, <2>3, NotMaking, OneGoesOn
  <2>4. QED
    BY <1>5, <2>1, <2>2, <2>3 DEF Handle
<1>6. CASE Refuse(t)
  BY <1>1, <1>6, NotMaking, OneGoesOn DEF Refuse
<1>7. QED
  BY <1>5, <1>6 DEF Resume

LEMMA EndOldOneEach ==
  ASSUME SInv, OneEach, TableStep, NEW t \in Threads, EndOld(t)
  PROVE  OneEach'
<1> DEFINE r == [thread[t] EXCEPT !.pc = "mint"]
           mine == has[thread[t].from]
<1>1. At(t, "settled") /\ UNCHANGED has /\ Becomes(t, r)
  BY DEF EndOld, clients, GoesTo, Becomes
<1>2. r.pc = "mint" /\ r.from = thread[t].from /\ Making(thread[t])
  <2>1. thread[t] \in [pc : {"settled", "mint"}, from : Clients, session : 0..minted,
                       now : Nat, under : Handshake]
    BY <1>1, Carries DEF SInv
  <2>2. QED
    BY <1>1, <2>1 DEF Making, At
<1>3. DOMAIN live' = DOMAIN live \ {thread[t].session}
  BY DEF EndOld, Without
<1>4. mine \notin DOMAIN live'
  BY <1>2, <1>3 DEF OneEach, Placed, Place
<1> HIDE DEF r
<1>5. QED
  BY <1>1, <1>2, <1>4, OneGoesOn DEF Place

LEMMA MintOneEach ==
  ASSUME SInv, OneEach, TableStep, NEW t \in Threads, Mint(t)
  PROVE  OneEach'
<1> DEFINE c == thread[t].from
           id == minted + 1
           r == [pc |-> "answered", from |-> c, kind |-> "initialize", session |-> id,
                 under |-> thread[t].under, expects |-> NoHandshake]
<1>1. At(t, "mint") /\ UNCHANGED has /\ Becomes(t, r) /\ Making(thread[t])
  BY DEF Mint, NewId, clients, At, Making
<1>2. TypeOK /\ minted \in Nat /\ c \in Clients /\ has[c] \in 0..minted
  BY <1>1, MakersCarry DEF SInv, TypeOK
<1>3. has[c] \notin DOMAIN live
  BY <1>1 DEF OneEach, Placed, Place, At
<1>4. has[c] \notin DOMAIN live'
  BY <1>2, <1>3, IdsGrow
<1>5. Place(r, has[c], DOMAIN live') /\ r.from = c
  BY <1>4 DEF Place
<1> HIDE DEF r
<1>6. QED
  BY <1>1, <1>5, OneGoesOn

LEMMA ArriveOneEach ==
  ASSUME HandshakesAtOnce = 1, SInv, OneEach, TableStep, NEW t \in Threads, NEW c \in Clients,
         NEW kind, NEW ask, Arrive(t, c, kind, ask)
  PROVE  OneEach'
<1> DEFINE r == [pc |-> "head", from |-> c, kind |-> kind, ask |-> ask, session |-> has[c],
                 now |-> clock, expects |-> agreed[c]]
<1>1. TypeOK /\ Becomes(t, r) /\ UNCHANGED live
  BY DEF Arrive, SInv, table
<1>2. kind = "initialize" => /\ has'[c] = has[c]
                             /\ \A u \in Threads : Making(thread[u]) => thread[u].from # c
  BY <1>1, ArrivesAlone DEF Arrive
<1>3. \A d \in Clients : has'[d] = has[d] \/ has'[d] \notin DOMAIN live'
  <2>1. NoSession \notin DOMAIN live' /\ has \in [Clients -> 0..minted]
    BY <1>1 DEF TypeOK, NoSession
  <2>2. QED
    BY <2>1 DEF Arrive, Forgets
<1>4. r.from = c /\ r.session = has[c] /\ r.pc = "head" /\ r.kind = kind
  OBVIOUS
<1> HIDE DEF r
<1>5. Making(r) => Place(r, has'[r.from], DOMAIN live')
  BY <1>2, <1>4 DEF Making, Place
<1>6. Making(r) => \A u \in Threads : u # t /\ Making(thread[u]) => thread[u].from # r.from
  BY <1>2, <1>4 DEF Making
<1>7. QED
  BY <1>1, <1>3, <1>5, <1>6, OneMoves

LEMMA ReplyOneEach ==
  ASSUME SInv, OneEach, TableStep, NEW t \in Threads, Reply(t)
  PROVE  OneEach'
<1> DEFINE c == thread[t].from
<1>1. TypeOK /\ Becomes(t, Idling) /\ UNCHANGED live
  BY DEF Reply, SInv, table
<1>2. has \in [Clients -> 0..minted] /\ NoSession \notin DOMAIN live'
  BY <1>1 DEF TypeOK, NoSession
<1>3. CASE At(t, "answered") /\ thread[t].kind = "initialize"
  <2>1. Making(thread[t])
    BY <1>3 DEF Making, At
  <2>2. \A u \in Threads : u # t /\ Making(thread[u]) => thread[u].from # c
    BY <2>1 DEF OneEach, OneHandshake
  <2>3. \A d \in Clients : d = c \/ has'[d] = has[d]
    BY <1>2, <1>3 DEF Reply, At
  <2>4. QED
    BY <1>1, <2>2, <2>3, NotMaking, OneMoves
<1>4. CASE ~(At(t, "answered") /\ thread[t].kind = "initialize")
  <2>1. \A d \in Clients : has'[d] = has[d] \/ has'[d] \notin DOMAIN live'
    BY <1>2, <1>4 DEF Reply, Forgets
  <2>2. QED
    BY <1>1, <2>1, NotMaking, OneMoves
<1>5. QED
  BY <1>3, <1>4

LEMMA NextOneEach ==
  ASSUME HandshakesAtOnce = 1, SInv, OneEach, [Next]_vars
  PROVE  OneEach'
<1>1. TableStep
  BY TableSteps DEF SInv
<1>2. ASSUME NEW t \in Threads, End(t) \/ BadBody(t) \/ ReplyLost(t) PROVE OneEach'
  <2>1. Becomes(t, Idling) /\ UNCHANGED has
    BY <1>2 DEF End, BadBody, ReplyLost, clients
  <2>2. QED
    BY <1>1, <2>1, NotMaking, OneGoesOn
<1>3. CASE Tick \/ UNCHANGED vars
  <2>1. UNCHANGED <<live, thread, has>>
    BY <1>3 DEF Tick, vars, table, clients
  <2>2. QED
    BY <2>1 DEF OneEach, OneHandshake, Placed
<1>4. QED
  BY <1>1, <1>2, <1>3, ArriveOneEach, ResumeOneEach, EndOldOneEach, MintOneEach, ReplyOneEach
     DEF Next

LEMMA InitOneEach == Init => OneEach /\ Gone
  BY DEF Init, Idling, OneEach, OneHandshake, Placed, Making, Gone, At

(* An id that is gone stays gone, so what a client is told stays true.     *)
LEMMA NextGone ==
  ASSUME SInv, Gone, [Next]_vars
  PROVE  Gone'
<1>1. TypeOK /\ TableStep /\ Keeps
  BY TableSteps DEF SInv, TableStep
<1>2. \A i \in 1..minted \ DOMAIN live : i \in 1..minted' \ DOMAIN live'
  BY <1>1 DEF Keeps
<1>3. SUFFICES ASSUME NEW t \in Threads, At(t, "refused")'
               PROVE  thread'[t].session \in 1..minted' \ DOMAIN live'
  BY DEF Gone
<1>4. CASE thread'[t] = thread[t]
  BY <1>2, <1>3, <1>4 DEF Gone, At
<1>5. CASE thread'[t] # thread[t]
  <2>1. ASSUME NEW u \in Threads, NEW r, Becomes(u, r)
        PROVE  t = u /\ r.pc = "refused"
    BY <1>1, <1>3, <1>5, <2>1 DEF Becomes, TypeOK, At
  <2>2. ASSUME NEW u \in Threads, Resume(u)
        PROVE  thread'[t].session \in 1..minted' \ DOMAIN live'
    <3> DEFINE q == thread[u]
    <3>1. At(u, "head") /\ q.session \in 0..minted /\ minted' = minted
      BY <1>1, <2>2, Carries DEF Resume
    <3>2. ASSUME NEW resumed, Handle(u, resumed) PROVE FALSE
      <4>1. Answered(q, resumed).pc = "answered" /\ Idling.pc = "idle"
        BY DEF Answered, Idling
      <4>2. QED
        BY <2>1, <3>2, <4>1 DEF Handle
    <3>3. q.session # NoSession /\ live' = Without(live, {q.session}) /\ Refuse(u)
      BY <2>2, <3>2 DEF Resume
    <3>4. t = u
      BY <2>1, <3>3 DEF Refuse
    <3>5. thread'[t].session = q.session
      BY <1>1, <3>3, <3>4 DEF Refuse, Becomes, TypeOK
    <3>6. QED
      BY <3>1, <3>3, <3>5 DEF Without, NoSession
  <2>3. Idling.pc # "refused"
    BY DEF Idling
  <2>4. ASSUME NEW u \in Threads, EndOld(u) PROVE FALSE
    <3>1. thread[u] \in [pc : {"settled", "mint"}, from : Clients, session : 0..minted,
                         now : Nat, under : Handshake]
      BY <1>1, <2>4, Carries DEF EndOld
    <3>2. Becomes(u, [thread[u] EXCEPT !.pc = "mint"])
      BY <2>4 DEF EndOld, GoesTo, Becomes
    <3>3. QED
      BY <2>1, <3>1, <3>2
  <2>5. ASSUME NEW u \in Threads, Mint(u) PROVE FALSE
    BY <2>1, <2>5 DEF Mint
  <2>6. ASSUME NEW u \in Threads, NEW c \in Clients, NEW kind, NEW ask, Arrive(u, c, kind, ask)
        PROVE  FALSE
    BY <2>1, <2>6 DEF Arrive
  <2>7. ASSUME NEW u \in Threads, End(u) \/ BadBody(u) \/ Reply(u) \/ ReplyLost(u) PROVE FALSE
    BY <2>1, <2>3, <2>7 DEF End, BadBody, Reply, ReplyLost
  <2>8. CASE Tick \/ UNCHANGED vars
    BY <1>5, <2>8 DEF Tick, vars
  <2>9. QED
    BY <2>2, <2>4, <2>5, <2>6, <2>7, <2>8 DEF Next
<1>6. QED
  BY <1>4, <1>5

(* Why a row of the table is not dead.                                     *)
Holds(t, i) ==
  /\ (At(t, "answered") /\ thread[t].kind = "initialize") \/ (At(t, "head") /\ thread[t].kind = "delete")
  /\ thread[t].session = i
Needed(i) == i \in lost \/ (\E c \in Clients : has[c] = i) \/ (\E t \in Threads : Holds(t, i))

LEMMA RowsAreNeeded == NoDeadRows <=> \A i \in DOMAIN live : Needed(i)
  BY DEF NoDeadRows, Needed, Holds

(* Of a step of one thread: what it lets go of is needed for another       *)
(* reason, and what it adds is needed.                                     *)
LEMMA RowsStay ==
  ASSUME TypeOK, NoDeadRows, NEW t \in Threads, NEW r, Becomes(t, r), lost \subseteq lost',
         \A i \in DOMAIN live' : i \in DOMAIN live \/ Needed(i)',
         \A i \in DOMAIN live', c \in Clients : has[c] = i => has'[c] = i \/ Needed(i)',
         \A i \in DOMAIN live' : Holds(t, i) => Needed(i)'
  PROVE  NoDeadRows'
<1>1. ASSUME NEW i \in DOMAIN live', i \in DOMAIN live PROVE Needed(i)'
  <2>1. Needed(i)
    BY <1>1, RowsAreNeeded
  <2>2. CASE i \in lost
    BY <2>2 DEF Needed
  <2>3. ASSUME NEW c \in Clients, has[c] = i PROVE Needed(i)'
    <3>1. CASE has'[c] = i
      BY <3>1 DEF Needed
    <3>2. QED
      BY <2>3, <3>1
  <2>4. ASSUME NEW u \in Threads, Holds(u, i) PROVE Needed(i)'
    <3>1. CASE u = t
      BY <2>4, <3>1
    <3>2. CASE u # t
      <4>1. thread'[u] = thread[u]
        BY <3>2 DEF TypeOK, Becomes
      <4>2. Holds(u, i)'
        BY <2>4, <4>1 DEF Holds, At
      <4>3. QED
        BY <4>2 DEF Needed
    <3>3. QED
      BY <3>1, <3>2
  <2>5. QED
    BY <2>1, <2>2, <2>3, <2>4 DEF Needed
<1>2. \A i \in DOMAIN live' : Needed(i)'
  BY <1>1
<1>3. QED
  BY <1>2 DEF NoDeadRows, Needed, Holds

(* A step of a thread no row hangs on, which takes nothing from a client.  *)
LEMMA RowsStayPut ==
  ASSUME TypeOK, NoDeadRows, NEW t \in Threads, NEW r, Becomes(t, r), lost \subseteq lost', UNCHANGED has,
         DOMAIN live' \subseteq DOMAIN live, \A i \in DOMAIN live' : ~Holds(t, i)
  PROVE  NoDeadRows'
  BY RowsStay

LEMMA NextRows ==
  ASSUME SInv, OneEach, Gone, NoDeadRows, [Next]_vars
  PROVE  NoDeadRows'
<1>1. TypeOK /\ \A i \in DOMAIN live : i # NoSession
  BY DEF SInv, TypeOK, NoSession
<1>2. ASSUME NEW t \in Threads, NEW c \in Clients, NEW kind, NEW ask, Arrive(t, c, kind, ask)
      PROVE  NoDeadRows'
  <2> DEFINE r == [pc |-> "head", from |-> c, kind |-> kind, ask |-> ask, session |-> has[c],
                   now |-> clock, expects |-> agreed[c]]
  <2>1. Becomes(t, r) /\ At(t, "idle") /\ UNCHANGED <<live, lost>>
    BY <1>2 DEF Arrive, table
  <2>2. thread'[t] = r /\ \A i : ~Holds(t, i)
    BY <1>1, <2>1 DEF TypeOK, Becomes, Holds, At
  <2>3. \A d \in Clients : has'[d] = has[d] \/ (d = c /\ kind = "delete")
    BY <1>1, <1>2 DEF Arrive, Forgets, TypeOK
  <2>4. ASSUME NEW i \in DOMAIN live', NEW d \in Clients, has[d] = i
        PROVE  has'[d] = i \/ Needed(i)'
    <3>1. CASE d = c /\ kind = "delete"
      <4>1. Holds(t, i)'
        BY <2>2, <2>4, <3>1 DEF Holds, At
      <4>2. QED
        BY <4>1 DEF Needed
    <3>2. QED
      BY <2>3, <2>4, <3>1
  <2> HIDE DEF r
  <2>5. QED
    BY <1>1, <2>1, <2>2, <2>4, RowsStay
<1>3. ASSUME NEW t \in Threads, End(t) PROVE NoDeadRows'
  <2>1. /\ At(t, "head") /\ Becomes(t, Idling) /\ UNCHANGED <<has, lost>>
        /\ DOMAIN live' = DOMAIN live \ {thread[t].session}
    BY <1>3 DEF End, clients, Without
  <2>2. QED
    BY <1>1, <2>1, RowsStayPut DEF Holds
<1>4. ASSUME NEW t \in Threads, BadBody(t) PROVE NoDeadRows'
  <2>1. /\ At(t, "head") /\ thread[t].kind # "delete" /\ Becomes(t, Idling) /\ UNCHANGED <<has, lost, live>>
    BY <1>4 DEF BadBody, clients, table
  <2>2. \A i : ~Holds(t, i)
    BY <2>1 DEF Holds, At
  <2>3. QED
    BY <1>1, <2>1, <2>2, RowsStayPut
<1>5. ASSUME NEW t \in Threads, Resume(t) PROVE NoDeadRows'
  <2>1. At(t, "head") /\ thread[t].kind # "delete" /\ UNCHANGED <<has, lost>>
    BY <1>5 DEF Resume, clients
  <2>2. \A i : ~Holds(t, i)
    BY <2>1 DEF Holds, At
  <2>3. \E r : Becomes(t, r)
    BY <1>5 DEF Resume, Handle, Refuse
  <2>4. DOMAIN live' \subseteq DOMAIN live
    BY <1>5 DEF Resume, Touched, Without
  <2>5. QED
    BY <1>1, <2>1, <2>2, <2>3, <2>4, RowsStayPut
<1>6. ASSUME NEW t \in Threads, EndOld(t) PROVE NoDeadRows'
  <2>1. /\ At(t, "settled") /\ UNCHANGED <<has, lost>> /\ \E r : Becomes(t, r)
        /\ DOMAIN live' \subseteq DOMAIN live
    BY <1>6 DEF EndOld, clients, Without, GoesTo, Becomes
  <2>2. \A i : ~Holds(t, i)
    BY <2>1 DEF Holds, At
  <2>3. QED
    BY <1>1, <2>1, <2>2, RowsStayPut
<1>7. ASSUME NEW t \in Threads, Mint(t) PROVE NoDeadRows'
  <2>0. PICK id : id = minted + 1
    OBVIOUS
  <2> DEFINE r == [pc |-> "answered", from |-> thread[t].from, kind |-> "initialize", session |-> id,
                   under |-> thread[t].under, expects |-> NoHandshake]
  <2>1. At(t, "mint") /\ Becomes(t, r) /\ UNCHANGED <<has, lost>>
    BY <1>7, <2>0 DEF Mint, NewId, clients
  <2>2. PICK left \in Evicted(thread[t].now) : DOMAIN live' = left \cup {id}
    BY <1>7, <2>0 DEF Mint, NewId
  <2>3. left \subseteq DOMAIN live
    BY EvictedLeaves
  <2>4. thread'[t] = r /\ \A i : ~Holds(t, i)
    BY <1>1, <2>1 DEF TypeOK, Becomes, Holds, At
  <2>5. Needed(id)'
    <3>1. Holds(t, id)'
      BY <2>4 DEF Holds, At
    <3>2. QED
      BY <3>1 DEF Needed
  <2> HIDE DEF r
  <2>6. QED
    BY <1>1, <2>1, <2>2, <2>3, <2>4, <2>5, RowsStay
<1>8. ASSUME NEW t \in Threads, Reply(t) PROVE NoDeadRows'
  <2> DEFINE c == thread[t].from
             mine == has[c]
  <2>1. Becomes(t, Idling) /\ UNCHANGED <<lost, live>> /\ has \in [Clients -> 0..minted]
    BY <1>1, <1>8 DEF Reply, table, TypeOK
  <2>2. CASE At(t, "answered") /\ thread[t].kind = "initialize"
    <3>1. Place(thread[t], mine, DOMAIN live) /\ c \in Clients
      BY <1>1, <2>2, MakersCarry DEF OneEach, Placed, Making, At
    <3>2. has' = [has EXCEPT ![c] = thread[t].session]
      BY <1>8, <2>2 DEF Reply, At
    <3>3. \A i \in DOMAIN live', d \in Clients : has[d] = i => has'[d] = i
      BY <2>1, <3>1, <3>2 DEF Place
    <3>4. ASSUME NEW i \in DOMAIN live', Holds(t, i) PROVE Needed(i)'
      <4>1. has'[c] = i
        BY <2>1, <3>1, <3>2, <3>4 DEF Holds
      <4>2. QED
        BY <3>1, <4>1 DEF Needed
    <3>5. QED
      BY <1>1, <2>1, <3>3, <3>4, RowsStay
  <2>3. CASE ~(At(t, "answered") /\ thread[t].kind = "initialize")
    <3>1. \A i : ~Holds(t, i)
      BY <1>8, <2>3 DEF Reply, Holds, At
    <3>2. At(t, "refused") => thread[t].session \notin DOMAIN live /\ c \in Clients
      BY <1>1, Carries DEF Gone
    <3>3. \A i \in DOMAIN live', d \in Clients : has[d] = i => has'[d] = i
      BY <1>8, <2>1, <2>3, <3>2 DEF Reply, Forgets
    <3>4. QED
      BY <1>1, <2>1, <3>1, <3>3, RowsStay
  <2>4. QED
    BY <2>2, <2>3
<1>9. ASSUME NEW t \in Threads, ReplyLost(t) PROVE NoDeadRows'
  <2>1. Becomes(t, Idling) /\ UNCHANGED <<has, live>> /\ lost \subseteq lost'
        /\ (At(t, "answered") \/ At(t, "refused"))
    BY <1>9 DEF ReplyLost, table, At
  <2>2. ASSUME NEW i \in DOMAIN live', Holds(t, i) PROVE Needed(i)'
    <3>1. At(t, "answered") /\ thread[t].kind = "initialize" /\ thread[t].session = i
      BY <2>1, <2>2 DEF Holds, At
    <3>2. thread[t].from \in Clients
      BY <1>1, <3>1, Carries
    <3>3. QED
      BY <1>9, <2>1, <3>1, <3>2 DEF ReplyLost, Needed
  <2>3. QED
    BY <1>1, <2>1, <2>2, RowsStay
<1>10. CASE Tick \/ UNCHANGED vars
  <2>1. UNCHANGED <<live, thread, has, lost>>
    BY <1>10 DEF Tick, vars, table, clients
  <2>2. QED
    BY <2>1 DEF NoDeadRows, At
<1>11. QED
  BY <1>2, <1>3, <1>4, <1>5, <1>6, <1>7, <1>8, <1>9, <1>10 DEF Next

-----------------------------------------------------------------------------
(* The clocks of the table: a session whose use is known was touched by    *)
(* the latest request it answered, or is gone and was last used Idle ago.  *)
Clocks ==
  /\ used \in [DOMAIN used -> Nat] /\ DOMAIN used \subseteq 1..minted
  /\ \A i \in DOMAIN used :
       /\ used[i] <= clock
       /\ IF i \in DOMAIN live THEN used[i] <= live[i].touched ELSE used[i] + Idle <= clock
Late(r, now) == r.pc \in {"head", "settled", "mint"} => r.now <= now
Latest == \A t \in Threads : Late(thread[t], clock)

LEMMA ClocksAre ==
  ASSUME TypeOK, Clocks
  PROVE  /\ clock \in Nat /\ minted \in Nat /\ Idle \in Nat
         /\ DOMAIN live \subseteq 1..minted /\ DOMAIN used \subseteq 1..minted
         /\ \A i \in DOMAIN live : live[i].touched \in Nat
         /\ \A i \in DOMAIN used : used[i] \in Nat /\ used[i] <= clock
  BY SessionsAssumption DEF TypeOK, Clocks, Entry

(* What goes from the table and is still known was used Idle ago.          *)
LEMMA ClocksShrink ==
  ASSUME TypeOK, Clocks, UNCHANGED <<clock, minted>>, NEW S, used' = Without(used, S),
         DOMAIN live' \subseteq DOMAIN live, \A i \in DOMAIN live' : live'[i] = live[i],
         \A i \in DOMAIN live : i \in DOMAIN live' \/ i \notin DOMAIN used'
                                \/ (i \in DOMAIN used /\ used[i] + Idle <= clock)
  PROVE  Clocks'
<1>1. /\ DOMAIN used' = DOMAIN used \ S /\ \A i \in DOMAIN used' : used'[i] = used[i]
      /\ used' = [i \in DOMAIN used' |-> used'[i]]
  BY DEF Without
<1>2. used' \in [DOMAIN used' -> Nat]
  BY <1>1, ClocksAre
<1>3. QED
  BY <1>1, <1>2 DEF Clocks

(* A lookup that takes a session back in time is of one that crossed.      *)
LEMMA ClocksTouch ==
  ASSUME TypeOK, Clocks, NEW s \in DOMAIN live, NEW now \in Nat, now <= clock,
         UNCHANGED <<clock, minted>>, live' = [live EXCEPT ![s].touched = now],
         used' = IF s \in DOMAIN used /\ used[s] <= now
                 THEN [used EXCEPT ![s] = now] ELSE Without(used, {s})
  PROVE  Clocks'
<1>1. /\ DOMAIN live' = DOMAIN live /\ live'[s].touched = now
      /\ \A i \in DOMAIN live : i # s => live'[i] = live[i]
  BY DEF TypeOK, Entry
<1>2. CASE s \in DOMAIN used /\ used[s] <= now
  <2>1. /\ used' \in [DOMAIN used -> Nat] /\ DOMAIN used' = DOMAIN used /\ used'[s] = now
        /\ \A i \in DOMAIN used : i # s => used'[i] = used[i]
    BY <1>2 DEF Clocks
  <2>2. used' \in [DOMAIN used' -> Nat] /\ DOMAIN used' \subseteq 1..minted'
    BY <2>1 DEF Clocks
  <2>3. ASSUME NEW i \in DOMAIN used'
        PROVE  /\ used'[i] <= clock'
               /\ IF i \in DOMAIN live' THEN used'[i] <= live'[i].touched
                  ELSE used'[i] + Idle <= clock'
    <3>1. CASE i = s
      BY <1>1, <2>1, <3>1
    <3>2. CASE i # s
      BY <1>1, <2>1, <2>3, <3>2 DEF Clocks
    <3>3. QED
      BY <3>1, <3>2
  <2>4. QED
    BY <2>2, <2>3 DEF Clocks
<1>3. CASE ~(s \in DOMAIN used /\ used[s] <= now)
  <2>1. /\ DOMAIN used' = DOMAIN used \ {s} /\ \A i \in DOMAIN used' : used'[i] = used[i]
        /\ used' = [i \in DOMAIN used' |-> used'[i]]
    BY <1>3 DEF Without
  <2>2. used' \in [DOMAIN used' -> Nat]
    BY <2>1, ClocksAre
  <2>3. QED
    BY <1>1, <2>1, <2>2 DEF Clocks
<1>4. QED
  BY <1>2, <1>3

LEMMA ClocksMint ==
  ASSUME TypeOK, Clocks, Latest, NEW t \in Threads, Mint(t)
  PROVE  Clocks'
<1> DEFINE now == thread[t].now
           id == minted + 1
<1>1. At(t, "mint") /\ clock' = clock /\ minted' = id
  BY DEF Mint, NewId
<1>2. now \in Nat /\ now <= clock
  BY <1>1, Carries DEF Latest, Late, At
<1>3. PICK left \in Evicted(now) :
        /\ live' = [i \in left \cup {id} |->
                      IF i = id THEN [handshake |-> thread[t].under, touched |-> now] ELSE live[i]]
        /\ used' = With(Without(used, Fresh(now) \ left), id, now)
  BY DEF Mint, NewId
<1>4. /\ left \subseteq DOMAIN live /\ id \notin DOMAIN live /\ id \notin DOMAIN used
      /\ minted \in Nat /\ DOMAIN used \subseteq 1..minted
  BY EvictedLeaves, ClocksAre
<1>5. /\ DOMAIN live' = left \cup {id} /\ live'[id].touched = now
      /\ \A i \in left : live'[i] = live[i]
  BY <1>3, <1>4
<1>6. /\ DOMAIN used' = (DOMAIN used \ (Fresh(now) \ left)) \cup {id} /\ used'[id] = now
      /\ \A i \in DOMAIN used' : i # id => used'[i] = used[i]
      /\ used' = [i \in DOMAIN used' |-> used'[i]]
  BY <1>3 DEF With, Without
<1>7. used' \in [DOMAIN used' -> Nat] /\ DOMAIN used' \subseteq 1..minted'
  <2>1. \A i \in DOMAIN used' : used'[i] \in Nat
    BY <1>2, <1>6, ClocksAre
  <2>2. id \in 1..id /\ 1..minted \subseteq 1..id
    BY <1>4
  <2>3. QED
    BY <1>1, <1>4, <1>6, <2>1, <2>2
<1> HIDE DEF id, now
<1>8. ASSUME NEW i \in DOMAIN used', i # id
      PROVE  /\ used'[i] <= clock
             /\ IF i \in DOMAIN live' THEN used'[i] <= live'[i].touched
                ELSE used'[i] + Idle <= clock
  <2>1. i \in DOMAIN used /\ used'[i] = used[i] /\ i \notin Fresh(now) \ left
    BY <1>6, <1>8
  <2>2. CASE i \in left
    BY <1>4, <1>5, <2>1, <2>2 DEF Clocks
  <2>3. CASE i \in DOMAIN live /\ i \notin left
    <3>1. live[i].touched + Idle <= now
      BY <2>1, <2>3 DEF Fresh, Expired
    <3>2. used[i] <= live[i].touched
      BY <2>1, <2>3 DEF Clocks
    <3>3. used[i] + Idle <= clock
      BY <1>2, <2>1, <2>3, <3>1, <3>2, ClocksAre
    <3>4. QED
      BY <1>5, <1>8, <2>1, <2>3, <3>3 DEF Clocks
  <2>4. CASE i \notin DOMAIN live
    BY <1>4, <1>5, <1>8, <2>1, <2>4 DEF Clocks
  <2>5. QED
    BY <2>2, <2>3, <2>4
<1>9. \A i \in DOMAIN used' :
        /\ used'[i] <= clock
        /\ IF i \in DOMAIN live' THEN used'[i] <= live'[i].touched ELSE used'[i] + Idle <= clock
  BY <1>2, <1>5, <1>6, <1>8
<1>10. QED
  BY <1>1, <1>7, <1>9 DEF Clocks

(* A step of one thread leaves the others the clock they read.             *)
LEMMA LatestStays ==
  ASSUME TypeOK, Latest, NEW t \in Threads, NEW r, Becomes(t, r), clock' = clock, Late(r, clock)
  PROVE  Latest'
<1>1. thread'[t] = r /\ \A u \in Threads : u # t => thread'[u] = thread[u]
  BY DEF TypeOK, Becomes
<1>2. QED
  BY <1>1 DEF Latest

LEMMA ResumeClocks ==
  ASSUME SInv, Clocks, Latest, NEW t \in Threads, Resume(t)
  PROVE  Clocks' /\ Latest'
<1> DEFINE r == thread[t]
           s == r.session
<1>1. TypeOK /\ At(t, "head") /\ UNCHANGED <<clock, minted>>
  BY DEF SInv, Resume, At
<1>2. r.now \in Nat /\ r.now <= clock
  BY <1>1, Carries DEF Latest, Late, At
<1>4. Latest'
  <2>1. ASSUME NEW a, Becomes(t, a), Late(a, clock) PROVE Latest'
    BY <1>1, <2>1, LatestStays
  <2>2. Late(Idling, clock)
    BY DEF Late, Idling
  <2>3. \A under : Late(Answered(r, under), clock)
    BY DEF Late, Answered
  <2>4. ASSUME NEW settled
        PROVE  Late([pc |-> "settled", from |-> r.from, session |-> r.session,
                     now |-> r.now, under |-> settled], clock)
    BY <1>2 DEF Late
  <2>5. Late([pc |-> "refused", from |-> r.from, session |-> s], clock)
    BY DEF Late
  <2>6. QED
    BY <2>1, <2>2, <2>3, <2>4, <2>5 DEF Resume, Handle, Refuse
<1>5. CASE UNCHANGED <<live, used>>
  BY <1>1, <1>4, <1>5 DEF Clocks
<1>6. CASE /\ s \in DOMAIN live /\ live' = Touched(r)
           /\ used' = IF s \in DOMAIN used /\ used[s] <= r.now
                      THEN [used EXCEPT ![s] = r.now] ELSE Without(used, {s})
  <2>1. live' = [live EXCEPT ![s].touched = r.now]
    BY <1>6 DEF Touched
  <2>2. QED
    BY <1>1, <1>2, <1>4, <1>6, <2>1, ClocksTouch
<1>7. CASE /\ ~(s \in DOMAIN live /\ ~Expired(live[s], r.now))
           /\ live' = Without(live, {s}) /\ UNCHANGED used
  <2>1. DOMAIN live' = DOMAIN live \ {s} /\ \A i \in DOMAIN live' : live'[i] = live[i]
    BY <1>7 DEF Without
  <2>2. s \in DOMAIN live /\ s \in DOMAIN used => used[s] + Idle <= clock
    <3>1. s \in DOMAIN live => live[s].touched + Idle <= r.now
      BY <1>7 DEF Expired
    <3>2. s \in DOMAIN live /\ s \in DOMAIN used => used[s] <= live[s].touched
      BY DEF Clocks
    <3>3. QED
      BY <1>1, <1>2, <3>1, <3>2, ClocksAre
  <2>3. used' = Without(used, {})
    BY <1>7 DEF Without, Clocks
  <2>4. \A i \in DOMAIN live : i \in DOMAIN live' \/ i \notin DOMAIN used'
                               \/ (i \in DOMAIN used /\ used[i] + Idle <= clock)
    BY <1>7, <2>1, <2>2
  <2> DEFINE none == {}
  <2> HIDE DEF none
  <2>5. QED
    BY <1>1, <1>4, <2>1, <2>3, <2>4, ClocksShrink
<1>8. QED
  BY <1>4, <1>5, <1>6, <1>7 DEF Resume

LEMMA NextClocks ==
  ASSUME SInv, Clocks, Latest, [Next]_vars
  PROVE  Clocks' /\ Latest'
<1>1. TypeOK
  BY DEF SInv
<1>2. /\ clock \in Nat /\ minted \in Nat /\ Idle \in Nat
      /\ \A i \in DOMAIN used : used[i] \in Nat /\ used[i] <= clock
  BY <1>1, ClocksAre
<1>3. ASSUME NEW t \in Threads, NEW r, Becomes(t, r), UNCHANGED clock, Late(r, clock)
      PROVE  Latest'
  BY <1>1, <1>3, LatestStays
<1>4. ASSUME NEW t \in Threads, Becomes(t, Idling), UNCHANGED clock PROVE Latest'
  BY <1>3, <1>4 DEF Idling, Late
<1>5. ASSUME NEW t \in Threads, NEW c \in Clients, NEW kind, NEW ask, Arrive(t, c, kind, ask)
      PROVE  Clocks' /\ Latest'
  <2> DEFINE r == [pc |-> "head", from |-> c, kind |-> kind, ask |-> ask, session |-> has[c],
                   now |-> clock, expects |-> agreed[c]]
  <2>1. Becomes(t, r) /\ UNCHANGED <<clock, live, used, minted>>
    BY <1>5 DEF Arrive, table
  <2>2. Late(r, clock)
    BY <1>2 DEF Late
  <2> HIDE DEF r
  <2>3. QED
    BY <1>3, <2>1, <2>2 DEF Clocks
<1>6. ASSUME NEW t \in Threads, NEW s, live' = Without(live, {s}), used' = Without(used, {s}),
             UNCHANGED <<clock, minted>>
      PROVE  Clocks'
  <2>1. DOMAIN live' = DOMAIN live \ {s} /\ \A i \in DOMAIN live' : live'[i] = live[i]
    BY <1>6 DEF Without
  <2>2. s \notin DOMAIN used'
    BY <1>6 DEF Without
  <2>3. QED
    BY <1>1, <1>6, <2>1, <2>2, ClocksShrink
<1>7. ASSUME NEW t \in Threads, End(t) PROVE Clocks' /\ Latest'
  BY <1>4, <1>6, <1>7 DEF End
<1>8. ASSUME NEW t \in Threads, EndOld(t) PROVE Clocks' /\ Latest'
  <2> DEFINE r == [thread[t] EXCEPT !.pc = "mint"]
  <2>1. At(t, "settled") /\ UNCHANGED <<clock, minted>> /\ Becomes(t, r)
    BY <1>8 DEF EndOld, GoesTo, Becomes
  <2>2. thread[t].now <= clock
    BY <2>1 DEF Latest, Late, At
  <2>3. r.pc = "mint" /\ r.now = thread[t].now
    <3>1. thread[t] \in [pc : {"settled", "mint"}, from : Clients, session : 0..minted,
                         now : Nat, under : Handshake]
      BY <1>1, <2>1, Carries
    <3>2. QED
      BY <3>1
  <2>4. Late(r, clock)
    BY <2>2, <2>3 DEF Late
  <2> HIDE DEF r
  <2>5. QED
    BY <1>3, <1>6, <1>8, <2>1, <2>4 DEF EndOld
<1>9. ASSUME NEW t \in Threads, Mint(t) PROVE Clocks' /\ Latest'
  <2> DEFINE r == [pc |-> "answered", from |-> thread[t].from, kind |-> "initialize",
                   session |-> minted + 1, under |-> thread[t].under, expects |-> NoHandshake]
  <2>1. Becomes(t, r) /\ clock' = clock
    BY <1>9 DEF Mint, NewId
  <2>2. Late(r, clock)
    BY DEF Late
  <2> HIDE DEF r
  <2>3. QED
    BY <1>1, <1>3, <1>9, <2>1, <2>2, ClocksMint
<1>10. ASSUME NEW t \in Threads, BadBody(t) \/ Reply(t) \/ ReplyLost(t) PROVE Clocks' /\ Latest'
  BY <1>4, <1>10 DEF BadBody, Reply, ReplyLost, table, Clocks
<1>11. CASE Tick
  <2>1. clock' = clock + 1 /\ UNCHANGED <<live, used, minted, thread>>
    BY <1>11 DEF Tick, table
  <2>2. Clocks'
    <3>1. \A i \in DOMAIN used : used[i] <= clock + 1
      BY <1>2
    <3>2. \A i \in DOMAIN used : i \notin DOMAIN live => used[i] + Idle <= clock + 1
      BY <1>2 DEF Clocks
    <3>3. QED
      BY <2>1, <3>1, <3>2 DEF Clocks
  <2>3. ASSUME NEW t \in Threads PROVE Late(thread[t], clock + 1)
    <3>1. At(t, "head") \/ At(t, "settled") \/ At(t, "mint") =>
            thread[t].now \in Nat /\ thread[t].now <= clock
      BY <1>1, Carries DEF Latest, Late, At
    <3>2. QED
      BY <1>2, <3>1 DEF Late, At
  <2>4. QED
    BY <2>1, <2>2, <2>3 DEF Latest
<1>12. CASE UNCHANGED vars
  BY <1>12 DEF vars, table, Clocks, Latest
<1>13. QED
  BY <1>5, <1>7, <1>8, <1>9, <1>10, <1>11, <1>12, ResumeClocks DEF Next

LEMMA InitClocks == Init => Clocks /\ Latest /\ NoDeadRows
<1> SUFFICES ASSUME Init PROVE Clocks /\ Latest /\ NoDeadRows
  OBVIOUS
<1>1. DOMAIN live = {} /\ used = [i \in {} |-> 0] /\ DOMAIN used = {} /\ minted = 0
  BY DEF Init
<1>2. used \in [DOMAIN used -> Nat]
  BY <1>1
<1>3. Clocks
  BY <1>1, <1>2 DEF Clocks
<1>4. Latest
  BY DEF Init, Idling, Latest, Late
<1>5. QED
  BY <1>1, <1>3, <1>4 DEF NoDeadRows

(* When a client awaits one handshake before it begins another, every      *)
(* session in the table is one its client holds, is being told of or is    *)
(* ending, or one whose reply was lost: no request, however interleaved    *)
(* with others of the same client or another, leaves a row behind (answer  *)
(* in http.rs ends what an initialize replaces before it mints).           *)
THEOREM NoRowOutlivesItsUse == HandshakesAtOnce = 1 => (Spec => []NoDeadRows)
<1> SUFFICES ASSUME HandshakesAtOnce = 1 PROVE Spec => []NoDeadRows
  OBVIOUS
<1>1. Init => OneEach /\ Gone /\ NoDeadRows
  BY InitOneEach, InitClocks
<1>2. SInv /\ OneEach /\ Gone /\ NoDeadRows /\ [Next]_vars => OneEach' /\ Gone' /\ NoDeadRows'
  BY NextOneEach, NextGone, NextRows
<1>3. QED
  BY <1>1, <1>2, SessionsInv, PTL DEF Spec

(* Whatever requests are under way at once, a session that was not ended,  *)
(* replaced or evicted is refused only when the last request it answered   *)
(* came Idle before (resume in session.rs), with one exception: a session  *)
(* whose requests were looked up out of the order of their clocks.         *)
THEOREM UseKeepsItAlive == Spec => []UseKeepsAlive
<1>1. Init => Gone /\ Clocks /\ Latest
  BY InitOneEach, InitClocks
<1>2. SInv /\ Gone /\ Clocks /\ Latest /\ [Next]_vars => Gone' /\ Clocks' /\ Latest'
  BY NextGone, NextClocks
<1>3. Gone /\ Clocks => UseKeepsAlive
  BY DEF Gone, Clocks, UseKeepsAlive
<1>4. QED
  BY <1>1, <1>2, <1>3, SessionsInv, PTL DEF Spec
================================================================================
