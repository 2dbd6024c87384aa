----------------------------- MODULE Server_proofs -----------------------------
(***************************************************************************)
(* What Server keeps of its provider and its store, for any numbers of     *)
(* attempts, delays, texts and chunks, any messages and any schedule.      *)
(*                                                                         *)
(* A post is patient by itself (PatientPost), whatever its process does;   *)
(* that no lock is held over one needs to be known of run as well (Hands), *)
(* and what a command still owes its provider of its posts (Owes): only a  *)
(* failed post leaves anything owed, and only an ingest goes on from one.  *)
(* A reindex covers the store it swaps its vectors into because what it    *)
(* has made and has left to make are what it listed (Counted), and what it *)
(* listed stays where it was.                                              *)
(***************************************************************************)
EXTENDS Server, FiniteSetTheorems, TLAPS

Names == Procs \cup Clients \cup {Nobody}

Working ==
  [stage : {"listing", "planning", "completing", "embedding", "locking", "holding"},
   tool : Tools, by : Names, line : Nat, texts : Nat, saw : Nat, chunks : Int,
   made : Nat, part : Nat]
Endings == [stage : {"ended"}, tool : Tools, by : Names, line : Nat, ok : BOOLEAN]
Runs == [stage : {"idle"}] \cup Working \cup Endings
Batches == [tool : Tools, by : Names, line : Nat, vectors : Nat, kind : {"http", "local"}]

(* A post has waited as long as it was last told to, when it asks, and at  *)
(* no time longer than the ceiling for each request it has made; while it  *)
(* waits, what is left is what it is about to sleep.                       *)
PatientPost(q) ==
  \/ q = NoPost
  \/ \E useful \in BOOLEAN, owed \in Nat : q = Settled(useful, owed)
  \/ /\ q \in Posts /\ q.spent = FALSE
     /\ q.delay <= MaxDelay /\ q.tried < AtLeast(Attempts, 1)
     /\ q.stage = "ask" => q.left = 0 /\ q.slept <= q.tried * MaxDelay
     /\ q.stage = "wait" =>
          /\ q.slept + MaxDelay <= q.tried * MaxDelay
          /\ \/ q.asked = {} /\ q.left = 0
             \/ \E h \in Nat : q.asked = {h} /\ h <= MaxDelay /\ q.left = h

ProviderType ==
  /\ agent \in [Procs -> BOOLEAN]
  /\ DOMAIN post = Procs /\ post = [p \in Procs |-> post[p]]
  /\ \A p \in Procs : PatientPost(post[p])

HostsType ==
  /\ embedder \in {"http", "local"} /\ keySet \in BOOLEAN
  /\ run \in [Procs -> Runs] /\ held \in [Procs -> {"no", "shared", "alone"}]
  /\ store \in Seq(Batches)

(* A lock is held while a command holds it, a post is there while its      *)
(* command waits for it.                                                   *)
Hands ==
  \A p \in Procs :
    /\ held[p] # "no" => run[p].stage = "holding"
    /\ post[p].stage # "none" => run[p].stage \in {"completing", "embedding"}
    /\ run[p].stage = "embedding" => run[p].texts > 0

(* What a reindex listed: the batches with a vector, of those it saw.      *)
Listed(s, n) == {i \in 1..n : s[i].vectors > 0}

Counted(r, s) ==
  r.tool = "reindex" =>
    /\ r.stage = "listing" => r.made = 0 /\ r.part = 0 /\ r.chunks = 1
    /\ r.stage \in {"planning", "embedding", "locking", "holding"} => r.saw <= Len(s)
    /\ r.stage = "planning" =>
         r.texts = Cardinality(Listed(s, r.saw)) /\ r.made = 0 /\ r.part = 0 /\ r.chunks = 1
    /\ r.stage = "embedding" =>
         r.texts + r.part = Cardinality(Listed(s, r.saw)) /\ r.made = 0 /\ r.chunks = 1
    /\ r.stage # "completing"
    /\ r.stage \in {"locking", "holding"} => r.made = Cardinality(Listed(s, r.saw))

ReindexCounts == \A p \in Procs : run[p] \in Working => Counted(run[p], store)

ServerType == client \in Clients \cup {Nobody} /\ lines \in Seq(Messages)

ServerInv ==
  ServerType /\ ProviderType /\ HostsType /\ Hands /\ ReindexCounts /\ OnlyExtractionMixes

(* The ways in which anything of Provider and Hosts moves.                 *)
Moves ==
  \/ \E p \in Procs : HostStep(p)
  \/ \E p \in Procs : ProviderStep(p)
  \/ \E p \in Procs, tool \in Tools, by \in Names, line \in Nat : Begin(p, tool, by, line)
  \/ \E p \in Procs : run[p].stage = "ended" /\ Release(p)
  \/ UNCHANGED <<provider, hosts>>

-----------------------------------------------------------------------------
(* Posts                                                                   *)

LEMMA OneMore == \A a, b \in Nat : (a + 1) * b = a * b + b /\ a * b \in Nat
  BY SMT

LEMMA FreshIsPatient == \A owed \in Nat : PatientPost(FreshPost(owed))
<1> SUFFICES ASSUME NEW owed \in Nat PROVE PatientPost(FreshPost(owed))
  OBVIOUS
<1>1. FreshPost(owed) \in Posts
  BY ProviderAssumption DEF FreshPost, Posts
<1>2. QED
  BY <1>1, ProviderAssumption DEF PatientPost, FreshPost, AtLeast

LEMMA SettledIsPatient == \A useful \in BOOLEAN, owed \in Nat : PatientPost(Settled(useful, owed))
  BY DEF PatientPost

(* What is known of a post by its stage.                                   *)
LEMMA PostIs ==
  ASSUME NEW q, PatientPost(q)
  PROVE  /\ q.stage \in {"ask", "wait"} => q \in Posts /\ Unslept(q) \in Nat
         /\ q.stage \in {"useful", "failed"} => q.owed \in Nat
<1>1. CASE q = NoPost
  BY <1>1 DEF NoPost
<1>2. CASE \E useful \in BOOLEAN, owed \in Nat : q = Settled(useful, owed)
  BY <1>2 DEF Settled
<1>3. CASE q \in Posts
  BY <1>3 DEF Posts, Unslept, AtLeast
<1>4. QED
  BY <1>1, <1>2, <1>3 DEF PatientPost

PostWith(q, stage, tried, delay, asked, slept, left, owed) ==
  [q EXCEPT !.stage = stage, !.tried = tried, !.delay = delay, !.asked = asked,
            !.slept = slept, !.left = left, !.owed = owed, !.spent = FALSE]

LEMMA RepliesKeepPatience ==
  ASSUME NEW q, PatientPost(q), q.stage = "ask", NEW r \in Replies
  PROVE  PatientPost(AfterReply(q, r))
<1> DEFINE left == IF r.after = {} THEN q.left ELSE CHOOSE h \in r.after : TRUE
           told == [q EXCEPT !.tried = @ + 1,
                             !.left = IF r.after = {} THEN @ ELSE CHOOSE h \in r.after : TRUE,
                             !.spent = @ \/ Final(r)]
           next == [told EXCEPT !.stage = "wait", !.asked = r.after]
<1>1. q \in Posts /\ q.tried < AtLeast(Attempts, 1) /\ q.delay <= MaxDelay /\ q.spent = FALSE
      /\ q.left = 0 /\ q.slept <= q.tried * MaxDelay
  BY DEF PatientPost, NoPost, Settled
<1>2. r.useful \in BOOLEAN /\ (r.after = {} \/ \E h \in Hints : r.after = {h})
  BY DEF Replies, Answers, Statuses, Failures
<1>3. q.tried \in Nat /\ q.slept \in Nat /\ q.delay \in Nat /\ q.owed \in Nat
  BY <1>1 DEF Posts
<1>4. left \in Nat
  BY <1>1, <1>2, ProviderAssumption
<1>5. CASE ~(told.tried < Attempts /\ WorthRepeating(r) /\ ~TooLong(r))
  <2>1. AfterReply(q, r) = Settled(r.useful, Unslept(told))
    BY <1>5 DEF AfterReply
  <2>2. told.left = left /\ told.owed = q.owed
    BY <1>1 DEF Posts
  <2> HIDE DEF told, left
  <2>3. Unslept(told) \in Nat
    BY <1>3, <1>4, <2>2 DEF Unslept, AtLeast
  <2>4. QED
    BY <1>2, <2>1, <2>3, SettledIsPatient
<1>6. CASE told.tried < Attempts /\ WorthRepeating(r) /\ ~TooLong(r)
  <2> DEFINE w == PostWith(q, "wait", q.tried + 1, q.delay, r.after, q.slept, left, q.owed)
  <2>1. AfterReply(q, r) = next
    BY <1>6 DEF AfterReply
  <2>2. (q.spent \/ Final(r)) = FALSE
    BY <1>1, <1>6 DEF WorthRepeating, Final
  <2>3. next = w
    BY <1>1, <2>2 DEF Posts, PostWith
  <2>4. told.tried = q.tried + 1
    BY <1>1 DEF Posts
  <2>5. r.after \in SUBSET Nat
    BY <1>2, ProviderAssumption
  <2>6. \/ r.after = {} /\ left = 0
        \/ \E h \in Nat : r.after = {h} /\ h <= MaxDelay /\ left = h
    BY <1>1, <1>2, <1>6, ProviderAssumption DEF TooLong
  <2>60. w = PostWith(q, "wait", q.tried + 1, q.delay, r.after, q.slept, left, q.owed)
    OBVIOUS
  <2> HIDE DEF left, next, told, w
  <2>7. /\ w \in Posts /\ w.stage = "wait" /\ w.tried = q.tried + 1 /\ w.delay = q.delay
        /\ w.asked = r.after /\ w.slept = q.slept /\ w.left = left /\ w.spent = FALSE
    <3>1. q.tried + 1 \in Nat
      BY <1>3
    <3>2. /\ w.stage = "wait" /\ w.tried = q.tried + 1 /\ w.delay = q.delay
          /\ w.asked = r.after /\ w.slept = q.slept /\ w.left = left /\ w.spent = FALSE
      BY <1>1, <2>60 DEF PostWith, Posts
    <3>3. w \in Posts
      BY <1>1, <1>3, <1>4, <2>5, <2>60, <3>1 DEF PostWith, Posts
    <3>4. QED
      BY <3>2, <3>3
  <2>8. (q.tried + 1) * MaxDelay = q.tried * MaxDelay + MaxDelay /\ q.tried * MaxDelay \in Nat
    BY <1>3, OneMore, ProviderAssumption
  <2>9. w.slept + MaxDelay <= w.tried * MaxDelay
    BY <1>1, <1>3, <2>7, <2>8, ProviderAssumption
  <2>10. w.tried < AtLeast(Attempts, 1)
    BY <1>3, <1>6, <2>4, <2>7, ProviderAssumption DEF AtLeast
  <2>11. PatientPost(w)
    BY <1>1, <2>6, <2>7, <2>9, <2>10 DEF PatientPost
  <2>12. QED
    BY <2>1, <2>3, <2>11
<1>7. QED
  BY <1>5, <1>6

LEMMA SleepKeepsPatience ==
  ASSUME NEW q, PatientPost(q), q.stage = "wait"
  PROVE  PatientPost(Slept(q))
<1> DEFINE wait == IF q.asked = {} THEN q.delay ELSE CHOOSE h \in q.asked : TRUE
           delay == AtMost(2 * q.delay, MaxDelay)
           w == PostWith(q, "ask", q.tried, delay, {}, q.slept + wait, Less(q.left, wait),
                         Less(q.owed, wait))
<1>1. /\ q \in Posts /\ q.tried < AtLeast(Attempts, 1) /\ q.delay <= MaxDelay /\ q.spent = FALSE
      /\ q.slept + MaxDelay <= q.tried * MaxDelay
      /\ \/ q.asked = {} /\ q.left = 0
         \/ \E h \in Nat : q.asked = {h} /\ h <= MaxDelay /\ q.left = h
  BY DEF PatientPost, NoPost, Settled
<1>2. q.tried \in Nat /\ q.slept \in Nat /\ q.delay \in Nat /\ q.left \in Nat /\ q.owed \in Nat
  BY <1>1 DEF Posts
<1>3. wait \in Nat /\ wait <= MaxDelay /\ q.left <= wait
  <2>1. CASE q.asked = {} /\ q.left = 0
    BY <1>1, <1>2, <2>1
  <2>2. ASSUME NEW h \in Nat, q.asked = {h}, h <= MaxDelay, q.left = h
        PROVE  wait = h
    BY <2>2
  <2>3. QED
    BY <1>1, <2>1, <2>2
<1>4. Slept(q) = w
  BY <1>1 DEF Slept, After, PostWith, Posts
<1> HIDE DEF wait
<1>5. delay \in Nat /\ delay <= MaxDelay
  BY <1>2, ProviderAssumption DEF AtMost
<1>6. Less(q.left, wait) = 0 /\ Less(q.owed, wait) \in Nat
  BY <1>2, <1>3 DEF Less
<1>60. w = PostWith(q, "ask", q.tried, delay, {}, q.slept + wait, Less(q.left, wait),
                    Less(q.owed, wait))
  OBVIOUS
<1> HIDE DEF delay, w
<1>7. /\ w \in Posts /\ w.stage = "ask" /\ w.tried = q.tried /\ w.delay = delay
      /\ w.slept = q.slept + wait /\ w.left = 0 /\ w.spent = FALSE
  <2>1. q.slept + wait \in Nat /\ Less(q.left, wait) \in Nat
    BY <1>2, <1>3, <1>6
  <2>2. /\ w.stage = "ask" /\ w.tried = q.tried /\ w.delay = delay
        /\ w.slept = q.slept + wait /\ w.left = Less(q.left, wait) /\ w.spent = FALSE
    BY <1>1, <1>60 DEF PostWith, Posts
  <2>3. w \in Posts
    BY <1>1, <1>2, <1>5, <1>6, <1>60, <2>1 DEF PostWith, Posts
  <2>4. QED
    BY <1>6, <2>2, <2>3
<1>8. q.tried * MaxDelay \in Nat
  BY <1>2, OneMore, ProviderAssumption
<1>9. w.slept <= w.tried * MaxDelay
  BY <1>1, <1>2, <1>3, <1>7, <1>8, ProviderAssumption
<1>10. QED
  BY <1>1, <1>4, <1>5, <1>7, <1>9 DEF PatientPost

(* Every step leaves every post a patient one.                             *)
LEMMA PostsStayPatient ==
  ASSUME ProviderType, Moves
  PROVE  ProviderType'
<1> USE DEF ProviderType
<1>1. ASSUME NEW p \in Procs, NEW q, PatientPost(q), post' = [post EXCEPT ![p] = q],
             agent' \in [Procs -> BOOLEAN]
      PROVE  ProviderType'
  BY <1>1
<1>2. PatientPost(NoPost) /\ 0 \in Nat
  BY DEF PatientPost
<1>3. ASSUME NEW p \in Procs, HostStep(p) PROVE ProviderType'
  <2>1. CASE List(p) \/ Acquire(p) \/ TimeOut(p) \/ Finish(p)
    BY <2>1 DEF List, Acquire, TimeOut, Finish, provider
  <2>2. CASE Plan(p)
    <3>1. \/ UNCHANGED provider
          \/ post' = [post EXCEPT ![p] = FreshPost(0)] /\ UNCHANGED agent
      BY <2>2 DEF Plan
    <3>2. QED
      BY <3>1, <1>1, <1>2, FreshIsPatient DEF provider
  <2>3. CASE TakeReply(p)
    <3>1. PICK r : Advance(p, r)
      BY <2>3 DEF TakeReply
    <3>2. post[p].owed \in Nat
      BY <2>3, PostIs DEF TakeReply
    <3> DEFINE q == IF r.stage \in {"completing", "embedding"} THEN FreshPost(post[p].owed) ELSE NoPost
    <3>3. PatientPost(q)
      BY <1>2, <3>2, FreshIsPatient
    <3>4. post' = [post EXCEPT ![p] = q]
      BY <3>1 DEF Advance
    <3>5. agent' \in [Procs -> BOOLEAN]
      BY <3>1 DEF Advance
    <3> HIDE DEF q
    <3>6. QED
      BY <3>3, <3>4, <3>5, <1>1
  <2>4. QED
    BY <1>3, <2>1, <2>2, <2>3 DEF HostStep
<1>4. ASSUME NEW p \in Procs, ProviderStep(p) PROVE ProviderType'
  <2>1. CASE Ask(p) /\ CannotBuild(p)
    <3>1. Unslept(post[p]) \in Nat
      BY <2>1, PostIs DEF Ask
    <3>2. post' = [post EXCEPT ![p] = Settled(FALSE, Unslept(post[p]))] /\ UNCHANGED agent
      BY <2>1 DEF CannotBuild
    <3>3. PatientPost(Settled(FALSE, Unslept(post[p])))
      BY <3>1, SettledIsPatient
    <3>4. QED
      BY <3>2, <3>3, <1>1
  <2>2. CASE Ask(p) /\ Send(p)
    <3>1. PICK r \in Replies : post' = [post EXCEPT ![p] = AfterReply(post[p], r)]
      BY <2>2 DEF Send
    <3>2. PatientPost(AfterReply(post[p], r))
      BY <2>2, RepliesKeepPatience DEF Ask
    <3>3. QED
      BY <2>2, <3>1, <3>2, <1>1 DEF Send
  <2>3. CASE Sleep(p)
    <3>1. PatientPost(Slept(post[p]))
      BY <2>3, SleepKeepsPatience DEF Sleep
    <3>2. QED
      BY <2>3, <3>1, <1>1 DEF Sleep
  <2>4. QED
    BY <1>4, <2>1, <2>2, <2>3 DEF ProviderStep, PostsStep, Ask
<1>5. CASE \E p \in Procs, tool \in Tools, by \in Names, line \in Nat : Begin(p, tool, by, line)
  BY <1>5 DEF Begin, provider
<1>6. CASE \E p \in Procs : run[p].stage = "ended" /\ Release(p)
  BY <1>6 DEF Release, provider
<1>7. CASE UNCHANGED <<provider, hosts>>
  BY <1>7 DEF provider
<1>8. QED
  BY <1>3, <1>4, <1>5, <1>6, <1>7 DEF Moves

-----------------------------------------------------------------------------
(* Commands                                                                *)

LEMMA WorkingIs ==
  ASSUME NEW r \in Runs, r.stage \notin {"idle", "ended"}
  PROVE  r \in Working
  BY DEF Runs, Endings

(* What a command that goes on becomes.                                    *)
WorkWith(r, stage, texts, saw, chunks, made, part) ==
  [r EXCEPT !.stage = stage, !.texts = texts, !.saw = saw, !.chunks = chunks,
            !.made = made, !.part = part]

LEMMA EndedOf ==
  ASSUME NEW r \in Working, NEW ok \in BOOLEAN
  PROVE  Ended(r, ok) \in Endings /\ Ended(r, ok).stage = "ended" /\ Ended(r, ok) \notin Working
  BY DEF Working, Endings, Ended

LEMMA OnwardsWorks ==
  ASSUME NEW r \in Working, r.stage \in {"completing", "embedding"}
  PROVE  /\ r.texts > 0 => Onwards(r) = WorkWith(r, "embedding", r.texts, r.saw, r.chunks, r.made, r.part)
         /\ r.texts = 0 =>
              \E stage \in {"locking", "completing"} :
                /\ Onwards(r) = WorkWith(r, stage, 0, r.saw, r.chunks - 1, r.made + r.part, 0)
                /\ stage = "locking" <=> r.chunks = 1
<1>1. CASE r.texts > 0
  <2>1. Onwards(r) = [r EXCEPT !.stage = "embedding"]
    BY <1>1 DEF Onwards
  <2>2. [r EXCEPT !.stage = "embedding"]
          = WorkWith(r, "embedding", r.texts, r.saw, r.chunks, r.made, r.part)
    BY DEF WorkWith, Working
  <2>3. r.texts # 0
    BY <1>1 DEF Working
  <2>4. QED
    BY <1>1, <2>1, <2>2, <2>3
<1>2. CASE r.texts = 0
  <2> DEFINE whole == [r EXCEPT !.chunks = @ - 1, !.made = @ + r.part, !.part = 0]
             stage == IF whole.chunks = 0 THEN "locking" ELSE "completing"
  <2>1. Onwards(r) = [whole EXCEPT !.stage = stage]
    BY <1>2 DEF Onwards
  <2>2. whole.chunks = r.chunks - 1
    BY DEF Working
  <2>3. [whole EXCEPT !.stage = stage]
          = WorkWith(r, stage, 0, r.saw, r.chunks - 1, r.made + r.part, 0)
    BY <1>2, <2>2 DEF Working, WorkWith
  <2>4. stage = "locking" <=> r.chunks = 1
    BY <2>2 DEF Working
  <2>5. QED
    BY <1>2, <2>1, <2>3, <2>4
<1>3. QED
  BY <1>1, <1>2 DEF Working

LEMMA SameListing ==
  ASSUME NEW s \in Seq(Batches), NEW t \in Seq(Batches), Len(s) <= Len(t),
         \A i \in 1..Len(s) : t[i].vectors = s[i].vectors,
         NEW n \in Nat, n <= Len(s)
  PROVE  Listed(t, n) = Listed(s, n)
  BY DEF Listed

LEMMA CountedStays ==
  ASSUME NEW s \in Seq(Batches), NEW t \in Seq(Batches), Len(s) <= Len(t),
         \A i \in 1..Len(s) : t[i].vectors = s[i].vectors,
         NEW r \in Working, Counted(r, s)
  PROVE  Counted(r, t)
<1>1. r.saw \in Nat /\ Len(s) \in Nat /\ Len(t) \in Nat
  BY DEF Working
<1>2. r.saw <= Len(s) => Listed(t, r.saw) = Listed(s, r.saw)
  BY <1>1, SameListing
<1>3. QED
  BY <1>1, <1>2 DEF Counted

LEMMA ListedIsCounted ==
  ASSUME NEW s \in Seq(Batches), NEW n \in Nat
  PROVE  IsFiniteSet(Listed(s, n)) /\ Cardinality(Listed(s, n)) \in Nat
<1>1. IsFiniteSet(1..n)
  BY FS_Interval
<1>2. Listed(s, n) \subseteq 1..n
  BY DEF Listed
<1>3. QED
  BY <1>1, <1>2, FS_Subset, FS_CardinalityType

HostsInv == HostsType /\ Hands /\ ReindexCounts /\ OnlyExtractionMixes

(* A step that moves one command and leaves the store as it is.            *)
LEMMA RunMoves ==
  ASSUME HostsInv, NEW p \in Procs, NEW r \in Runs, run' = [run EXCEPT ![p] = r],
         UNCHANGED <<embedder, keySet, store>>,
         NEW h \in {"no", "shared", "alone"}, held' = [held EXCEPT ![p] = h],
         \A q \in Procs \ {p} : post'[q] = post[q],
         h # "no" => r.stage = "holding",
         post'[p].stage # "none" => r.stage \in {"completing", "embedding"},
         r.stage = "embedding" => r.texts > 0,
         r \in Working => Counted(r, store)
  PROVE  HostsInv'
<1> USE DEF HostsInv
<1>1. /\ run'[p] = r /\ \A q \in Procs \ {p} : run'[q] = run[q]
      /\ held'[p] = h /\ \A q \in Procs \ {p} : held'[q] = held[q]
  BY DEF HostsType
<1>2. HostsType'
  BY DEF HostsType
<1>3. Hands'
  BY <1>1 DEF Hands
<1>4. ReindexCounts'
  BY <1>1 DEF ReindexCounts
<1>5. OnlyExtractionMixes'
  BY DEF OnlyExtractionMixes, Indexed
<1>6. QED
  BY <1>2, <1>3, <1>4, <1>5

(* What a command is before a step of its own.                             *)
LEMMA AtWork ==
  ASSUME HostsInv, NEW p \in Procs, run[p].stage \notin {"idle", "ended"}
  PROVE  /\ run[p] \in Working /\ Counted(run[p], store)
         /\ run[p].texts \in Nat /\ run[p].saw \in Nat /\ run[p].chunks \in Int
         /\ run[p].made \in Nat /\ run[p].part \in Nat /\ run[p].tool \in Tools
         /\ run[p].stage # "holding" => held[p] = "no"
         /\ run[p].stage \notin {"completing", "embedding"} => post[p].stage = "none"
         /\ run[p].stage = "embedding" => run[p].texts > 0
<1>1. run[p] \in Working
  BY WorkingIs DEF HostsInv, HostsType
<1>2. Counted(run[p], store)
  BY <1>1 DEF HostsInv, ReindexCounts
<1>3. QED
  BY <1>1, <1>2 DEF Working, HostsInv, Hands, HostsType

LEMMA RefusingKeeps ==
  ASSUME HostsInv, NEW p \in Procs, run[p].stage \in {"listing", "planning", "locking"}, Refuse(p),
         UNCHANGED <<embedder, keySet, held, store>>, UNCHANGED provider
  PROVE  HostsInv'
<1>1. run[p] \in Working /\ held[p] = "no" /\ post[p].stage = "none"
  BY AtWork
<1> DEFINE r == Ended(run[p], FALSE)
<1>2. r \in Runs /\ r \notin Working /\ r.stage = "ended"
  BY <1>1, EndedOf DEF Runs
<1>3. run' = [run EXCEPT ![p] = r]
  BY DEF Refuse
<1>4. held' = [held EXCEPT ![p] = "no"]
  BY <1>1 DEF HostsInv, HostsType
<1>5. post' = post
  BY DEF provider
<1> HIDE DEF r
<1>6. QED
  BY <1>1, <1>2, <1>3, <1>4, <1>5, RunMoves

LEMMA ListingKeeps ==
  ASSUME HostsInv, NEW p \in Procs, List(p)
  PROVE  HostsInv'
<1>1. /\ run[p].stage = "listing" /\ UNCHANGED <<embedder, keySet, held, store>>
      /\ UNCHANGED provider
  BY DEF List
<1>2. /\ run[p] \in Working /\ held[p] = "no" /\ post[p].stage = "none"
      /\ run[p].texts \in Nat /\ run[p].saw \in Nat /\ run[p].chunks \in Int
      /\ run[p].made \in Nat /\ run[p].part \in Nat /\ Counted(run[p], store)
  BY <1>1, AtWork
<1>3. held' = [held EXCEPT ![p] = "no"] /\ post' = post
  BY <1>1, <1>2 DEF HostsInv, HostsType, provider
<1>4. ASSUME NEW r, r \in Working, r.stage = "planning", run' = [run EXCEPT ![p] = r],
             Counted(r, store)
      PROVE  HostsInv'
  <2>1. r \in Runs
    BY <1>4 DEF Runs
  <2>2. QED
    BY <1>1, <1>2, <1>3, <1>4, <2>1, RunMoves
<1>5. ASSUME run[p].tool = "ingest", NEW n \in 1..MaxChunks,
             run' = [run EXCEPT ![p] = [run[p] EXCEPT !.stage = "planning", !.chunks = n]]
      PROVE  HostsInv'
  <2> DEFINE r == WorkWith(run[p], "planning", run[p].texts, run[p].saw, n, run[p].made, run[p].part)
  <2>0. run[p].tool = "ingest" /\ n \in Int
    BY <1>5
  <2>1. r \in Working /\ r.stage = "planning" /\ r.tool = "ingest"
    BY <1>2, <2>0 DEF Working, WorkWith
  <2>2. [run[p] EXCEPT !.stage = "planning", !.chunks = n] = r
    BY <1>2 DEF WorkWith, Working
  <2>3. Counted(r, store)
    BY <2>1 DEF Counted
  <2> HIDE DEF r
  <2>4. QED
    BY <2>1, <2>2, <2>3, <1>4, <1>5
<1>6. ASSUME run[p].tool = "reindex",
             run' = [run EXCEPT ![p] = [run[p] EXCEPT !.stage = "planning",
                                          !.texts = Cardinality(Indexed), !.saw = Len(store)]]
      PROVE  HostsInv'
  <2> DEFINE n == Cardinality(Indexed)
             r == WorkWith(run[p], "planning", n, Len(store), run[p].chunks, run[p].made, run[p].part)
  <2>1. store \in Seq(Batches) /\ Len(store) \in Nat /\ DOMAIN store = 1..Len(store)
    BY DEF HostsInv, HostsType
  <2>2. Indexed = Listed(store, Len(store))
    BY <2>1 DEF Indexed, Listed
  <2>3. n \in Nat
    BY <2>1, <2>2, ListedIsCounted
  <2>0. run[p].tool = "reindex"
    BY <1>6
  <2> HIDE DEF n
  <2>4. /\ r \in Working /\ r.stage = "planning" /\ r.tool = "reindex" /\ r.texts = n
        /\ r.saw = Len(store) /\ r.chunks = run[p].chunks /\ r.made = run[p].made
        /\ r.part = run[p].part
    BY <1>2, <2>0, <2>1, <2>3 DEF Working, WorkWith
  <2>5. [run[p] EXCEPT !.stage = "planning", !.texts = n, !.saw = Len(store)] = r
    BY <1>2 DEF WorkWith, Working
  <2>6. Counted(r, store)
    <3>1. run[p].made = 0 /\ run[p].part = 0 /\ run[p].chunks = 1
      BY <1>1, <1>2, <2>0 DEF Counted
    <3>2. n = Cardinality(Listed(store, Len(store)))
      BY <2>2 DEF n
    <3> HIDE DEF r
    <3>3. QED
      BY <2>1, <2>4, <3>1, <3>2 DEF Counted
  <2> HIDE DEF r
  <2>7. QED
    BY <2>4, <2>5, <2>6, <1>4, <1>6 DEF n
<1>7. CASE Refuse(p)
  BY <1>1, <1>7, RefusingKeeps
<1>8. QED
  BY <1>5, <1>6, <1>7 DEF List

(* A step that leaves every lock as it was.                                *)
LEMMA HandsFree ==
  ASSUME HostsInv, NEW p \in Procs, held[p] = "no", NEW r \in Working \cup Endings,
         run' = [run EXCEPT ![p] = r], UNCHANGED <<embedder, keySet, held, store>>,
         \A q \in Procs \ {p} : post'[q] = post[q],
         post'[p].stage # "none" => r.stage \in {"completing", "embedding"},
         r.stage = "embedding" => r.texts > 0,
         r \in Working => Counted(r, store)
  PROVE  HostsInv'
<1>1. held' = [held EXCEPT ![p] = "no"] /\ r \in Runs
  BY DEF HostsInv, HostsType, Runs
<1>2. QED
  BY <1>1, RunMoves

LEMMA PlanningKeeps ==
  ASSUME HostsInv, ProviderType, NEW p \in Procs, Plan(p)
  PROVE  HostsInv'
<1>1. run[p].stage = "planning" /\ UNCHANGED <<embedder, keySet, held, store>>
  BY DEF Plan
<1>2. /\ run[p] \in Working /\ Counted(run[p], store) /\ held[p] = "no" /\ post[p].stage = "none"
      /\ run[p].texts \in Nat
  BY <1>1, AtWork
<1>3. CASE Refuse(p) /\ UNCHANGED provider
  BY <1>1, <1>3, RefusingKeeps
<1>4. CASE /\ NeedsProvider(run[p])
           /\ run' = [run EXCEPT ![p] = [@ EXCEPT !.stage =
                        IF run[p].tool \in Extracting THEN "completing" ELSE "embedding"]]
           /\ post' = [post EXCEPT ![p] = FreshPost(0)]
  <2> DEFINE stage == IF run[p].tool \in Extracting THEN "completing" ELSE "embedding"
             r == [run[p] EXCEPT !.stage = stage]
  <2>1. run' = [run EXCEPT ![p] = r]
    BY <1>4
  <2>2. /\ r \in Working /\ r.stage = stage /\ r.tool = run[p].tool /\ r.texts = run[p].texts
        /\ r.saw = run[p].saw /\ r.chunks = run[p].chunks /\ r.made = run[p].made
        /\ r.part = run[p].part
    BY <1>2 DEF Working
  <2>3. \A q \in Procs \ {p} : post'[q] = post[q]
    BY <1>4 DEF ProviderType
  <2>4. stage \in {"completing", "embedding"}
    OBVIOUS
  <2>5. stage = "embedding" => run[p].texts > 0
    <3>1. stage = "embedding" => run[p].texts # 0
      BY <1>4 DEF NeedsProvider
    <3>2. QED
      BY <1>2, <3>1
  <2>6. r.tool = "reindex" => stage = "embedding"
    BY <2>2 DEF Extracting
  <2>7. Counted(r, store)
    <3>1. run[p].tool = "reindex" =>
            /\ run[p].saw <= Len(store) /\ run[p].texts = Cardinality(Listed(store, run[p].saw))
            /\ run[p].made = 0 /\ run[p].part = 0 /\ run[p].chunks = 1
      BY <1>1, <1>2 DEF Counted
    <3> HIDE DEF r, stage
    <3>2. QED
      BY <1>2, <2>2, <2>6, <3>1 DEF Counted
  <2> HIDE DEF r, stage
  <2>8. QED
    BY <1>1, <1>2, <2>1, <2>2, <2>3, <2>4, <2>5, <2>7, HandsFree
<1>5. CASE /\ run' = [run EXCEPT ![p] = [@ EXCEPT !.stage = "locking", !.made = run[p].texts]]
           /\ UNCHANGED provider
  <2> DEFINE r == [run[p] EXCEPT !.stage = "locking", !.made = run[p].texts]
  <2>1. run' = [run EXCEPT ![p] = r]
    BY <1>5
  <2>2. /\ r \in Working /\ r.stage = "locking" /\ r.tool = run[p].tool
        /\ r.saw = run[p].saw /\ r.made = run[p].texts
    BY <1>2 DEF Working
  <2>3. Counted(r, store)
    <3>1. run[p].tool = "reindex" =>
            run[p].saw <= Len(store) /\ run[p].texts = Cardinality(Listed(store, run[p].saw))
      BY <1>1, <1>2 DEF Counted
    <3> HIDE DEF r
    <3>2. QED
      BY <2>2, <3>1 DEF Counted
  <2>4. post' = post
    BY <1>5 DEF provider
  <2> HIDE DEF r
  <2>5. QED
    BY <1>1, <1>2, <2>1, <2>2, <2>3, <2>4, HandsFree
<1>6. QED
  BY <1>3, <1>4, <1>5 DEF Plan

LEMMA AdvancingKeeps ==
  ASSUME HostsInv, ProviderType, NEW p \in Procs, held[p] = "no", NEW r \in Working \cup Endings,
         Advance(p, r), UNCHANGED <<embedder, keySet, held, store>>,
         r.stage = "embedding" => r.texts > 0,
         r \in Working => Counted(r, store)
  PROVE  HostsInv'
<1>1. run' = [run EXCEPT ![p] = r]
  BY DEF Advance
<1>2. /\ \A q \in Procs \ {p} : post'[q] = post[q]
      /\ post'[p] = IF r.stage \in {"completing", "embedding"} THEN FreshPost(post[p].owed) ELSE NoPost
  BY DEF Advance, ProviderType
<1>3. post'[p].stage # "none" => r.stage \in {"completing", "embedding"}
  BY <1>2 DEF NoPost
<1>4. QED
  BY <1>1, <1>2, <1>3, HandsFree

(* What is made and left to make of a reindex does not change as it goes.  *)
LEMMA OnwardsCounts ==
  ASSUME NEW s, NEW r \in Working, r.stage \in {"completing", "embedding"},
         r.tool = "reindex" =>
           /\ r.saw <= Len(s) /\ r.texts + r.part = Cardinality(Listed(s, r.saw))
           /\ r.made = 0 /\ r.chunks = 1
  PROVE  LET w == Onwards(r) IN
         w \in Working /\ (w.stage = "embedding" => w.texts > 0) /\ Counted(w, s)
<1> DEFINE w == Onwards(r)
<1>1. r.texts \in Nat /\ r.saw \in Nat /\ r.chunks \in Int /\ r.made \in Nat /\ r.part \in Nat
  BY DEF Working
<1>2. CASE r.texts > 0
  <2>1. w = WorkWith(r, "embedding", r.texts, r.saw, r.chunks, r.made, r.part)
    BY <1>2, OnwardsWorks
  <2>2. /\ w \in Working /\ w.stage = "embedding" /\ w.tool = r.tool /\ w.texts = r.texts
        /\ w.saw = r.saw /\ w.chunks = r.chunks /\ w.made = r.made /\ w.part = r.part
    BY <1>1, <2>1 DEF Working, WorkWith
  <2> HIDE DEF w
  <2>3. Counted(w, s)
    BY <1>1, <2>2 DEF Counted
  <2>4. QED
    BY <1>2, <2>2, <2>3 DEF w
<1>3. CASE r.texts = 0
  <2>1. PICK stage \in {"locking", "completing"} :
          /\ w = WorkWith(r, stage, 0, r.saw, r.chunks - 1, r.made + r.part, 0)
          /\ stage = "locking" <=> r.chunks = 1
    BY <1>3, OnwardsWorks
  <2> DEFINE chunks == r.chunks - 1
             made == r.made + r.part
  <2>2. chunks \in Int /\ made \in Nat /\ w = WorkWith(r, stage, 0, r.saw, chunks, made, 0)
    BY <1>1, <2>1
  <2> HIDE DEF chunks, made, w
  <2>3. /\ w \in Working /\ w.stage = stage /\ w.tool = r.tool /\ w.texts = 0
        /\ w.saw = r.saw /\ w.made = made
    BY <1>1, <2>2 DEF Working, WorkWith
  <2>4. Counted(w, s)
    BY <1>1, <1>3, <2>1, <2>3 DEF Counted, made
  <2>5. w.stage # "embedding"
    BY <2>1, <2>3
  <2>6. QED
    BY <2>3, <2>4, <2>5 DEF w
<1>4. QED
  BY <1>1, <1>2, <1>3

LEMMA TakingKeeps ==
  ASSUME HostsInv, ProviderType, NEW p \in Procs, TakeReply(p)
  PROVE  HostsInv'
<1>1. /\ post[p].stage \in {"useful", "failed"} /\ UNCHANGED <<embedder, keySet, held, store>>
  BY DEF TakeReply
<1>2. run[p].stage \in {"completing", "embedding"}
  BY <1>1 DEF HostsInv, Hands
<1>3. /\ run[p] \in Working /\ Counted(run[p], store) /\ held[p] = "no"
      /\ run[p].texts \in Nat /\ run[p].part \in Nat /\ run[p].saw \in Nat
      /\ run[p].stage = "embedding" => run[p].texts > 0
  BY <1>2, AtWork
<1>4. run[p].tool = "reindex" =>
        /\ run[p].stage = "embedding" /\ run[p].saw <= Len(store)
        /\ run[p].texts + run[p].part = Cardinality(Listed(store, run[p].saw))
        /\ run[p].made = 0 /\ run[p].chunks = 1
  BY <1>2, <1>3 DEF Counted
<1>5. ASSUME NEW r \in Working, r.stage \in {"completing", "embedding"}, Advance(p, Onwards(r)),
             r.tool = "reindex" =>
               /\ r.saw <= Len(store) /\ r.texts + r.part = Cardinality(Listed(store, r.saw))
               /\ r.made = 0 /\ r.chunks = 1
      PROVE  HostsInv'
  <2> DEFINE w == Onwards(r)
  <2>1. w \in Working /\ (w.stage = "embedding" => w.texts > 0) /\ Counted(w, store)
    BY <1>5, OnwardsCounts
  <2>2. Advance(p, w)
    BY <1>5
  <2> HIDE DEF w
  <2>3. QED
    BY <1>1, <1>3, <2>1, <2>2, AdvancingKeeps
<1>6. CASE run[p].tool = "ingest" /\ Advance(p, Without(run[p]))
  <2> DEFINE r == [run[p] EXCEPT !.texts = 0, !.part = 0]
  <2>1. r \in Working /\ r.stage = run[p].stage /\ r.tool = run[p].tool
    BY <1>3 DEF Working
  <2>2. Advance(p, Onwards(r)) /\ run[p].tool # "reindex"
    BY <1>6 DEF Without
  <2> HIDE DEF r
  <2>3. QED
    BY <1>2, <1>5, <2>1, <2>2
<1>7. CASE Advance(p, Ended(run[p], FALSE))
  <2> DEFINE r == Ended(run[p], FALSE)
  <2>1. r \in Endings /\ r.stage = "ended" /\ r \notin Working
    BY <1>3, EndedOf
  <2>2. Advance(p, r)
    BY <1>7
  <2> HIDE DEF r
  <2>3. QED
    BY <1>1, <1>3, <2>1, <2>2, AdvancingKeeps
<1>8. ASSUME run[p].stage = "completing", NEW n \in 0..MaxTexts,
             Advance(p, Onwards([run[p] EXCEPT !.texts = n]))
      PROVE  HostsInv'
  <2> DEFINE r == [run[p] EXCEPT !.texts = n]
  <2>0. n \in Nat
    BY <1>8, HostsAssumption
  <2>1. r \in Working /\ r.stage = run[p].stage /\ r.tool = run[p].tool
    BY <1>3, <2>0 DEF Working
  <2>2. Advance(p, Onwards(r)) /\ run[p].tool # "reindex"
    BY <1>4, <1>8
  <2> HIDE DEF r
  <2>3. QED
    BY <1>2, <1>5, <2>1, <2>2
<1>9. ASSUME run[p].stage = "embedding",
             Advance(p, Onwards([run[p] EXCEPT !.texts = @ - 1, !.part = @ + 1]))
      PROVE  HostsInv'
  <2> DEFINE r == [run[p] EXCEPT !.texts = @ - 1, !.part = @ + 1]
  <2>0. run[p].texts - 1 \in Nat /\ run[p].part + 1 \in Nat
    BY <1>3, <1>9
  <2>1. /\ r \in Working /\ r.stage = "embedding" /\ r.tool = run[p].tool
        /\ r.texts = run[p].texts - 1 /\ r.part = run[p].part + 1 /\ r.saw = run[p].saw
        /\ r.made = run[p].made /\ r.chunks = run[p].chunks
    BY <1>3, <1>9, <2>0 DEF Working
  <2>2. Advance(p, Onwards(r))
    BY <1>9
  <2> HIDE DEF r
  <2>3. r.texts + r.part = run[p].texts + run[p].part
    BY <1>3, <2>1
  <2>4. QED
    BY <1>4, <1>5, <2>1, <2>2, <2>3
<1>10. QED
  BY <1>6, <1>7, <1>8, <1>9 DEF TakeReply

LEMMA AcquiringKeeps ==
  ASSUME HostsInv, NEW p \in Procs, Acquire(p)
  PROVE  HostsInv'
<1> DEFINE r == [run[p] EXCEPT !.stage = "holding"]
           h == IF Mutates(run[p].tool) THEN "alone" ELSE "shared"
<1>1. /\ run[p].stage = "locking" /\ UNCHANGED <<embedder, keySet, store>> /\ post' = post
      /\ held' = [held EXCEPT ![p] = h] /\ run' = [run EXCEPT ![p] = r]
  BY DEF Acquire, provider
<1>2. /\ run[p] \in Working /\ Counted(run[p], store) /\ post[p].stage = "none"
      /\ run[p].saw \in Nat
  BY <1>1, AtWork
<1>3. /\ r \in Working /\ r.stage = "holding" /\ r.tool = run[p].tool
      /\ r.saw = run[p].saw /\ r.made = run[p].made
  BY <1>2 DEF Working
<1>4. run[p].tool = "reindex" =>
        run[p].saw <= Len(store) /\ run[p].made = Cardinality(Listed(store, run[p].saw))
  BY <1>1, <1>2 DEF Counted
<1>5. h \in {"no", "shared", "alone"} /\ r \in Runs
  BY <1>3 DEF Runs
<1> HIDE DEF r, h
<1>6. Counted(r, store)
  BY <1>3, <1>4 DEF Counted
<1>7. QED
  BY <1>1, <1>2, <1>3, <1>5, <1>6, RunMoves

LEMMA SequenceOf ==
  ASSUME NEW S, NEW n \in Nat, NEW f \in [1..n -> S]
  PROVE  f \in Seq(S) /\ Len(f) = n
  OBVIOUS

(* A batch is written at the end, of vectors of the kind its plan was for, *)
(* and a reindex changes nothing of those before it but their kind.        *)
LEMMA ChangingKeeps ==
  ASSUME HostsInv, NEW p \in Procs, run[p] \in Working, Change(p), UNCHANGED <<embedder, keySet>>
  PROVE  /\ store' \in Seq(Batches) /\ Len(store) <= Len(store')
         /\ \A i \in 1..Len(store) : store'[i].vectors = store[i].vectors
         /\ OnlyExtractionMixes'
<1>1. /\ store \in Seq(Batches) /\ embedder \in {"http", "local"}
      /\ \A i \in DOMAIN store :
           store[i].vectors > 0 => store[i].kind = embedder \/ store[i].tool \in Extracting
  BY DEF HostsInv, HostsType, OnlyExtractionMixes, Indexed
<1>2. CASE store' = Append(store, Batch(run[p]))
  <2> DEFINE b == Batch(run[p])
  <2>1. /\ b \in Batches /\ (b.kind = embedder \/ b.tool \in Extracting)
    <3>1. KindOf(run[p].tool) \in {"http", "local"}
      BY <1>1 DEF KindOf
    <3>2. KindOf(run[p].tool) = embedder \/ run[p].tool \in Extracting
      BY DEF KindOf
    <3>3. Nobody \in Names
      BY DEF Names
    <3>4. QED
      BY <3>1, <3>2, <3>3 DEF Batch, Batches, Working
  <2> HIDE DEF b
  <2>2. /\ store' \in Seq(Batches) /\ Len(store') = Len(store) + 1 /\ Len(store) \in Nat
        /\ \A i \in 1..Len(store) : store'[i] = store[i]
        /\ store'[Len(store) + 1] = b
    BY <1>1, <1>2, <2>1 DEF b
  <2>3. \A i \in DOMAIN store' : i \in 1..Len(store) \/ i = Len(store) + 1
    BY <2>2
  <2>4. OnlyExtractionMixes'
    BY <1>1, <2>1, <2>2, <2>3 DEF OnlyExtractionMixes, Indexed
  <2>5. QED
    BY <2>2, <2>4
<1>3. CASE store' = [i \in DOMAIN store |->
                      [store[i] EXCEPT !.kind = IF i <= run[p].saw THEN embedder ELSE @]]
  <2>1. /\ DOMAIN store' = DOMAIN store /\ Len(store) \in Nat /\ DOMAIN store = 1..Len(store)
        /\ \A i \in DOMAIN store :
             store'[i] = [store[i] EXCEPT !.kind = IF i <= run[p].saw THEN embedder ELSE @]
    BY <1>1, <1>3
  <2>2. \A i \in 1..Len(store) : store[i] \in Batches
    BY <1>1
  <2>3. \A i \in 1..Len(store) :
          /\ store'[i] \in Batches /\ store'[i].vectors = store[i].vectors
          /\ store'[i].tool = store[i].tool /\ store'[i].kind \in {embedder, store[i].kind}
    <3> SUFFICES ASSUME NEW i \in 1..Len(store)
                 PROVE  /\ store'[i] \in Batches /\ store'[i].vectors = store[i].vectors
                        /\ store'[i].tool = store[i].tool
                        /\ store'[i].kind \in {embedder, store[i].kind}
      OBVIOUS
    <3>1. PICK k : k \in {embedder, store[i].kind} /\ store'[i] = [store[i] EXCEPT !.kind = k]
      BY <2>1
    <3>2. k \in {"http", "local"}
      BY <1>1, <2>2, <3>1 DEF Batches
    <3>3. QED
      BY <2>2, <3>1, <3>2 DEF Batches
  <2>4. store' = [i \in 1..Len(store) |-> store'[i]]
    BY <1>3, <2>1
  <2>5. store' \in Seq(Batches) /\ Len(store') = Len(store)
    <3>1. store' \in [1..Len(store) -> Batches]
      BY <2>3, <2>4
    <3>2. QED
      BY <2>1, <3>1, SequenceOf
  <2>6. OnlyExtractionMixes'
    BY <1>1, <2>1, <2>3 DEF OnlyExtractionMixes, Indexed
  <2>7. QED
    BY <2>1, <2>3, <2>5, <2>6
<1>4. CASE UNCHANGED store
  BY <1>1, <1>4 DEF OnlyExtractionMixes, Indexed
<1>5. QED
  BY <1>2, <1>3, <1>4 DEF Change

LEMMA FinishingKeeps ==
  ASSUME HostsInv, NEW p \in Procs, Finish(p)
  PROVE  HostsInv'
<1>1. /\ run[p].stage = "holding" /\ UNCHANGED <<embedder, keySet>> /\ post' = post
      /\ held' = [held EXCEPT ![p] = "no"]
  BY DEF Finish, provider
<1>2. run[p] \in Working /\ post[p].stage = "none" /\ store \in Seq(Batches) /\ Len(store) \in Nat
  BY <1>1, AtWork DEF HostsInv, HostsType
<1>3. /\ store' \in Seq(Batches) /\ Len(store) <= Len(store')
      /\ \A i \in 1..Len(store) : store'[i].vectors = store[i].vectors
      /\ OnlyExtractionMixes'
  <2>1. CASE Change(p)
    BY <1>1, <1>2, <2>1, ChangingKeeps
  <2>2. CASE UNCHANGED store
    BY <1>1, <1>2, <2>2 DEF HostsInv, OnlyExtractionMixes, Indexed
  <2>3. QED
    BY <2>1, <2>2 DEF Finish
<1>4. PICK ok \in BOOLEAN : run' = [run EXCEPT ![p] = Ended(run[p], ok)]
  BY DEF Finish, Refuse
<1> DEFINE r == Ended(run[p], ok)
<1>5. r \in Endings /\ r.stage = "ended" /\ r \notin Working /\ r \in Runs
  BY <1>2, EndedOf DEF Runs
<1>6. run' = [run EXCEPT ![p] = r]
  BY <1>4
<1> HIDE DEF r
<1>7. /\ run'[p] = r /\ \A q \in Procs \ {p} : run'[q] = run[q]
      /\ held'[p] = "no" /\ \A q \in Procs \ {p} : held'[q] = held[q]
  BY <1>1, <1>6 DEF HostsInv, HostsType
<1>8. HostsType'
  BY <1>1, <1>3, <1>5, <1>6 DEF HostsInv, HostsType
<1>9. Hands'
  BY <1>1, <1>2, <1>5, <1>7 DEF HostsInv, Hands
<1>10. ReindexCounts'
  <2>1. \A q \in Procs \ {p} : run[q] \in Working => Counted(run[q], store')
    BY <1>2, <1>3, CountedStays DEF HostsInv, ReindexCounts
  <2>2. QED
    BY <1>5, <1>7, <2>1 DEF ReindexCounts
<1>11. QED
  BY <1>3, <1>8, <1>9, <1>10 DEF HostsInv

LEMMA BeginningKeeps ==
  ASSUME HostsInv, NEW p \in Procs, NEW tool \in Tools, NEW by \in Names, NEW line \in Nat,
         Begin(p, tool, by, line)
  PROVE  HostsInv'
<1> DEFINE r == Fresh(tool, by, line)
<1>1. /\ run[p].stage = "idle" /\ UNCHANGED <<embedder, keySet, held, store>> /\ post' = post
      /\ run' = [run EXCEPT ![p] = r]
  BY DEF Begin, provider
<1>2. held[p] = "no" /\ post[p].stage = "none"
  BY <1>1 DEF HostsInv, HostsType, Hands
<1>3. /\ r \in Working /\ r.stage \in {"listing", "planning"} /\ r.tool = tool
      /\ r.made = 0 /\ r.part = 0 /\ r.chunks = 1 /\ (tool = "reindex" => r.stage = "listing")
  BY DEF Fresh, Working, ListsFirst
<1> HIDE DEF r
<1>4. Counted(r, store)
  BY <1>3 DEF Counted
<1>5. QED
  BY <1>1, <1>2, <1>3, <1>4, HandsFree

LEMMA ReleasingKeeps ==
  ASSUME HostsInv, NEW p \in Procs, run[p].stage = "ended", Release(p)
  PROVE  HostsInv'
<1>1. /\ UNCHANGED <<embedder, keySet, store>> /\ post' = post
      /\ held' = held /\ run' = [run EXCEPT ![p] = Idle]
  BY DEF Release, provider
<1>2. held[p] = "no" /\ post[p].stage = "none"
  BY DEF HostsInv, HostsType, Hands
<1>3. held' = [held EXCEPT ![p] = "no"]
  BY <1>1, <1>2 DEF HostsInv, HostsType
<1>4. Idle \in Runs /\ Idle.stage = "idle" /\ Idle \notin Working
  BY DEF Idle, Runs, Working
<1>5. QED
  BY <1>1, <1>2, <1>3, <1>4, RunMoves

LEMMA PostingKeeps ==
  ASSUME HostsInv, ProviderType, NEW p \in Procs, ProviderStep(p)
  PROVE  HostsInv'
<1>1. /\ UNCHANGED hosts
      /\ \A q \in Procs : post'[q].stage # "none" => post[q].stage # "none"
  <2>1. PICK r : post' = [post EXCEPT ![p] = r] /\ post[p].stage \in {"ask", "wait"} /\ UNCHANGED hosts
    BY DEF ProviderStep, PostsStep, Ask, CannotBuild, Send, Sleep
  <2>2. QED
    BY <2>1 DEF ProviderType
<1>2. QED
  BY <1>1 DEF hosts, HostsInv, HostsType, Hands, ReindexCounts, OnlyExtractionMixes, Indexed

LEMMA MovesKeep ==
  ASSUME HostsInv, ProviderType, Moves
  PROVE  HostsInv'
<1>1. ASSUME NEW p \in Procs, HostStep(p) PROVE HostsInv'
  <2>1. CASE TimeOut(p)
    BY <2>1, RefusingKeeps DEF TimeOut
  <2>2. QED
    BY <1>1, <2>1, ListingKeeps, PlanningKeeps, TakingKeeps, AcquiringKeeps, FinishingKeeps
    DEF HostStep
<1>2. CASE UNCHANGED <<provider, hosts>>
  BY <1>2 DEF provider, hosts, HostsInv, HostsType, Hands, ReindexCounts, OnlyExtractionMixes, Indexed
<1>3. QED
  BY <1>1, <1>2, PostingKeeps, BeginningKeeps, ReleasingKeeps DEF Moves

-----------------------------------------------------------------------------
(* The loop and the command line                                           *)

LEMMA CallsMove ==
  ASSUME ServerType, NEW m \in Messages, NEW n \in Nat, NEW era, CallTool(n, m, era)
  PROVE  Moves
<1>1. CASE UNCHANGED <<provider, hosts>>
  BY <1>1 DEF Moves
<1>2. CASE m.tool \in Offered /\ Begin(Mcp, m.tool, Author, n)
  <2>1. m.tool \in Tools
    BY <1>2, ServerAssumption DEF Required, Tools, Extracting, Embedding, Reviewing
  <2>2. Author \in Names /\ Mcp \in Procs
    BY ServerAssumption DEF Author, Names, ServerType
  <2>3. QED
    BY <1>2, <2>1, <2>2 DEF Moves
<1>3. QED
  BY <1>1, <1>2 DEF CallTool

LEMMA ReadingMoves ==
  ASSUME ServerType, NEW m \in Messages, Read(m)
  PROVE  ServerType' /\ Moves
<1>1. Len(lines) \in Nat /\ lines' \in Seq(Messages)
  BY DEF ServerType, Read
<1>2. client' = client \/ client' = m.from
  BY DEF Read, Handle, Dispatch, Initialize, KeepHandshake
<1>3. Moves
  <2>1. CASE UNCHANGED <<provider, hosts>>
    BY <2>1 DEF Moves
  <2>2. ASSUME NEW era, CallTool(Len(lines) + 1, m, era) PROVE Moves
    BY <1>1, <2>2, CallsMove
  <2>3. QED
    BY <2>1, <2>2 DEF Read, Handle, Dispatch
<1>4. QED
  BY <1>1, <1>2, <1>3, ServerAssumption DEF ServerType

LEMMA NextMoves ==
  ASSUME ServerType, [Next]_vars
  PROVE  ServerType' /\ Moves
<1>1. CASE \E m \in Messages : Read(m)
  BY <1>1, ReadingMoves
<1>2. CASE \E p \in Procs : HostStep(p) /\ UNCHANGED server
  BY <1>2 DEF Moves, server, ServerType
<1>3. CASE \E p \in Procs : ProviderStep(p) /\ UNCHANGED server
  BY <1>3 DEF Moves, server, ServerType
<1>4. CASE Respond
  BY <1>4, ServerAssumption DEF Respond, Moves, ServerType
<1>5. ASSUME NEW tool \in CliCommands, Invoke(tool) PROVE ServerType' /\ Moves
  <2>1. tool \in Tools /\ Cli \in Procs /\ Cli \in Names
    BY ServerAssumption DEF Names
  <2>2. QED
    BY <1>5, <2>1 DEF Invoke, Moves, ServerType
<1>6. CASE Exit
  BY <1>6, ServerAssumption DEF Exit, Moves, server, ServerType
<1>7. CASE UNCHANGED vars
  BY <1>7 DEF vars, server, Moves, ServerType
<1>8. QED
  BY <1>1, <1>2, <1>3, <1>4, <1>5, <1>6, <1>7 DEF Next

LEMMA ServerInvInit == Init => ServerInv
<1> SUFFICES ASSUME Init PROVE ServerInv
  OBVIOUS
<1> USE DEF Init, HostsInit
<1>1. ServerType
  BY DEF ServerType
<1>2. ProviderType
  BY DEF ProviderType, ProviderInit, NoPost, PatientPost
<1>3. HostsType
  BY DEF HostsType, Idle, Runs
<1>4. Hands
  BY DEF Hands, ProviderInit, NoPost, Idle
<1>5. ReindexCounts
  BY DEF ReindexCounts, Idle, Working
<1>6. OnlyExtractionMixes
  BY DEF OnlyExtractionMixes, Indexed
<1>7. QED
  BY <1>1, <1>2, <1>3, <1>4, <1>5, <1>6 DEF ServerInv

LEMMA ServerInvStep == ServerInv /\ [Next]_vars => ServerInv'
<1> SUFFICES ASSUME ServerInv, [Next]_vars PROVE ServerInv'
  OBVIOUS
<1>1. ServerType' /\ Moves
  BY NextMoves DEF ServerInv
<1>2. ProviderType'
  BY <1>1, PostsStayPatient DEF ServerInv
<1>3. HostsInv'
  BY <1>1, MovesKeep DEF ServerInv, HostsInv
<1>4. QED
  BY <1>1, <1>2, <1>3 DEF ServerInv, HostsInv

LEMMA ServerInvAlways == Spec => []ServerInv
  BY ServerInvInit, ServerInvStep, PTL DEF Spec

(* What a reindex made is every vector there is: it made as many as were   *)
(* listed, those it listed are still there, and there are no more.         *)
LEMMA CoversAll ==
  ASSUME HostsInv, NEW p \in Procs, run[p].stage = "holding", run[p].tool = "reindex", Covers(run[p])
  PROVE  Indexed = Listed(store, run[p].saw)
<1>1. run[p] \in Working /\ Counted(run[p], store) /\ run[p].saw \in Nat
  BY AtWork
<1>2. run[p].saw <= Len(store) /\ run[p].made = Cardinality(Listed(store, run[p].saw))
  BY <1>1 DEF Counted
<1>3. store \in Seq(Batches) /\ Len(store) \in Nat /\ DOMAIN store = 1..Len(store)
  BY DEF HostsInv, HostsType
<1>4. Indexed = Listed(store, Len(store))
  BY <1>3 DEF Indexed, Listed
<1>5. IsFiniteSet(Indexed)
  BY <1>3, <1>4, ListedIsCounted
<1>6. Listed(store, run[p].saw) \in SUBSET Indexed
  BY <1>1, <1>2, <1>3 DEF Listed, Indexed
<1>7. Cardinality(Indexed) = Cardinality(Listed(store, run[p].saw))
  BY <1>2 DEF Covers
<1>8. QED
  BY <1>5, <1>6, <1>7, FS_Subset

LEMMA RebuildsAll ==
  ASSUME HostsInv, Moves, NEW p \in Procs, Rebuilt(p)
  PROVE  \A i \in Indexed : store'[i].kind = embedder
<1>1. run[p].stage = "holding" /\ run'[p].stage = "ended" /\ run'[p].ok /\ run[p].tool = "reindex"
  BY DEF Rebuilt
<1>2. run[p] \in Working
  BY <1>1, AtWork
<1>3. ASSUME NEW q \in Procs, NEW r, run' = [run EXCEPT ![q] = r], run[q].stage # "holding"
      PROVE  FALSE
  BY <1>1, <1>3 DEF HostsInv, HostsType
<1>4. Finish(p)
  <2>1. ASSUME NEW q \in Procs, HostStep(q) PROVE Finish(p)
    <3>1. CASE List(q) \/ Plan(q) \/ Acquire(q) \/ TimeOut(q)
      <4>1. run[q].stage # "holding" /\ \E r : run' = [run EXCEPT ![q] = r]
        BY <3>1 DEF List, Plan, Acquire, TimeOut, Refuse
      <4>2. QED
        BY <4>1, <1>3
    <3>2. CASE TakeReply(q)
      <4>1. run[q].stage # "holding"
        BY <3>2 DEF TakeReply, HostsInv, Hands
      <4>2. \E r : run' = [run EXCEPT ![q] = r]
        BY <3>2 DEF TakeReply, Advance
      <4>3. QED
        BY <4>1, <4>2, <1>3
    <3>3. CASE Finish(q)
      <4>1. \E r : run' = [run EXCEPT ![q] = r]
        BY <3>3 DEF Finish, Refuse
      <4>2. q = p
        BY <1>1, <4>1 DEF HostsInv, HostsType
      <4>3. QED
        BY <3>3, <4>2
    <3>4. QED
      BY <2>1, <3>1, <3>2, <3>3 DEF HostStep
  <2>2. ~UNCHANGED run
    BY <1>1
  <2>3. ASSUME NEW q \in Procs PROVE ~ProviderStep(q)
    BY <2>2 DEF ProviderStep, hosts
  <2>4. ASSUME NEW q \in Procs, NEW tool, NEW by, NEW line PROVE ~Begin(q, tool, by, line)
    BY <1>3 DEF Begin
  <2>5. ASSUME NEW q \in Procs, run[q].stage = "ended" PROVE ~Release(q)
    BY <2>5, <1>3 DEF Release
  <2>6. QED
    BY <2>1, <2>2, <2>3, <2>4, <2>5 DEF Moves, hosts
<1>5. Change(p)
  <2>1. ~Refuse(p)
    BY <1>1 DEF Refuse, Ended, HostsInv, HostsType
  <2>2. QED
    BY <1>4, <2>1 DEF Finish
<1>6. /\ Covers(run[p])
      /\ store' = [i \in DOMAIN store |->
                    [store[i] EXCEPT !.kind = IF i <= run[p].saw THEN embedder ELSE @]]
  BY <1>1, <1>5 DEF Change, Mutates
<1>7. Indexed = Listed(store, run[p].saw)
  BY <1>1, <1>6, CoversAll
<1>8. store \in Seq(Batches) /\ run[p].saw \in Nat
  BY <1>2 DEF HostsInv, HostsType, Working
<1>9. ASSUME NEW i \in Indexed PROVE store'[i].kind = embedder
  <2>1. i \in 1..run[p].saw /\ i \in DOMAIN store
    BY <1>7 DEF Listed, Indexed
  <2>2. i <= run[p].saw /\ store[i] \in Batches
    BY <1>8, <2>1
  <2>3. store'[i] = [store[i] EXCEPT !.kind = embedder]
    BY <1>6, <2>1, <2>2
  <2>4. QED
    BY <2>2, <2>3 DEF Batches
<1>10. QED
  BY <1>9

(* Only what was extracted was ever embedded by another embedder than the  *)
(* one configured, and a reindex that succeeds leaves the vectors of one,  *)
(* though it read the texts under one lock and commits under another.      *)
THEOREM OneKindOfVector == Spec => VectorsOfOneKind
<1>1. ServerInv /\ ServerInv' /\ [Next]_vars =>
        [/\ OnlyExtractionMixes'
         /\ \A p \in Procs : Rebuilt(p) => \A i \in Indexed : store'[i].kind = embedder]_hosts
  <2> SUFFICES ASSUME ServerInv, ServerInv', [Next]_vars
               PROVE  /\ OnlyExtractionMixes'
                      /\ \A p \in Procs : Rebuilt(p) =>
                           \A i \in Indexed : store'[i].kind = embedder
    OBVIOUS
  <2>1. HostsInv /\ Moves /\ OnlyExtractionMixes'
    BY NextMoves DEF ServerInv, HostsInv
  <2>2. QED
    BY <2>1, RebuildsAll
<1>2. QED
  BY <1>1, ServerInvAlways, PTL DEF Spec, VectorsOfOneKind

-----------------------------------------------------------------------------
(* Lines and answers                                                       *)

(* What was said by the first lines, of as many as there are.              *)
Shaken(ls, n) ==
  LET shakes == {i \in 1..(n - 1) : ShookHands(ls[i])}
  IN {ls[i] : i \in {i \in shakes : \A j \in shakes : j <= i}}

Signer(ls, n) ==
  LET named == {s.from : s \in Shaken(ls, n)} \ {Nobody}
  IN IF named = {} THEN Mcp ELSE CHOOSE c \in named : TRUE

(* Who what is written for a line is recorded against.                     *)
Signature(ls, n) == IF ls[n].tool = "resolve" THEN Nobody ELSE Signer(ls, n)

(* What is kept of the handshake is the last line that made one.           *)
Kept(ls, neg, cl) ==
  \/ Shaken(ls, Len(ls) + 1) = {} /\ neg = Nobody /\ cl = Nobody
  \/ \E s \in Messages : /\ Shaken(ls, Len(ls) + 1) = {s}
                         /\ neg = Negotiate(s.asks) /\ cl = s.from

(* An answer that its line's sender reads, on the id of the line.          *)
Reads(a, ls) ==
  LET m == ls[a.to] IN
  /\ a.structured =>
       \/ m.envelope = "current"
       \/ \A s \in Shaken(ls, a.to) : s.asks \in Structured \/ s.asks \notin Revisions
  /\ (m.is = "message" /\ m.envelope = "current" /\ m.method # "initialize" /\ a.is # "error") => a.stamped
  /\ (m.is = "message" /\ m.envelope = "none" /\ m.method # "discover") => ~a.stamped

OnItsLine(a, ls) ==
  /\ a.named <=> (ls[a.to].is = "message" /\ ls[a.to].id = "given")
  /\ Reads(a, ls)

LEMMA ShakenStays ==
  ASSUME NEW ls \in Seq(Messages), NEW m \in Messages, NEW n \in 1..(Len(ls) + 1)
  PROVE  Shaken(Append(ls, m), n) = Shaken(ls, n)
<1> DEFINE k == Append(ls, m)
           old == {i \in 1..(n - 1) : ShookHands(ls[i])}
           new == {i \in 1..(n - 1) : ShookHands(k[i])}
<1>1. \A i \in 1..(n - 1) : k[i] = ls[i]
  OBVIOUS
<1>2. new = old
  BY <1>1
<1>3. {k[i] : i \in {i \in new : \A j \in new : j <= i}} = {ls[i] : i \in {i \in old : \A j \in old : j <= i}}
  <2> HIDE DEF k
  <2>1. QED
    BY <1>1, <1>2
<1>4. QED
  BY <1>3 DEF Shaken

LEMMA ShakenByLine ==
  ASSUME NEW ls \in Seq(Messages), NEW m \in Messages
  PROVE  Shaken(Append(ls, m), Len(ls) + 2) = IF ShookHands(m) THEN {m} ELSE Shaken(ls, Len(ls) + 1)
<1> DEFINE k == Append(ls, m)
           n == Len(ls) + 1
           old == {i \in 1..(n - 1) : ShookHands(ls[i])}
           new == {i \in 1..n : ShookHands(k[i])}
           last(S) == {i \in S : \A j \in S : j <= i}
<1>1. Len(ls) \in Nat /\ k[n] = m /\ \A i \in 1..(n - 1) : k[i] = ls[i]
  OBVIOUS
<1> HIDE DEF k
<1>2. CASE ShookHands(m)
  <2>1. n \in new /\ \A j \in new : j <= n
    BY <1>1, <1>2
  <2>2. last(new) = {n}
    BY <1>1, <2>1
  <2>3. {k[i] : i \in last(new)} = {m}
    BY <1>1, <2>2
  <2>4. QED
    BY <1>1, <1>2, <2>3 DEF Shaken, k
<1>3. CASE ~ShookHands(m)
  <2>1. new = old
    BY <1>1, <1>3
  <2>2. {k[i] : i \in last(new)} = {ls[i] : i \in last(old)}
    BY <1>1, <2>1
  <2>3. QED
    BY <1>1, <1>3, <2>2 DEF Shaken, k
<1>4. QED
  BY <1>2, <1>3

LEMMA AnswerStays ==
  ASSUME NEW ls \in Seq(Messages), NEW m \in Messages, NEW a, a.to \in 1..Len(ls)
  PROVE  OnItsLine(a, Append(ls, m)) <=> OnItsLine(a, ls)
<1>1. Append(ls, m)[a.to] = ls[a.to] /\ a.to \in 1..(Len(ls) + 1)
  OBVIOUS
<1>2. Shaken(Append(ls, m), a.to) = Shaken(ls, a.to)
  BY <1>1, ShakenStays
<1>3. QED
  BY <1>1, <1>2 DEF OnItsLine, Reads

LEMMA StillSettled ==
  ASSUME NEW ls \in Seq(Messages), NEW m \in Messages, NEW neg, NEW cl, Kept(ls, neg, cl), ~ShookHands(m)
  PROVE  Kept(Append(ls, m), neg, cl)
<1>1. Len(Append(ls, m)) = Len(ls) + 1 /\ Len(ls) \in Nat
  OBVIOUS
<1>2. Shaken(Append(ls, m), Len(ls) + 2) = Shaken(ls, Len(ls) + 1)
  BY ShakenByLine
<1>3. QED
  BY <1>1, <1>2 DEF Kept

LEMMA NewlySettled ==
  ASSUME NEW ls \in Seq(Messages), NEW m \in Messages, ShookHands(m)
  PROVE  Kept(Append(ls, m), Negotiate(m.asks), m.from)
<1>1. Len(Append(ls, m)) = Len(ls) + 1 /\ Len(ls) \in Nat
  OBVIOUS
<1>2. Shaken(Append(ls, m), Len(ls) + 2) = {m}
  BY ShakenByLine
<1>3. QED
  BY <1>1, <1>2 DEF Kept

(* What the era of a line lets its answer carry, its sender reads.         *)
LEMMA EraIsRead ==
  ASSUME NEW ls \in Seq(Messages), NEW n \in 1..Len(ls), NEW neg,
         \/ Shaken(ls, n) = {} /\ neg = Nobody
         \/ \E s \in Messages : Shaken(ls, n) = {s} /\ neg = Negotiate(s.asks),
         EraOf(ls[n], neg) # Refused
  PROVE  /\ ls[n].method # "initialize" => OnItsLine(Answered(n, ls[n], EraOf(ls[n], neg)), ls)
         /\ OnItsLine(Result(n, ls[n], EraOf(ls[n], neg)), ls)
         /\ OnItsLine(Declined(n, ls[n], EraOf(ls[n], neg)), ls)
<1> DEFINE m == ls[n]
           era == EraOf(m, neg)
<1>1. Legacy[1] \in Revisions /\ Nobody \notin Revisions /\ Modern \notin Revisions
      /\ Structured \subseteq Revisions
  <2>1. Legacy[1] \in Revisions
    BY ServerAssumption DEF Revisions
  <2>2. QED
    BY <2>1, ServerAssumption
<1>2. \A asked : Negotiate(asked) \in Revisions
  BY <1>1 DEF Negotiate
<1>3. neg = Nobody \/ neg \in Revisions
  BY <1>2
<1>4. era = Modern <=> m.method # "initialize" /\ m.envelope = "current"
  BY <1>1, <1>3 DEF EraOf
<1>5. m.method # "initialize" /\ m.envelope # "current" /\ era \in Structured =>
        \A s \in Shaken(ls, n) : s.asks \in Structured \/ s.asks \notin Revisions
  <2>1. SUFFICES ASSUME m.method # "initialize", m.envelope # "current", era \in Structured,
                        NEW s \in Messages, Shaken(ls, n) = {s}, neg = Negotiate(s.asks),
                        s.asks \in Revisions
                 PROVE  s.asks \in Structured
    BY <1>1
  <2>2. neg = s.asks /\ neg # Nobody
    BY <1>1, <2>1 DEF Negotiate
  <2>3. QED
    BY <1>1, <2>1, <2>2 DEF EraOf
<1>6. QED
  BY <1>1, <1>4, <1>5 DEF OnItsLine, Reads, Answered, Result, Declined, Answer, Modern

Spoken ==
  [to : Nat, named : BOOLEAN, is : {"error", "refusal", "result"}, structured : BOOLEAN,
   stamped : BOOLEAN]

Due(ls, busy) == {n \in DOMAIN ls : Owed(ls[n])} \ busy

Told(ls, ans, busy) ==
  /\ ans \in Seq(Spoken)
  /\ Len(ans) = Cardinality(Due(ls, busy))
  /\ \A k \in 1..Len(ans) :
       /\ ans[k].to \in Due(ls, busy) /\ OnItsLine(ans[k], ls)
       /\ \A j \in 1..(k - 1) : ans[j].to < ans[k].to

LEMMA DueIsFinite ==
  ASSUME NEW ls \in Seq(Messages), NEW busy
  PROVE  /\ IsFiniteSet(Due(ls, busy)) /\ Cardinality(Due(ls, busy)) \in Nat
         /\ Due(ls, busy) \subseteq 1..Len(ls)
<1>1. Due(ls, busy) \subseteq 1..Len(ls) /\ Len(ls) \in Nat
  BY DEF Due
<1>2. IsFiniteSet(1..Len(ls))
  BY <1>1, FS_Interval
<1>3. QED
  BY <1>1, <1>2, FS_Subset, FS_CardinalityType

LEMMA ToldIs ==
  ASSUME NEW ls, NEW ans, NEW busy, Told(ls, ans, busy)
  PROVE  /\ ans \in Seq(Spoken) /\ Len(ans) \in Nat
         /\ Len(ans) = Cardinality(Due(ls, busy))
         /\ \A k \in 1..Len(ans) : ans[k] \in Spoken /\ ans[k].to \in Due(ls, busy)
         /\ \A k \in 1..Len(ans) : OnItsLine(ans[k], ls)
         /\ \A k \in 1..Len(ans) : \A j \in 1..(k - 1) : ans[j].to < ans[k].to
<1>1. ans \in Seq(Spoken)
  BY DEF Told
<1>2. Len(ans) \in Nat /\ \A k \in 1..Len(ans) : ans[k] \in Spoken
  BY <1>1
<1>3. \A k \in 1..Len(ans) : ans[k].to \in Due(ls, busy)
  BY DEF Told
<1>4. \A k \in 1..Len(ans) : OnItsLine(ans[k], ls)
  BY DEF Told
<1>5. \A k \in 1..Len(ans) : \A j \in 1..(k - 1) : ans[j].to < ans[k].to
  BY DEF Told
<1>6. Len(ans) = Cardinality(Due(ls, busy))
  BY DEF Told
<1>7. QED
  BY <1>1, <1>2, <1>3, <1>4, <1>5, <1>6

(* One answer more, to a line that is owed one and comes after the others. *)
LEMMA OneMoreTold ==
  ASSUME NEW ls \in Seq(Messages), NEW busy, NEW ans, Told(ls, ans, busy),
         NEW ms \in Seq(Messages), NEW a \in Spoken,
         \A n \in Due(ls, busy) : n < a.to,
         Due(ms, {}) = Due(ls, busy) \cup {a.to},
         \A k \in 1..Len(ans) : OnItsLine(ans[k], ms),
         OnItsLine(a, ms)
  PROVE  Told(ms, Append(ans, a), {})
<1> DEFINE all == Append(ans, a)
<1>1. /\ ans \in Seq(Spoken) /\ Len(ans) \in Nat
      /\ Len(ans) = Cardinality(Due(ls, busy))
  BY ToldIs
<1>2. \A k \in 1..Len(ans) : ans[k] \in Spoken /\ ans[k].to \in Due(ls, busy)
  BY ToldIs
<1>3. \A k \in 1..Len(ans) : \A j \in 1..(k - 1) : ans[j].to < ans[k].to
  BY ToldIs
<1>4. /\ all \in Seq(Spoken) /\ Len(all) = Len(ans) + 1 /\ all[Len(ans) + 1] = a
      /\ \A k \in 1..Len(ans) : all[k] = ans[k]
  BY <1>1
<1>5. a.to \notin Due(ls, busy) /\ IsFiniteSet(Due(ls, busy))
  <2>1. IsFiniteSet(Due(ls, busy))
    BY DueIsFinite
  <2>2. a.to \in Nat
    BY DEF Spoken
  <2>3. QED
    BY <2>1, <2>2
<1>6. Cardinality(Due(ms, {})) = Len(ans) + 1
  <2>1. Cardinality(Due(ls, busy) \cup {a.to}) = Cardinality(Due(ls, busy)) + 1
    BY <1>5, FS_AddElement
  <2>2. QED
    BY <1>1, <2>1
<1>7. \A k \in 1..Len(all) : k \in 1..Len(ans) \/ k = Len(ans) + 1
  BY <1>1, <1>4
<1> HIDE DEF all
<1>8. \A k \in 1..Len(all) : all[k].to \in Due(ms, {})
  BY <1>2, <1>4, <1>7
<1>9. \A k \in 1..Len(all) : OnItsLine(all[k], ms)
  BY <1>4, <1>7
<1>10. \A k \in 1..Len(all) : \A j \in 1..(k - 1) : all[j].to < all[k].to
  <2>1. SUFFICES ASSUME NEW k \in 1..Len(all), NEW j \in 1..(k - 1) PROVE all[j].to < all[k].to
    OBVIOUS
  <2>2. j \in 1..Len(ans)
    BY <1>1, <1>4
  <2>3. CASE k \in 1..Len(ans)
    BY <1>3, <1>4, <2>2, <2>3
  <2>4. CASE k = Len(ans) + 1
    BY <1>2, <1>4, <2>2, <2>4
  <2>5. QED
    BY <1>7, <2>3, <2>4
<1>11. QED
  BY <1>4, <1>6, <1>8, <1>9, <1>10 DEF Told, all

LEMMA AnsweredAtOnce ==
  ASSUME NEW ls \in Seq(Messages), NEW ans, Told(ls, ans, {}), NEW m \in Messages, Owed(m),
         NEW a \in Spoken, a.to = Len(ls) + 1, OnItsLine(a, Append(ls, m))
  PROVE  Told(Append(ls, m), Append(ans, a), {})
<1> DEFINE k == Append(ls, m)
<1>1. k \in Seq(Messages) /\ Len(ls) \in Nat /\ Len(k) = Len(ls) + 1 /\ k[Len(ls) + 1] = m
      /\ \A n \in 1..Len(ls) : k[n] = ls[n]
  OBVIOUS
<1>2. Due(ls, {}) \subseteq 1..Len(ls)
  BY DueIsFinite
<1>3. \A i \in 1..Len(ans) : OnItsLine(ans[i], k)
  <2>1. \A i \in 1..Len(ans) : ans[i].to \in 1..Len(ls) /\ OnItsLine(ans[i], ls)
    BY <1>2, ToldIs
  <2>2. QED
    BY <2>1, AnswerStays
<1> HIDE DEF k
<1>4. Due(k, {}) = Due(ls, {}) \cup {a.to}
  BY <1>1 DEF Due
<1>5. \A n \in Due(ls, {}) : n < a.to
  BY <1>1, <1>2
<1>6. OnItsLine(a, k)
  BY <1>1 DEF k
<1>7. Told(k, Append(ans, a), {})
  BY <1>1, <1>3, <1>4, <1>5, <1>6, OneMoreTold
<1>8. QED
  BY <1>7 DEF k

LEMMA AnsweredLate ==
  ASSUME NEW ls \in Seq(Messages), NEW ans, Len(ls) # 0, Told(ls, ans, {Len(ls)}), Owed(ls[Len(ls)]),
         NEW a \in Spoken, a.to = Len(ls), OnItsLine(a, ls)
  PROVE  Told(ls, Append(ans, a), {})
<1>1. Len(ls) \in Nat /\ Due(ls, {Len(ls)}) \subseteq 1..Len(ls)
  BY DueIsFinite
<1>2. Due(ls, {}) = Due(ls, {Len(ls)}) \cup {a.to}
  BY DEF Due
<1>3. \A n \in Due(ls, {Len(ls)}) : n < a.to
  BY <1>1 DEF Due
<1>4. \A k \in 1..Len(ans) : OnItsLine(ans[k], ls)
  BY ToldIs
<1>5. QED
  BY <1>2, <1>3, <1>4, OneMoreTold

(* A line that is owed nothing, or nothing yet.                            *)
LEMMA NotAnswered ==
  ASSUME NEW ls \in Seq(Messages), NEW ans, Told(ls, ans, {}), NEW m \in Messages, NEW busy,
         busy = {Len(ls) + 1} \/ (busy = {} /\ ~Owed(m))
  PROVE  Told(Append(ls, m), ans, busy)
<1> DEFINE k == Append(ls, m)
<1>1. k \in Seq(Messages) /\ Len(ls) \in Nat /\ Len(k) = Len(ls) + 1 /\ k[Len(ls) + 1] = m
      /\ \A n \in 1..Len(ls) : k[n] = ls[n]
  OBVIOUS
<1>2. Due(ls, {}) \subseteq 1..Len(ls)
  BY DueIsFinite
<1>3. \A i \in 1..Len(ans) : OnItsLine(ans[i], k)
  <2>1. \A i \in 1..Len(ans) : ans[i].to \in 1..Len(ls) /\ OnItsLine(ans[i], ls)
    BY <1>2, ToldIs
  <2>2. QED
    BY <2>1, AnswerStays
<1> HIDE DEF k
<1>4. Due(k, busy) = Due(ls, {})
  BY <1>1 DEF Due
<1>5. /\ ans \in Seq(Spoken) /\ Len(ans) = Cardinality(Due(ls, {}))
      /\ \A i \in 1..Len(ans) : ans[i].to \in Due(ls, {})
      /\ \A i \in 1..Len(ans) : \A j \in 1..(i - 1) : ans[j].to < ans[i].to
  BY ToldIs
<1>6. Told(k, ans, busy)
  BY <1>3, <1>4, <1>5 DEF Told
<1>7. QED
  BY <1>6 DEF k

LEMMA ShakenSkips ==
  ASSUME NEW ls \in Seq(Messages), NEW n \in 1..Len(ls), ~ShookHands(ls[n])
  PROVE  Shaken(ls, n + 1) = Shaken(ls, n)
<1>1. {i \in 1..n : ShookHands(ls[i])} = {i \in 1..(n - 1) : ShookHands(ls[i])}
  OBVIOUS
<1>2. (n + 1) - 1 = n
  OBVIOUS
<1>3. QED
  BY <1>1, <1>2 DEF Shaken

LEMMA SignedNow ==
  ASSUME NEW ls, NEW neg, Kept(ls, neg, client)
  PROVE  Author = Signer(ls, Len(ls) + 1)
<1>1. CASE Shaken(ls, Len(ls) + 1) = {} /\ client = Nobody
  BY <1>1 DEF Signer, Author
<1>2. ASSUME NEW s \in Messages, Shaken(ls, Len(ls) + 1) = {s}, client = s.from
      PROVE  Author = Signer(ls, Len(ls) + 1)
  <2>1. {x.from : x \in Shaken(ls, Len(ls) + 1)} = {client}
    BY <1>2
  <2>2. CASE client = Nobody
    BY <2>1, <2>2 DEF Signer, Author
  <2>3. CASE client # Nobody
    <3>1. {x.from : x \in Shaken(ls, Len(ls) + 1)} \ {Nobody} = {client}
      BY <2>1, <2>3
    <3>2. (CHOOSE c \in {client} : TRUE) = client
      OBVIOUS
    <3>3. QED
      BY <2>3, <3>1, <3>2 DEF Signer, Author
  <2>4. QED
    BY <2>2, <2>3
<1>3. QED
  BY <1>1, <1>2 DEF Kept

(* The call under way is the last line read, and the command line's        *)
(* commands are for no line.                                               *)
Carried(r, ls, neg) ==
  r.stage # "idle" =>
    LET m == ls[Len(ls)] IN
    /\ Len(ls) # 0 /\ r.line = Len(ls) /\ r.tool = m.tool /\ r.by = Signer(ls, Len(ls))
    /\ m.is = "message" /\ m.id = "given" /\ m.wellFormed /\ m.method = "call"
    /\ m.tool \in Offered /\ EraOf(m, neg) # Refused

ForNoLine(r) == r.stage # "idle" => r.line = 0

Signed(st, ls) ==
  \A i \in DOMAIN st :
    st[i].line \in 0..Len(ls) /\ (st[i].line > 0 => st[i].by = Signature(ls, st[i].line))

WrittenFor(st, n) == \E i \in DOMAIN st : st[i].line = n

Says(a, ls, st) ==
  LET m == ls[a.to] IN
  (m.is = "message" /\ m.method = "call" /\ a.is # "error")
    => (a.is = "result" /\ m.tool \in Writing <=> WrittenFor(st, a.to))

WillSay(r, st) ==
  r.stage # "idle" =>
    (WrittenFor(st, r.line) <=> (r.stage = "ended" /\ r.ok = TRUE /\ r.tool \in Writing))

LineInv ==
  /\ Kept(lines, negotiated, client)
  /\ Told(lines, answers, UnderWay)
  /\ Carried(run[Mcp], lines, negotiated) /\ ForNoLine(run[Cli])
  /\ Signed(store, lines)
  /\ \A k \in 1..Len(answers) : Says(answers[k], lines, store)
  /\ WillSay(run[Mcp], store)

(* A command that goes on, or ends with nothing done.                      *)
GoesOn(q, r) ==
  /\ q.stage # "idle" /\ ~(q.stage = "ended" /\ q.ok = TRUE)
  /\ q.line = r.line /\ q.tool = r.tool /\ q.by = r.by

LEMMA WorkGoesOn ==
  ASSUME NEW r \in Working, NEW stage, stage # "idle", stage # "ended", NEW texts, NEW saw,
         NEW chunks, NEW made, NEW part
  PROVE  GoesOn(WorkWith(r, stage, texts, saw, chunks, made, part), r)
  BY DEF Working, WorkWith, GoesOn

LEMMA StagedGoesOn ==
  ASSUME NEW r \in Working, NEW stage, stage # "idle", stage # "ended"
  PROVE  GoesOn([r EXCEPT !.stage = stage], r)
  BY DEF Working, GoesOn

LEMMA EndedGoesOn == ASSUME NEW r PROVE GoesOn(Ended(r, FALSE), r)
  BY DEF Ended, GoesOn

LEMMA OnwardsGoesOn ==
  ASSUME NEW r \in Working, r.stage \in {"completing", "embedding"}
  PROVE  GoesOn(Onwards(r), r)
<1>1. CASE r.texts > 0
  BY <1>1, OnwardsWorks, WorkGoesOn
<1>2. CASE r.texts = 0
  BY <1>2, OnwardsWorks, WorkGoesOn
<1>3. QED
  BY <1>1, <1>2 DEF Working

LEMMA GoesOnFrom ==
  ASSUME NEW a, NEW b, NEW c, GoesOn(a, b), b.line = c.line, b.tool = c.tool, b.by = c.by
  PROVE  GoesOn(a, c)
  BY DEF GoesOn

LEMMA CommandGoesOn ==
  ASSUME HostsInv, NEW p \in Procs, List(p) \/ Plan(p) \/ TakeReply(p) \/ Acquire(p) \/ TimeOut(p)
  PROVE  /\ run[p].stage \notin {"idle", "ended"} /\ store' = store
         /\ \E q : run' = [run EXCEPT ![p] = q] /\ GoesOn(q, run[p])
<1>1. run[p].stage \notin {"idle", "ended"} /\ store' = store
  BY DEF List, Plan, TakeReply, Acquire, TimeOut, HostsInv, Hands
<1>2. run[p] \in Working
  BY <1>1, AtWork
<1> DEFINE r == run[p]
           On == \E q : run' = [run EXCEPT ![p] = q] /\ GoesOn(q, r)
<1>3. Refuse(p) => On
  BY EndedGoesOn DEF Refuse
<1>4. ASSUME List(p) PROVE On
  <2>1. ASSUME NEW n \in 1..MaxChunks,
               run' = [run EXCEPT ![p] = [r EXCEPT !.stage = "planning", !.chunks = n]]
        PROVE  On
    <3>1. GoesOn([r EXCEPT !.stage = "planning", !.chunks = n], r)
      BY <1>2 DEF Working, GoesOn
    <3>2. QED
      BY <2>1, <3>1
  <2>2. ASSUME run' = [run EXCEPT ![p] = [r EXCEPT !.stage = "planning",
                                            !.texts = Cardinality(Indexed), !.saw = Len(store)]]
        PROVE  On
    <3>1. GoesOn([r EXCEPT !.stage = "planning", !.texts = Cardinality(Indexed), !.saw = Len(store)], r)
      BY <1>2 DEF Working, GoesOn
    <3>2. QED
      BY <2>2, <3>1
  <2>3. \/ \E n \in 1..MaxChunks : run' = [run EXCEPT ![p] = [r EXCEPT !.stage = "planning", !.chunks = n]]
        \/ run' = [run EXCEPT ![p] = [r EXCEPT !.stage = "planning",
                                        !.texts = Cardinality(Indexed), !.saw = Len(store)]]
        \/ Refuse(p)
    BY <1>4 DEF List
  <2>4. QED
    BY <1>3, <2>1, <2>2, <2>3
<1>5. ASSUME Plan(p) PROVE On
  <2>1. ASSUME NEW stage \in {"completing", "embedding"}, run' = [run EXCEPT ![p] = [r EXCEPT !.stage = stage]]
        PROVE  On
    BY <1>2, <2>1, StagedGoesOn
  <2>2. ASSUME run' = [run EXCEPT ![p] = [r EXCEPT !.stage = "locking", !.made = r.texts]]
        PROVE  On
    <3>1. GoesOn([r EXCEPT !.stage = "locking", !.made = r.texts], r)
      BY <1>2 DEF Working, GoesOn
    <3>2. QED
      BY <2>2, <3>1
  <2>3. \/ \E stage \in {"completing", "embedding"} : run' = [run EXCEPT ![p] = [r EXCEPT !.stage = stage]]
        \/ run' = [run EXCEPT ![p] = [r EXCEPT !.stage = "locking", !.made = r.texts]]
        \/ Refuse(p)
    <3>1. ASSUME run' = [run EXCEPT ![p] = [r EXCEPT !.stage = IF r.tool \in Extracting THEN "completing" ELSE "embedding"]]
          PROVE  \E stage \in {"completing", "embedding"} : run' = [run EXCEPT ![p] = [r EXCEPT !.stage = stage]]
      BY <3>1
    <3>2. QED
      BY <1>5, <3>1 DEF Plan
  <2>4. QED
    BY <1>3, <2>1, <2>2, <2>3
<1>6. ASSUME TakeReply(p) PROVE On
  <2>0. r.stage \in {"completing", "embedding"}
    BY <1>6 DEF TakeReply, HostsInv, Hands
  <2>1. ASSUME NEW w \in Working, w.stage = r.stage, w.line = r.line, w.tool = r.tool, w.by = r.by,
               Advance(p, Onwards(w))
        PROVE  On
    <3>1. GoesOn(Onwards(w), w)
      BY <2>0, <2>1, OnwardsGoesOn
    <3>2. GoesOn(Onwards(w), r)
      BY <2>1, <3>1, GoesOnFrom
    <3>3. QED
      BY <2>1, <3>2 DEF Advance
  <2>2. ASSUME Advance(p, Without(r)) PROVE On
    <3> DEFINE w == [r EXCEPT !.texts = 0, !.part = 0]
    <3>1. w \in Working /\ w.stage = r.stage /\ w.line = r.line /\ w.tool = r.tool /\ w.by = r.by
      BY <1>2 DEF Working
    <3>2. Advance(p, Onwards(w))
      BY <2>2 DEF Without
    <3> HIDE DEF w
    <3>3. QED
      BY <2>1, <3>1, <3>2
  <2>3. ASSUME Advance(p, Ended(r, FALSE)) PROVE On
    BY <2>3, EndedGoesOn DEF Advance
  <2>4. ASSUME NEW n \in 0..MaxTexts, Advance(p, Onwards([r EXCEPT !.texts = n]))
        PROVE  On
    <3> DEFINE w == [r EXCEPT !.texts = n]
    <3>0. n \in Nat
      BY HostsAssumption
    <3>1. w \in Working /\ w.stage = r.stage /\ w.line = r.line /\ w.tool = r.tool /\ w.by = r.by
      BY <1>2, <3>0 DEF Working
    <3>2. Advance(p, Onwards(w))
      BY <2>4
    <3> HIDE DEF w
    <3>3. QED
      BY <2>1, <3>1, <3>2
  <2>5. ASSUME r.stage = "embedding", Advance(p, Onwards([r EXCEPT !.texts = @ - 1, !.part = @ + 1]))
        PROVE  On
    <3> DEFINE w == [r EXCEPT !.texts = @ - 1, !.part = @ + 1]
    <3>0. r.texts \in Nat /\ r.texts > 0 /\ r.part \in Nat
      BY <2>5, AtWork
    <3>01. r.texts - 1 \in Nat /\ r.part + 1 \in Nat
      BY <3>0
    <3>1. w \in Working /\ w.stage = r.stage /\ w.line = r.line /\ w.tool = r.tool /\ w.by = r.by
      BY <1>2, <3>01 DEF Working
    <3>2. Advance(p, Onwards(w))
      BY <2>5
    <3> HIDE DEF w
    <3>3. QED
      BY <2>1, <3>1, <3>2
  <2>6. QED
    BY <1>6, <2>2, <2>3, <2>4, <2>5 DEF TakeReply
<1>7. ASSUME Acquire(p) PROVE On
  BY <1>2, <1>7, StagedGoesOn DEF Acquire
<1>8. ASSUME TimeOut(p) PROVE On
  BY <1>3, <1>8 DEF TimeOut
<1>9. QED
  BY <1>1, <1>4, <1>5, <1>6, <1>7, <1>8

(* What a step of a command does to it and to the store: it goes on, or    *)
(* makes its change and says so.                                           *)
LEMMA CommandStep ==
  ASSUME HostsInv, NEW p \in Procs, HostStep(p)
  PROVE  /\ run[p] \in Working /\ \A q \in Procs \ {p} : run'[q] = run[q]
         /\ \/ store' = store /\ GoesOn(run'[p], run[p])
            \/ Change(p) /\ run'[p] = Ended(run[p], TRUE)
<1>1. run \in [Procs -> Runs]
  BY DEF HostsInv, HostsType
<1>2. ASSUME NEW q, run' = [run EXCEPT ![p] = q]
      PROVE  run'[p] = q /\ \A s \in Procs \ {p} : run'[s] = run[s]
  BY <1>1, <1>2
<1>3. CASE List(p) \/ Plan(p) \/ TakeReply(p) \/ Acquire(p) \/ TimeOut(p)
  <2>1. /\ run[p].stage \notin {"idle", "ended"} /\ store' = store
        /\ \E q : run' = [run EXCEPT ![p] = q] /\ GoesOn(q, run[p])
    BY <1>3, CommandGoesOn
  <2>2. run[p] \in Working
    BY <2>1, AtWork
  <2>3. QED
    BY <1>2, <2>1, <2>2
<1>4. CASE Finish(p)
  <2>1. run[p] \in Working
    BY <1>4, AtWork DEF Finish
  <2>2. CASE Change(p) /\ run' = [run EXCEPT ![p] = Ended(run[p], TRUE)]
    BY <1>2, <2>1, <2>2
  <2>3. CASE Refuse(p) /\ UNCHANGED store
    BY <1>2, <2>1, <2>3, EndedGoesOn DEF Refuse
  <2>4. QED
    BY <1>4, <2>2, <2>3 DEF Finish
<1>5. QED
  BY <1>3, <1>4 DEF HostStep

LEMMA AppendSigned ==
  ASSUME NEW st \in Seq(Batches), NEW ls, Signed(st, ls), NEW b \in Batches, b.line \in 0..Len(ls),
         b.line > 0 => b.by = Signature(ls, b.line)
  PROVE  /\ Signed(Append(st, b), ls)
         /\ \A n : WrittenFor(Append(st, b), n) <=> (WrittenFor(st, n) \/ n = b.line)
<1> DEFINE t == Append(st, b)
<1>1. /\ Len(st) \in Nat /\ DOMAIN st = 1..Len(st) /\ DOMAIN t = 1..(Len(st) + 1)
      /\ t[Len(st) + 1] = b /\ \A i \in DOMAIN st : t[i] = st[i]
  OBVIOUS
<1>2. \A i \in DOMAIN t : i \in DOMAIN st \/ i = Len(st) + 1
  BY <1>1
<1>3. DOMAIN st \subseteq DOMAIN t /\ Len(st) + 1 \in DOMAIN t
  BY <1>1
<1> HIDE DEF t
<1>4. Signed(t, ls)
  BY <1>1, <1>2 DEF Signed
<1>5. \A n : WrittenFor(t, n) <=> (WrittenFor(st, n) \/ n = b.line)
  BY <1>1, <1>2, <1>3 DEF WrittenFor
<1>6. QED
  BY <1>4, <1>5 DEF t

LEMMA RestatedSigned ==
  ASSUME NEW st, NEW ls, Signed(st, ls), NEW t, DOMAIN t = DOMAIN st,
         \A i \in DOMAIN st : t[i].line = st[i].line /\ t[i].by = st[i].by
  PROVE  Signed(t, ls) /\ \A n : WrittenFor(t, n) <=> WrittenFor(st, n)
  BY DEF Signed, WrittenFor

LEMMA ChangeSigns ==
  ASSUME HostsInv, NEW p \in Procs, run[p] \in Working, Change(p), NEW ls, Signed(store, ls),
         run[p].line \in 0..Len(ls),
         run[p].line > 0 /\ Mutates(run[p].tool) /\ run[p].tool # "reindex" =>
           Batch(run[p]).by = Signature(ls, run[p].line)
  PROVE  /\ Signed(store', ls)
         /\ \A n : WrittenFor(store', n) <=>
                     \/ WrittenFor(store, n)
                     \/ n = run[p].line /\ Mutates(run[p].tool) /\ run[p].tool # "reindex"
<1>1. store \in Seq(Batches) /\ embedder \in {"http", "local"}
  BY DEF HostsInv, HostsType
<1>2. CASE Mutates(run[p].tool) /\ run[p].tool # "reindex" /\ store' = Append(store, Batch(run[p]))
  <2> DEFINE b == Batch(run[p])
  <2>1. KindOf(run[p].tool) \in {"http", "local"}
    BY <1>1 DEF KindOf
  <2>2. b \in Batches /\ b.line = run[p].line
    BY <2>1 DEF Batch, Batches, Working, Names
  <2>21. b.line > 0 => b.by = Signature(ls, b.line)
    BY <1>2, <2>2
  <2> HIDE DEF b
  <2>3. /\ Signed(Append(store, b), ls)
        /\ \A n : WrittenFor(Append(store, b), n) <=> (WrittenFor(store, n) \/ n = b.line)
    BY <1>1, <2>2, <2>21, AppendSigned
  <2>4. store' = Append(store, b)
    BY <1>2 DEF b
  <2>5. QED
    BY <1>2, <2>2, <2>3, <2>4
<1>3. CASE /\ run[p].tool = "reindex"
           /\ store' = [i \in DOMAIN store |->
                          [store[i] EXCEPT !.kind = IF i <= run[p].saw THEN embedder ELSE @]]
  <2>1. DOMAIN store' = DOMAIN store
        /\ \A i \in DOMAIN store :
             store'[i] = [store[i] EXCEPT !.kind = IF i <= run[p].saw THEN embedder ELSE @]
    BY <1>3
  <2>2. \A i \in DOMAIN store : store[i] \in Batches
    BY <1>1
  <2>3. ASSUME NEW b \in Batches, NEW k
        PROVE  [b EXCEPT !.kind = k].line = b.line /\ [b EXCEPT !.kind = k].by = b.by
    BY DEF Batches
  <2>4. \A i \in DOMAIN store : store'[i].line = store[i].line /\ store'[i].by = store[i].by
    <3> SUFFICES ASSUME NEW i \in DOMAIN store
                 PROVE  store'[i].line = store[i].line /\ store'[i].by = store[i].by
      OBVIOUS
    <3>1. PICK k : store'[i] = [store[i] EXCEPT !.kind = k]
      BY <2>1
    <3>2. QED
      BY <2>2, <2>3, <3>1
  <2>5. /\ Signed(store', ls) /\ \A n : WrittenFor(store', n) <=> WrittenFor(store, n)
    <3> DEFINE t == store'
    <3>1. DOMAIN t = DOMAIN store
          /\ \A i \in DOMAIN store : t[i].line = store[i].line /\ t[i].by = store[i].by
      BY <2>1, <2>4
    <3> HIDE DEF t
    <3>2. Signed(t, ls) /\ \A n : WrittenFor(t, n) <=> WrittenFor(store, n)
      BY <3>1, RestatedSigned
    <3>3. QED
      BY <3>2 DEF t
  <2>6. QED
    BY <1>3, <2>5
<1>4. CASE ~Mutates(run[p].tool) /\ UNCHANGED store
  BY <1>4
<1>5. QED
  BY <1>2, <1>3, <1>4 DEF Change

LEMMA LineInvIs ==
  ASSUME LineInv
  PROVE  /\ Kept(lines, negotiated, client)
         /\ Told(lines, answers, UnderWay)
         /\ Carried(run[Mcp], lines, negotiated) /\ ForNoLine(run[Cli])
         /\ Signed(store, lines)
         /\ \A k \in 1..Len(answers) : Says(answers[k], lines, store)
         /\ WillSay(run[Mcp], store)
  BY DEF LineInv

LEMMA TypesAre ==
  ASSUME ServerInv
  PROVE  /\ lines \in Seq(Messages) /\ Len(lines) \in Nat /\ run \in [Procs -> Runs] /\ HostsInv
         /\ Mcp \in Procs /\ Cli \in Procs /\ Mcp # Cli /\ Procs = {Mcp, Cli}
<1>1. lines \in Seq(Messages) /\ run \in [Procs -> Runs] /\ HostsInv
  BY DEF ServerInv, HostsInv, ServerType, HostsType
<1>2. QED
  BY <1>1, ServerAssumption

(* The answers given are to other lines than those a step writes for.      *)
LEMMA StillSays ==
  ASSUME NEW ls \in Seq(Messages), NEW ans, NEW busy, Told(ls, ans, busy), NEW st, NEW t,
         \A k \in 1..Len(ans) : Says(ans[k], ls, st),
         \A n \in 1..Len(ls) : n \notin busy => (WrittenFor(t, n) <=> WrittenFor(st, n))
  PROVE  \A k \in 1..Len(ans) : Says(ans[k], ls, t)
<1>1. \A k \in 1..Len(ans) : ans[k].to \in Due(ls, busy)
  BY ToldIs
<1>2. \A k \in 1..Len(ans) : ans[k].to \in 1..Len(ls) /\ ans[k].to \notin busy
  BY <1>1 DEF Due
<1>3. QED
  BY <1>2 DEF Says

LEMMA CommandKeepsLines ==
  ASSUME ServerInv, LineInv, NEW p \in Procs, HostStep(p), UNCHANGED server
  PROVE  LineInv'
<1>1. UNCHANGED <<lines, negotiated, client, answers>>
  BY DEF server
<1>2. /\ lines \in Seq(Messages) /\ Len(lines) \in Nat /\ run \in [Procs -> Runs] /\ HostsInv
      /\ Mcp \in Procs /\ Cli \in Procs /\ Mcp # Cli /\ Procs = {Mcp, Cli}
  BY TypesAre
<1>3. /\ run[p] \in Working /\ \A q \in Procs \ {p} : run'[q] = run[q]
      /\ \/ store' = store /\ GoesOn(run'[p], run[p])
         \/ Change(p) /\ run'[p] = Ended(run[p], TRUE)
  BY <1>2, CommandStep
<1>4. /\ run[p].stage # "idle" /\ run'[p].stage # "idle"
      /\ run'[p].line = run[p].line /\ run'[p].tool = run[p].tool /\ run'[p].by = run[p].by
  <2>1. run[p].stage # "idle"
    BY <1>3 DEF Working
  <2>2. Ended(run[p], TRUE).stage # "idle" /\ Ended(run[p], TRUE).line = run[p].line
        /\ Ended(run[p], TRUE).tool = run[p].tool /\ Ended(run[p], TRUE).by = run[p].by
    BY DEF Ended
  <2>3. QED
    BY <1>3, <2>1, <2>2 DEF GoesOn
<1>5. UnderWay' = UnderWay
  BY <1>2, <1>3, <1>4 DEF UnderWay
<1>6. Told(lines, answers, UnderWay) /\ Signed(store, lines)
      /\ \A k \in 1..Len(answers) : Says(answers[k], lines, store)
  BY LineInvIs
<1>7. /\ run[p].line \in 0..Len(lines)
      /\ run[p].line > 0 =>
           run[p].by = Signer(lines, run[p].line) /\ run[p].tool = lines[run[p].line].tool
      /\ p = Mcp => /\ run[p].line = Len(lines) /\ Len(lines) # 0 /\ run[p].tool \in Offered
                    /\ UnderWay = {Len(lines)}
      /\ p = Cli => run[p].line = 0
  BY <1>2, <1>4, LineInvIs DEF Carried, ForNoLine, UnderWay
<1>8. ASSUME Change(p)
      PROVE  /\ Signed(store', lines)
             /\ \A n : WrittenFor(store', n) <=>
                         \/ WrittenFor(store, n)
                         \/ n = run[p].line /\ Mutates(run[p].tool) /\ run[p].tool # "reindex"
  <2>1. run[p].line > 0 /\ Mutates(run[p].tool) /\ run[p].tool # "reindex" =>
          Batch(run[p]).by = Signature(lines, run[p].line)
    <3> SUFFICES ASSUME run[p].line > 0, Mutates(run[p].tool), run[p].tool # "reindex"
                 PROVE  Batch(run[p]).by = Signature(lines, run[p].line)
      OBVIOUS
    <3>1. p = Mcp /\ run[p].tool \in Offered
      BY <1>2, <1>7
    <3>2. run[p].tool \in Signing \cup {"resolve"}
      BY <3>1, ServerAssumption DEF Mutates, Signing, Required
    <3>3. run[p].by = Signer(lines, run[p].line) /\ run[p].tool = lines[run[p].line].tool
      BY <1>7
    <3>4. QED
      BY <3>2, <3>3 DEF Batch, Signature, Signing
  <2>2. QED
    BY <1>2, <1>3, <1>6, <1>7, <1>8, <2>1, ChangeSigns
<1>9. Signed(store', lines)
  BY <1>3, <1>6, <1>8
<1>10. \A n \in 1..Len(lines) : n # run[p].line => (WrittenFor(store', n) <=> WrittenFor(store, n))
  <2>1. CASE store' = store
    BY <2>1
  <2>2. CASE Change(p)
    BY <1>8, <2>2
  <2>3. QED
    BY <1>3, <2>1, <2>2
<1>11. \A k \in 1..Len(answers) : Says(answers[k], lines, store')
  <2> DEFINE t == store'
  <2>1. \A n \in 1..Len(lines) : n \notin UnderWay => (WrittenFor(t, n) <=> WrittenFor(store, n))
    BY <1>2, <1>7, <1>10
  <2> HIDE DEF t
  <2>2. \A k \in 1..Len(answers) : Says(answers[k], lines, t)
    BY <1>2, <1>6, <2>1, StillSays
  <2>3. QED
    BY <2>2 DEF t
<1>12. Carried(run'[Mcp], lines, negotiated) /\ ForNoLine(run'[Cli])
  BY <1>2, <1>3, <1>4, LineInvIs DEF Carried, ForNoLine
<1>13. WillSay(run'[Mcp], store')
  <2>0. WillSay(run[Mcp], store)
    BY LineInvIs
  <2>1. CASE p = Mcp
    <3>1. WrittenFor(store, run[p].line) <=> FALSE
      BY <1>3, <1>4, <2>0, <2>1 DEF WillSay, Working
    <3>2. Mutates(run[p].tool) /\ run[p].tool # "reindex" <=> run[p].tool \in Writing
      BY <1>7, <2>1, ServerAssumption DEF Mutates, Writing, Required
    <3>3. CASE store' = store /\ GoesOn(run'[p], run[p])
      BY <1>4, <2>1, <3>1, <3>3 DEF GoesOn, WillSay
    <3>4. CASE Change(p) /\ run'[p] = Ended(run[p], TRUE)
      <4>1. run'[p].stage = "ended" /\ run'[p].ok = TRUE
        BY <3>4 DEF Ended
      <4>2. WrittenFor(store', run[p].line) <=> run[p].tool \in Writing
        BY <1>8, <3>1, <3>2, <3>4
      <4>3. QED
        <5>1. WrittenFor(store', run'[p].line) <=> run'[p].tool \in Writing
          BY <1>4, <4>2
        <5>2. WillSay(run'[p], store')
          BY <4>1, <5>1 DEF WillSay
        <5>3. QED
          BY <2>1, <5>2
    <3>5. QED
      BY <1>3, <3>3, <3>4
  <2>2. CASE p = Cli
    <3>1. run'[Mcp] = run[Mcp]
      BY <1>2, <1>3, <2>2
    <3>2. run[Mcp].stage # "idle" => run[Mcp].line \in 1..Len(lines)
      BY <1>2, LineInvIs DEF Carried
    <3>3. \A n \in 1..Len(lines) : WrittenFor(store', n) <=> WrittenFor(store, n)
      BY <1>2, <1>7, <1>10, <2>2
    <3>4. QED
      BY <2>0, <3>1, <3>2, <3>3 DEF WillSay
  <2>3. QED
    BY <1>2, <2>1, <2>2
<1>14. Kept(lines, negotiated, client)
  BY LineInvIs
<1>15. QED
  BY <1>1, <1>5, <1>6, <1>9, <1>11, <1>12, <1>13, <1>14 DEF LineInv

(* A step that leaves the lines, the server's call and the store as they   *)
(* were.                                                                   *)
LEMMA ElsewhereKeepsLines ==
  ASSUME ServerInv, LineInv, UNCHANGED <<lines, negotiated, client, answers, store>>,
         run'[Mcp] = run[Mcp], ForNoLine(run'[Cli])
  PROVE  LineInv'
<1>1. UnderWay' = UnderWay
  BY DEF UnderWay
<1>2. QED
  BY <1>1, LineInvIs DEF LineInv

LEMMA ReadIs ==
  ASSUME ServerInv, LineInv, run[Mcp].stage = "idle"
  PROVE  Told(lines, answers, {}) /\ UnderWay = {}
  BY LineInvIs DEF UnderWay

LEMMA RespondKeepsLines ==
  ASSUME ServerInv, LineInv, Respond
  PROVE  LineInv'
<1> DEFINE n == Len(lines)
           m == lines[n]
           era == EraOf(m, negotiated)
           a == IF run[Mcp].ok THEN Answered(n, m, era) ELSE Declined(n, m, era)
<1>1. /\ lines \in Seq(Messages) /\ Len(lines) \in Nat /\ run \in [Procs -> Runs] /\ HostsInv
      /\ Mcp \in Procs /\ Cli \in Procs /\ Mcp # Cli /\ Procs = {Mcp, Cli}
  BY TypesAre
<1>2. /\ Kept(lines, negotiated, client) /\ Told(lines, answers, UnderWay)
      /\ Carried(run[Mcp], lines, negotiated) /\ ForNoLine(run[Cli]) /\ Signed(store, lines)
      /\ \A k \in 1..Len(answers) : Says(answers[k], lines, store)
      /\ WillSay(run[Mcp], store)
  BY LineInvIs
<1>3. run[Mcp].stage = "ended"
  BY DEF Respond
<1>4. /\ Len(lines) # 0 /\ run[Mcp].line = n /\ run[Mcp].tool = m.tool
      /\ m.is = "message" /\ m.id = "given" /\ m.wellFormed /\ m.method = "call" /\ era # Refused
  BY <1>2, <1>3 DEF Carried
<1>5. UnderWay = {n} /\ n \in 1..Len(lines)
  BY <1>1, <1>3, <1>4 DEF UnderWay
<1>6. /\ UNCHANGED <<negotiated, client, lines, store>>
      /\ answers' = Append(answers, a)
      /\ run' = [run EXCEPT ![Mcp] = Idle]
  BY <1>4 DEF Respond, Release, Reply
<1>7. run[Mcp].ok \in BOOLEAN
  BY <1>1, <1>3 DEF Runs, Working, Endings
<1>8. a \in Spoken /\ a.to = n /\ OnItsLine(a, lines)
  <2>1. ~ShookHands(m)
    BY <1>4 DEF ShookHands
  <2>2. Shaken(lines, n + 1) = Shaken(lines, n)
    BY <1>1, <1>5, <2>1, ShakenSkips
  <2>3. \/ Shaken(lines, n) = {} /\ negotiated = Nobody
        \/ \E s \in Messages : Shaken(lines, n) = {s} /\ negotiated = Negotiate(s.asks)
    BY <1>2, <2>2 DEF Kept
  <2>4. OnItsLine(Answered(n, m, era), lines) /\ OnItsLine(Declined(n, m, era), lines)
    BY <1>1, <1>4, <1>5, <2>3, EraIsRead
  <2>5. /\ Answered(n, m, era) \in Spoken /\ Declined(n, m, era) \in Spoken
        /\ Answered(n, m, era).to = n /\ Declined(n, m, era).to = n
    BY <1>1 DEF Answered, Declined, Answer, Spoken
  <2>6. QED
    BY <2>4, <2>5
<1>9. a.is # "error" /\ (a.is = "result" <=> run[Mcp].ok = TRUE)
  BY <1>7 DEF Answered, Declined, Answer
<1>10. Owed(m)
  BY <1>4 DEF Owed
<1> HIDE DEF a, era
<1>11. Told(lines, Append(answers, a), {})
  BY <1>1, <1>2, <1>4, <1>5, <1>8, <1>10, AnsweredLate
<1>12. Says(a, lines, store)
  <2>1. WrittenFor(store, n) <=> (run[Mcp].ok = TRUE /\ m.tool \in Writing)
    BY <1>2, <1>3, <1>4 DEF WillSay
  <2>2. QED
    BY <1>8, <1>9, <2>1 DEF Says
<1>13. \A k \in 1..Len(answers') : Says(answers'[k], lines, store)
  <2>1. answers \in Seq(Spoken)
    BY <1>2, ToldIs
  <2>2. QED
    BY <1>2, <1>6, <1>8, <1>12, <2>1
<1>14. run'[Mcp].stage = "idle" /\ run'[Cli] = run[Cli]
  BY <1>1, <1>6 DEF Idle
<1>15. UnderWay' = {}
  BY <1>14 DEF UnderWay
<1>16. Carried(run'[Mcp], lines, negotiated) /\ WillSay(run'[Mcp], store) /\ ForNoLine(run'[Cli])
  BY <1>2, <1>14 DEF Carried, WillSay
<1>17. QED
  BY <1>2, <1>6, <1>11, <1>13, <1>15, <1>16 DEF LineInv

LEMMA SignersStay ==
  ASSUME NEW ls \in Seq(Messages), NEW m \in Messages, NEW n \in 1..(Len(ls) + 1)
  PROVE  Signer(Append(ls, m), n) = Signer(ls, n)
<1>1. Shaken(Append(ls, m), n) = Shaken(ls, n)
  BY ShakenStays
<1>2. QED
  BY <1>1 DEF Signer

LEMMA SignaturesStay ==
  ASSUME NEW ls \in Seq(Messages), NEW m \in Messages, NEW n \in 1..Len(ls)
  PROVE  Signature(Append(ls, m), n) = Signature(ls, n)
<1>1. Append(ls, m)[n] = ls[n] /\ n \in 1..(Len(ls) + 1)
  OBVIOUS
<1>2. Signer(Append(ls, m), n) = Signer(ls, n)
  BY <1>1, SignersStay
<1>3. QED
  BY <1>1, <1>2 DEF Signature

LEMMA SaysStill ==
  ASSUME NEW ls \in Seq(Messages), NEW m \in Messages, NEW ans, NEW st, Told(ls, ans, {}),
         \A k \in 1..Len(ans) : Says(ans[k], ls, st)
  PROVE  \A k \in 1..Len(ans) : Says(ans[k], Append(ls, m), st)
<1>1. \A k \in 1..Len(ans) : ans[k].to \in Due(ls, {})
  BY ToldIs
<1>2. Due(ls, {}) \subseteq 1..Len(ls)
  BY DueIsFinite
<1>3. ASSUME NEW a, a.to \in 1..Len(ls), Says(a, ls, st) PROVE Says(a, Append(ls, m), st)
  <2>1. Append(ls, m)[a.to] = ls[a.to]
    BY <1>3
  <2>2. QED
    BY <1>3, <2>1 DEF Says
<1>4. QED
  BY <1>1, <1>2, <1>3

(* A line more, for which nothing is begun and nothing is written.         *)
LEMMA LineKeeps ==
  ASSUME ServerInv, LineInv, run[Mcp].stage = "idle", NEW m \in Messages,
         lines' = Append(lines, m), UNCHANGED <<run, store>>,
         Kept(Append(lines, m), negotiated', client'),
         Told(Append(lines, m), answers', {}),
         \/ answers' = answers
         \/ \E a \in Spoken : /\ answers' = Append(answers, a) /\ a.to = Len(lines) + 1
                              /\ m.is = "message" /\ m.method = "call" => a.is # "result"
  PROVE  LineInv'
<1> DEFINE ls == Append(lines, m)
<1>1. /\ lines \in Seq(Messages) /\ Len(lines) \in Nat /\ run \in [Procs -> Runs] /\ HostsInv
      /\ Mcp \in Procs /\ Cli \in Procs /\ Mcp # Cli /\ Procs = {Mcp, Cli}
  BY TypesAre
<1>2. /\ ForNoLine(run[Cli]) /\ Signed(store, lines)
      /\ \A k \in 1..Len(answers) : Says(answers[k], lines, store)
      /\ Told(lines, answers, {})
  BY LineInvIs, ReadIs
<1>3. /\ ls \in Seq(Messages) /\ Len(ls) = Len(lines) + 1 /\ ls[Len(lines) + 1] = m
      /\ \A i \in 1..Len(lines) : ls[i] = lines[i]
  BY <1>1
<1>4. \A n \in 1..Len(lines) : Signature(ls, n) = Signature(lines, n)
  BY <1>1, SignaturesStay
<1> HIDE DEF ls
<1>5. Signed(store, ls)
  BY <1>1, <1>2, <1>3, <1>4 DEF Signed
<1>6. ~WrittenFor(store, Len(lines) + 1)
  BY <1>1, <1>2 DEF Signed, WrittenFor
<1>7. answers \in Seq(Spoken)
  BY <1>2, ToldIs
<1>8. \A k \in 1..Len(answers) : Says(answers[k], ls, store)
  BY <1>1, <1>2, SaysStill DEF ls
<1>9. \A k \in 1..Len(answers') : Says(answers'[k], ls, store)
  <2>1. CASE answers' = answers
    BY <1>8, <2>1
  <2>2. ASSUME NEW a \in Spoken, answers' = Append(answers, a), a.to = Len(lines) + 1,
               m.is = "message" /\ m.method = "call" => a.is # "result"
        PROVE  \A k \in 1..Len(answers') : Says(answers'[k], ls, store)
    <3>1. Says(a, ls, store)
      <4>1. ls[a.to] = m /\ ~WrittenFor(store, a.to)
        BY <1>3, <1>6, <2>2
      <4>2. QED
        BY <2>2, <4>1 DEF Says
    <3>2. /\ Len(answers') = Len(answers) + 1 /\ Len(answers) \in Nat
          /\ answers'[Len(answers) + 1] = a
          /\ \A k \in 1..Len(answers) : answers'[k] = answers[k]
      BY <1>7, <2>2
    <3>3. \A k \in 1..Len(answers') : k \in 1..Len(answers) \/ k = Len(answers) + 1
      BY <3>2
    <3>4. QED
      BY <1>8, <3>1, <3>2, <3>3
  <2>3. QED
    BY <2>1, <2>2
<1>10. UnderWay' = {} /\ run'[Mcp].stage = "idle"
  BY DEF UnderWay
<1>11. Carried(run'[Mcp], ls, negotiated') /\ WillSay(run'[Mcp], store) /\ ForNoLine(run'[Cli])
  BY <1>2, <1>10 DEF Carried, WillSay
<1>12. QED
  BY <1>5, <1>9, <1>10, <1>11 DEF LineInv, ls

LEMMA CallKeepsLines ==
  ASSUME ServerInv, LineInv, run[Mcp].stage = "idle", NEW m \in Messages,
         lines' = Append(lines, m), UNCHANGED <<negotiated, client, answers>>,
         m.is = "message", m.id = "given", m.wellFormed, m.method = "call", m.tool \in Offered,
         EraOf(m, negotiated) # Refused, Begin(Mcp, m.tool, Author, Len(lines) + 1)
  PROVE  LineInv'
<1> DEFINE ls == Append(lines, m)
           r == Fresh(m.tool, Author, Len(lines) + 1)
<1>1. /\ lines \in Seq(Messages) /\ Len(lines) \in Nat /\ run \in [Procs -> Runs] /\ HostsInv
      /\ Mcp \in Procs /\ Cli \in Procs /\ Mcp # Cli /\ Procs = {Mcp, Cli}
  BY TypesAre
<1>2. /\ ForNoLine(run[Cli]) /\ Signed(store, lines) /\ Kept(lines, negotiated, client)
      /\ \A k \in 1..Len(answers) : Says(answers[k], lines, store)
      /\ Told(lines, answers, {})
  BY LineInvIs, ReadIs
<1>3. /\ ls \in Seq(Messages) /\ Len(ls) = Len(lines) + 1 /\ ls[Len(lines) + 1] = m
      /\ \A i \in 1..Len(lines) : ls[i] = lines[i]
  BY <1>1
<1>4. \A n \in 1..(Len(lines) + 1) : Signer(ls, n) = Signer(lines, n)
  BY <1>1, SignersStay
<1>5. ~ShookHands(m)
  BY DEF ShookHands
<1>6. Kept(ls, negotiated, client)
  BY <1>1, <1>2, <1>5, StillSettled
<1>7. Told(ls, answers, {Len(ls)})
  BY <1>1, <1>2, <1>3, NotAnswered
<1>8. Author = Signer(ls, Len(ls))
  <2>1. Author = Signer(lines, Len(lines) + 1)
    BY <1>2, SignedNow
  <2>2. QED
    BY <1>1, <1>3, <1>4, <2>1
<1>9. store' = store /\ run' = [run EXCEPT ![Mcp] = r]
  BY DEF Begin
<1>10. r.stage # "idle" /\ r.stage # "ended" /\ r.tool = m.tool /\ r.by = Author /\ r.line = Len(lines) + 1
  BY DEF Fresh
<1> HIDE DEF ls, r
<1>11. run'[Mcp] = r /\ run'[Cli] = run[Cli] /\ UnderWay' = {Len(ls)}
  BY <1>1, <1>3, <1>9, <1>10 DEF UnderWay
<1>12. Signed(store, ls)
  <2>1. \A i \in 1..Len(lines) : Signature(ls, i) = Signature(lines, i)
    BY <1>1, SignaturesStay DEF ls
  <2>2. QED
    BY <1>1, <1>2, <1>3, <2>1 DEF Signed
<1>13. ~WrittenFor(store, Len(lines) + 1)
  BY <1>1, <1>2 DEF Signed, WrittenFor
<1>14. \A k \in 1..Len(answers) : Says(answers[k], ls, store)
  BY <1>1, <1>2, SaysStill DEF ls
<1>15. Carried(r, ls, negotiated)
  BY <1>1, <1>3, <1>8, <1>10 DEF Carried
<1>16. WillSay(r, store)
  BY <1>10, <1>13 DEF WillSay
<1>17. lines' = ls
  BY DEF ls
<1>18. QED
  BY <1>2, <1>6, <1>7, <1>9, <1>11, <1>12, <1>14, <1>15, <1>16, <1>17 DEF LineInv

LEMMA AnswerKeepsLines ==
  ASSUME ServerInv, LineInv, run[Mcp].stage = "idle", NEW m \in Messages,
         lines' = Append(lines, m), UNCHANGED <<provider, hosts>>, Owed(m),
         Kept(Append(lines, m), negotiated', client'), NEW a \in Spoken, Reply(a),
         a.to = Len(lines) + 1, OnItsLine(a, Append(lines, m)),
         m.is = "message" /\ m.method = "call" => a.is # "result"
  PROVE  LineInv'
<1>1. lines \in Seq(Messages) /\ Len(lines) \in Nat
  BY TypesAre
<1>2. Told(lines, answers, {})
  BY ReadIs
<1>3. Told(Append(lines, m), Append(answers, a), {})
  BY <1>1, <1>2, AnsweredAtOnce
<1>4. UNCHANGED <<run, store>> /\ answers' = Append(answers, a)
  BY DEF hosts, Reply
<1>5. QED
  BY <1>3, <1>4, LineKeeps

LEMMA SilenceKeepsLines ==
  ASSUME ServerInv, LineInv, run[Mcp].stage = "idle", NEW m \in Messages,
         lines' = Append(lines, m), UNCHANGED <<provider, hosts, answers, negotiated, client>>,
         ~Owed(m), ~ShookHands(m)
  PROVE  LineInv'
<1>1. lines \in Seq(Messages) /\ Len(lines) \in Nat
  BY TypesAre
<1>2. Told(lines, answers, {}) /\ Kept(lines, negotiated, client)
  BY ReadIs, LineInvIs
<1>3. Told(Append(lines, m), answers, {})
  BY <1>1, <1>2, NotAnswered
<1>4. Kept(Append(lines, m), negotiated, client)
  BY <1>1, <1>2, StillSettled
<1>5. UNCHANGED <<run, store>>
  BY DEF hosts
<1>6. QED
  BY <1>3, <1>4, <1>5, LineKeeps

LEMMA WrongIsRead ==
  ASSUME NEW ls, NEW n \in Nat
  PROVE  Wrong(n, ls[n]) \in Spoken /\ OnItsLine(Wrong(n, ls[n]), ls)
         /\ Wrong(n, ls[n]).to = n /\ Wrong(n, ls[n]).is = "error"
  BY DEF Wrong, Answer, Spoken, OnItsLine, Reads

LEMMA DiscoveryIsRead ==
  ASSUME NEW ls, NEW n \in Nat, ls[n].method = "discover"
  PROVE  LET a == Answer(n, ls[n], "result", FALSE, TRUE) IN a \in Spoken /\ OnItsLine(a, ls) /\ a.to = n
  BY DEF Answer, Spoken, OnItsLine, Reads

LEMMA ResultIsSpoken ==
  ASSUME NEW n \in Nat, NEW m, NEW era
  PROVE  /\ Result(n, m, era) \in Spoken /\ Result(n, m, era).to = n
         /\ Declined(n, m, era) \in Spoken /\ Declined(n, m, era).to = n
         /\ Declined(n, m, era).is = "refusal"
  BY DEF Result, Declined, Answer, Spoken

(* The era a line is given is of the handshake before it.                  *)
LEMMA EraIsReadNow ==
  ASSUME ServerInv, LineInv, NEW m \in Messages, EraOf(m, negotiated) # Refused
  PROVE  /\ OnItsLine(Result(Len(lines) + 1, m, EraOf(m, negotiated)), Append(lines, m))
         /\ OnItsLine(Declined(Len(lines) + 1, m, EraOf(m, negotiated)), Append(lines, m))
<1> DEFINE ls == Append(lines, m)
           n == Len(lines) + 1
<1>1. lines \in Seq(Messages) /\ Len(lines) \in Nat
  BY TypesAre
<1>2. ls \in Seq(Messages) /\ Len(ls) = n /\ ls[n] = m /\ n \in 1..Len(ls)
  BY <1>1
<1>3. Shaken(ls, n) = Shaken(lines, n)
  BY <1>1, ShakenStays
<1>4. \/ Shaken(lines, n) = {} /\ negotiated = Nobody
      \/ \E s \in Messages : Shaken(lines, n) = {s} /\ negotiated = Negotiate(s.asks)
  BY LineInvIs DEF Kept
<1> HIDE DEF ls, n
<1>5. /\ OnItsLine(Result(n, ls[n], EraOf(ls[n], negotiated)), ls)
      /\ OnItsLine(Declined(n, ls[n], EraOf(ls[n], negotiated)), ls)
  BY <1>2, <1>3, <1>4, EraIsRead
<1>6. QED
  BY <1>2, <1>5 DEF ls, n

LEMMA DispatchKeepsLines ==
  ASSUME ServerInv, LineInv, run[Mcp].stage = "idle", NEW m \in Messages,
         lines' = Append(lines, m), m.is = "message", m.id = "given", m.wellFormed,
         EraOf(m, negotiated) # Refused, Dispatch(Len(lines) + 1, m, EraOf(m, negotiated))
  PROVE  LineInv'
<1> DEFINE n == Len(lines) + 1
           ls == Append(lines, m)
           era == EraOf(m, negotiated)
<1>1. lines \in Seq(Messages) /\ Len(lines) \in Nat /\ n \in Nat /\ ls[n] = m
  BY TypesAre
<1>2. Owed(m)
  BY DEF Owed
<1>3. Kept(lines, negotiated, client)
  BY LineInvIs
<1>4. OnItsLine(Result(n, m, era), ls) /\ OnItsLine(Declined(n, m, era), ls)
  BY EraIsReadNow
<1>5. /\ Result(n, m, era) \in Spoken /\ Result(n, m, era).to = n
      /\ Declined(n, m, era) \in Spoken /\ Declined(n, m, era).to = n
      /\ Declined(n, m, era).is = "refusal"
  BY <1>1, ResultIsSpoken
<1>6. Wrong(n, m) \in Spoken /\ OnItsLine(Wrong(n, m), ls) /\ Wrong(n, m).to = n /\ Wrong(n, m).is = "error"
  <2>1. /\ Wrong(n, ls[n]) \in Spoken /\ OnItsLine(Wrong(n, ls[n]), ls)
        /\ Wrong(n, ls[n]).to = n /\ Wrong(n, ls[n]).is = "error"
    BY <1>1, WrongIsRead
  <2>2. QED
    BY <1>1, <2>1
<1>7. ASSUME NEW a \in Spoken, a.to = n, OnItsLine(a, ls), Reply(a), UNCHANGED <<provider, hosts>>,
             m.method # "initialize", KeepHandshake, m.method = "call" => a.is # "result"
      PROVE  LineInv'
  <2>1. ~ShookHands(m)
    BY <1>7 DEF ShookHands
  <2>2. Kept(ls, negotiated, client)
    BY <1>1, <1>3, <2>1, StillSettled
  <2>3. Kept(ls, negotiated', client')
    BY <1>7, <2>2 DEF KeepHandshake
  <2>4. QED
    BY <1>2, <1>7, <2>3, AnswerKeepsLines
<1>8. CASE m.method = "initialize" /\ Initialize(n, m) /\ UNCHANGED <<provider, hosts>>
  <2>1. ShookHands(m)
    BY <1>8 DEF ShookHands, IsText, Parses
  <2>2. Kept(ls, Negotiate(m.asks), m.from)
    BY <1>1, <2>1, NewlySettled
  <2>3. Kept(ls, negotiated', client') /\ Reply(Result(n, m, Legacy[1]))
    BY <1>8, <2>2 DEF Initialize
  <2>4. era = Legacy[1]
    BY <1>8 DEF EraOf
  <2> DEFINE a == Result(n, m, era)
  <2>5. a \in Spoken /\ a.to = n /\ OnItsLine(a, ls) /\ Reply(a)
    BY <1>4, <1>5, <2>3, <2>4
  <2> HIDE DEF a
  <2>6. QED
    BY <1>2, <1>8, <2>3, <2>5, AnswerKeepsLines
<1>9. CASE /\ m.method = "discover" /\ Reply(Answer(n, m, "result", FALSE, TRUE)) /\ KeepHandshake
           /\ UNCHANGED <<provider, hosts>>
  <2> DEFINE a == Answer(n, m, "result", FALSE, TRUE)
  <2>1. a \in Spoken /\ OnItsLine(a, ls) /\ a.to = n
    <3>1. LET b == Answer(n, ls[n], "result", FALSE, TRUE) IN b \in Spoken /\ OnItsLine(b, ls) /\ b.to = n
      BY <1>1, <1>9, DiscoveryIsRead
    <3>2. QED
      BY <1>1, <3>1
  <2>2. Reply(a)
    BY <1>9
  <2> HIDE DEF a
  <2>3. QED
    BY <1>7, <1>9, <2>1, <2>2
<1>10. CASE m.method = "list" /\ Reply(Result(n, m, era)) /\ KeepHandshake /\ UNCHANGED <<provider, hosts>>
  BY <1>4, <1>5, <1>7, <1>10
<1>11. CASE m.method = "call" /\ CallTool(n, m, era) /\ KeepHandshake
  <2>1. CASE Reply(Wrong(n, m)) /\ UNCHANGED <<provider, hosts>>
    BY <1>6, <1>7, <1>11, <2>1
  <2>2. CASE Reply(Declined(n, m, era)) /\ UNCHANGED <<provider, hosts>>
    BY <1>4, <1>5, <1>7, <1>11, <2>2
  <2>3. CASE m.tool \in Offered /\ Begin(Mcp, m.tool, Author, n) /\ UNCHANGED answers
    <3>1. UNCHANGED <<negotiated, client, answers>>
      BY <1>11, <2>3 DEF KeepHandshake
    <3>2. m.tool \in Offered /\ Begin(Mcp, m.tool, Author, Len(lines) + 1) /\ m.method = "call"
      BY <1>11, <2>3
    <3>3. QED
      BY <3>1, <3>2, CallKeepsLines
  <2>4. QED
    BY <1>11, <2>1, <2>2, <2>3 DEF CallTool
<1>12. CASE m.method = "other" /\ Reply(Wrong(n, m)) /\ KeepHandshake /\ UNCHANGED <<provider, hosts>>
  BY <1>6, <1>7, <1>12
<1>13. QED
  BY <1>8, <1>9, <1>10, <1>11, <1>12 DEF Dispatch

LEMMA ReadKeepsLines ==
  ASSUME ServerInv, LineInv, NEW m \in Messages, Read(m)
  PROVE  LineInv'
<1> DEFINE n == Len(lines) + 1
           ls == Append(lines, m)
<1>1. lines \in Seq(Messages) /\ Len(lines) \in Nat /\ n \in Nat /\ ls[n] = m
  BY TypesAre
<1>2. run[Mcp].stage = "idle" /\ lines' = Append(lines, m)
  BY DEF Read
<1>3. m.id \in {"given", "absent", "null"}
  BY ServerAssumption
<1>4. ASSUME Owed(m), ~ShookHands(m), Reply(Wrong(n, m)), KeepHandshake, UNCHANGED <<provider, hosts>>
      PROVE  LineInv'
  <2> DEFINE a == Wrong(n, m)
  <2>1. a \in Spoken /\ OnItsLine(a, ls) /\ a.to = n /\ a.is = "error"
    <3>1. /\ Wrong(n, ls[n]) \in Spoken /\ OnItsLine(Wrong(n, ls[n]), ls)
          /\ Wrong(n, ls[n]).to = n /\ Wrong(n, ls[n]).is = "error"
      BY <1>1, WrongIsRead
    <3>2. QED
      BY <1>1, <3>1
  <2>2. Kept(lines, negotiated, client)
    BY LineInvIs
  <2>3. Kept(ls, negotiated, client)
    BY <1>1, <1>4, <2>2, StillSettled
  <2>4. Kept(ls, negotiated', client') /\ Reply(a)
    BY <1>4, <2>3 DEF KeepHandshake
  <2> HIDE DEF a
  <2>5. QED
    BY <1>2, <1>4, <2>1, <2>4, AnswerKeepsLines
<1>5. ASSUME ~Owed(m), ~ShookHands(m), UNCHANGED answers, KeepHandshake, UNCHANGED <<provider, hosts>>
      PROVE  LineInv'
  BY <1>2, <1>5, SilenceKeepsLines DEF KeepHandshake
<1>6. CASE /\ ~IsText(m) \/ IsBlank(m)
           /\ KeepHandshake /\ UNCHANGED <<answers, provider, hosts>>
  <2>1. ~Owed(m) /\ ~ShookHands(m)
    BY <1>6 DEF Owed, ShookHands, IsText, IsBlank, Parses
  <2>2. QED
    BY <1>5, <1>6, <2>1
<1>7. CASE /\ IsText(m) /\ ~IsBlank(m) /\ ~Parses(m) /\ Reply(Wrong(n, m)) /\ KeepHandshake
           /\ UNCHANGED <<provider, hosts>>
  <2>1. Owed(m) /\ ~ShookHands(m)
    BY <1>7 DEF Owed, ShookHands, IsText, IsBlank, Parses
  <2>2. QED
    BY <1>4, <1>7, <2>1
<1>8. CASE IsNotification(m) /\ UNCHANGED answers /\ KeepHandshake /\ UNCHANGED <<provider, hosts>>
  <2>1. ~Owed(m) /\ ~ShookHands(m)
    BY <1>8 DEF Owed, ShookHands, IsNotification, Parses
  <2>2. QED
    BY <1>5, <1>8, <2>1
<1>9. CASE /\ Parses(m) /\ ~IsNotification(m) /\ EraOf(m, negotiated) = Refused
           /\ Reply(Wrong(n, m)) /\ KeepHandshake /\ UNCHANGED <<provider, hosts>>
  <2>1. m.id = "given" /\ m.is = "message"
    BY <1>3, <1>9 DEF Parses, IsNotification
  <2>2. m.method # "initialize"
    <3>1. Legacy[1] # Refused
      BY ServerAssumption DEF Revisions
    <3>2. QED
      BY <1>9, <3>1 DEF EraOf
  <2>3. Owed(m) /\ ~ShookHands(m)
    BY <2>1, <2>2 DEF Owed, ShookHands
  <2>4. QED
    BY <1>4, <1>9, <2>3
<1>10. CASE /\ Parses(m) /\ ~IsNotification(m) /\ EraOf(m, negotiated) # Refused
            /\ Dispatch(n, m, EraOf(m, negotiated))
  <2>1. m.id = "given" /\ m.is = "message" /\ m.wellFormed
    BY <1>3, <1>10 DEF Parses, IsNotification
  <2>2. QED
    BY <1>2, <1>10, <2>1, DispatchKeepsLines
<1>11. QED
  BY <1>6, <1>7, <1>8, <1>9, <1>10 DEF Read, Handle

LEMMA LineInvInit == Init => LineInv
<1> SUFFICES ASSUME Init PROVE LineInv
  OBVIOUS
<1>1. /\ negotiated = Nobody /\ client = Nobody /\ lines = <<>> /\ answers = <<>> /\ store = <<>>
      /\ run[Mcp] = Idle /\ run[Cli] = Idle
  BY ServerAssumption DEF Init, HostsInit
<1>2. Kept(lines, negotiated, client)
  <2>1. Len(lines) + 1 = 1 /\ 1 - 1 = 0
    BY <1>1
  <2>2. 1..0 = {}
    OBVIOUS
  <2>3. Shaken(lines, 1) = {}
    BY <2>1, <2>2 DEF Shaken
  <2>4. QED
    BY <1>1, <2>1, <2>3 DEF Kept
<1>3. Told(lines, answers, UnderWay)
  <2>1. Due(lines, UnderWay) = {}
    BY <1>1 DEF Due
  <2>2. Cardinality({}) = 0
    BY FS_EmptySet
  <2>3. answers \in Seq(Spoken) /\ Len(answers) = 0 /\ 1..0 = {}
    BY <1>1
  <2>4. QED
    BY <2>1, <2>2, <2>3 DEF Told
<1>4. QED
  BY <1>1, <1>2, <1>3 DEF LineInv, Carried, ForNoLine, Signed, WillSay, Idle

LEMMA LineInvStep == ServerInv /\ LineInv /\ [Next]_vars => LineInv'
<1> SUFFICES ASSUME ServerInv, LineInv, [Next]_vars PROVE LineInv'
  OBVIOUS
<1>1. /\ run \in [Procs -> Runs] /\ Mcp \in Procs /\ Cli \in Procs /\ Mcp # Cli
      /\ ForNoLine(run[Cli])
  BY TypesAre, LineInvIs
<1>2. CASE \E p \in Procs : ProviderStep(p) /\ UNCHANGED server
  BY <1>1, <1>2, ElsewhereKeepsLines DEF ProviderStep, hosts, server
<1>3. ASSUME NEW tool \in CliCommands, Invoke(tool) PROVE LineInv'
  <2>1. run' = [run EXCEPT ![Cli] = Fresh(tool, Cli, 0)] /\ UNCHANGED <<lines, negotiated, client, answers, store>>
    BY <1>3 DEF Invoke, Begin
  <2>2. ForNoLine(run'[Cli])
    BY <1>1, <2>1 DEF ForNoLine, Fresh
  <2>3. run'[Mcp] = run[Mcp]
    BY <1>1, <2>1
  <2>4. QED
    BY <2>1, <2>2, <2>3, ElsewhereKeepsLines
<1>4. CASE Exit
  <2>1. run' = [run EXCEPT ![Cli] = Idle] /\ UNCHANGED <<lines, negotiated, client, answers, store>>
    BY <1>4 DEF Exit, Release, server
  <2>2. ForNoLine(run'[Cli])
    BY <1>1, <2>1 DEF ForNoLine, Idle
  <2>3. run'[Mcp] = run[Mcp]
    BY <1>1, <2>1
  <2>4. QED
    BY <2>1, <2>2, <2>3, ElsewhereKeepsLines
<1>5. CASE UNCHANGED vars
  BY <1>1, <1>5, ElsewhereKeepsLines DEF vars, server, hosts
<1>6. QED
  BY <1>2, <1>3, <1>4, <1>5, ReadKeepsLines, CommandKeepsLines, RespondKeepsLines DEF Next

LEMMA LineInvAlways == Spec => []LineInv
  BY LineInvInit, LineInvStep, ServerInvAlways, PTL DEF Spec

LEMMA LineInvSettles == ServerInv /\ LineInv => OneAnswerEach /\ SignedByItsClient
<1> SUFFICES ASSUME ServerInv, LineInv PROVE OneAnswerEach /\ SignedByItsClient
  OBVIOUS
<1>1. /\ lines \in Seq(Messages) /\ Len(lines) \in Nat
      /\ Told(lines, answers, UnderWay) /\ Signed(store, lines)
      /\ \A k \in 1..Len(answers) : Says(answers[k], lines, store)
  BY TypesAre, LineInvIs
<1>2. /\ answers \in Seq(Spoken) /\ DOMAIN answers = 1..Len(answers)
      /\ Len(answers) = Cardinality(Due(lines, UnderWay))
      /\ \A k \in 1..Len(answers) : answers[k].to \in Due(lines, UnderWay)
      /\ \A k \in 1..Len(answers) : OnItsLine(answers[k], lines)
      /\ \A k \in 1..Len(answers) : \A j \in 1..(k - 1) : answers[j].to < answers[k].to
  BY <1>1, ToldIs
<1>3. \A n : LastShake(n) = Shaken(lines, n)
  BY DEF LastShake, Shaken
<1>4. ASSUME NEW a, OnItsLine(a, lines)
      PROVE  ReadsAnswer(a) /\ (a.named <=> (lines[a.to].is = "message" /\ lines[a.to].id = "given"))
  BY <1>3, <1>4 DEF OnItsLine, Reads, ReadsAnswer
<1>5. OneAnswerEach
  BY <1>2, <1>4 DEF OneAnswerEach, Due
<1>6. SignedByItsClient
  <2>1. ASSUME NEW i \in DOMAIN store, store[i].line > 0
        PROVE  LET named == {s.from : s \in LastShake(store[i].line)} \ {Nobody}
               IN store[i].by = IF lines[store[i].line].tool = "resolve" THEN Nobody
                                ELSE IF named = {} THEN Mcp ELSE CHOOSE c \in named : TRUE
    <3>1. store[i].by = Signature(lines, store[i].line)
      BY <1>1, <2>1 DEF Signed
    <3>2. QED
      BY <1>3, <3>1 DEF Signature, Signer
  <2>2. ASSUME NEW k \in DOMAIN answers
        PROVE  LET m == lines[answers[k].to] IN
               (m.is = "message" /\ m.method = "call" /\ answers[k].is # "error")
                 => (answers[k].is = "result" /\ m.tool \in Writing
                       <=> \E i \in DOMAIN store : store[i].line = answers[k].to)
    <3>1. Says(answers[k], lines, store)
      BY <1>1, <1>2
    <3>2. QED
      BY <3>1 DEF Says, WrittenFor
  <2>3. QED
    BY <2>1, <2>2 DEF SignedByItsClient
<1>7. QED
  BY <1>5, <1>6

(* Whatever is sent and whatever the command line and the providers do:    *)
(* every line that is not a notification is answered once, in the order of *)
(* the lines, on its own id and in a form its sender's revision reads, and *)
(* nothing else is written.                                                *)
THEOREM AnswersAlways == Spec => []OneAnswerEach
  BY ServerInvAlways, LineInvAlways, LineInvSettles, PTL

(* What is written for a line is recorded against whoever shook hands last *)
(* before it, the server if they named no one, and against no one if it    *)
(* answers a review; and its answer says whether anything was written.     *)
THEOREM SignedAlways == Spec => []SignedByItsClient
  BY ServerInvAlways, LineInvAlways, LineInvSettles, PTL

-----------------------------------------------------------------------------
(* What is owed to a provider                                              *)

Owes(q, r) == q.stage \in {"ask", "wait", "useful"} /\ q.owed > 0 => r.tool = "ingest"

OnlyIngestsOwe == \A p \in Procs : Owes(post[p], run[p])

(* A reply leaves nothing owed that was not, but by failing the post.      *)
LEMMA RepliesOwe ==
  ASSUME NEW q, PatientPost(q), q.stage = "ask", NEW rep \in Replies, NEW r, Owes(q, r)
  PROVE  Owes(AfterReply(q, rep), r)
<1> DEFINE told == [q EXCEPT !.tried = @ + 1,
                             !.left = IF rep.after = {} THEN @ ELSE CHOOSE h \in rep.after : TRUE,
                             !.spent = @ \/ Final(rep)]
<1>1. q \in Posts /\ q.left = 0
  BY DEF PatientPost, NoPost, Settled
<1>2. told.owed = q.owed /\ (rep.after = {} => told.left = 0) /\ q.owed \in Nat
  BY <1>1 DEF Posts
<1>3. rep.useful => rep.after = {}
  BY DEF Replies, Answers, Statuses, Failures
<1>4. \/ AfterReply(q, rep) = [told EXCEPT !.stage = "wait", !.asked = rep.after]
      \/ AfterReply(q, rep) = Settled(rep.useful, Unslept(told))
  BY DEF AfterReply
<1>5. CASE AfterReply(q, rep) = [told EXCEPT !.stage = "wait", !.asked = rep.after]
  <2>1. AfterReply(q, rep).owed = q.owed
    BY <1>1, <1>5 DEF Posts
  <2>2. QED
    BY <2>1 DEF Owes
<1> HIDE DEF told
<1>6. CASE AfterReply(q, rep) = Settled(rep.useful, Unslept(told))
  <2>1. CASE rep.useful
    <3>1. Unslept(told) = q.owed
      BY <1>2, <1>3, <2>1 DEF Unslept, AtLeast
    <3>2. AfterReply(q, rep).owed = q.owed
      BY <1>6, <3>1 DEF Settled
    <3>3. QED
      BY <3>2 DEF Owes
  <2>2. CASE ~rep.useful
    <3>1. AfterReply(q, rep).stage = "failed"
      BY <1>6, <2>2 DEF Settled
    <3>2. QED
      BY <3>1 DEF Owes
  <2>3. QED
    BY <2>1, <2>2
<1>7. QED
  BY <1>4, <1>5, <1>6

LEMMA SleepOwes ==
  ASSUME NEW q, PatientPost(q), q.stage = "wait", NEW r, Owes(q, r)
  PROVE  Owes(Slept(q), r)
<1> DEFINE wait == IF q.asked = {} THEN q.delay ELSE CHOOSE h \in q.asked : TRUE
<1>1. q \in Posts
  BY DEF PatientPost, NoPost, Settled
<1>2. /\ q.asked = {} \/ \E h \in Nat : q.asked = {h}
      /\ q.owed \in Nat /\ q.delay \in Nat
  BY <1>1 DEF PatientPost, NoPost, Settled, Posts
<1>3. wait \in Nat
  BY <1>2
<1>4. Slept(q).owed = Less(q.owed, wait)
  BY <1>1 DEF Slept, After, Posts
<1> HIDE DEF wait
<1>5. Slept(q).owed > 0 => q.owed > 0
  BY <1>2, <1>3, <1>4 DEF Less
<1>6. QED
  BY <1>5 DEF Owes

LEMMA NothingOwed ==
  /\ \A r : Owes(NoPost, r) /\ Owes(FreshPost(0), r)
  /\ \A r, owed : Owes(Settled(FALSE, owed), r)
  BY DEF Owes, NoPost, FreshPost, Settled

(* A step of one process leaves what the others owe as it was.             *)
LEMMA OthersOwe ==
  ASSUME OnlyIngestsOwe, NEW p \in Procs, \A q \in Procs \ {p} : post'[q] = post[q] /\ run'[q] = run[q],
         Owes(post'[p], run'[p])
  PROVE  OnlyIngestsOwe'
<1> SUFFICES ASSUME NEW q \in Procs PROVE Owes(post'[q], run'[q])
  BY DEF OnlyIngestsOwe
<1>1. CASE q = p
  BY <1>1
<1>2. CASE q # p
  <2>1. Owes(post[q], run[q])
    BY DEF OnlyIngestsOwe
  <2>2. QED
    BY <1>2, <2>1
<1>3. QED
  BY <1>1, <1>2

(* A post that failed is the end of its command, unless it is an ingest.   *)
LEMMA CommandOwes ==
  ASSUME ServerInv, OnlyIngestsOwe, NEW p \in Procs, HostStep(p)
  PROVE  OnlyIngestsOwe'
<1>1. HostsInv /\ ProviderType /\ Owes(post[p], run[p])
  BY DEF ServerInv, HostsInv, OnlyIngestsOwe
<1>2. \A q \in Procs \ {p} : run'[q] = run[q]
  BY <1>1, CommandStep
<1>3. run'[p].tool = run[p].tool
  <2>1. GoesOn(run'[p], run[p]) \/ run'[p] = Ended(run[p], TRUE)
    BY <1>1, CommandStep
  <2>2. QED
    BY <2>1 DEF GoesOn, Ended
<1>4. ASSUME NEW q, post' = [post EXCEPT ![p] = q], Owes(q, run'[p]) PROVE OnlyIngestsOwe'
  <2>1. post'[p] = q /\ \A s \in Procs \ {p} : post'[s] = post[s]
    BY <1>1, <1>4 DEF ProviderType
  <2>2. QED
    BY <1>2, <1>4, <2>1, OthersOwe
<1>5. CASE UNCHANGED post
  <2>1. Owes(post[p], run'[p])
    BY <1>1, <1>3 DEF Owes
  <2>2. QED
    BY <1>2, <1>5, <2>1, OthersOwe
<1>6. CASE post' = [post EXCEPT ![p] = FreshPost(0)]
  BY <1>4, <1>6, NothingOwed
<1>7. CASE TakeReply(p)
  <2>1. PICK r : /\ Advance(p, r)
                 /\ \/ post[p].stage = "useful" \/ run[p].tool = "ingest"
                    \/ r = Ended(run[p], FALSE)
    BY <1>7 DEF TakeReply
  <2> DEFINE asks == r.stage \in {"completing", "embedding"}
  <2>2. post' = [post EXCEPT ![p] = IF asks THEN FreshPost(post[p].owed) ELSE NoPost]
    BY <2>1 DEF Advance
  <2>3. CASE ~asks
    BY <2>2, <2>3, <1>4, NothingOwed
  <2>4. CASE asks
    <3>1. r # Ended(run[p], FALSE)
      BY <2>4 DEF Ended
    <3>2. post[p].owed > 0 => run'[p].tool = "ingest"
      BY <1>1, <1>3, <2>1, <3>1 DEF Owes
    <3>3. Owes(FreshPost(post[p].owed), run'[p])
      BY <3>2 DEF Owes, FreshPost
    <3>4. QED
      BY <2>2, <2>4, <3>3, <1>4
  <2>5. QED
    BY <2>3, <2>4
<1>8. QED
  <2>1. List(p) \/ Acquire(p) \/ TimeOut(p) \/ Finish(p) => UNCHANGED post
    BY DEF List, Acquire, TimeOut, Finish, provider
  <2>2. Plan(p) => UNCHANGED post \/ post' = [post EXCEPT ![p] = FreshPost(0)]
    BY DEF Plan, provider
  <2>3. QED
    BY <1>5, <1>6, <1>7, <2>1, <2>2 DEF HostStep

LEMMA PostingOwes ==
  ASSUME ServerInv, OnlyIngestsOwe, NEW p \in Procs, ProviderStep(p)
  PROVE  OnlyIngestsOwe'
<1>1. ProviderType /\ PatientPost(post[p]) /\ Owes(post[p], run[p]) /\ UNCHANGED run
  BY DEF ServerInv, ProviderType, OnlyIngestsOwe, ProviderStep, hosts
<1>2. ASSUME NEW q, post' = [post EXCEPT ![p] = q], Owes(q, run[p]) PROVE OnlyIngestsOwe'
  <2>1. post'[p] = q /\ \A s \in Procs \ {p} : post'[s] = post[s]
    BY <1>1, <1>2 DEF ProviderType
  <2>2. QED
    BY <1>1, <1>2, <2>1, OthersOwe
<1>3. CASE Ask(p) /\ CannotBuild(p)
  <2>1. post' = [post EXCEPT ![p] = Settled(FALSE, Unslept(post[p]))]
    BY <1>3 DEF CannotBuild
  <2>2. QED
    BY <2>1, <1>2, NothingOwed
<1>4. CASE Ask(p) /\ Send(p)
  <2>1. PICK rep \in Replies : post' = [post EXCEPT ![p] = AfterReply(post[p], rep)]
    BY <1>4 DEF Send
  <2>2. Owes(AfterReply(post[p], rep), run[p])
    BY <1>1, <1>4, RepliesOwe DEF Ask
  <2>3. QED
    BY <2>1, <2>2, <1>2
<1>5. CASE Sleep(p)
  <2>1. post[p].stage = "wait" /\ post' = [post EXCEPT ![p] = Slept(post[p])]
    BY <1>5 DEF Sleep
  <2>2. Owes(Slept(post[p]), run[p])
    BY <1>1, <2>1, SleepOwes
  <2>3. QED
    BY <2>1, <2>2, <1>2
<1>6. QED
  BY <1>3, <1>4, <1>5 DEF ProviderStep, PostsStep, Ask

LEMMA OwesStep == ServerInv /\ OnlyIngestsOwe /\ [Next]_vars => OnlyIngestsOwe'
<1> SUFFICES ASSUME ServerInv, OnlyIngestsOwe, [Next]_vars PROVE OnlyIngestsOwe'
  OBVIOUS
<1>1. Moves /\ HostsInv /\ ProviderType
  BY NextMoves DEF ServerInv, HostsInv
(* A process with no post of its own may do what it likes.                 *)
<1>2. ASSUME NEW p \in Procs, run[p].stage \in {"idle", "ended"}, NEW r,
             run' = [run EXCEPT ![p] = r], UNCHANGED post
      PROVE  OnlyIngestsOwe'
  <2>1. post[p].stage = "none"
    BY <1>1, <1>2 DEF HostsInv, Hands
  <2>2. Owes(post'[p], run'[p])
    BY <1>2, <2>1 DEF Owes
  <2>3. \A q \in Procs \ {p} : post'[q] = post[q] /\ run'[q] = run[q]
    BY <1>1, <1>2 DEF HostsInv, HostsType
  <2>4. QED
    BY <2>2, <2>3, OthersOwe
<1>3. CASE \E p \in Procs, tool \in Tools, by \in Names, line \in Nat : Begin(p, tool, by, line)
  BY <1>2, <1>3 DEF Begin, provider
<1>4. CASE \E p \in Procs : run[p].stage = "ended" /\ Release(p)
  BY <1>2, <1>4 DEF Release, provider
<1>5. CASE UNCHANGED <<provider, hosts>>
  BY <1>5 DEF provider, hosts, OnlyIngestsOwe
<1>6. QED
  BY <1>1, <1>3, <1>4, <1>5, CommandOwes, PostingOwes DEF Moves

LEMMA OwesInit == Init => OnlyIngestsOwe
  BY NothingOwed DEF Init, HostsInit, ProviderInit, OnlyIngestsOwe

LEMMA OwesAlways == Spec => []OnlyIngestsOwe
  BY OwesInit, OwesStep, ServerInvAlways, PTL DEF Spec

LEMMA PatienceHolds == ServerInv /\ OnlyIngestsOwe => AsksPatiently
<1> SUFFICES ASSUME ServerInv, OnlyIngestsOwe PROVE AsksPatiently
  OBVIOUS
<1>1. ASSUME NEW p \in Procs, post[p].stage \in {"ask", "wait"}
      PROVE  /\ post[p].stage = "ask" => post[p].left = 0
             /\ ~post[p].spent /\ held[p] = "no"
             /\ post[p].tried < AtLeast(Attempts, 1) /\ post[p].slept <= post[p].tried * MaxDelay
             /\ post[p].owed > 0 => run[p].tool = "ingest"
  <2> DEFINE q == post[p]
  <2>1. PatientPost(q) /\ q \in Posts
    BY <1>1, PostIs DEF ServerInv, ProviderType
  <2>2. q.slept \in Nat /\ q.tried \in Nat /\ q.tried * MaxDelay \in Nat
    BY <2>1, OneMore, ProviderAssumption DEF Posts
  <2>3. q.stage \in {"ask", "wait"}
    BY <1>1
  <2>4. held[p] = "no"
    BY <2>3 DEF ServerInv, HostsType, Hands
  <2>5. q.owed > 0 => run[p].tool = "ingest"
    BY <2>3 DEF OnlyIngestsOwe, Owes
  <2> HIDE DEF q
  <2>6. /\ q.tried < AtLeast(Attempts, 1) /\ q.spent = FALSE /\ (q.stage = "ask" => q.left = 0)
        /\ q.stage = "ask" => q.slept <= q.tried * MaxDelay
        /\ q.stage = "wait" => q.slept + MaxDelay <= q.tried * MaxDelay
    BY <2>1, <2>3 DEF PatientPost, NoPost, Settled
  <2>7. q.slept <= q.tried * MaxDelay
    BY <2>2, <2>3, <2>6, ProviderAssumption
  <2>8. QED
    BY <2>4, <2>5, <2>6, <2>7 DEF q
<1>2. QED
  BY <1>1 DEF AsksPatiently, ComesBackWhenAsked, PatienceIsBounded

(* Whatever a provider answers, and however often: a post asks it again    *)
(* only after the wait it last named and never after what will be the same *)
(* again, within its attempts and its ceiling, and with no lock held; and  *)
(* no command but an ingest sends another post before that time is up.     *)
THEOREM PatientAlways == Spec => []AsksPatiently
  BY ServerInvAlways, OwesAlways, PatienceHolds, PTL
=============================================================================
