-------------------------------- MODULE Belief --------------------------------
(***************************************************************************)
(* One slot of the store (an attribute of an entity) and every read of it: *)
(* the version log that MemoryStore::assert and assert_resolved append to  *)
(* (crates/rm-store/src/lib.rs), as_of on it, and on top of it about and   *)
(* the standing of a recalled assertion (crates/rm-engine/src/read.rs) and *)
(* held, the host's read of a decision (crates/rm-host/src/command.rs).    *)
(*                                                                         *)
(* The log is in the order of the writes, which is not the order of the    *)
(* observations: a caller reads its clock before it waits for the store.   *)
(***************************************************************************)
EXTENDS Survivor

CONSTANTS
  Values,
  NoOne,        \* who holds what the store itself asserts
  Holders,      \* entities that views are attributed to
  ValidTimes,     \* valid times
  KnownTimes,        \* transaction times
  Supersessions, \* what an assertion may claim of those before it
  MaxVersions   \* bound: versions asserted one by one

ASSUME BeliefAssumption ==
  /\ Absent \notin Values /\ Silent \notin Values \cup {Absent} /\ NoOne \notin Holders
  /\ ValidTimes \subseteq Nat /\ KnownTimes \subseteq Nat
  /\ Supersessions \subseteq {"corrects", "joins", "unstated"}
  /\ \A v \in Values : Size[v] \in Nat
  /\ MaxVersions \in Nat

VARIABLE log

SlotVersion ==
  [value : Values \cup {Absent}, from : ValidTimes \cup KnownTimes,
   to : ValidTimes \cup KnownTimes \cup {Forever}, at : KnownTimes,
   supersession : Supersessions \cup {"corrects"}, holder : Holders \cup {NoOne}]

BeliefInit == log = <<>>

(* A tombstone always corrects, whatever the caller passed.                *)
Stated(value, from, to, at, supersession, holder) ==
  [value |-> value, from |-> from, to |-> to, at |-> at, holder |-> holder,
   supersession |-> IF value = Absent THEN "corrects" ELSE supersession]

AssertValue(value, from, at, supersession, holder) ==
  /\ Len(log) < MaxVersions
  /\ log' = Append(log, Stated(value, from, Forever, at, supersession, holder))

(* Mutant: read by valid time where transaction time is meant.             *)
SeenByValidity(l, holder, tx) ==
  Restrict(l, {i \in DOMAIN l : l[i].from <= tx /\ l[i].holder = holder})

(* What a holder, or the store itself, had said by a transaction time.     *)
Seen(l, holder, tx) == Restrict(l, {i \in DOMAIN l : l[i].at <= tx /\ l[i].holder = holder})

(* Mutant: known as of the oldest candidate.                               *)
ConclusionEarly(c, value, from, to) ==
  Stated(value, from, to, Min({c[i].at : i \in DOMAIN c}), "corrects", NoOne)

(* A conclusion is known as of the newest candidate.                       *)
Conclusion(c, value, from, to) ==
  Stated(value, from, to, Latest(c), "corrects", NoOne)

(* assert_resolved, on what the store had by tx. A span per fact, none if  *)
(* any is contested; one survivor from the oldest observation on; nothing  *)
(* when there is none. The strategies that rank sources are left out: the  *)
(* log here does not keep who said a version (Reference has them).         *)
AssertResolved(strategy, tx) ==
  LET c == Seen(log, NoOne, tx)
      facts == Timeline(c)
      survivors == Survivors(c, strategy)
  IN /\ DOMAIN c # {} /\ Len(log) <= MaxVersions
     /\ \/ /\ strategy = "valid_interval"
           /\ \A f \in facts : Cardinality(f.values) = 1
           /\ log' = log \o [k \in 1..Cardinality(facts) |->
                LET f == CHOOSE x \in facts :
                           Cardinality({y \in facts : y.from <= x.from}) = k
                IN Conclusion(c, CHOOSE v \in f.values : TRUE, f.from, f.to)]
        \/ /\ strategy # "valid_interval" /\ Cardinality(survivors) = 1
           /\ log' = Append(log, Conclusion(c, CHOOSE v \in survivors : TRUE,
                                            Min({c[i].at : i \in DOMAIN c}), Forever))

BeliefNext ==
  \/ \E value \in Values \cup {Absent}, from \in ValidTimes, at \in KnownTimes,
        supersession \in Supersessions, holder \in Holders \cup {NoOne} :
       AssertValue(value, from, at, supersession, holder)
  \/ \E strategy \in Unordered, tx \in KnownTimes : AssertResolved(strategy, tx)

BeliefSpec == BeliefInit /\ [][BeliefNext]_log

-----------------------------------------------------------------------------
(* Reads of a log. Each answers with a set, as in Survivor.                *)

(* Mutant: ingestion ties break toward the earlier append.                 *)
AsOfFirst(l, valid, tx) ==
  LET known == {i \in DOMAIN l : l[i].at <= tx /\ Covers(l[i], valid)}
  IN {l[i].value : i \in {j \in known :
        \A k \in known : l[k].at < l[j].at \/ (l[k].at = l[j].at /\ j <= k)}}

(* as_of: the latest ingested of the versions that cover the instant, the  *)
(* later append on a tie. It asks nobody whose version it is.              *)
AsOf(l, valid, tx) ==
  LET known == {i \in DOMAIN l : l[i].at <= tx /\ Covers(l[i], valid)}
  IN {l[i].value : i \in {j \in known :
        \A k \in known : l[k].at < l[j].at \/ (l[k].at = l[j].at /\ k <= j)}}

About(l, holder, strategy, valid, tx) == Resolve(Seen(l, holder, tx), strategy, valid)

(* held, and the reach in_scope reads: the last append of the visible.     *)
Held(l, valid, tx) ==
  LET visible == {i \in DOMAIN l : l[i].at <= tx /\ l[i].from <= valid}
  IN IF visible = {} THEN {} ELSE {l[Max(visible)].value}

(* standing: where an assertion stands against those ingested after it.    *)
Standing(i, tx) ==
  LET later == {log[k].supersession :
                  k \in {j \in DOMAIN log : log[j].at <= tx /\ log[j].at > log[i].at}}
  IN IF later = {} THEN "latest"
     ELSE IF "corrects" \in later THEN "corrected"
     ELSE IF "unstated" \in later THEN "unsettled" ELSE "joined"

-----------------------------------------------------------------------------
(* "Later knowledge does not leak backwards": nothing that is written, a   *)
(* resolution of old assertions included, changes what was believed before *)
(* the time it is known as of, by any reader.                              *)
PastBeliefIsSettled ==
  [][\A tx \in KnownTimes, valid \in ValidTimes :
       log' # log /\ (\A i \in DOMAIN log' \ DOMAIN log : log'[i].at > tx) =>
         /\ AsOf(log', valid, tx) = AsOf(log, valid, tx)
         /\ Held(log', valid, tx) = Held(log, valid, tx)
         /\ \A holder \in Holders \cup {NoOne},
               strategy \in {"most_recent", "valid_interval"} :
              About(log', holder, strategy, valid, tx) = About(log, holder, strategy, valid, tx)]_log

(* Writing a timeline down changes no answer: what about derives from the  *)
(* history it derives from the history with its own conclusion behind it,  *)
(* at every instant and every past, and as_of, which derives nothing, now  *)
(* reads the same.                                                         *)
ResolvingChangesNoAnswer ==
  [][\A tx \in KnownTimes : AssertResolved("valid_interval", tx) =>
       \A valid \in ValidTimes :
         LET c == Seen(log, NoOne, tx)
         IN /\ \A t \in KnownTimes : About(log', NoOne, "valid_interval", valid, t)
                                  = About(log, NoOne, "valid_interval", valid, t)
            /\ Resolve(c, "valid_interval", valid) # {} =>
                 AsOf(log', valid, Latest(c)) = Resolve(c, "valid_interval", valid)]_log

(* Readers that work from the same slot by rules of their own agree where  *)
(* nothing tells them apart: the three that pick one version pick the same *)
(* one as long as writes arrive in the order of their observations and     *)
(* stay open-ended; and what about answers under the default policy, recall*)
(* does not call corrected, as long as one holder speaks.                  *)
ReadersAgree ==
  /\ (\A i, j \in DOMAIN log : i < j => log[i].at <= log[j].at)
       /\ (\A i \in DOMAIN log : log[i].to = Forever)
     => \A valid \in ValidTimes, tx \in KnownTimes : Held(log, valid, tx) = AsOf(log, valid, tx)
  /\ \A holder \in Holders \cup {NoOne}, tx \in KnownTimes :
       (\A i \in DOMAIN log : log[i].holder = holder) =>
         LET answer == About(log, holder, "most_recent", 0, tx)
         IN Cardinality(answer) = 1 =>
              \E i \in DOMAIN log : /\ log[i].at <= tx /\ log[i].value \in answer
                                    /\ Standing(i, tx) # "corrected"
=============================================================================
