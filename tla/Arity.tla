--------------------------------- MODULE Arity ---------------------------------
(***************************************************************************)
(* Whether an attribute holds one value at a time, asked of a model in     *)
(* batches of names (crates/rm-extract/src/arity.rs): the names whose      *)
(* slots hold several values with those values shown, every name on its    *)
(* own, and the two put together, as benches/locomo does. A model answers  *)
(* with no response, with no JSON, or with what it says of some names,     *)
(* some of it readable. Names are numbers, in the order they sort.         *)
(***************************************************************************)
EXTENDS Naturals, FiniteSets

CONSTANTS
  Attributes, \* 1..n: the names in the vocabulary
  Contested,  \* those recorded with more than one value
  Batch       \* BATCH; the names shown with values go in quarters of it

ASSUME ArityAssumption ==
  /\ Attributes \subseteq Nat /\ Contested \subseteq Attributes /\ Batch \in Nat /\ Batch >= 4

(* claim: anything but a yes or a no says nothing.                         *)
Claims == {"corrects", "joins"}
Said == {"yes", "no", "garbled"}
Claim(answer) ==
  CASE answer = "yes" -> {"corrects"} [] answer = "no" -> {"joins"} [] OTHER -> {}

VARIABLES
  pass,       \* "context", then "bare", then the two together
  ahead,      \* names the pass has still to ask about
  known,      \* what each pass was told
  unanswered, \* Resolved, of each pass
  calls

arity == <<pass, ahead, known, unanswered, calls>>

Passes == {"context", "bare"}
NoName == [n \in {} |-> "joins"]

ArityInit ==
  /\ pass = "waits" /\ ahead = {}
  /\ known = [p \in Passes |-> NoName]
  /\ unanswered = [p \in Passes |-> {}] /\ calls = [p \in Passes |-> 0]

AskInContext ==
  /\ pass = "waits" /\ pass' = "context" /\ ahead' = Contested
  /\ UNCHANGED <<known, unanswered, calls>>

AskBare ==
  /\ pass = "context" /\ ahead = {} /\ pass' = "bare" /\ ahead' = Attributes
  /\ UNCHANGED <<known, unanswered, calls>>

BatchSize == IF pass = "context" THEN Batch \div 4 ELSE Batch
NextBatch == {n \in ahead : Cardinality({m \in ahead : m <= n}) <= BatchSize}

(* Mutant: a response that leaves a name out is taken for an answer.       *)
AskBatchSilently ==
  /\ pass \in Passes /\ ahead # {} /\ ahead' = ahead \ NextBatch
  /\ calls' = [calls EXCEPT ![pass] = @ + 1]
  /\ \E told \in SUBSET NextBatch : \E c \in Claims :
       known' = [known EXCEPT ![pass] = [n \in DOMAIN @ \cup told |-> IF n \in told THEN c ELSE @[n]]]
  /\ UNCHANGED <<pass, unanswered>>

(* A batch: refused or unreadable, none of its names is answered; else     *)
(* what is said of each of them counts for it alone.                       *)
AskBatch ==
  /\ pass \in Passes /\ ahead # {}
  /\ ahead' = ahead \ NextBatch
  /\ calls' = [calls EXCEPT ![pass] = @ + 1]
  /\ \/ /\ unanswered' = [unanswered EXCEPT ![pass] = @ \cup NextBatch]
        /\ UNCHANGED known
     \/ \E of \in SUBSET NextBatch : \E says \in [of -> Said] :
          LET told == {n \in of : Claim(says[n]) # {}} IN
          /\ known' = [known EXCEPT ![pass] =
               [n \in DOMAIN @ \cup told |-> IF n \in told THEN CHOOSE c \in Claim(says[n]) : TRUE ELSE @[n]]]
          /\ unanswered' = [unanswered EXCEPT ![pass] = @ \cup (NextBatch \ told)]
  /\ UNCHANGED pass

(* or: the first, and of the second what the first does not say.           *)
Or(first, second) ==
  [n \in DOMAIN first \cup DOMAIN second |-> IF n \in DOMAIN first THEN first[n] ELSE second[n]]

Combine ==
  /\ pass = "bare" /\ ahead = {} /\ pass' = "done"
  /\ known' = [known EXCEPT !["bare"] = Or(known["context"], known["bare"])]
  /\ UNCHANGED <<ahead, unanswered, calls>>

ArityStep == AskInContext \/ AskBare \/ AskBatch \/ Combine

-----------------------------------------------------------------------------
Asked(p) ==
  LET all == IF p = "context" THEN Contested ELSE Attributes
  IN IF pass = "waits" \/ (pass = "context" /\ p = "bare") THEN {}
     ELSE IF pass = p THEN all \ ahead ELSE all

(* Every name asked about is answered or reported, and not both, so that a *)
(* pass of which every call failed does not look like one with nothing to  *)
(* ask; a failed call costs no other its names; and what was said of a     *)
(* name with its values in sight is not what is said of it without them.   *)
AnswersAddUp ==
  /\ \A p \in Passes :
       pass # "done" =>
         /\ DOMAIN known[p] \cup unanswered[p] = Asked(p)
         /\ DOMAIN known[p] \cap unanswered[p] = {}
  /\ pass = "done" =>
       \A n \in Attributes :
         /\ n \in DOMAIN known["bare"] <=> n \notin unanswered["bare"] \/ n \in DOMAIN known["context"]
         /\ n \in DOMAIN known["context"] => known["bare"][n] = known["context"][n]
=============================================================================
