----------------------------- MODULE Extraction -----------------------------
(***************************************************************************)
(* What a model's response about one turn becomes (crates/rm-extract/src/  *)
(* lib.rs) and what ingest accepts of it (crates/rm-engine/src/ingest.rs). *)
(*                                                                         *)
(* A response is four lists of items; reads says whether an item has the   *)
(* shape that was asked for. Items refer to mentions by position, counted  *)
(* from one here. A missing days_ago, or value, is the empty set. Of what a*)
(* turn says only the names in it matter. Left out: kinds, texts to embed, *)
(* reasons, and whether a fact replaces what the attribute held.           *)
(***************************************************************************)
EXTENDS Integers, Sequences, FiniteSets

CONSTANTS
  Names,     \* what a response may call something
  Nameless,  \* the name that is blank
  Examples   \* the names in the prompt's worked example

ASSUME ExtractionAssumption ==
  /\ Nameless \in Names /\ Examples \subseteq Names \ {Nameless}

EchoesTheExample(name, turn) == name \in Examples /\ name \notin turn.names

-----------------------------------------------------------------------------
(* Mentions that are kept, by the position the model gave them.            *)
Kept(response, turn) ==
  {i \in DOMAIN response.mentions :
     /\ response.mentions[i].reads
     /\ response.mentions[i].name # Nameless
     /\ ~EchoesTheExample(response.mentions[i].name, turn)}

(* Mutant: a reference is taken for a position among those that are left.  *)
SlotAsWritten(response, turn, i) == i

(* slot: where a mention that is kept ended up.                            *)
Slot(response, turn, i) == Cardinality({j \in Kept(response, turn) : j <= i})

(* resolve: days before the turn, and never after it.                      *)
Resolves(days) == \A d \in days : d >= 0
Resolved(days, turn) == turn.at - (IF days = {} THEN 0 ELSE CHOOSE d \in days : TRUE)

(* What is at some places of a list, in the order of the list.             *)
Those(list, places) ==
  [k \in 1..Cardinality(places) |->
     list[CHOOSE i \in places : Cardinality({j \in places : j <= i}) = k]]

(* Items of a list whose subject is kept and whose date resolves.          *)
Landing(list, kept) ==
  {i \in DOMAIN list : list[i].reads /\ list[i].subject \in kept /\ Resolves(list[i].days)}

Extract(response, turn) ==
  LET kept == Kept(response, turn)
      slot(i) == Slot(response, turn, i)
      original(f) == \A v \in f.value : ~EchoesTheExample(v, turn)
      mentions == Those(response.mentions, kept)
      facts == Those(response.facts, {i \in Landing(response.facts, kept) :
                                        original(response.facts[i])})
      relations == Those(response.relations, {i \in Landing(response.relations, kept) :
                                                /\ response.relations[i].object \in kept
                                                /\ response.relations[i].object
                                                     # response.relations[i].subject})
      closures == Those(response.closures, Landing(response.closures, kept))
  IN [mentions |-> [k \in DOMAIN mentions |-> [name |-> mentions[k].name]],
      facts |-> [k \in DOMAIN facts |->
                   [subject |-> slot(facts[k].subject), attribute |-> facts[k].attribute,
                    value |-> facts[k].value, from |-> Resolved(facts[k].days, turn)]],
      relations |-> [k \in DOMAIN relations |->
                       [subject |-> slot(relations[k].subject), predicate |-> relations[k].predicate,
                        object |-> slot(relations[k].object),
                        from |-> Resolved(relations[k].days, turn)]],
      closures |-> [k \in DOMAIN closures |->
                      [subject |-> slot(closures[k].subject), predicate |-> closures[k].predicate,
                       at |-> Resolved(closures[k].days, turn)]]]

(* without_absences: for a source that cannot assert one.                  *)
WithoutAbsences(extraction) ==
  [extraction EXCEPT !.facts =
     Those(extraction.facts, {i \in DOMAIN extraction.facts : extraction.facts[i].value # {}})]

(* validate_extraction, before ingest writes anything.                     *)
Acceptable(extraction) ==
  LET there == DOMAIN extraction.mentions
  IN /\ \A i \in there : extraction.mentions[i].name # Nameless
     /\ \A i \in DOMAIN extraction.facts : extraction.facts[i].subject \in there
     /\ \A i \in DOMAIN extraction.relations :
          /\ {extraction.relations[i].subject, extraction.relations[i].object} \subseteq there
          /\ extraction.relations[i].subject # extraction.relations[i].object
     /\ \A i \in DOMAIN extraction.closures : extraction.closures[i].subject \in there
=============================================================================
