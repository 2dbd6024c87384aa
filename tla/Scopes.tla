-------------------------------- MODULE Scopes --------------------------------
(***************************************************************************)
(* How far a memory reaches (crates/rm-core/src/scope.rs) and where a host *)
(* stands (crates/rm-host/src/scope.rs). A scope is what its text splits   *)
(* into at the separator: segments, a part with nothing but blanks in it,  *)
(* or the star, which means everywhere when it is alone.                   *)
(***************************************************************************)
EXTENDS Naturals, Sequences

CONSTANTS
  Star,      \* UNIVERSAL
  Blank,     \* a part that is empty or blank
  Nowhere    \* no position: nothing configured

ASSUME ScopesAssumption == Star # Blank

Universal == <<Star>>

(* applies_at: ancestor or self.                                           *)
AppliesAt(scope, position) ==
  \/ scope = Universal
  \/ /\ Len(scope) <= Len(position)
     /\ \A i \in DOMAIN scope : scope[i] = position[i]

(* validate: neither an empty part nor a star within a path.               *)
Valid(scope) ==
  scope = Universal \/ \A i \in DOMAIN scope : scope[i] \notin {Star, Blank}

(* position: a configured value that is blank is no position.              *)
Position(raw) == IF raw = <<Blank>> THEN Nowhere ELSE raw
=============================================================================
