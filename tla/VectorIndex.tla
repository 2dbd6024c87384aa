----------------------------- MODULE VectorIndex -----------------------------
(***************************************************************************)
(* VectorIndex of crates/rm-index/src/lib.rs: two parallel arrays, a map   *)
(* from id to row patched in place, removal by swapping the last row into  *)
(* the hole, and a search that partitions the hits around the k-th before  *)
(* it sorts them. Rows count from 1 here and from 0 in the code.           *)
(*                                                                         *)
(* Abstracted: a vector is one value, not dim floats in a flattened array, *)
(* and a score is a natural number the constants give; both are finite in  *)
(* the code, where prepare refuses what is not.                            *)
(***************************************************************************)
EXTENDS Naturals, Sequences, FiniteSets

CONSTANTS Ids, Raw, Vecs, Prepare, Queries, Score, MaxK, Files

File == [ids : Seq(Ids), rows : Seq(Vecs)]

ASSUME IndexAssumption ==
  /\ Ids \subseteq Nat /\ IsFiniteSet(Ids)
  /\ Prepare \in [Raw -> SUBSET Vecs]
  /\ \A v \in Raw, w, x \in Vecs : w \in Prepare[v] /\ x \in Prepare[v] => w = x
  /\ Score \in [Queries -> [Ids -> [Vecs -> Nat]]]
  /\ MaxK \in Nat
  /\ Files \subseteq File

VARIABLES
  ids,       \* ids[r] owns vectors[r]
  vectors,   \* the rows
  positions, \* id to row
  out        \* what the last call answered

ivars == <<ids, vectors, positions>>
indexVars == <<ivars, out>>

Answer(is) == [is |-> is]
Found(q, k, keep, hits) == [is |-> "found", asked |-> <<q, k, keep>>, hits |-> hits]
Held(s) == {s[r] : r \in DOMAIN s}

IndexInit ==
  /\ ids = <<>> /\ vectors = <<>>
  /\ positions = [i \in {} |-> 0]
  /\ out = Answer("none")

Insert(id, v) ==
  \/ \E w \in Prepare[v] :
       /\ \/ /\ id \in DOMAIN positions
             /\ vectors' = [vectors EXCEPT ![positions[id]] = w]
             /\ UNCHANGED <<ids, positions>>
          \/ /\ id \notin DOMAIN positions
             /\ positions' = [i \in DOMAIN positions \cup {id} |->
                                IF i = id THEN Len(ids) + 1 ELSE positions[i]]
             /\ ids' = Append(ids, id)
             /\ vectors' = Append(vectors, w)
       /\ out' = Answer("ok")
  \/ /\ Prepare[v] = {}
     /\ UNCHANGED ivars /\ out' = Answer("refused")

(* The last row moves into the hole and the tail is cut off.               *)
SwapOut(s, row) ==
  [r \in 1..(Len(s) - 1) |-> IF r = row THEN s[Len(s)] ELSE s[r]]

(* positions without id, and with the id of the last row in id's place.    *)
Patch(id) ==
  [i \in DOMAIN positions \ {id} |->
     IF i = ids[Len(ids)] THEN positions[id] ELSE positions[i]]

Remove(id) ==
  \/ /\ id \in DOMAIN positions
     /\ ids' = SwapOut(ids, positions[id])
     /\ vectors' = SwapOut(vectors, positions[id])
     /\ positions' = Patch(id)
     /\ out' = Answer("removed")
  \/ /\ id \notin DOMAIN positions
     /\ UNCHANGED ivars /\ out' = Answer("absent")

(* The order of hits, on the rows they come from.                          *)
Order(q, r, s) ==
  LET score(x) == Score[q][ids[x]][vectors[x]]
  IN score(r) > score(s) \/ (score(r) = score(s) /\ ids[r] < ids[s])

(* select_nth_unstable_by and truncate: when more than k rows are kept,    *)
(* some k of them such that no other kept row is better than one of these. *)
Selected(q, k, kept) ==
  IF k < Cardinality(kept)
    THEN {S \in SUBSET kept : /\ Cardinality(S) = k
                              /\ \A r \in S, s \in kept \ S : ~Order(q, s, r)}
    ELSE {kept}

(* sort_unstable_by: the rows of S, each once, none before a better one.   *)
Sorted(q, S) ==
  {h \in [1..Cardinality(S) -> S] :
     /\ \A i, j \in DOMAIN h : h[i] = h[j] => i = j
     /\ \A i, j \in DOMAIN h : i < j => ~Order(q, h[j], h[i])}

(* Mutant: the filter applied to a top-k instead of during the scan.       *)
SearchFiltersLate(q, k, keep) ==
  \E S \in Selected(q, k, DOMAIN ids) :
    \E h \in Sorted(q, {r \in S : ids[r] \in keep}) :
      /\ UNCHANGED ivars
      /\ out' = Found(q, k, keep, [i \in DOMAIN h |-> ids[h[i]]])

Search(q, k, keep) ==
  \E S \in Selected(q, k, {r \in DOMAIN ids : ids[r] \in keep}) :
    \E h \in Sorted(q, S) :
      /\ UNCHANGED ivars
      /\ out' = Found(q, k, keep, [i \in DOMAIN h |-> ids[h[i]]])

(* validate, on what was read: one row per id, no id twice. It rebuilds    *)
(* positions row by row.                                                   *)
Valid(f) ==
  /\ Len(f.rows) = Len(f.ids)
  /\ \A r, s \in DOMAIN f.ids : f.ids[r] = f.ids[s] => r = s

Rebuilt(s) == [i \in Held(s) |-> CHOOSE r \in DOMAIN s : s[r] = i]

Restore(f, is) ==
  /\ ids' = f.ids /\ vectors' = f.rows
  /\ positions' = Rebuilt(f.ids)
  /\ out' = Answer(is)

(* open_split, on the metadata and the vectors found beside it.            *)
Open(f) ==
  \/ Valid(f) /\ Restore(f, "opened")
  \/ ~Valid(f) /\ UNCHANGED ivars /\ out' = Answer("corrupt")

(* open_split of snapshot_meta and vectors_le of this index.               *)
Reopen ==
  LET f == [ids |-> ids, rows |-> vectors]
  IN Valid(f) /\ Restore(f, "reopened")

IndexNext ==
  \/ \E id \in Ids, v \in Raw : Insert(id, v)
  \/ \E id \in Ids : Remove(id)
  \/ \E q \in Queries, k \in 0..MaxK, keep \in SUBSET Ids : Search(q, k, keep)
  \/ \E f \in Files : Open(f)
  \/ Reopen

IndexSpec == IndexInit /\ [][IndexNext]_indexVars

-----------------------------------------------------------------------------
(* The invariant the rest of the crate "indexes on faith": the two arrays  *)
(* are parallel and positions is exactly the inverse of ids, whatever      *)
(* order inserts, swap-removals and restores came in.                      *)
IndexInv ==
  /\ ids \in Seq(Ids) /\ vectors \in Seq(Vecs) /\ Len(vectors) = Len(ids)
  /\ positions \in [Held(ids) -> DOMAIN ids]
  /\ \A r \in DOMAIN ids : positions[ids[r]] = r

(* A row map patched in place, rows that move and an unstable selection    *)
(* implement a plain map that is searched exactly: no answer depends on    *)
(* the order of the rows.                                                  *)
map == [i \in DOMAIN positions |-> vectors[positions[i]]]
Exact == INSTANCE VectorMap
ImplementsVectorMap == Exact!MSpec
=============================================================================
