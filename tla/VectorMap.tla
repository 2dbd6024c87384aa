------------------------------ MODULE VectorMap ------------------------------
(***************************************************************************)
(* What rm-index promises (crates/rm-index/src/lib.rs): a map from entry   *)
(* ids to vectors, searched exactly. "results are the true top-k", no      *)
(* entry answers a query twice, a removed one not at all, and a restore    *)
(* holds exactly what its two files say or is refused. VectorIndex is      *)
(* shown to implement it.                                                  *)
(***************************************************************************)
EXTENDS Naturals, Sequences

CONSTANTS
  Ids,     \* entry ids; numbers, because ties are broken by id
  Raw,     \* vectors as a caller gives them
  Vecs,    \* vectors as they are stored
  Prepare, \* Prepare[v]: what is stored for v, as a set, empty if v is refused
  Queries, \* what a search ranks by: the query and the caller's adjustment
  Score,   \* Score[q][id][v]: the adjusted score of entry id holding vector v
  MaxK,    \* bound: the most hits a search asks for
  Files    \* the pairs of files a restore may find

VARIABLES
  map, \* id to vector
  out  \* what the last call answered

mvars == <<map, out>>

Answer(is) == [is |-> is]
Found(q, k, keep, hits) == [is |-> "found", asked |-> <<q, k, keep>>, hits |-> hits]

(* Best first, equal scores by id.                                         *)
Ahead(q, a, b) ==
  \/ Score[q][a][map[a]] > Score[q][b][map[b]]
  \/ Score[q][a][map[a]] = Score[q][b][map[b]] /\ a < b

(* h answers a search: sorted, as long as k and the candidates allow, and  *)
(* nothing it leaves out belongs in it.                                    *)
IsTop(h, q, k, keep) ==
  LET cand == DOMAIN map \cap keep
      hit == {h[i] : i \in DOMAIN h}
  IN /\ hit \subseteq cand
     /\ \A i, j \in DOMAIN h : i < j => Ahead(q, h[i], h[j])
     /\ Len(h) <= k
     /\ Len(h) = k \/ hit = cand
     /\ \A a \in hit, b \in cand \ hit : Ahead(q, a, b)

MInit == map = [i \in {} |-> {}] /\ out = Answer("none")

MInsert(id, v) ==
  \/ /\ \E w \in Prepare[v] :
          map' = [i \in DOMAIN map \cup {id} |-> IF i = id THEN w ELSE map[i]]
     /\ out' = Answer("ok")
  \/ /\ Prepare[v] = {}
     /\ map' = map /\ out' = Answer("refused")

MRemove(id) ==
  /\ map' = [i \in DOMAIN map \ {id} |-> map[i]]
  /\ out' = IF id \in DOMAIN map THEN Answer("removed") ELSE Answer("absent")

MSearch(q, k, keep) ==
  /\ map' = map
  /\ out'.is = "found" /\ out'.hits \in Seq(Ids)
  /\ out' = Found(q, k, keep, out'.hits)
  /\ IsTop(out'.hits, q, k, keep)

(* A restore pairs the ids of one file with the rows of the other.         *)
Pairs(f) ==
  /\ Len(f.rows) = Len(f.ids)
  /\ \A i, j \in DOMAIN f.ids : f.ids[i] = f.ids[j] => i = j

MOpen(f) ==
  \/ /\ Pairs(f)
     /\ DOMAIN map' = {f.ids[i] : i \in DOMAIN f.ids}
     /\ \A i \in DOMAIN f.ids : map'[f.ids[i]] = f.rows[i]
     /\ out' = Answer("opened")
  \/ /\ ~Pairs(f)
     /\ map' = map /\ out' = Answer("corrupt")

(* An index restored from its own two files is the index that wrote them.  *)
MReopen == map' = map /\ out' = Answer("reopened")

MNext ==
  \/ \E id \in Ids, v \in Raw : MInsert(id, v)
  \/ \E id \in Ids : MRemove(id)
  \/ \E q \in Queries, k \in 0..MaxK, keep \in SUBSET Ids : MSearch(q, k, keep)
  \/ \E f \in Files : MOpen(f)
  \/ MReopen

MSpec == MInit /\ [][MNext]_mvars
=============================================================================
