---------------------------- MODULE Storage_proofs ----------------------------
(***************************************************************************)
(* Proofs about what a store keeps on disk and beside it: StoreFile, for   *)
(* every number of processes and every bound, and VectorIndex, for every   *)
(* set of ids, vectors and scores.                                         *)
(***************************************************************************)
EXTENDS StoreFile, VectorIndex, FiniteSetTheorems, TLAPS

(* What a save has written aside is what it will rename into place.        *)
TmpOf(p) ==
  /\ pc[p] \in {"vtmp", "vren", "jtmp", "jren"} => IsWrite(p)
  /\ pc[p] = "vren" => vtmp = mem[p].rows
  /\ pc[p] = "jren" => jtmp = SnapshotMeta(mem[p])
TmpFiles == \A p \in Procs : TmpOf(p)

FileInv == TypeOK /\ LockDiscipline /\ TmpFiles

LEMMA InitFileInv == Init => FileInv
  <1> SUFFICES ASSUME Init PROVE FileInv
    OBVIOUS
  <1>1. EmptyImage \in Image /\ LegacySnapshot \in Snapshot
    BY DEF EmptyImage, Image, LegacySnapshot, Snapshot, Rows
  <1>2. [num |-> 0, kind |-> "recall"] \in Request
    BY DEF Request, Kinds, ReadKinds
  <1>3. json \in Snapshot \cup {NoFile}
    BY <1>1 DEF Init
  <1>4. /\ pc \in [Procs -> PCs] /\ req \in [Procs -> Request]
        /\ mem \in [Procs -> Image]
    BY <1>1, <1>2 DEF Init, PCs
  <1>5. TypeOK
    <2>1. tries \in [Procs -> 0..MaxTries] /\ issued \in 0..MaxRequests /\ strikes \in 0..MaxStrikes
      BY BoundsAssumption DEF Init
    <2>2. outcome \in [Procs -> {"none", "ok", "err", "refused", "crashed"}]
      BY DEF Init
    <2>3. log \in Seq(Request)
      BY DEF Init
    <2>. QED
      BY <1>3, <1>4, <2>1, <2>2, <2>3 DEF Init, TypeOK
  <1>6. LockDiscipline
    BY DEF Init, LockDiscipline, Locked
  <1>7. TmpFiles
    BY DEF Init, TmpFiles, TmpOf
  <1>. QED
    BY <1>5, <1>6, <1>7 DEF FileInv

-----------------------------------------------------------------------------
(* The lock. Between lock and unlock a step only moves the program counter,*)
(* and every way out gives the lock back.                                  *)

Inside(p) ==
  /\ pc[p] \in Locked
  /\ \E there \in Locked : Goto(p, there)
  /\ UNCHANGED <<excl, shared, req>>

Outside(p) ==
  /\ Goto(p, "idle")
  /\ excl' = excl \ {p} /\ shared' = shared \ {p}
  /\ UNCHANGED req

LEMMA InsideStep ==
  ASSUME NEW p \in Procs,
         \/ ReadJson(p) \/ ReadVec(p) \/ Run(p) \/ WriteVecTmp(p) \/ RenameVec(p)
         \/ WriteJsonTmp(p) \/ RenameJson(p) \/ ReadFails(p)
  PROVE  Inside(p)
  <1> USE DEF Inside, At, Locked, lock
  <1>1. CASE ReadJson(p)
    <2>1. CASE json = NoFile
      BY <1>1, <2>1 DEF ReadJson
    <2>2. CASE json # NoFile
      BY <1>1, <2>2 DEF ReadJson
    <2>. QED BY <2>1, <2>2
  <1>2. CASE ReadVec(p)
    <2>1. PICK v \in {vec, NoFile} : OpenSplit(p, v)
      BY <1>2 DEF ReadVec
    <2>2. CASE Opens(json, v)
      BY <1>2, <2>1, <2>2 DEF ReadVec, OpenSplit
    <2>3. CASE ~Opens(json, v)
      BY <1>2, <2>1, <2>3 DEF ReadVec, OpenSplit
    <2>. QED BY <2>2, <2>3
  <1>3. CASE Run(p)
    BY <1>3 DEF Run
  <1>4. CASE WriteVecTmp(p)
    BY <1>4 DEF WriteVecTmp, Fail
  <1>5. CASE RenameVec(p)
    BY <1>5 DEF RenameVec, Fail
  <1>6. CASE WriteJsonTmp(p)
    BY <1>6 DEF WriteJsonTmp, Fail
  <1>7. CASE RenameJson(p)
    BY <1>7 DEF RenameJson, Fail
  <1>8. CASE ReadFails(p)
    BY <1>8 DEF ReadFails, Fail
  <1>. QED
    BY <1>1, <1>2, <1>3, <1>4, <1>5, <1>6, <1>7, <1>8

LEMMA OutsideStep ==
  ASSUME NEW p \in Procs, GiveUp(p) \/ Unlock(p) \/ LockFails(p) \/ Crash(p)
  PROVE  Outside(p)
  BY DEF Outside, GiveUp, Unlock, LockFails, Crash, Return, lock

LEMMA LockStep ==
  ASSUME TypeOK, LockDiscipline, [Next]_vars
  PROVE  LockDiscipline'
  <1> USE DEF TypeOK, LockDiscipline, PCs, IsWrite
  <1>1. ASSUME NEW p \in Procs, Begin(p) PROVE LockDiscipline'
    BY <1>1 DEF Begin, At, Goto, Locked, lock
  <1>2. ASSUME NEW p \in Procs, Acquire(p) PROVE LockDiscipline'
    <2>1. CASE IsWrite(p)
      BY <1>2, <2>1 DEF Acquire, At, Goto, Free, Locked
    <2>2. CASE ~IsWrite(p)
      BY <1>2, <2>2 DEF Acquire, At, Goto, Free, Locked
    <2>. QED
      BY <2>1, <2>2
  <1>3. ASSUME NEW p \in Procs, Inside(p) PROVE LockDiscipline'
    BY <1>3 DEF Inside, Goto
  <1>4. ASSUME NEW p \in Procs, Outside(p) PROVE LockDiscipline'
    BY <1>4 DEF Outside, Goto, Locked
  <1>5. ASSUME NEW p \in Procs, Backoff(p) \/ Wedge(p) PROVE LockDiscipline'
    BY <1>5 DEF Backoff, Wedge, lock
  <1>6. CASE UNCHANGED vars
    BY <1>6 DEF vars, lock
  <1>. QED
    BY <1>1, <1>2, <1>3, <1>4, <1>5, <1>6, InsideStep, OutsideStep DEF Next, Step

-----------------------------------------------------------------------------
(* Types, and what the temporary files hold.                               *)

LEMMA SnapshotMetaType == ASSUME NEW e \in Image PROVE SnapshotMeta(e) \in Snapshot
  BY DEF Image, Snapshot, SnapshotMeta

LEMMA SwapRemoveType ==
  ASSUME NEW s \in Rows, NEW i
  PROVE  SwapRemove(s, i) \in Rows
  <1>1. CASE Len(s) = 0
    BY <1>1 DEF SwapRemove, Rows
  <1>2. CASE Len(s) # 0
    <2>1. Len(s) - 1 \in Nat /\ Len(s) \in DOMAIN s
      BY <1>2 DEF Rows
    <2>2. \A k \in 1..(Len(s) - 1) : (IF k = i THEN s[Len(s)] ELSE s[k]) \in Nat
      BY <2>1 DEF Rows
    <2>. QED
      BY <2>1, <2>2 DEF SwapRemove, Rows
  <1>. QED
    BY <1>1, <1>2

LEMMA AscendingType ==
  ASSUME NEW s \in Rows, NEW t \in Ascending(s)
  PROVE  t \in Rows
  BY DEF Ascending, Rows

LEMMA ResultsType ==
  ASSUME NEW e \in Image, NEW r \in Request, NEW f \in Results(e, r)
  PROVE  f \in Image /\ f.done = Append(e.done, r) /\ r.kind \in WriteKinds
  <1>. USE DEF Image, WriteKinds
  <1>1. CASE r.kind = "add"
    <2>1. f = [ids |-> Append(e.ids, e.next), rows |-> Append(e.rows, e.next),
               next |-> e.next + 1, done |-> Append(e.done, r)]
      BY <1>1 DEF Results
    <2>2. Append(e.ids, e.next) \in Rows /\ Append(e.rows, e.next) \in Rows
      BY DEF Rows
    <2>. QED
      BY <1>1, <2>1, <2>2
  <1>2. CASE r.kind = "drop"
    <2>1. PICK i \in DOMAIN e.ids :
            f = [ids |-> SwapRemove(e.ids, i), rows |-> SwapRemove(e.rows, i),
                 next |-> e.next, done |-> Append(e.done, r)]
      BY <1>2 DEF Results
    <2>2. SwapRemove(e.ids, i) \in Rows /\ SwapRemove(e.rows, i) \in Rows
      BY SwapRemoveType
    <2>. QED
      BY <1>2, <2>1, <2>2
  <1>3. CASE r.kind = "reindex"
    <2>1. PICK t \in Ascending(e.ids) :
            f = [ids |-> t, rows |-> t, next |-> e.next, done |-> Append(e.done, r)]
      BY <1>3 DEF Results
    <2>2. t \in Rows
      BY AscendingType
    <2>. QED
      BY <1>3, <2>1, <2>2
  <1>4. CASE r.kind \notin {"add", "drop", "reindex"}
    BY <1>4 DEF Results
  <1>. QED
    BY <1>1, <1>2, <1>3, <1>4

(* A strike and a failure return keep the types and leave no save behind.  *)
LEMMA FailType ==
  ASSUME NEW p \in Procs, TypeOK, Fail(p)
  PROVE  /\ strikes' \in 0..MaxStrikes /\ halfSaves' \in Nat
         /\ pc' \in [Procs -> PCs]
         /\ outcome' \in [Procs -> {"none", "ok", "err", "refused", "crashed"}]
         /\ UNCHANGED <<json, lock, req, tries, mem, issued, wedged, log>>
  BY BoundsAssumption DEF Fail, Strike, Goto, TypeOK, PCs, Locked

LEMMA ReturnType ==
  ASSUME NEW p \in Procs, TypeOK, Return(p)
  PROVE  /\ pc' \in [Procs -> PCs] /\ tries' \in [Procs -> 0..MaxTries]
         /\ excl' \in SUBSET Procs /\ shared' \in SUBSET Procs
         /\ mem' \in [Procs -> Image]
  <1>1. EmptyImage \in Image
    BY DEF EmptyImage, Image, Rows
  <1>. QED
    BY <1>1, BoundsAssumption DEF Return, Goto, TypeOK, PCs

LEMMA TypeStep ==
  ASSUME TypeOK, LockDiscipline, TmpFiles, [Next]_vars
  PROVE  TypeOK'
  <1> USE BoundsAssumption DEF files, lock, damage, ghosts, At, Goto
  <1>1. ASSUME NEW p \in Procs, Begin(p) PROVE TypeOK'
    <2>1. PICK k \in Kinds : req' = [req EXCEPT ![p] = [num |-> issued + 1, kind |-> k]]
      BY <1>1 DEF Begin
    <2>2. [num |-> issued + 1, kind |-> k] \in Request
      BY DEF TypeOK, Request
    <2>. QED
      BY <1>1, <2>1, <2>2 DEF Begin, TypeOK, PCs
  <1>2. ASSUME NEW p \in Procs, Acquire(p) PROVE TypeOK'
    <2>1. excl' \in SUBSET Procs /\ shared' \in SUBSET Procs
      <3>1. CASE IsWrite(p)
        BY <1>2, <3>1 DEF Acquire, TypeOK
      <3>2. CASE ~IsWrite(p)
        BY <1>2, <3>2 DEF Acquire, TypeOK
      <3>. QED BY <3>1, <3>2
    <2>. QED
      BY <1>2, <2>1 DEF Acquire, TypeOK, PCs, Locked
  <1>3. ASSUME NEW p \in Procs, Backoff(p) PROVE TypeOK'
    BY <1>3 DEF Backoff, TypeOK
  <1>4. ASSUME NEW p \in Procs, GiveUp(p) PROVE TypeOK'
    BY <1>4, ReturnType DEF GiveUp, TypeOK
  <1>5. ASSUME NEW p \in Procs, ReadJson(p) PROVE TypeOK'
    <2>1. CASE json = NoFile
      <3>1. EmptyImage \in Image
        BY DEF EmptyImage, Image, Rows
      <3>. QED
        BY <1>5, <2>1, <3>1 DEF ReadJson, TypeOK, PCs, Locked
    <2>2. CASE json # NoFile
      <3> DEFINE e == [ids |-> json.ids, next |-> json.next, done |-> json.done,
                       rows |-> IF json.own = NoFile THEN <<>> ELSE json.own]
      <3>0. json \in Snapshot
        BY <2>2 DEF TypeOK
      <3>1. e \in Image
        <4>1. e.rows \in Rows
          <5>1. CASE json.own = NoFile
            BY <5>1 DEF Rows
          <5>2. CASE json.own # NoFile
            BY <3>0, <5>2 DEF Snapshot
          <5>. QED BY <5>1, <5>2
        <4>2. json.ids \in Rows /\ json.next \in Nat /\ json.done \in Seq(Request)
          BY <3>0 DEF Snapshot
        <4>. HIDE DEF Rows
        <4>. QED
          BY <4>1, <4>2 DEF Image
      <3>2. mem' = [mem EXCEPT ![p] = e] /\ pc' = [pc EXCEPT ![p] = "readvec"]
        BY <1>5, <2>2 DEF ReadJson
      <3>. QED
        BY <1>5, <3>1, <3>2 DEF ReadJson, TypeOK, PCs, Locked
    <2>. QED BY <2>1, <2>2
  <1>6. ASSUME NEW p \in Procs, ReadVec(p) PROVE TypeOK'
    <2>1. PICK v \in {vec, NoFile} : OpenSplit(p, v)
      BY <1>6 DEF ReadVec
    <2>2. strikes' \in 0..MaxStrikes /\ halfSaves' \in Nat
      BY <1>6 DEF ReadVec, Strike, TypeOK
    <2>3. mem' \in [Procs -> Image]
      <3>1. CASE v = NoFile
        BY <2>1, <3>1 DEF OpenSplit, TypeOK, Image
      <3>2. CASE v # NoFile
        <4>1. v \in Rows
          BY <3>2 DEF TypeOK
        <4>2. [mem EXCEPT ![p].rows = v] \in [Procs -> Image]
          BY <4>1 DEF TypeOK, Image
        <4>3. mem' = [mem EXCEPT ![p].rows = v] \/ mem' = mem
          <5>1. CASE Opens(json, v)
            BY <2>1, <3>2, <5>1 DEF OpenSplit
          <5>2. CASE ~Opens(json, v)
            BY <2>1, <5>2 DEF OpenSplit
          <5>. QED BY <5>1, <5>2
        <4>. QED
          BY <4>2, <4>3 DEF TypeOK
      <3>. QED BY <3>1, <3>2
    <2>4. pc' \in [Procs -> PCs]
          /\ outcome' \in [Procs -> {"none", "ok", "err", "refused", "crashed"}]
      <3>1. CASE Opens(json, v)
        BY <2>1, <3>1 DEF OpenSplit, TypeOK, PCs, Locked
      <3>2. CASE ~Opens(json, v)
        BY <2>1, <3>2 DEF OpenSplit, TypeOK, PCs, Locked
      <3>. QED BY <3>1, <3>2
    <2>. QED
      BY <2>1, <2>2, <2>3, <2>4 DEF OpenSplit, TypeOK
  <1>7. ASSUME NEW p \in Procs, Run(p) PROVE TypeOK'
    <2>1. mem' \in [Procs -> Image]
      BY <1>7, ResultsType DEF Run, TypeOK
    <2>. QED
      BY <1>7, <2>1 DEF Run, TypeOK, PCs, Locked
  <1>8. ASSUME NEW p \in Procs, WriteVecTmp(p) PROVE TypeOK'
    <2>1. mem[p].rows \in Rows
      BY DEF TypeOK, Image
    <2>. QED
      BY <1>8, <2>1, FailType DEF WriteVecTmp, TypeOK, PCs, Locked
  <1>9. ASSUME NEW p \in Procs, RenameVec(p) PROVE TypeOK'
    <2>1. vtmp \in Rows
      BY <1>9 DEF RenameVec, TmpFiles, TmpOf, TypeOK, Image
    <2>. QED
      BY <1>9, <2>1, FailType DEF RenameVec, TypeOK, PCs, Locked
  <1>10. ASSUME NEW p \in Procs, WriteJsonTmp(p) PROVE TypeOK'
    <2>1. SnapshotMeta(mem[p]) \in Snapshot
      BY SnapshotMetaType DEF TypeOK
    <2>. QED
      BY <1>10, <2>1, FailType DEF WriteJsonTmp, TypeOK, PCs, Locked
  <1>11. ASSUME NEW p \in Procs, RenameJson(p) PROVE TypeOK'
    <2>1. jtmp \in Snapshot
      BY <1>11, SnapshotMetaType DEF RenameJson, TmpFiles, TmpOf, TypeOK
    <2>2. Append(log, req[p]) \in Seq(Request)
      BY DEF TypeOK
    <2>. QED
      BY <1>11, <2>1, <2>2, FailType DEF RenameJson, TypeOK, PCs, Locked
  <1>12. ASSUME NEW p \in Procs, Unlock(p) PROVE TypeOK'
    BY <1>12, ReturnType DEF Unlock, TypeOK
  <1>13. ASSUME NEW p \in Procs, LockFails(p) PROVE TypeOK'
    BY <1>13, ReturnType DEF LockFails, Strike, TypeOK
  <1>14. ASSUME NEW p \in Procs, ReadFails(p) PROVE TypeOK'
    BY <1>14, FailType DEF ReadFails, TypeOK
  <1>15. ASSUME NEW p \in Procs, Crash(p) PROVE TypeOK'
    <2>1. vtmp' \in {vtmp, Torn} /\ jtmp' \in {jtmp, Torn}
      BY <1>15 DEF Crash
    <2>2. strikes' \in 0..MaxStrikes /\ halfSaves' \in Nat
      BY <1>15 DEF Crash, Strike, TypeOK
    <2>3. outcome' \in [Procs -> {"none", "ok", "err", "refused", "crashed"}]
          /\ wedged' \in SUBSET Procs
      BY <1>15 DEF Crash, TypeOK
    <2>4. Return(p) /\ UNCHANGED <<json, vec, req, issued, log>>
      BY <1>15 DEF Crash
    <2>. QED
      BY <2>1, <2>2, <2>3, <2>4, ReturnType DEF TypeOK
  <1>16. ASSUME NEW p \in Procs, Wedge(p) PROVE TypeOK'
    BY <1>16 DEF Wedge, TypeOK
  <1>17. CASE UNCHANGED vars
    BY <1>17 DEF vars, TypeOK
  <1>. QED
    BY <1>1, <1>2, <1>3, <1>4, <1>5, <1>6, <1>7, <1>8, <1>9, <1>10, <1>11, <1>12,
       <1>13, <1>14, <1>15, <1>16, <1>17 DEF Next, Step
-----------------------------------------------------------------------------
(* A process at work is undisturbed.                                       *)

Moves(p) == Begin(p) \/ Step(p) \/ Crash(p) \/ Wedge(p)

LEMMA Others ==
  ASSUME TypeOK, NEW p \in Procs, Moves(p), NEW q \in Procs, q # p
  PROVE  /\ pc'[q] = pc[q] /\ mem'[q] = mem[q]
         /\ req'[q] = req[q] /\ outcome'[q] = outcome[q]
  <1> USE DEF TypeOK, Goto
  <1>1. CASE Begin(p)
    BY <1>1 DEF Begin
  <1>2. CASE Acquire(p) \/ Backoff(p) \/ Wedge(p)
    BY <1>2 DEF Acquire, Backoff, Wedge
  <1>3. CASE GiveUp(p) \/ Unlock(p) \/ LockFails(p) \/ Crash(p)
    BY <1>3 DEF GiveUp, Unlock, LockFails, Crash, Return
  <1>4. CASE ReadJson(p)
    <2>1. CASE json = NoFile
      BY <1>4, <2>1 DEF ReadJson
    <2>2. CASE json # NoFile
      BY <1>4, <2>2 DEF ReadJson
    <2>. QED BY <2>1, <2>2
  <1>5. CASE ReadVec(p)
    <2>1. PICK v \in {vec, NoFile} : OpenSplit(p, v)
      BY <1>5 DEF ReadVec
    <2>2. CASE Opens(json, v)
      BY <2>1, <2>2 DEF OpenSplit
    <2>3. CASE ~Opens(json, v)
      BY <2>1, <2>3 DEF OpenSplit
    <2>. QED BY <2>2, <2>3
  <1>6. CASE Run(p)
    BY <1>6 DEF Run
  <1>7. CASE WriteVecTmp(p) \/ RenameVec(p) \/ WriteJsonTmp(p) \/ RenameJson(p) \/ ReadFails(p)
    BY <1>7 DEF WriteVecTmp, RenameVec, WriteJsonTmp, RenameJson, ReadFails, Fail
  <1>. QED
    BY <1>1, <1>2, <1>3, <1>4, <1>5, <1>6, <1>7 DEF Moves, Step

(* Only a process that is saving touches a file, and it is alone.          *)
LEMMA OnlySavesWrite ==
  ASSUME NEW p \in Procs, Moves(p), pc[p] \notin {"vtmp", "vren", "jtmp", "jren"}
  PROVE  UNCHANGED <<files, log>>
  <1> USE DEF files, ghosts, At
  <1>1. CASE Begin(p) \/ Acquire(p) \/ Backoff(p) \/ Wedge(p)
    BY <1>1 DEF Begin, Acquire, Backoff, Wedge
  <1>2. CASE GiveUp(p) \/ Unlock(p) \/ LockFails(p)
    BY <1>2 DEF GiveUp, Unlock, LockFails
  <1>3. CASE Crash(p)
    BY <1>3 DEF Crash
  <1>4. CASE ReadJson(p) \/ Run(p)
    BY <1>4 DEF ReadJson, Run
  <1>5. CASE ReadVec(p)
    BY <1>5 DEF ReadVec, OpenSplit
  <1>6. CASE ReadFails(p)
    BY <1>6 DEF ReadFails, Fail
  <1>7. CASE WriteVecTmp(p) \/ RenameVec(p) \/ WriteJsonTmp(p) \/ RenameJson(p)
    BY <1>7 DEF WriteVecTmp, RenameVec, WriteJsonTmp, RenameJson
  <1>. QED
    BY <1>1, <1>2, <1>3, <1>4, <1>5, <1>6, <1>7 DEF Moves, Step

LEMMA Alone ==
  ASSUME LockDiscipline, NEW p \in Procs, pc[p] \in Locked, IsWrite(p),
         NEW q \in Procs, pc[q] \in Locked
  PROVE  p = q
  BY DEF LockDiscipline

LEMMA Undisturbed ==
  ASSUME FileInv, NEW p \in Procs, Moves(p), NEW q \in Procs, q # p, pc[q] \in Locked
  PROVE  UNCHANGED <<files, log>>
  <1>1. CASE pc[p] \in {"vtmp", "vren", "jtmp", "jren"}
    BY <1>1, Alone DEF FileInv, TmpFiles, TmpOf, Locked
  <1>2. CASE pc[p] \notin {"vtmp", "vren", "jtmp", "jren"}
    BY <1>2, OnlySavesWrite
  <1>. QED
    BY <1>1, <1>2
LEMMA TmpStep ==
  ASSUME FileInv, [Next]_vars
  PROVE  TmpFiles'
  <1> USE DEF FileInv, TmpFiles
  <1>1. ASSUME NEW p \in Procs, Moves(p) PROVE TmpOf(p)'
    <2> USE <1>1 DEF TmpOf, At, Goto, IsWrite, TypeOK
    <2>1. CASE Begin(p)
      BY <2>1 DEF Begin
    <2>2. CASE Acquire(p)
      BY <2>2 DEF Acquire
    <2>3. CASE Backoff(p) \/ Wedge(p)
      BY <2>3 DEF Backoff, Wedge, files
    <2>4. CASE GiveUp(p) \/ Unlock(p) \/ LockFails(p) \/ Crash(p)
      <3>1. pc'[p] = "idle"
        BY <2>4, OutsideStep DEF Outside
      <3>. QED BY <3>1
    <2>5. CASE ReadJson(p)
      <3>1. pc'[p] \in {"run", "readvec"}
        BY <2>5 DEF ReadJson
      <3>. QED BY <3>1
    <2>6. CASE ReadVec(p)
      <3>1. PICK v \in {vec, NoFile} : OpenSplit(p, v)
        BY <2>6 DEF ReadVec
      <3>2. pc'[p] \in {"run", "unlock"}
        <4>1. CASE Opens(json, v)
          BY <3>1, <4>1 DEF OpenSplit
        <4>2. CASE ~Opens(json, v)
          BY <3>1, <4>2 DEF OpenSplit
        <4>. QED BY <4>1, <4>2
      <3>. QED BY <3>2
    <2>7. CASE Run(p)
      <3>1. CASE \E e \in Results(mem[p], req[p]) : mem' = [mem EXCEPT ![p] = e]
        <4>1. req[p].kind \in WriteKinds
          BY <3>1, ResultsType
        <4>. QED BY <2>7, <4>1 DEF Run
      <3>2. CASE pc'[p] = "unlock"
        BY <3>2
      <3>. QED BY <2>7, <3>1, <3>2 DEF Run
    <2>8. CASE WriteVecTmp(p)
      BY <2>8 DEF WriteVecTmp, Fail
    <2>9. CASE RenameVec(p)
      BY <2>9 DEF RenameVec, Fail
    <2>10. CASE WriteJsonTmp(p)
      BY <2>10 DEF WriteJsonTmp, Fail
    <2>11. CASE RenameJson(p)
      BY <2>11 DEF RenameJson, Fail
    <2>12. CASE ReadFails(p)
      BY <2>12 DEF ReadFails, Fail
    <2>. QED
      BY <2>1, <2>2, <2>3, <2>4, <2>5, <2>6, <2>7, <2>8, <2>9, <2>10, <2>11, <2>12
         DEF Moves, Step
  <1>2. ASSUME NEW p \in Procs, Moves(p), NEW q \in Procs, q # p PROVE TmpOf(q)'
    <2>1. pc'[q] = pc[q] /\ mem'[q] = mem[q] /\ req'[q] = req[q]
      BY <1>2, Others
    <2>2. CASE pc[q] \in Locked
      BY <1>2, <2>1, <2>2, Undisturbed DEF TmpOf, files, IsWrite
    <2>3. CASE pc[q] \notin Locked
      BY <2>1, <2>3 DEF TmpOf, Locked
    <2>. QED BY <2>2, <2>3
  <1>3. CASE UNCHANGED vars
    BY <1>3 DEF vars, files, IsWrite, TmpOf
  <1>. QED
    BY <1>1, <1>2, <1>3 DEF Next, Moves, TmpOf

LEMMA FileInvariant == Spec => []FileInv
  <1>1. FileInv /\ [Next]_vars => FileInv'
    BY TypeStep, LockStep, TmpStep DEF FileInv
  <1>. QED
    BY <1>1, InitFileInv, PTL DEF Spec

(* Every variable keeps its type: with_write and with_read never get a     *)
(* process, an engine or a file into a shape the code does not expect.     *)
THEOREM TypeCorrect == Spec => []TypeOK
  BY FileInvariant, PTL DEF FileInv

(* The lock is held exactly between acquire_within and the guard's drop,   *)
(* by one writer alone or by readers only, also across crashes.            *)
THEOREM LockSafe == Spec => []LockDiscipline
  BY FileInvariant, PTL DEF FileInv
-----------------------------------------------------------------------------
(* What the file and the engines in hand have absorbed.                    *)

LoadedOf(p) ==
  /\ pc[p] \in {"readvec", "run"} => mem[p].done = log
  /\ pc[p] \in {"vtmp", "vren", "jtmp", "jren"} => mem[p].done = Append(log, req[p])
  /\ pc[p] = "unlock" /\ outcome[p] = "ok" => mem[p].done = log

HistoryInv == NoLostUpdate /\ LoadedIsCurrent

LEMMA HistoryOwn ==
  ASSUME FileInv, HistoryInv, NEW p \in Procs, Moves(p)
  PROVE  LoadedOf(p)' /\ NoLostUpdate'
  <1> USE DEF FileInv, HistoryInv, NoLostUpdate, LoadedIsCurrent, LoadedOf, At, Goto, TypeOK,
              Moves, Step, files, damage, ghosts
  <1>1. CASE Begin(p)
    BY <1>1 DEF Begin
  <1>2. CASE Acquire(p)
    BY <1>2 DEF Acquire
  <1>3. CASE Backoff(p) \/ Wedge(p)
    BY <1>3 DEF Backoff, Wedge
  <1>4. CASE GiveUp(p) \/ Unlock(p) \/ LockFails(p) \/ Crash(p)
    <2>1. pc'[p] = "idle"
      BY <1>4, OutsideStep DEF Outside
    <2>2. UNCHANGED <<json, log>>
      BY <1>4 DEF GiveUp, Unlock, LockFails, Crash
    <2>. QED BY <2>1, <2>2
  <1>5. CASE ReadJson(p)
    <2>1. CASE json = NoFile
      BY <1>5, <2>1 DEF ReadJson, EmptyImage
    <2>2. CASE json # NoFile
      <3>1. json \notin {NoFile, Torn}
        BY <2>2, FilesAssumption
      <3>. QED BY <1>5, <2>2, <3>1 DEF ReadJson
    <2>. QED BY <2>1, <2>2
  <1>6. CASE ReadVec(p)
    <2>1. PICK v \in {vec, NoFile} : OpenSplit(p, v)
      BY <1>6 DEF ReadVec
    <2>2. CASE Opens(json, v)
      <3>1. mem'[p].done = mem[p].done
        BY <2>1, <2>2 DEF OpenSplit, Image
      <3>. QED BY <1>6, <2>1, <2>2, <3>1 DEF OpenSplit, ReadVec
    <2>3. CASE ~Opens(json, v)
      BY <2>1, <2>3 DEF OpenSplit
    <2>. QED BY <2>2, <2>3
  <1>7. CASE Run(p)
    <2>1. CASE \E e \in Results(mem[p], req[p]) : mem' = [mem EXCEPT ![p] = e]
                                                  /\ pc' = [pc EXCEPT ![p] = "vtmp"]
      <3>1. mem'[p].done = Append(mem[p].done, req[p])
        BY <2>1, ResultsType
      <3>. QED BY <1>7, <2>1, <3>1 DEF Run
    <2>2. CASE pc' = [pc EXCEPT ![p] = "unlock"] /\ mem' = mem
      BY <1>7, <2>2 DEF Run
    <2>. QED BY <1>7, <2>1, <2>2 DEF Run
  <1>8. CASE WriteVecTmp(p) \/ RenameVec(p) \/ WriteJsonTmp(p) \/ ReadFails(p)
    BY <1>8 DEF WriteVecTmp, RenameVec, WriteJsonTmp, ReadFails, Fail
  <1>9. CASE RenameJson(p)
    <2>1. CASE json' = jtmp /\ log' = Append(log, req[p])
               /\ pc' = [pc EXCEPT ![p] = "unlock"] /\ mem' = mem
      <3>1. jtmp = SnapshotMeta(mem[p]) /\ mem[p].done = Append(log, req[p])
        BY <1>9 DEF RenameJson, TmpFiles, TmpOf
      <3>2. jtmp \notin {NoFile, Torn}
        BY <3>1, SnapshotMetaType, FilesAssumption
      <3>. QED BY <2>1, <3>1, <3>2 DEF SnapshotMeta
    <2>2. CASE Fail(p)
      BY <2>2 DEF Fail
    <2>. QED BY <1>9, <2>1, <2>2 DEF RenameJson
  <1>. QED
    BY <1>1, <1>2, <1>3, <1>4, <1>5, <1>6, <1>7, <1>8, <1>9

LEMMA HistoryStep ==
  ASSUME FileInv, HistoryInv, [Next]_vars
  PROVE  HistoryInv'
  <1>1. ASSUME NEW p \in Procs, Moves(p) PROVE HistoryInv'
    <2>1. ASSUME NEW q \in Procs, q # p PROVE LoadedOf(q)'
      <3>1. pc'[q] = pc[q] /\ mem'[q] = mem[q] /\ req'[q] = req[q] /\ outcome'[q] = outcome[q]
        BY <1>1, <2>1, Others DEF FileInv
      <3>2. CASE pc[q] \in Locked
        BY <1>1, <2>1, <3>1, <3>2, Undisturbed DEF LoadedOf, HistoryInv, LoadedIsCurrent
      <3>3. CASE pc[q] \notin Locked
        BY <3>1, <3>3 DEF LoadedOf, Locked
      <3>. QED BY <3>2, <3>3
    <2>. QED
      BY <1>1, <2>1, HistoryOwn DEF HistoryInv, LoadedIsCurrent, LoadedOf
  <1>2. CASE UNCHANGED vars
    BY <1>2 DEF vars, files, ghosts, HistoryInv, NoLostUpdate, LoadedIsCurrent
  <1>. QED
    BY <1>1, <1>2 DEF Next, Moves

LEMMA HistoryInvariant == Spec => [](FileInv /\ HistoryInv)
  <1>1. Init => HistoryInv
    BY DEF Init, HistoryInv, NoLostUpdate, LoadedIsCurrent, LegacySnapshot
  <1>2. FileInv /\ HistoryInv /\ [Next]_vars => HistoryInv'
    BY HistoryStep
  <1>. QED
    BY <1>1, <1>2, FileInvariant, PTL DEF Spec

(* with_write never loses a committed write: the snapshot on disk has      *)
(* absorbed exactly the committed writes in order, for any number of       *)
(* processes, polls, crashes and I/O failures.                             *)
THEOREM NoWriteIsLost == Spec => []NoLostUpdate
  BY HistoryInvariant, PTL DEF HistoryInv

(* What with_write and with_read hand to a command is the committed store, *)
(* from its load to its unlock.                                            *)
THEOREM NothingIsStale == Spec => []LoadedIsCurrent
  BY HistoryInvariant, PTL DEF HistoryInv
-----------------------------------------------------------------------------
(* The two files of the store. While nothing has struck between the two    *)
(* renames, each process carries rows that are its ids, and the files are  *)
(* either the pair one save wrote or that pair with its vectors renewed.   *)

OwnRows == json # NoFile /\ json.own # NoFile => json.own = json.ids

PairOf(p) ==
  /\ pc[p] = "readvec" =>
       /\ json # NoFile
       /\ mem[p].ids = json.ids
       /\ json.own # NoFile => mem[p].rows = json.own
  /\ pc[p] \in {"jtmp", "jren"} => vec = mem[p].rows
  /\ halfSaves = 0 /\ pc[p] \in {"run", "vtmp", "vren", "jtmp", "jren"}
       => mem[p].rows = mem[p].ids

PairInv == OwnRows /\ PairAgrees /\ \A p \in Procs : PairOf(p)

LEMMA ResultsAgree ==
  ASSUME NEW e \in Image, NEW r \in Request, NEW f \in Results(e, r), e.rows = e.ids
  PROVE  f.rows = f.ids
  <1>1. CASE r.kind = "add"
    BY <1>1 DEF Results
  <1>2. CASE r.kind = "drop"
    BY <1>2 DEF Results
  <1>3. CASE r.kind = "reindex"
    BY <1>3 DEF Results
  <1>. QED
    BY <1>1, <1>2, <1>3 DEF Results

LEMMA HalfSaves ==
  ASSUME TypeOK, NEW p \in Procs, Moves(p)
  PROVE  /\ halfSaves' = 0 => halfSaves = 0
         /\ halfSaves' = 0 /\ pc[p] \in {"jtmp", "jren"} => ~Strike(p)
  <1> USE DEF TypeOK, damage, ghosts
  <1>1. ASSUME Strike(p)
        PROVE  halfSaves' = 0 => halfSaves = 0 /\ pc[p] \notin {"jtmp", "jren"}
    <2>1. CASE pc[p] \in {"jtmp", "jren"}
      BY <1>1, <2>1 DEF Strike
    <2>2. CASE pc[p] \notin {"jtmp", "jren"}
      BY <1>1, <2>2 DEF Strike
    <2>. QED BY <2>1, <2>2
  <1>2. Strike(p) \/ UNCHANGED halfSaves
    <2>1. CASE Begin(p) \/ Acquire(p) \/ Backoff(p) \/ Wedge(p) \/ GiveUp(p) \/ Unlock(p)
      BY <2>1 DEF Begin, Acquire, Backoff, Wedge, GiveUp, Unlock
    <2>2. CASE ReadJson(p) \/ ReadVec(p) \/ Run(p)
      BY <2>2 DEF ReadJson, ReadVec, Run
    <2>3. CASE LockFails(p) \/ ReadFails(p) \/ Crash(p)
      BY <2>3 DEF LockFails, ReadFails, Crash, Fail
    <2>4. CASE WriteVecTmp(p) \/ RenameVec(p) \/ WriteJsonTmp(p) \/ RenameJson(p)
      BY <2>4 DEF WriteVecTmp, RenameVec, WriteJsonTmp, RenameJson, Fail
    <2>. QED BY <2>1, <2>2, <2>3, <2>4 DEF Moves, Step
  <1>. QED
    BY <1>1, <1>2

LEMMA PairOwn ==
  ASSUME FileInv, PairInv, NEW p \in Procs, Moves(p)
  PROVE  PairOf(p)'
  <1> USE DEF FileInv, PairOf, At, Goto, TypeOK, Moves, Step
  <1>0. /\ PairOf(p) /\ OwnRows /\ PairAgrees
        /\ halfSaves' = 0 => halfSaves = 0
    BY HalfSaves DEF PairInv
  <1>1. CASE Begin(p)
    BY <1>1 DEF Begin
  <1>2. CASE Acquire(p)
    BY <1>2 DEF Acquire
  <1>3. CASE Backoff(p) \/ Wedge(p)
    BY <1>0, <1>3 DEF Backoff, Wedge, files, damage, ghosts
  <1>4. CASE GiveUp(p) \/ Unlock(p) \/ LockFails(p) \/ Crash(p)
    <2>1. pc'[p] = "idle"
      BY <1>4, OutsideStep DEF Outside
    <2>. QED BY <2>1
  <1>5. CASE ReadJson(p)
    <2>1. CASE json = NoFile
      BY <1>5, <2>1 DEF ReadJson, EmptyImage
    <2>2. CASE json # NoFile
      BY <1>5, <2>2 DEF ReadJson, files
    <2>. QED BY <2>1, <2>2
  <1>6. CASE ReadVec(p)
    <2>1. PICK v \in {vec, NoFile} : OpenSplit(p, v)
      BY <1>6 DEF ReadVec
    <2>2. CASE Opens(json, v)
      <3>1. pc'[p] = "run" /\ mem'[p].ids = mem[p].ids
            /\ mem'[p].rows = IF v = NoFile THEN mem[p].rows ELSE v
        BY <2>1, <2>2 DEF OpenSplit, Image
      <3>2. ASSUME halfSaves' = 0 PROVE mem'[p].rows = mem[p].ids
        <4>1. pc[p] = "readvec" /\ halfSaves = 0
          BY <1>0, <1>6, <3>2 DEF ReadVec
        <4>2. json # NoFile /\ mem[p].ids = json.ids
          BY <1>0, <4>1
        <4>3. CASE v = NoFile
          <5>1. json.own # NoFile
            BY <2>2, <4>3 DEF Opens
          <5>. QED BY <1>0, <3>1, <4>1, <4>2, <4>3, <5>1 DEF OwnRows
        <4>4. CASE v # NoFile
          <5>1. v = vec /\ vec # NoFile
            BY <2>1, <4>4
          <5>2. \A q \in Procs : pc[q] \notin {"jtmp", "jren"}
            BY <4>1, Alone DEF TmpFiles, TmpOf, Locked
          <5>. QED BY <1>0, <3>1, <4>1, <4>2, <4>4, <5>1, <5>2 DEF PairAgrees, RowsFor
        <4>. QED BY <4>3, <4>4
      <3>. QED BY <3>1, <3>2
    <2>3. CASE ~Opens(json, v)
      BY <2>1, <2>3 DEF OpenSplit
    <2>. QED BY <2>2, <2>3
  <1>7. CASE Run(p)
    <2>1. CASE \E e \in Results(mem[p], req[p]) : mem' = [mem EXCEPT ![p] = e]
                                                  /\ pc' = [pc EXCEPT ![p] = "vtmp"]
      <3>1. halfSaves' = 0 => mem[p].rows = mem[p].ids
        BY <1>0, <1>7 DEF Run
      <3>2. halfSaves' = 0 => mem'[p].rows = mem'[p].ids
        BY <2>1, <3>1, ResultsAgree
      <3>. QED BY <2>1, <3>2
    <2>2. CASE pc' = [pc EXCEPT ![p] = "unlock"]
      BY <2>2
    <2>. QED BY <1>7, <2>1, <2>2 DEF Run
  <1>8. CASE WriteVecTmp(p)
    BY <1>0, <1>8 DEF WriteVecTmp, Fail
  <1>9. CASE RenameVec(p)
    BY <1>0, <1>9 DEF RenameVec, Fail, TmpFiles, TmpOf
  <1>10. CASE WriteJsonTmp(p)
    BY <1>0, <1>10 DEF WriteJsonTmp, Fail
  <1>11. CASE RenameJson(p) \/ ReadFails(p)
    <2>1. pc'[p] = "unlock"
      BY <1>11 DEF RenameJson, ReadFails, Fail
    <2>. QED BY <2>1
  <1>. QED
    BY <1>1, <1>2, <1>3, <1>4, <1>5, <1>6, <1>7, <1>8, <1>9, <1>10, <1>11

LEMMA PairFiles ==
  ASSUME FileInv, PairInv, NEW p \in Procs, Moves(p)
  PROVE  OwnRows' /\ PairAgrees'
  <1> USE DEF FileInv, At, Goto, TypeOK
  <1>0. /\ PairOf(p) /\ OwnRows /\ PairAgrees
        /\ halfSaves' = 0 => halfSaves = 0
        /\ halfSaves' = 0 /\ pc[p] \in {"jtmp", "jren"} => ~Strike(p)
    BY HalfSaves DEF PairInv
  <1>1. CASE RenameJson(p) /\ json' = jtmp
    <2>1. jtmp = SnapshotMeta(mem[p]) /\ vec = mem[p].rows /\ vec' = vec
          /\ (halfSaves = 0 => mem[p].rows = mem[p].ids)
      BY <1>0, <1>1 DEF RenameJson, TmpFiles, TmpOf, PairOf
    <2>2. json'.own = NoFile /\ json'.ids = mem[p].ids
      BY <1>1, <2>1 DEF SnapshotMeta
    <2>3. vec # NoFile
      BY <2>1, FilesAssumption DEF Image
    <2>. QED BY <1>0, <2>1, <2>2, <2>3 DEF OwnRows, PairAgrees, RowsFor
  <1>2. CASE RenameVec(p) /\ pc' = [pc EXCEPT ![p] = "jtmp"]
    <2>1. json' = json
      BY <1>2 DEF RenameVec, Fail
    <2>. QED BY <1>0, <1>2, <2>1 DEF OwnRows, PairAgrees
  <1>3. CASE pc[p] \in {"jtmp", "jren"} /\ ~(RenameJson(p) /\ json' = jtmp)
    <2>1. UNCHANGED json
      <3>1. CASE WriteJsonTmp(p) \/ RenameJson(p)
        BY <1>3, <3>1 DEF WriteJsonTmp, RenameJson, Fail
      <3>2. CASE Crash(p) \/ Wedge(p)
        BY <3>2 DEF Crash, Wedge, files
      <3>. QED BY <1>3, <3>1, <3>2 DEF Moves, Step, Begin, Acquire, Backoff, GiveUp, ReadJson,
                 ReadVec, Run, WriteVecTmp, RenameVec, Unlock, LockFails, ReadFails
    <2>2. halfSaves' = 0 => pc'[p] \in {"jtmp", "jren"}
      <3>1. CASE WriteJsonTmp(p) \/ RenameJson(p)
        BY <1>0, <1>3, <3>1 DEF WriteJsonTmp, RenameJson, Fail
      <3>2. CASE Crash(p) \/ Wedge(p)
        BY <1>0, <1>3, <3>2 DEF Crash, Wedge
      <3>. QED BY <1>3, <3>1, <3>2 DEF Moves, Step, Begin, Acquire, Backoff, GiveUp, ReadJson,
                 ReadVec, Run, WriteVecTmp, RenameVec, Unlock, LockFails, ReadFails
    <2>. QED BY <1>0, <2>1, <2>2 DEF OwnRows, PairAgrees
  <1>4. CASE pc[p] \notin {"jtmp", "jren"} /\ ~(RenameVec(p) /\ pc' = [pc EXCEPT ![p] = "jtmp"])
    <2>1. UNCHANGED <<json, vec>>
      <3>1. CASE WriteVecTmp(p) \/ RenameVec(p)
        BY <1>4, <3>1 DEF WriteVecTmp, RenameVec, Fail
      <3>2. CASE Crash(p) \/ Wedge(p)
        BY <3>2 DEF Crash, Wedge, files
      <3>3. CASE pc[p] \notin {"vtmp", "vren"}
        BY <1>4, <3>3, OnlySavesWrite DEF files
      <3>. QED BY <1>4, <3>1, <3>2, <3>3 DEF Moves, Step, Begin, Acquire, Backoff, GiveUp,
                 ReadJson, ReadVec, Run, WriteJsonTmp, RenameJson, Unlock, LockFails, ReadFails
    <2>2. \A q \in Procs : pc[q] \in {"jtmp", "jren"} => pc'[q] \in {"jtmp", "jren"}
      BY <1>4, Others
    <2>. QED BY <1>0, <2>1, <2>2 DEF OwnRows, PairAgrees
  <1>. QED
    BY <1>1, <1>2, <1>3, <1>4

LEMMA PairStep ==
  ASSUME FileInv, PairInv, [Next]_vars
  PROVE  PairInv'
  <1>1. ASSUME NEW p \in Procs, Moves(p) PROVE PairInv'
    <2>1. ASSUME NEW q \in Procs, q # p PROVE PairOf(q)'
      <3>1. /\ pc'[q] = pc[q] /\ mem'[q] = mem[q]
            /\ PairOf(q) /\ (halfSaves' = 0 => halfSaves = 0)
        BY <1>1, <2>1, Others, HalfSaves DEF FileInv, PairInv
      <3>2. CASE pc[q] \in Locked
        BY <1>1, <2>1, <3>1, <3>2, Undisturbed DEF PairOf, files
      <3>3. CASE pc[q] \notin Locked
        BY <3>1, <3>3 DEF PairOf, Locked
      <3>. QED BY <3>2, <3>3
    <2>. QED
      BY <1>1, <2>1, PairOwn, PairFiles DEF PairInv
  <1>2. CASE UNCHANGED vars
    BY <1>2 DEF vars, files, ghosts, damage, PairInv, OwnRows, PairAgrees, PairOf
  <1>. QED
    BY <1>1, <1>2 DEF Next, Moves

LEMMA PairInvariant == Spec => [](FileInv /\ PairInv)
  <1>1. Init => PairInv
    <2>1. ASSUME Init, json = LegacySnapshot PROVE RowsFor(json, vec) = json.ids
                                                   /\ json.own = json.ids
      BY <2>1 DEF Init, LegacySnapshot, RowsFor
    <2>. QED BY <2>1 DEF Init, PairInv, OwnRows, PairAgrees, PairOf
  <1>2. FileInv /\ PairInv /\ [Next]_vars => PairInv'
    BY PairStep
  <1>. QED
    BY <1>1, <1>2, FileInvariant, PTL DEF Spec

(* As long as no crash and no failure ever fell between save's two         *)
(* renames, memory.json and memory.vec of a store at rest belong together, *)
(* whatever struck anywhere else.                                          *)
THEOREM PairSafe == Spec => []PairAgrees
  BY PairInvariant, PTL DEF PairInv

(* And then every engine loaded, and every engine about to be saved, has   *)
(* the vector of each id in that id's row.                                 *)
THEOREM ImageSafe == Spec => []ImageAgrees
  <1>1. PairInv => ImageAgrees
    BY DEF PairInv, PairOf, ImageAgrees
  <1>. QED
    BY <1>1, PairInvariant, PTL
-----------------------------------------------------------------------------
(* What an answer says. Requests are told apart by their number, the log   *)
(* holds only numbers already issued, and a process that has not committed *)
(* is not in it.                                                           *)

Apart ==
  /\ \A p, q \in Procs : p # q /\ req[p].num = req[q].num => req[p].num = 0
  /\ \A p \in Procs : req[p].num \in 0..issued
  /\ \A i \in DOMAIN log : log[i].num \in 1..issued

AnswerOf(p) ==
  /\ pc[p] # "idle" => req[p].num # 0
  /\ pc[p] \notin {"idle", "unlock"} => outcome[p] = "none"
  /\ pc[p] = "unlock" => outcome[p] \in {"ok", "err"}
  /\ outcome[p] = "ok" /\ IsWrite(p) => Committed(req[p])
  /\ outcome[p] \in {"none", "err", "refused"} => ~Committed(req[p])

AnswerInv == Apart /\ \A p \in Procs : AnswerOf(p)

(* The only step that commits is a RenameJson that does not fail.          *)
Commits(p) == RenameJson(p) /\ ~Fail(p)

LEMMA OnlyCommitsAppend ==
  ASSUME TypeOK, NEW p \in Procs, Moves(p)
  PROVE  \/ /\ Commits(p)
            /\ pc[p] = "jren" /\ pc'[p] = "unlock"
            /\ outcome'[p] = "ok"
            /\ log' = Append(log, req[p])
            /\ UNCHANGED <<req, issued, mem>>
         \/ ~Commits(p) /\ log' = log
  <1> USE DEF ghosts, damage, At, Goto, TypeOK
  <1>1. CASE RenameJson(p)
    <2>1. CASE Fail(p)
      BY <1>1, <2>1 DEF Fail, Commits
    <2>2. CASE ~Fail(p)
      BY <1>1, <2>2 DEF RenameJson, Commits
    <2>. QED BY <2>1, <2>2
  <1>2. CASE ~RenameJson(p)
    <2>1. CASE Crash(p) \/ Wedge(p)
      BY <1>2, <2>1 DEF Crash, Wedge, Commits
    <2>2. CASE WriteVecTmp(p) \/ RenameVec(p) \/ WriteJsonTmp(p)
      BY <1>2, <2>2 DEF WriteVecTmp, RenameVec, WriteJsonTmp, Fail, Commits
    <2>3. CASE pc[p] \notin {"vtmp", "vren", "jtmp", "jren"}
      BY <1>2, <2>3, OnlySavesWrite DEF Commits
    <2>. QED
      BY <1>2, <2>1, <2>2, <2>3 DEF Moves, Step, Begin, Acquire, Backoff, GiveUp, ReadJson,
         ReadVec, Run, Unlock, LockFails, ReadFails, Commits
  <1>. QED BY <1>1, <1>2

LEMMA CommittedAppend ==
  ASSUME NEW r, NEW s, log \in Seq(Request), log' = Append(log, s)
  PROVE  (\E i \in DOMAIN log' : log'[i] = r) <=> Committed(r) \/ r = s
  <1>1. /\ DOMAIN log' = 1..(Len(log) + 1) /\ DOMAIN log = 1..Len(log)
        /\ Len(log) \in Nat /\ log'[Len(log) + 1] = s
        /\ \A i \in 1..Len(log) : log'[i] = log[i]
    OBVIOUS
  <1>. QED
    BY <1>1 DEF Committed

(* The steps that are not a call keep the request.                         *)
LEMMA OnlyBeginAsks ==
  ASSUME NEW p \in Procs, Moves(p), ~Begin(p)
  PROVE  UNCHANGED <<req, issued>>
  BY DEF Moves, Step, ghosts, damage, Acquire, Backoff, GiveUp, ReadJson, ReadVec, OpenSplit, Run,
         WriteVecTmp, RenameVec, WriteJsonTmp, RenameJson, Unlock, LockFails, ReadFails, Fail,
         Crash, Wedge

LEMMA ApartStep ==
  ASSUME TypeOK, AnswerInv, NEW p \in Procs, Moves(p)
  PROVE  Apart'
  <1> USE DEF TypeOK, Request, AnswerInv
  <1>1. CASE Begin(p)
    <2>1. PICK k \in Kinds : req' = [req EXCEPT ![p] = [num |-> issued + 1, kind |-> k]]
      BY <1>1 DEF Begin
    <2>2. issued' = issued + 1 /\ log' = log /\ issued \in Nat
      BY <1>1, BoundsAssumption DEF Begin
    <2>3. \A q \in Procs : req'[q].num = IF q = p THEN issued + 1 ELSE req[q].num
      BY <2>1
    <2>4. /\ \A q \in Procs : req[q].num \in 0..issued
          /\ \A i \in DOMAIN log : log[i].num \in 1..issued
          /\ \A q, r \in Procs : q # r /\ req[q].num = req[r].num => req[q].num = 0
      BY DEF Apart
    <2>5. \A q, r \in Procs : q # r /\ req'[q].num = req'[r].num => req'[q].num = 0
      <3>1. \A q \in Procs : req[q].num # issued + 1
        BY <2>2, <2>4
      <3>. QED BY <2>3, <2>4, <3>1
    <2>6. ASSUME NEW q \in Procs PROVE req'[q].num \in 0..issued'
      <3>1. CASE q = p
        BY <2>2, <2>3, <3>1
      <3>2. CASE q # p
        BY <2>2, <2>3, <2>4, <3>2
      <3>. QED BY <3>1, <3>2
    <2>7. \A i \in DOMAIN log' : log'[i].num \in 1..issued'
      BY <2>2, <2>4
    <2>. QED BY <2>5, <2>6, <2>7 DEF Apart
  <1>2. CASE ~Begin(p)
    <2>1. UNCHANGED <<req, issued>>
      BY <1>2, OnlyBeginAsks
    <2>2. CASE log' = log
      BY <2>1, <2>2 DEF Apart
    <2>3. CASE Commits(p)
      <3>1. log' = Append(log, req[p]) /\ pc[p] # "idle"
        BY <2>3, OnlyCommitsAppend
      <3>2. req[p].num \in 1..issued
        BY <3>1, BoundsAssumption DEF Apart, AnswerOf
      <3>3. \A i \in DOMAIN log' : log'[i] = req[p] \/ \E j \in DOMAIN log : log'[i] = log[j]
        BY <3>1
      <3>. QED BY <2>1, <3>2, <3>3 DEF Apart
    <2>. QED BY <2>2, <2>3, OnlyCommitsAppend
  <1>. QED BY <1>1, <1>2

LEMMA AnswerOwn ==
  ASSUME FileInv, AnswerInv, NEW p \in Procs, Moves(p)
  PROVE  AnswerOf(p)'
  <1> USE DEF TypeOK, At, Goto, FileInv
  <1>0. Apart /\ AnswerOf(p) /\ log \in Seq(Request) /\ issued \in Nat
    BY BoundsAssumption DEF AnswerInv
  <1>1. CASE Begin(p)
    <2>1. PICK k \in Kinds : req' = [req EXCEPT ![p] = [num |-> issued + 1, kind |-> k]]
      BY <1>1 DEF Begin
    <2>2. pc'[p] = "lock" /\ outcome'[p] = "none" /\ log' = log /\ req'[p].num = issued + 1
      BY <1>1, <2>1 DEF Begin
    <2>3. \A i \in DOMAIN log : log[i] # req'[p]
      BY <1>0, <2>2 DEF Apart
    <2>. QED BY <1>0, <2>2, <2>3 DEF AnswerOf, Committed
  <1>2. CASE Commits(p)
    <2>1. /\ pc[p] = "jren" /\ pc'[p] = "unlock" /\ outcome'[p] = "ok" /\ req'[p] = req[p]
          /\ log' = Append(log, req[p])
      BY <1>2, OnlyCommitsAppend
    <2>2. Committed(req[p])'
      BY <1>0, <2>1, CommittedAppend DEF Committed
    <2>. QED BY <1>0, <2>1, <2>2 DEF AnswerOf
  <1>3. CASE ~Begin(p) /\ ~Commits(p)
    <2>1. req' = req /\ log' = log
      BY <1>3, OnlyBeginAsks, OnlyCommitsAppend
    <2>2. Committed(req[p])' <=> Committed(req[p])
      BY <2>1 DEF Committed
    <2>3. IsWrite(p)' <=> IsWrite(p)
      BY <2>1 DEF IsWrite
    <2>4. \/ pc'[p] = pc[p] /\ outcome'[p] = outcome[p]
          \/ pc'[p] \notin {"idle", "unlock"} /\ outcome'[p] = outcome[p] /\ outcome[p] = "none"
             /\ pc[p] # "idle"
          \/ pc'[p] = "unlock" /\ outcome'[p] = "err" /\ outcome[p] = "none" /\ pc[p] # "idle"
          \/ pc'[p] = "unlock" /\ outcome'[p] = "ok" /\ ~IsWrite(p) /\ pc[p] # "idle"
          \/ pc'[p] = "idle" /\ outcome'[p] \in {"err", "refused"} /\ outcome[p] = "none"
          \/ pc'[p] = "idle" /\ outcome'[p] = "crashed"
          \/ pc'[p] = "idle" /\ outcome'[p] = outcome[p]
      <3> USE <1>0 DEF AnswerOf
      <3>1. CASE Acquire(p) \/ Backoff(p) \/ Wedge(p)
        BY <3>1 DEF Acquire, Backoff, Wedge
      <3>2. CASE GiveUp(p) \/ LockFails(p) \/ Crash(p) \/ Unlock(p)
        BY <3>2 DEF GiveUp, LockFails, Crash, Unlock, Return
      <3>3. CASE ReadJson(p)
        BY <3>3 DEF ReadJson
      <3>4. CASE ReadVec(p)
        <4>1. PICK v \in {vec, NoFile} : OpenSplit(p, v)
          BY <3>4 DEF ReadVec
        <4>2. CASE Opens(json, v)
          BY <3>4, <4>1, <4>2 DEF OpenSplit, ReadVec
        <4>3. CASE ~Opens(json, v)
          BY <3>4, <4>1, <4>3 DEF OpenSplit, ReadVec
        <4>. QED BY <4>2, <4>3
      <3>5. CASE Run(p)
        BY <3>5 DEF Run
      <3>6. CASE WriteVecTmp(p) \/ RenameVec(p) \/ WriteJsonTmp(p) \/ ReadFails(p)
        BY <3>6 DEF WriteVecTmp, RenameVec, WriteJsonTmp, ReadFails, Fail
      <3>7. CASE RenameJson(p)
        BY <1>3, <3>7 DEF RenameJson, Fail, Commits
      <3>. QED BY <1>3, <3>1, <3>2, <3>3, <3>4, <3>5, <3>6, <3>7 DEF Moves, Step
    <2>. QED BY <1>0, <2>1, <2>2, <2>3, <2>4 DEF AnswerOf
  <1>. QED BY <1>1, <1>2, <1>3

LEMMA AnswerStep ==
  ASSUME FileInv, AnswerInv, [Next]_vars
  PROVE  AnswerInv'
  <1>1. ASSUME NEW p \in Procs, Moves(p) PROVE AnswerInv'
    <2>1. ASSUME NEW q \in Procs, q # p PROVE AnswerOf(q)'
      <3>1. /\ pc'[q] = pc[q] /\ req'[q] = req[q] /\ outcome'[q] = outcome[q]
            /\ AnswerOf(q) /\ Apart /\ AnswerOf(p) /\ log \in Seq(Request)
        BY <1>1, <2>1, Others DEF FileInv, AnswerInv, TypeOK
      <3>2. CASE log' = log
        BY <3>1, <3>2 DEF AnswerOf, Committed, IsWrite
      <3>3. CASE log' = Append(log, req[p]) /\ pc[p] = "jren"
        <4>1. req[p] # req[q]
          BY <2>1, <3>1, <3>3 DEF Apart, AnswerOf
        <4>2. Committed(req[q])' <=> Committed(req[q])
          BY <3>1, <3>3, <4>1, CommittedAppend DEF Committed
        <4>. QED BY <3>1, <4>2 DEF AnswerOf, IsWrite
      <3>. QED BY <1>1, <3>2, <3>3, OnlyCommitsAppend DEF FileInv
    <2>. QED
      BY <1>1, <2>1, AnswerOwn, ApartStep DEF AnswerInv, FileInv
  <1>2. CASE UNCHANGED vars
    BY <1>2 DEF vars, files, ghosts, damage, AnswerInv, Apart, AnswerOf, IsWrite, Committed
  <1>. QED
    BY <1>1, <1>2 DEF Next, Moves

LEMMA AnswerInvariant == Spec => [](FileInv /\ AnswerInv)
  <1>1. Init => AnswerInv
    BY DEF Init, AnswerInv, Apart, AnswerOf, Committed
  <1>2. FileInv /\ AnswerInv /\ [Next]_vars => AnswerInv'
    BY AnswerStep
  <1>. QED
    BY <1>1, <1>2, FileInvariant, PTL DEF Spec

(* What a command is told is what happened to the file: Ok means           *)
(* committed, an error or a refusal of the lock means never committed.     *)
THEOREM AnswersTrue == Spec => []AnswersAreTrue
  <1>1. AnswerInv => AnswersAreTrue
    BY DEF AnswerInv, AnswerOf, AnswersAreTrue
  <1>. QED
    BY <1>1, AnswerInvariant, PTL
-----------------------------------------------------------------------------
(* StoreFile implements SerialStore: each step of a process is a step of   *)
(* the abstract store, or none.                                            *)

LEMMA MapOthers ==
  ASSUME FileInv, AnswerInv, NEW p \in Procs, Moves(p), NEW q \in Procs, q # p
  PROVE  /\ pending'[q] = pending[q] /\ shown'[q] = shown[q] /\ answered'[q] = answered[q]
         /\ q \in taken' <=> q \in taken
  <1>1. /\ pc'[q] = pc[q] /\ req'[q] = req[q] /\ outcome'[q] = outcome[q] /\ mem'[q] = mem[q]
        /\ AnswerOf(q) /\ Apart /\ AnswerOf(p) /\ log \in Seq(Request)
    BY Others DEF FileInv, AnswerInv, TypeOK
  <1>2. Committed(req[q])' <=> Committed(req[q])
    <2>1. CASE log' = log
      BY <1>1, <2>1 DEF Committed
    <2>2. CASE log' = Append(log, req[p]) /\ pc[p] = "jren"
      <3>1. req[p] # req[q]
        BY <1>1, <2>2 DEF Apart, AnswerOf
      <3>. QED BY <1>1, <2>2, <3>1, CommittedAppend DEF Committed
    <2>. QED BY <2>1, <2>2, OnlyCommitsAppend DEF FileInv
  <1>3. q \in taken' <=> q \in taken
    BY <1>1, <1>2 DEF taken
  <1>4. pending'[q] = pending[q] /\ shown'[q] = shown[q] /\ answered'[q] = answered[q]
    BY <1>1 DEF pending, shown, answered, IsWrite
  <1>. QED BY <1>3, <1>4

LEMMA MapUpdate ==
  ASSUME FileInv, AnswerInv, NEW p \in Procs, Moves(p)
  PROVE  /\ pending' = [pending EXCEPT ![p] = pending'[p]]
         /\ shown' = [shown EXCEPT ![p] = shown'[p]]
         /\ answered' = [answered EXCEPT ![p] = answered'[p]]
         /\ p \in taken' => taken' = taken \cup {p}
         /\ p \notin taken' => taken' = taken \ {p}
         /\ pending'[p] = pending[p] => pending' = pending
         /\ shown'[p] = shown[p] => shown' = shown
         /\ answered'[p] = answered[p] => answered' = answered
         /\ (p \in taken' <=> p \in taken) => taken' = taken
  <1>1. \A q \in Procs : q # p =>
          /\ pending'[q] = pending[q] /\ shown'[q] = shown[q] /\ answered'[q] = answered[q]
          /\ q \in taken' <=> q \in taken
    BY MapOthers
  <1>2. /\ pending' = [pending EXCEPT ![p] = pending'[p]]
        /\ pending'[p] = pending[p] => pending' = pending
    BY <1>1 DEF pending
  <1>3. /\ shown' = [shown EXCEPT ![p] = shown'[p]]
        /\ shown'[p] = shown[p] => shown' = shown
    BY <1>1 DEF shown
  <1>4. /\ answered' = [answered EXCEPT ![p] = answered'[p]]
        /\ answered'[p] = answered[p] => answered' = answered
    BY <1>1 DEF answered
  <1>5. taken \in SUBSET Procs /\ taken' \in SUBSET Procs
    BY DEF taken
  <1>. QED BY <1>1, <1>2, <1>3, <1>4, <1>5

(* The abstract state of one process, read off its concrete state.         *)
LEMMA MapHere ==
  ASSUME NEW p \in Procs
  PROVE  /\ pc[p] = "idle" => /\ pending[p] = NoFile /\ shown[p] = {}
                              /\ answered[p] = outcome[p] /\ p \notin taken
         /\ pc[p] # "idle" => /\ pending[p] = req[p] /\ answered[p] = "none"
                              /\ p \in taken <=> Committed(req[p])
         /\ pc[p] = "unlock" /\ outcome[p] = "ok" /\ ~IsWrite(p) => shown[p] = {mem[p].done}
         /\ ~(pc[p] = "unlock" /\ outcome[p] = "ok" /\ ~IsWrite(p)) => shown[p] = {}
  BY DEF pending, shown, answered, taken

LEMMA MapHereNext ==
  ASSUME NEW p \in Procs
  PROVE  /\ pc'[p] = "idle" => /\ pending'[p] = NoFile /\ shown'[p] = {}
                               /\ answered'[p] = outcome'[p] /\ p \notin taken'
         /\ pc'[p] # "idle" => /\ pending'[p] = req'[p] /\ answered'[p] = "none"
                               /\ p \in taken' <=> Committed(req[p])'
         /\ pc'[p] = "unlock" /\ outcome'[p] = "ok" /\ ~IsWrite(p)'
              => shown'[p] = {mem'[p].done}
         /\ ~(pc'[p] = "unlock" /\ outcome'[p] = "ok" /\ ~IsWrite(p)') => shown'[p] = {}
  BY DEF pending, shown, answered, taken
MapInv == FileInv /\ HistoryInv /\ AnswerInv

LEMMA BeginCalls ==
  ASSUME MapInv, AnswerInv', NEW p \in Procs, Begin(p)
  PROVE  Serial!Call(p)
  <1> USE DEF MapInv, FileInv, TypeOK, At, Goto
  <1>1. PICK k \in Kinds : req' = [req EXCEPT ![p] = [num |-> issued + 1, kind |-> k]]
    BY DEF Begin
  <1>2. /\ pc[p] = "idle" /\ pc'[p] = "lock" /\ outcome'[p] = "none" /\ log' = log
        /\ req'[p] = [num |-> issued + 1, kind |-> k] /\ issued + 1 \in 1..MaxRequests
    BY <1>1, BoundsAssumption DEF Begin
  <1>3. ~Committed(req[p])'
    BY <1>2 DEF AnswerInv, AnswerOf
  <1>4. /\ pending[p] = NoFile /\ pending'[p] = req'[p] /\ shown'[p] = shown[p]
        /\ answered'[p] = "none" /\ p \notin taken /\ p \notin taken'
    BY <1>2, <1>3, MapHere, MapHereNext
  <1>5. shown' = shown /\ taken' = taken
    BY <1>4, MapUpdate DEF Moves
  <1>6. /\ pending' = [pending EXCEPT ![p] = [num |-> issued + 1, kind |-> k]]
        /\ answered' = [answered EXCEPT ![p] = "none"]
    BY <1>2, <1>4, MapUpdate DEF Moves
  <1>7. k \in Serial!Kinds
    BY DEF Serial!Kinds, Kinds
  <1>. QED
    BY <1>2, <1>4, <1>5, <1>6, <1>7 DEF Serial!Call

LEMMA CommitTakesEffect ==
  ASSUME MapInv, AnswerInv', NEW p \in Procs, Moves(p), Commits(p)
  PROVE  Serial!TakeEffect(p)
  <1> USE DEF MapInv, FileInv, TypeOK
  <1>1. /\ pc[p] = "jren" /\ pc'[p] = "unlock" /\ outcome'[p] = "ok" /\ req' = req
        /\ log' = Append(log, req[p])
    BY OnlyCommitsAppend
  <1>2. IsWrite(p) /\ IsWrite(p)'
    BY <1>1 DEF TmpFiles, TmpOf, IsWrite
  <1>3. ~Committed(req[p]) /\ Committed(req[p])'
    BY <1>1, <1>2 DEF AnswerInv, AnswerOf
  <1>4. /\ pending[p] = req[p] /\ pending'[p] = pending[p] /\ shown'[p] = shown[p]
        /\ answered'[p] = answered[p] /\ p \notin taken /\ p \in taken'
    BY <1>1, <1>2, <1>3, MapHere, MapHereNext
  <1>5. pending' = pending /\ shown' = shown /\ answered' = answered
    BY <1>4, MapUpdate
  <1>6. taken' = taken \cup {p}
    BY <1>4, MapUpdate
  <1>7. req[p] # NoFile
    BY FilesAssumption
  <1>. QED
    BY <1>1, <1>2, <1>4, <1>5, <1>6, <1>7 DEF Serial!TakeEffect, IsWrite

LEMMA ReadObserves ==
  ASSUME MapInv, NEW p \in Procs, Run(p), ~IsWrite(p), outcome'[p] = "ok"
  PROVE  Serial!Observe(p)
  <1> USE DEF MapInv, FileInv, TypeOK, At, Goto
  <1>1. pc[p] = "run" /\ outcome[p] = "none" /\ mem[p].done = log /\ req' = req /\ log' = log
    BY DEF Run, AnswerInv, AnswerOf, HistoryInv, LoadedIsCurrent, ghosts
  <1>2. mem' = mem /\ pc'[p] = "unlock"
    BY <1>1, ResultsType DEF Run, IsWrite
  <1>3. ~IsWrite(p)' /\ (Committed(req[p])' <=> Committed(req[p]))
    BY <1>1 DEF IsWrite, Committed
  <1>4. /\ pending[p] = req[p] /\ pending'[p] = pending[p] /\ shown'[p] = {log}
        /\ answered'[p] = answered[p] /\ (p \in taken' <=> p \in taken)
    BY <1>1, <1>2, <1>3, MapHere, MapHereNext
  <1>5. pending' = pending /\ answered' = answered /\ shown' = [shown EXCEPT ![p] = {log}]
    BY <1>4, MapUpdate DEF Moves, Step
  <1>6. taken' = taken
    BY <1>4, MapUpdate DEF Moves, Step
  <1>7. req[p] # NoFile /\ req[p].kind \in ReadKinds
    BY FilesAssumption DEF Request, Kinds, IsWrite
  <1>. QED
    BY <1>1, <1>4, <1>5, <1>6, <1>7 DEF Serial!Observe

LEMMA ReturnAnswers ==
  ASSUME MapInv, NEW p \in Procs, pc[p] # "idle",
         GiveUp(p) \/ Unlock(p) \/ LockFails(p) \/ Crash(p)
  PROVE  Serial!AnswerOk(p) \/ Serial!AnswerErr(p) \/ Serial!Die(p)
  <1> USE DEF MapInv, FileInv, TypeOK, At
  <1>1. pc'[p] = "idle" /\ log' = log
    BY OutsideStep DEF Outside, Goto, GiveUp, Unlock, LockFails, Crash, ghosts
  <1>2. /\ pending[p] = req[p] /\ pending'[p] = NoFile /\ shown'[p] = {}
        /\ answered'[p] = outcome'[p] /\ p \notin taken'
        /\ p \in taken <=> Committed(req[p])
    BY <1>1, MapHere, MapHereNext
  <1>3. req[p] # NoFile
    BY FilesAssumption
  <1>4. Serial!Answer(p, outcome'[p])
    BY <1>1, <1>2, <1>3, MapUpdate DEF Serial!Answer, Moves, Step
  <1>5. CASE Crash(p)
    BY <1>4, <1>5 DEF Crash, Serial!Die
  <1>6. CASE GiveUp(p) \/ LockFails(p)
    <2>1. outcome[p] = "none" /\ outcome'[p] \in {"err", "refused"}
      BY <1>6 DEF GiveUp, LockFails, AnswerInv, AnswerOf
    <2>2. p \notin taken
      BY <1>2, <2>1 DEF AnswerInv, AnswerOf
    <2>. QED BY <1>4, <2>1, <2>2 DEF Serial!AnswerErr
  <1>7. CASE Unlock(p)
    <2>1. outcome'[p] = outcome[p] /\ pc[p] = "unlock"
      BY <1>7 DEF Unlock
    <2>2. CASE outcome[p] = "err"
      <3>1. p \notin taken
        BY <1>2, <2>2 DEF AnswerInv, AnswerOf
      <3>. QED BY <1>4, <2>1, <2>2, <3>1 DEF Serial!AnswerErr
    <2>3. CASE outcome[p] = "ok" /\ IsWrite(p)
      <3>1. p \in taken
        BY <1>2, <2>3 DEF AnswerInv, AnswerOf
      <3>. QED BY <1>2, <1>4, <2>1, <2>3, <3>1 DEF Serial!AnswerOk, IsWrite
    <2>4. CASE outcome[p] = "ok" /\ ~IsWrite(p)
      <3>1. shown[p] # {}
        BY <2>1, <2>4, MapHere
      <3>. QED BY <1>2, <1>4, <2>1, <2>4, <3>1 DEF Serial!AnswerOk, IsWrite
    <2>. QED BY <2>1, <2>2, <2>3, <2>4 DEF AnswerInv, AnswerOf
  <1>. QED
    BY <1>5, <1>6, <1>7

(* Everything in between is invisible.                                     *)
LEMMA InnerStutters ==
  ASSUME MapInv, NEW p \in Procs, Moves(p), ~Begin(p), ~Commits(p),
         ~(Run(p) /\ ~IsWrite(p) /\ outcome'[p] = "ok"),
         ~(GiveUp(p) \/ Unlock(p) \/ LockFails(p) \/ Crash(p))
  PROVE  UNCHANGED Serial!svars
  <1> USE DEF MapInv, FileInv, TypeOK, At, Goto
  <1>1. req' = req /\ log' = log
    BY OnlyBeginAsks, OnlyCommitsAppend
  <1>2. /\ pc[p] # "idle" /\ pc'[p] # "idle"
        /\ \/ pc'[p] = pc[p] /\ outcome'[p] = outcome[p] /\ mem'[p] = mem[p]
           \/ pc[p] # "unlock" /\ ~(pc'[p] = "unlock" /\ outcome'[p] = "ok" /\ ~IsWrite(p))
    <2>1. CASE Acquire(p) \/ Backoff(p) \/ Wedge(p)
      BY <2>1 DEF Acquire, Backoff, Wedge
    <2>2. CASE ReadJson(p)
      BY <2>2 DEF ReadJson
    <2>3. CASE ReadVec(p)
      <3>1. PICK v \in {vec, NoFile} : OpenSplit(p, v)
        BY <2>3 DEF ReadVec
      <3>2. CASE Opens(json, v)
        BY <2>3, <3>1, <3>2 DEF OpenSplit, ReadVec
      <3>3. CASE ~Opens(json, v)
        BY <2>3, <3>1, <3>3 DEF OpenSplit, ReadVec
      <3>. QED BY <3>2, <3>3
    <2>4. CASE Run(p)
      BY <2>4 DEF Run
    <2>5. CASE WriteVecTmp(p) \/ RenameVec(p) \/ WriteJsonTmp(p) \/ ReadFails(p)
      BY <2>5 DEF WriteVecTmp, RenameVec, WriteJsonTmp, ReadFails, Fail
    <2>6. CASE RenameJson(p)
      BY <2>6 DEF RenameJson, Fail, Commits
    <2>. QED BY <2>1, <2>2, <2>3, <2>4, <2>5, <2>6 DEF Moves, Step
  <1>3. (Committed(req[p])' <=> Committed(req[p])) /\ (IsWrite(p)' <=> IsWrite(p))
    BY <1>1 DEF Committed, IsWrite
  <1>4. /\ pending'[p] = pending[p] /\ shown'[p] = shown[p] /\ answered'[p] = answered[p]
        /\ p \in taken' <=> p \in taken
    BY <1>1, <1>2, <1>3, MapHere, MapHereNext
  <1>5. pending' = pending /\ shown' = shown /\ answered' = answered
    BY <1>4, MapUpdate
  <1>6. taken' = taken
    BY <1>4, MapUpdate
  <1>. QED
    BY <1>1, <1>5, <1>6 DEF Serial!svars

(* Lock, load, two renames and unlock implement a store whose every        *)
(* command is one atomic step, for any number of processes, polls,         *)
(* crashes, I/O failures and hangs.                                        *)
THEOREM Implements == Spec => ImplementsSerialStore
  <1>1. Init => Serial!SInit
    <2>1. ASSUME Init PROVE \A p \in Procs : pc[p] = "idle" /\ outcome[p] = "none"
      BY <2>1 DEF Init
    <2>. QED
      BY <2>1 DEF Init, Serial!SInit, pending, taken, shown, answered
  <1>2. MapInv /\ AnswerInv' /\ [Next]_vars => [Serial!SNext]_(Serial!svars)
    <2> SUFFICES ASSUME MapInv, AnswerInv', [Next]_vars
                 PROVE  Serial!SNext \/ UNCHANGED Serial!svars
      OBVIOUS
    <2>1. ASSUME NEW p \in Procs, Moves(p) PROVE Serial!SNext \/ UNCHANGED Serial!svars
      <3>1. CASE Begin(p)
        BY <3>1, BeginCalls DEF Serial!SNext
      <3>2. CASE Commits(p)
        BY <2>1, <3>2, CommitTakesEffect DEF Serial!SNext
      <3>3. CASE Run(p) /\ ~IsWrite(p) /\ outcome'[p] = "ok"
        BY <3>3, ReadObserves DEF Serial!SNext
      <3>4. CASE GiveUp(p) \/ Unlock(p) \/ LockFails(p) \/ Crash(p)
        <4>1. pc[p] # "idle"
          BY <3>4 DEF GiveUp, Unlock, LockFails, Crash, At
        <4>. QED BY <3>4, <4>1, ReturnAnswers DEF Serial!SNext
      <3>. QED BY <2>1, <3>1, <3>2, <3>3, <3>4, InnerStutters
    <2>2. CASE UNCHANGED vars
      BY <2>2 DEF vars, ghosts, Serial!svars, pending, taken, shown, answered, Committed, IsWrite
    <2>. QED
      BY <2>1, <2>2 DEF Next, Moves
  <1>. QED
    BY <1>1, <1>2, HistoryInvariant, AnswerInvariant, PTL
       DEF Spec, MapInv, ImplementsSerialStore, Serial!SSpec

-----------------------------------------------------------------------------
(* The vector index                                                        *)

(* positions is the inverse of ids, read from the other side.              *)
LEMMA RowOfId ==
  ASSUME IndexInv
  PROVE  /\ DOMAIN positions = Held(ids)
         /\ \A i \in Held(ids) : positions[i] \in DOMAIN ids /\ ids[positions[i]] = i
         /\ \A r, s \in DOMAIN ids : ids[r] = ids[s] => r = s
  <1>1. DOMAIN positions = Held(ids) /\ \A i \in Held(ids) : positions[i] \in DOMAIN ids
    BY DEF IndexInv
  <1>2. ASSUME NEW i \in Held(ids) PROVE ids[positions[i]] = i
    <2>1. PICK r \in DOMAIN ids : ids[r] = i
      BY DEF Held
    <2>2. positions[ids[r]] = r
      BY DEF IndexInv
    <2>. QED BY <2>1, <2>2
  <1>3. ASSUME NEW r \in DOMAIN ids, NEW s \in DOMAIN ids, ids[r] = ids[s] PROVE r = s
    BY <1>3 DEF IndexInv
  <1>. QED BY <1>1, <1>2, <1>3

LEMMA SwapOutFacts ==
  ASSUME NEW X, NEW s \in Seq(X), NEW row \in DOMAIN s
  PROVE  /\ SwapOut(s, row) \in Seq(X)
         /\ DOMAIN SwapOut(s, row) = 1..(Len(s) - 1)
         /\ Len(SwapOut(s, row)) = Len(s) - 1
         /\ \A r \in 1..(Len(s) - 1) :
              /\ r # row => SwapOut(s, row)[r] = s[r]
              /\ r = row => SwapOut(s, row)[r] = s[Len(s)]
  <1>1. Len(s) \in Nat \ {0} /\ DOMAIN s = 1..Len(s) /\ Len(s) \in DOMAIN s
    OBVIOUS
  <1>2. \A r \in 1..(Len(s) - 1) : (IF r = row THEN s[Len(s)] ELSE s[r]) \in X
    BY <1>1
  <1>3. Len(s) - 1 \in Nat
    BY <1>1
  <1>4. SwapOut(s, row) \in [1..(Len(s) - 1) -> X]
    BY <1>2 DEF SwapOut
  <1>5. SwapOut(s, row) \in Seq(X) /\ Len(SwapOut(s, row)) = Len(s) - 1
    BY <1>3, <1>4
  <1>. QED
    BY <1>4, <1>5 DEF SwapOut

LEMMA RemoveKeeps ==
  ASSUME IndexInv, NEW id \in DOMAIN positions,
         ids' = SwapOut(ids, positions[id]), vectors' = SwapOut(vectors, positions[id]),
         positions' = Patch(id)
  PROVE  /\ IndexInv'
         /\ Held(ids') = Held(ids) \ {id}
         /\ \A i \in Held(ids) \ {id} : vectors'[positions'[i]] = vectors[positions[i]]
  <1> DEFINE row == positions[id]
             n == Len(ids)
  <1>1. /\ row \in 1..n /\ ids[row] = id /\ n \in Nat \ {0}
        /\ DOMAIN ids = 1..n /\ DOMAIN vectors = 1..n /\ Len(vectors) = n
        /\ ids \in Seq(Ids) /\ vectors \in Seq(Vecs)
        /\ \A i \in Held(ids) : positions[i] \in 1..n /\ ids[positions[i]] = i
        /\ \A r \in 1..n : positions[ids[r]] = r
        /\ DOMAIN positions = Held(ids)
    <2>1. ids \in Seq(Ids) /\ vectors \in Seq(Vecs) /\ Len(vectors) = n
      BY DEF IndexInv
    <2>2. DOMAIN ids = 1..n /\ DOMAIN vectors = 1..n /\ n \in Nat
      BY <2>1
    <2>3. /\ DOMAIN positions = Held(ids)
          /\ \A i \in Held(ids) : positions[i] \in DOMAIN ids /\ ids[positions[i]] = i
          /\ \A r \in DOMAIN ids : positions[ids[r]] = r
      BY RowOfId DEF IndexInv
    <2>4. row \in 1..n /\ ids[row] = id
      BY <2>2, <2>3
    <2>. QED BY <2>1, <2>2, <2>3, <2>4
  <1>. HIDE DEF row, n
  <1>2. /\ ids' \in Seq(Ids) /\ Len(ids') = n - 1 /\ DOMAIN ids' = 1..(n - 1)
        /\ \A r \in 1..(n - 1) : /\ r # row => ids'[r] = ids[r]
                                 /\ r = row => ids'[r] = ids[n]
    <2>1. ids \in Seq(Ids) /\ row \in DOMAIN ids /\ Len(ids) = n
      BY <1>1 DEF n
    <2>2. /\ SwapOut(ids, row) \in Seq(Ids)
          /\ DOMAIN SwapOut(ids, row) = 1..(Len(ids) - 1)
          /\ Len(SwapOut(ids, row)) = Len(ids) - 1
          /\ \A r \in 1..(Len(ids) - 1) :
               /\ r # row => SwapOut(ids, row)[r] = ids[r]
               /\ r = row => SwapOut(ids, row)[r] = ids[Len(ids)]
      BY <2>1, SwapOutFacts
    <2>3. ids' = SwapOut(ids, row)
      BY DEF row
    <2>. QED BY <2>1, <2>2, <2>3
  <1>3. /\ vectors' \in Seq(Vecs) /\ Len(vectors') = n - 1
        /\ \A r \in 1..(n - 1) : /\ r # row => vectors'[r] = vectors[r]
                                 /\ r = row => vectors'[r] = vectors[n]
    <2>1. vectors \in Seq(Vecs) /\ row \in DOMAIN vectors /\ Len(vectors) = n
      BY <1>1 DEF n
    <2>2. /\ SwapOut(vectors, row) \in Seq(Vecs)
          /\ DOMAIN SwapOut(vectors, row) = 1..(Len(vectors) - 1)
          /\ Len(SwapOut(vectors, row)) = Len(vectors) - 1
          /\ \A r \in 1..(Len(vectors) - 1) :
               /\ r # row => SwapOut(vectors, row)[r] = vectors[r]
               /\ r = row => SwapOut(vectors, row)[r] = vectors[Len(vectors)]
      BY <2>1, SwapOutFacts
    <2>3. vectors' = SwapOut(vectors, row)
      BY DEF row
    <2>. QED BY <2>1, <2>2, <2>3
  <1>4. Held(ids') = Held(ids) \ {id}
    <2>1. ASSUME NEW r \in 1..(n - 1) PROVE ids'[r] \in Held(ids) \ {id}
      <3>0. \A s \in 1..n : ids[s] \in Held(ids) /\ (s # row => ids[s] # id)
        BY <1>1 DEF Held
      <3>1. CASE r = row
        BY <1>1, <1>2, <3>0, <3>1
      <3>2. CASE r # row
        BY <1>1, <1>2, <3>0, <3>2
      <3>. QED BY <3>1, <3>2
    <2>2. ASSUME NEW i \in Held(ids) \ {id} PROVE \E r \in 1..(n - 1) : ids'[r] = i
      <3>1. positions[i] \in 1..n /\ ids[positions[i]] = i /\ positions[i] # row
        BY <1>1
      <3>2. CASE positions[i] = n
        <4>1. row \in 1..(n - 1)
          BY <1>1, <3>1, <3>2
        <4>2. ids'[row] = i
          BY <1>2, <3>1, <3>2, <4>1
        <4>. QED BY <4>1, <4>2
      <3>3. CASE positions[i] # n
        <4>1. positions[i] \in 1..(n - 1) /\ ids'[positions[i]] = i
          BY <1>1, <1>2, <3>1, <3>3
        <4>. QED BY <4>1
      <3>. QED BY <3>2, <3>3
    <2>3. Held(ids') = {ids'[r] : r \in 1..(n - 1)}
      BY <1>2 DEF Held
    <2>. QED BY <2>1, <2>2, <2>3
  <1>5. ASSUME NEW i \in Held(ids) \ {id}
        PROVE  /\ positions'[i] \in 1..(n - 1)
               /\ ids'[positions'[i]] = i
               /\ vectors'[positions'[i]] = vectors[positions[i]]
    <2>1. positions[i] \in 1..n /\ ids[positions[i]] = i /\ positions[i] # row
      BY <1>1
    <2>2. CASE i = ids[n]
      <3>1. positions'[i] = row
        BY <1>1, <2>2 DEF Patch, row, n
      <3>2. positions[i] = n /\ row # n
        BY <1>1, <2>1, <2>2
      <3>. QED BY <1>1, <1>2, <1>3, <2>2, <3>1, <3>2
    <2>3. CASE i # ids[n]
      <3>1. positions'[i] = positions[i]
        BY <1>1, <2>3 DEF Patch, row, n
      <3>2. positions[i] # n
        BY <2>1, <2>3
      <3>. QED BY <1>1, <1>2, <1>3, <2>1, <3>1, <3>2
    <2>. QED BY <2>2, <2>3
  <1>6. positions' \in [Held(ids') -> DOMAIN ids']
    BY <1>1, <1>2, <1>4, <1>5 DEF Patch, row, n
  <1>7. ASSUME NEW r \in 1..(n - 1) PROVE positions'[ids'[r]] = r
    <2>1. CASE r = row
      <3>1. ids'[r] = ids[n] /\ row # n /\ ids[n] # id
        BY <1>1, <1>2, <2>1
      <3>2. ids[n] \in Held(ids)
        BY <1>1 DEF Held
      <3>. QED BY <1>1, <2>1, <3>1, <3>2 DEF Patch, row, n
    <2>2. CASE r # row
      <3>1. ids'[r] = ids[r] /\ ids[r] # id /\ ids[r] # ids[n]
        BY <1>1, <1>2, <2>2
      <3>2. ids[r] \in Held(ids)
        BY <1>1 DEF Held
      <3>. QED BY <1>1, <3>1, <3>2 DEF Patch, row, n
    <2>. QED BY <2>1, <2>2
  <1>. QED
    BY <1>2, <1>3, <1>4, <1>5, <1>6, <1>7 DEF IndexInv
LEMMA ReplaceRow ==
  ASSUME IndexInv, NEW id \in DOMAIN positions, NEW w \in Vecs,
         vectors' = [vectors EXCEPT ![positions[id]] = w], UNCHANGED <<ids, positions>>
  PROVE  IndexInv' /\ map' = [i \in DOMAIN map \cup {id} |-> IF i = id THEN w ELSE map[i]]
  <1>1. vectors' \in Seq(Vecs) /\ Len(vectors') = Len(vectors)
    BY DEF IndexInv
  <1>2. IndexInv'
    BY <1>1 DEF IndexInv, Held
  <1>3. ASSUME NEW i \in DOMAIN positions
        PROVE  vectors'[positions'[i]] = IF i = id THEN w ELSE vectors[positions[i]]
    <2>1. /\ positions[i] \in DOMAIN ids /\ ids[positions[i]] = i
          /\ positions[id] \in DOMAIN ids /\ ids[positions[id]] = id
          /\ DOMAIN ids = 1..Len(ids) /\ DOMAIN vectors = 1..Len(ids)
      BY RowOfId DEF IndexInv
    <2>2. CASE i = id
      BY <2>1, <2>2
    <2>3. CASE i # id
      BY <2>1, <2>3
    <2>. QED BY <2>2, <2>3
  <1>. QED
    BY <1>2, <1>3 DEF map

LEMMA PushRow ==
  ASSUME IndexInv, NEW id \in Ids, id \notin DOMAIN positions, NEW w \in Vecs,
         ids' = Append(ids, id), vectors' = Append(vectors, w),
         positions' = [i \in DOMAIN positions \cup {id} |->
                         IF i = id THEN Len(ids) + 1 ELSE positions[i]]
  PROVE  IndexInv' /\ map' = [i \in DOMAIN map \cup {id} |-> IF i = id THEN w ELSE map[i]]
  <1> DEFINE n == Len(ids)
  <1>1. /\ n \in Nat /\ DOMAIN ids = 1..n /\ Len(vectors) = n /\ DOMAIN vectors = 1..n
        /\ ids \in Seq(Ids) /\ vectors \in Seq(Vecs)
        /\ DOMAIN positions = Held(ids)
        /\ \A i \in Held(ids) : positions[i] \in 1..n /\ ids[positions[i]] = i
        /\ \A r \in 1..n : positions[ids[r]] = r
    <2>1. ids \in Seq(Ids) /\ vectors \in Seq(Vecs) /\ Len(vectors) = n
      BY DEF IndexInv
    <2>2. n \in Nat /\ DOMAIN ids = 1..n /\ DOMAIN vectors = 1..n
      BY <2>1
    <2>. QED BY <2>1, <2>2, RowOfId DEF IndexInv
  <1>2. /\ ids' \in Seq(Ids) /\ Len(ids') = n + 1 /\ DOMAIN ids' = 1..(n + 1)
        /\ \A r \in 1..n : ids'[r] = ids[r]
        /\ ids'[n + 1] = id
    BY <1>1
  <1>3. /\ vectors' \in Seq(Vecs) /\ Len(vectors') = n + 1
        /\ \A r \in 1..n : vectors'[r] = vectors[r]
        /\ vectors'[n + 1] = w
    BY <1>1
  <1>. HIDE DEF n
  <1>4. Held(ids') = Held(ids) \cup {id}
    <2>1. Held(ids') = {ids'[r] : r \in 1..(n + 1)}
      BY <1>2 DEF Held
    <2>2. Held(ids) = {ids[r] : r \in 1..n}
      BY <1>1 DEF Held
    <2>3. \A r \in 1..(n + 1) : r = n + 1 \/ r \in 1..n
      BY <1>1
    <2>4. ASSUME NEW i \in Held(ids) PROVE \E r \in 1..(n + 1) : ids'[r] = i
      <3>1. positions[i] \in 1..n /\ ids'[positions[i]] = i
        BY <1>1, <1>2
      <3>. QED BY <1>1, <3>1
    <2>5. id \in {ids'[r] : r \in 1..(n + 1)}
      BY <1>1, <1>2
    <2>6. \A r \in 1..n : ids'[r] = ids[r]
      BY <1>2
    <2>7. ASSUME NEW r \in 1..(n + 1) PROVE ids'[r] \in Held(ids) \cup {id}
      BY <1>2, <2>2, <2>3, <2>6
    <2>. QED BY <2>1, <2>4, <2>5, <2>7
  <1>5. ASSUME NEW i \in Held(ids) \cup {id}
        PROVE  /\ positions'[i] \in 1..(n + 1)
               /\ vectors'[positions'[i]] = IF i = id THEN w ELSE vectors[positions[i]]
    <2>1. CASE i = id
      BY <1>1, <1>3, <2>1 DEF n
    <2>2. CASE i # id
      BY <1>1, <1>3, <2>2
    <2>. QED BY <2>1, <2>2
  <1>6. ASSUME NEW r \in 1..(n + 1) PROVE positions'[ids'[r]] = r
    <2>1. CASE r = n + 1
      BY <1>2, <2>1 DEF n
    <2>2. CASE r # n + 1
      <3>1. r \in 1..n /\ ids'[r] = ids[r]
        BY <1>1, <1>2, <2>2
      <3>2. ids[r] \in DOMAIN positions /\ positions[ids[r]] = r
        BY <1>1, <3>1 DEF Held
      <3>3. ids[r] # id
        BY <3>2
      <3>. QED BY <3>1, <3>2, <3>3
    <2>. QED BY <2>1, <2>2
  <1>7. positions' \in [Held(ids') -> DOMAIN ids']
    BY <1>1, <1>2, <1>4, <1>5
  <1>8. IndexInv'
    BY <1>2, <1>3, <1>6, <1>7 DEF IndexInv
  <1>. QED
    BY <1>1, <1>4, <1>5, <1>8 DEF map

LEMMA InsertMaps ==
  ASSUME IndexInv, NEW id \in Ids, NEW v \in Raw, Insert(id, v)
  PROVE  IndexInv' /\ Exact!MInsert(id, v)
  <1>1. CASE \E w \in Prepare[v] :
               /\ id \in DOMAIN positions
               /\ vectors' = [vectors EXCEPT ![positions[id]] = w]
               /\ UNCHANGED <<ids, positions>> /\ out' = Answer("ok")
    <2>1. PICK w \in Prepare[v] : /\ id \in DOMAIN positions
                                  /\ vectors' = [vectors EXCEPT ![positions[id]] = w]
                                  /\ UNCHANGED <<ids, positions>> /\ out' = Answer("ok")
      BY <1>1
    <2>2. w \in Vecs
      BY IndexAssumption
    <2>3. IndexInv' /\ map' = [i \in DOMAIN map \cup {id} |-> IF i = id THEN w ELSE map[i]]
      BY <2>1, <2>2, ReplaceRow
    <2>. QED BY <2>1, <2>3 DEF Exact!MInsert, Exact!Answer, Answer
  <1>2. CASE \E w \in Prepare[v] :
               /\ id \notin DOMAIN positions
               /\ positions' = [i \in DOMAIN positions \cup {id} |->
                                  IF i = id THEN Len(ids) + 1 ELSE positions[i]]
               /\ ids' = Append(ids, id) /\ vectors' = Append(vectors, w)
               /\ out' = Answer("ok")
    <2>1. PICK w \in Prepare[v] :
               /\ id \notin DOMAIN positions
               /\ positions' = [i \in DOMAIN positions \cup {id} |->
                                  IF i = id THEN Len(ids) + 1 ELSE positions[i]]
               /\ ids' = Append(ids, id) /\ vectors' = Append(vectors, w)
               /\ out' = Answer("ok")
      BY <1>2
    <2>2. w \in Vecs
      BY IndexAssumption
    <2>3. IndexInv' /\ map' = [i \in DOMAIN map \cup {id} |-> IF i = id THEN w ELSE map[i]]
      BY <2>1, <2>2, PushRow
    <2>. QED BY <2>1, <2>3 DEF Exact!MInsert, Exact!Answer, Answer
  <1>3. CASE Prepare[v] = {} /\ UNCHANGED ivars /\ out' = Answer("refused")
    BY <1>3 DEF ivars, IndexInv, Held, Exact!MInsert, Exact!Answer, Answer, map
  <1>. QED
    BY <1>1, <1>2, <1>3 DEF Insert

LEMMA RemoveMaps ==
  ASSUME IndexInv, NEW id \in Ids, Remove(id)
  PROVE  IndexInv' /\ Exact!MRemove(id)
  <1>1. DOMAIN map = DOMAIN positions
    BY DEF map
  <1>2. CASE id \in DOMAIN positions
    <2>1. /\ ids' = SwapOut(ids, positions[id]) /\ vectors' = SwapOut(vectors, positions[id])
          /\ positions' = Patch(id) /\ out' = Answer("removed")
      BY <1>2 DEF Remove
    <2>2. /\ IndexInv' /\ Held(ids') = Held(ids) \ {id}
          /\ \A i \in Held(ids) \ {id} : vectors'[positions'[i]] = vectors[positions[i]]
      BY <1>2, <2>1, RemoveKeeps
    <2>3. DOMAIN positions = Held(ids) /\ DOMAIN positions' = Held(ids) \ {id}
      BY <2>1, RowOfId DEF Patch
    <2>4. map' = [i \in DOMAIN map \ {id} |-> map[i]]
      BY <2>2, <2>3 DEF map
    <2>. QED BY <1>1, <1>2, <2>1, <2>2, <2>4 DEF Exact!MRemove, Exact!Answer, Answer
  <1>3. CASE id \notin DOMAIN positions
    <2>1. UNCHANGED ivars /\ out' = Answer("absent")
      BY <1>3 DEF Remove
    <2>2. map' = map /\ map = [i \in DOMAIN map \ {id} |-> map[i]]
      BY <1>3, <2>1 DEF map, ivars
    <2>3. IndexInv'
      BY <2>1 DEF ivars, IndexInv, Held
    <2>. QED BY <1>1, <1>3, <2>1, <2>2, <2>3 DEF Exact!MRemove, Exact!Answer, Answer
  <1>. QED
    BY <1>2, <1>3

LEMMA RestoreMaps ==
  ASSUME NEW f \in File, NEW is, Valid(f), Restore(f, is)
  PROVE  /\ IndexInv'
         /\ DOMAIN map' = Held(f.ids)
         /\ \A r \in DOMAIN f.ids : map'[f.ids[r]] = f.rows[r]
  <1>1. /\ f.ids \in Seq(Ids) /\ f.rows \in Seq(Vecs) /\ Len(f.rows) = Len(f.ids)
        /\ \A r, s \in DOMAIN f.ids : f.ids[r] = f.ids[s] => r = s
    BY DEF File, Valid
  <1>2. ids' = f.ids /\ vectors' = f.rows /\ positions' = Rebuilt(f.ids)
    BY DEF Restore
  <1>3. ASSUME NEW i \in Held(f.ids)
        PROVE  Rebuilt(f.ids)[i] \in DOMAIN f.ids /\ f.ids[Rebuilt(f.ids)[i]] = i
    <2>1. \E r \in DOMAIN f.ids : f.ids[r] = i
      BY DEF Held
    <2>. QED BY <2>1 DEF Rebuilt
  <1>4. ASSUME NEW r \in DOMAIN f.ids PROVE f.ids[r] \in Held(f.ids) /\ Rebuilt(f.ids)[f.ids[r]] = r
    <2>1. f.ids[r] \in Held(f.ids)
      BY DEF Held
    <2>. QED BY <1>1, <1>3, <2>1
  <1>5. positions' \in [Held(ids') -> DOMAIN ids']
    BY <1>2, <1>3 DEF Rebuilt
  <1>6. IndexInv'
    BY <1>1, <1>2, <1>4, <1>5 DEF IndexInv
  <1>. QED
    BY <1>2, <1>4, <1>5, <1>6 DEF map
(* A sort returns every element of a finite set: it is an injection from   *)
(* as many positions.                                                      *)
LEMMA SortedIsOnto ==
  ASSUME NEW q, NEW S, IsFiniteSet(S), NEW h \in Sorted(q, S)
  PROVE  /\ h \in [1..Cardinality(S) -> S] /\ Cardinality(S) \in Nat
         /\ \A r \in S : \E i \in 1..Cardinality(S) : h[i] = r
         /\ \A i, j \in 1..Cardinality(S) : h[i] = h[j] => i = j
         /\ \A i, j \in 1..Cardinality(S) : i < j => ~Order(q, h[j], h[i])
  <1> DEFINE n == Cardinality(S)
  <1>1. n \in Nat
    BY FS_CardinalityType
  <1>2. /\ h \in [1..n -> S]
        /\ \A i, j \in 1..n : h[i] = h[j] => i = j
        /\ \A i, j \in 1..n : i < j => ~Order(q, h[j], h[i])
    BY DEF Sorted
  <1>3. IsFiniteSet(1..n) /\ Cardinality(1..n) = n
    <2>1. Cardinality(1..n) = IF 1 > n THEN 0 ELSE n - 1 + 1
      BY <1>1, FS_Interval
    <2>. QED BY <1>1, <2>1, FS_Interval
  <1>4. h \in Injection(1..n, S)
    BY <1>2 DEF Injection, IsInjective
  <1>5. h \in Surjection(1..n, S)
    BY <1>3, <1>4, FS_Injection
  <1>. QED
    BY <1>1, <1>2, <1>5 DEF Surjection

LEMMA SearchMaps ==
  ASSUME IndexInv, NEW q \in Queries, NEW k \in 0..MaxK, NEW keep \in SUBSET Ids,
         Search(q, k, keep)
  PROVE  IndexInv' /\ Exact!MSearch(q, k, keep)
  <1> DEFINE kept == {r \in DOMAIN ids : ids[r] \in keep}
  <1>0. PICK S \in Selected(q, k, kept) : \E h \in Sorted(q, S) :
          /\ UNCHANGED ivars
          /\ out' = Found(q, k, keep, [i \in DOMAIN h |-> ids[h[i]]])
    BY DEF Search
  <1>1. PICK h \in Sorted(q, S) :
          /\ UNCHANGED ivars
          /\ out' = Found(q, k, keep, [i \in DOMAIN h |-> ids[h[i]]])
    BY <1>0
  <1>2. k \in Nat
    BY IndexAssumption
  <1>3. /\ ids \in Seq(Ids) /\ DOMAIN ids = 1..Len(ids) /\ Len(ids) \in Nat
        /\ DOMAIN positions = Held(ids)
        /\ \A r \in DOMAIN ids : positions[ids[r]] = r /\ ids[r] \in Held(ids)
        /\ \A i \in Held(ids) : positions[i] \in DOMAIN ids /\ ids[positions[i]] = i
        /\ vectors \in Seq(Vecs) /\ DOMAIN vectors = DOMAIN ids
    <2>1. ids \in Seq(Ids) /\ vectors \in Seq(Vecs) /\ Len(vectors) = Len(ids)
      BY DEF IndexInv
    <2>2. DOMAIN ids = 1..Len(ids) /\ Len(ids) \in Nat /\ DOMAIN vectors = DOMAIN ids
      BY <2>1
    <2>3. \A r \in DOMAIN ids : ids[r] \in Held(ids)
      BY DEF Held
    <2>. QED BY <2>1, <2>2, <2>3, RowOfId DEF IndexInv
  <1>4. IsFiniteSet(kept)
    <2>1. IsFiniteSet(1..Len(ids))
      BY <1>3, FS_Interval
    <2>. QED BY <1>3, <2>1, FS_Subset
  <1>5. /\ S \in SUBSET kept /\ Cardinality(S) <= k
        /\ Cardinality(S) = k \/ S = kept
        /\ \A r \in S, s \in kept \ S : ~Order(q, s, r)
    <2>1. Cardinality(kept) \in Nat
      BY <1>4, FS_CardinalityType
    <2>2. CASE k < Cardinality(kept)
      BY <1>1, <1>2, <2>2 DEF Selected
    <2>3. CASE ~(k < Cardinality(kept))
      BY <1>1, <1>2, <2>1, <2>3 DEF Selected
    <2>. QED BY <2>2, <2>3
  <1>6. IsFiniteSet(S)
    BY <1>4, <1>5, FS_Subset
  <1> DEFINE n == Cardinality(S)
             hits == [i \in DOMAIN h |-> ids[h[i]]]
  <1>7. /\ h \in [1..n -> S] /\ n \in Nat
        /\ \A r \in S : \E i \in 1..n : h[i] = r
        /\ \A i, j \in 1..n : h[i] = h[j] => i = j
        /\ \A i, j \in 1..n : i < j => ~Order(q, h[j], h[i])
    BY <1>1, <1>6, SortedIsOnto
  <1>8. S \subseteq DOMAIN ids /\ kept \subseteq DOMAIN ids
    BY <1>5
  <1>9. \A r \in DOMAIN ids : map[ids[r]] = vectors[r] /\ ids[r] \in DOMAIN map
    BY <1>3 DEF map
  <1>10. ASSUME NEW r \in DOMAIN ids, NEW s \in DOMAIN ids, r # s, ~Order(q, s, r)
         PROVE  Exact!Ahead(q, ids[r], ids[s])
    <2>0. ids[r] \in Ids /\ ids[s] \in Ids /\ vectors[r] \in Vecs /\ vectors[s] \in Vecs
      BY <1>3
    <2>1. ids[r] # ids[s] /\ ids[r] \in Nat /\ ids[s] \in Nat
      <3>1. positions[ids[r]] = r /\ positions[ids[s]] = s
        BY <1>3
      <3>2. ids[r] # ids[s]
        BY <3>1, <1>10
      <3>3. \A i \in Ids : i \in Nat
        BY IndexAssumption
      <3>. QED BY <2>0, <3>2, <3>3
    <2>2. Score[q][ids[r]][vectors[r]] \in Nat /\ Score[q][ids[s]][vectors[s]] \in Nat
      <3>1. Score[q] \in [Ids -> [Vecs -> Nat]]
        BY IndexAssumption
      <3>2. \A i \in Ids, v \in Vecs : Score[q][i][v] \in Nat
        BY <3>1
      <3>. QED BY <2>0, <3>2
    <2>. QED BY <1>9, <1>10, <2>1, <2>2 DEF Order, Exact!Ahead
  <1>. HIDE DEF n, kept
  <1>11. hits \in Seq(Ids) /\ Len(hits) = n /\ DOMAIN hits = 1..n
    <2>1. \A i \in 1..n : ids[h[i]] \in Ids
      BY <1>3, <1>7, <1>8
    <2>2. hits \in [1..n -> Ids]
      BY <1>7, <2>1
    <2>. QED BY <1>7, <2>2
  <1>12. \A i \in 1..n : hits[i] = ids[h[i]] /\ h[i] \in S
    BY <1>7
  <1>. HIDE DEF hits
  <1>13. \A i, j \in DOMAIN hits : i < j => Exact!Ahead(q, hits[i], hits[j])
    <2> SUFFICES ASSUME NEW i \in 1..n, NEW j \in 1..n, i < j
                 PROVE  Exact!Ahead(q, ids[h[i]], ids[h[j]])
      BY <1>11, <1>12
    <2>1. h[i] # h[j] /\ ~Order(q, h[j], h[i]) /\ h[i] \in DOMAIN ids /\ h[j] \in DOMAIN ids
      BY <1>7, <1>8
    <2>. QED BY <1>10, <2>1
  <1> DEFINE hit == {hits[i] : i \in DOMAIN hits}
             cand == DOMAIN map \cap keep
  <1>14. hit = {ids[r] : r \in S}
    BY <1>7, <1>11, <1>12
  <1>15. cand = {ids[r] : r \in kept}
    <2>1. DOMAIN map = Held(ids)
      BY <1>3 DEF map
    <2>2. Held(ids) = {ids[r] : r \in DOMAIN ids}
      BY DEF Held
    <2>. QED BY <2>1, <2>2 DEF kept
  <1>16. hit \subseteq cand /\ (n = k \/ hit = cand)
    BY <1>5, <1>14, <1>15 DEF n
  <1>17. \A a \in hit, b \in cand \ hit : Exact!Ahead(q, a, b)
    <2> SUFFICES ASSUME NEW a \in hit, NEW b \in cand \ hit PROVE Exact!Ahead(q, a, b)
      OBVIOUS
    <2>1. PICK r \in S : a = ids[r]
      BY <1>14
    <2>2. PICK s \in kept : b = ids[s]
      BY <1>15
    <2>3. s \notin S
      BY <1>14, <2>2
    <2>4. ~Order(q, s, r) /\ r # s
      BY <1>5, <2>3
    <2>. QED BY <1>8, <1>10, <2>1, <2>2, <2>4
  <1>18. Exact!IsTop(hits, q, k, keep)
    BY <1>5, <1>11, <1>13, <1>16, <1>17 DEF Exact!IsTop, n
  <1>19. out' = Exact!Found(q, k, keep, hits)
    BY <1>1 DEF hits, Found, Exact!Found
  <1>20. IndexInv' /\ map' = map
    BY <1>1 DEF ivars, IndexInv, Held, map
  <1>. QED
    <2>1. out'.is = "found" /\ out'.hits = hits
      BY <1>19 DEF Exact!Found
    <2>. QED BY <1>11, <1>18, <1>19, <1>20, <2>1 DEF Exact!MSearch

LEMMA OpenMaps ==
  ASSUME IndexInv, NEW f \in Files, Open(f)
  PROVE  IndexInv' /\ Exact!MOpen(f)
  <1>1. f \in File
    BY IndexAssumption
  <1>2. CASE Valid(f) /\ Restore(f, "opened")
    <2>1. /\ IndexInv' /\ DOMAIN map' = Held(f.ids)
          /\ \A r \in DOMAIN f.ids : map'[f.ids[r]] = f.rows[r]
      BY <1>1, <1>2, RestoreMaps
    <2>. QED BY <1>2, <2>1 DEF Exact!MOpen, Exact!Pairs, Exact!Answer, Answer, Valid, Restore, Held
  <1>3. CASE ~Valid(f) /\ UNCHANGED ivars /\ out' = Answer("corrupt")
    BY <1>3 DEF ivars, IndexInv, Held, map, Valid, Answer, Exact!MOpen, Exact!Pairs, Exact!Answer
  <1>. QED
    BY <1>2, <1>3 DEF Open

LEMMA ReopenMaps ==
  ASSUME IndexInv, Reopen
  PROVE  IndexInv' /\ Exact!MReopen
  <1> DEFINE f == [ids |-> ids, rows |-> vectors]
  <1>1. f \in File /\ Valid(f) /\ Restore(f, "reopened")
    BY DEF Reopen, File, IndexInv
  <1>2. /\ IndexInv' /\ DOMAIN map' = Held(ids)
        /\ \A r \in DOMAIN ids : map'[ids[r]] = vectors[r]
    BY <1>1, RestoreMaps
  <1>3. /\ DOMAIN positions = Held(ids)
        /\ \A i \in Held(ids) : positions[i] \in DOMAIN ids /\ ids[positions[i]] = i
    BY RowOfId
  <1>4. \A i \in Held(ids) : map'[i] = vectors[positions[i]]
    BY <1>2, <1>3
  <1>5. map' = map
    BY <1>2, <1>3, <1>4 DEF map
  <1>. QED
    BY <1>1, <1>2, <1>5 DEF Exact!MReopen, Exact!Answer, Answer, Restore

LEMMA StepMaps ==
  ASSUME IndexInv, [IndexNext]_indexVars
  PROVE  IndexInv' /\ [Exact!MNext]_(Exact!mvars)
  <1>1. CASE UNCHANGED indexVars
    BY <1>1 DEF indexVars, ivars, IndexInv, Held, Exact!mvars, map
  <1>. QED
    BY <1>1, InsertMaps, RemoveMaps, SearchMaps, OpenMaps, ReopenMaps DEF IndexNext, Exact!MNext

LEMMA InitMaps == IndexInit => IndexInv /\ Exact!MInit
  <1> SUFFICES ASSUME IndexInit PROVE IndexInv /\ Exact!MInit
    OBVIOUS
  <1>1. Held(ids) = {} /\ DOMAIN ids = {} /\ DOMAIN positions = {}
    BY DEF IndexInit, Held
  <1>2. IndexInv
    BY <1>1 DEF IndexInit, IndexInv
  <1>3. map = [i \in {} |-> {}]
    BY <1>1 DEF map
  <1>. QED
    BY <1>2, <1>3 DEF IndexInit, Exact!MInit, Exact!Answer, Answer

(* Inserts, swap-removals and restores, in any order, leave positions the  *)
(* exact inverse of ids and the two arrays parallel.                       *)
THEOREM IndexSafe == IndexSpec => []IndexInv
  <1>1. IndexInv /\ [IndexNext]_indexVars => IndexInv'
    BY StepMaps
  <1>2. IndexInit => IndexInv
    BY InitMaps
  <1>. QED
    BY <1>1, <1>2, PTL DEF IndexSpec

(* VectorIndex implements a plain map from ids to vectors, searched        *)
(* exactly: removal patches the right row, and what a search returns is    *)
(* the k best of the entries it kept, whatever order the rows are in.      *)
THEOREM IndexImplementsMap == IndexSpec => ImplementsVectorMap
  <1>1. IndexInv /\ [IndexNext]_indexVars => [Exact!MNext]_(Exact!mvars)
    BY StepMaps
  <1>2. IndexInit => Exact!MInit
    BY InitMaps
  <1>. QED
    BY <1>1, <1>2, IndexSafe, PTL DEF IndexSpec, ImplementsVectorMap, Exact!MSpec
=============================================================================
