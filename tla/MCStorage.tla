------------------------------- MODULE MCStorage -------------------------------
(* A store's file, shared by two processes, or its index in memory: each   *)
(* runs while the other has not begun. The processes are interchangeable,  *)
(* but a run that checks liveness must not count on it.                    *)
EXTENDS StoreFile, MCVectorIndex

StorageInit == Init /\ IndexInit

StorageNext ==
  \/ out = Answer("none") /\ Next /\ UNCHANGED indexVars
  \/ Init /\ IndexNext /\ UNCHANGED vars

StorageSpec ==
  /\ StorageInit /\ [][StorageNext]_<<vars, indexVars>>
  /\ \A p \in Procs : WF_vars(Advance(p))
=============================================================================
