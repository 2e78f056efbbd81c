---------------------------- MODULE SnapshotCell ----------------------------
(***************************************************************************)
(* What a shared_snapshot (project2) promises to its callers, without the  *)
(* versions and the two reference counters it is built from: one writer    *)
(* replaces the current snapshot atomically, and a reader that acquired a  *)
(* snapshot keeps reading that very snapshot, however often the writer     *)
(* replaces the current one in the meantime.                               *)
(*                                                                         *)
(* SharedSnapshot implements this module, and AtomicSnapshot is built on   *)
(* cells that behave like it.                                              *)
(***************************************************************************)
CONSTANTS Readers,  \* the threads that acquire the snapshot
          Data,     \* the contents a snapshot may have
          NoData    \* not a member of Data: no snapshot

VARIABLES current,  \* the snapshot a reader acquires now
          held      \* the snapshot each reader is copying

vars == <<current, held>>

Init == /\ current = NoData
        /\ held = [r \in Readers |-> NoData]

\* exchange(): the new snapshot becomes current in one step.
Install(d) == /\ current' = d
              /\ UNCHANGED held

\* acquire(): the reader gets the current snapshot.
Acquire(r) == /\ held[r] = NoData
              /\ current # NoData
              /\ held' = [held EXCEPT ![r] = current]
              /\ UNCHANGED current

\* The reader has copied what it acquired and lets go of it.
Release(r) == /\ held[r] # NoData
              /\ held' = [held EXCEPT ![r] = NoData]
              /\ UNCHANGED current

Next == \/ \E d \in Data : Install(d)
        \/ \E r \in Readers : Acquire(r) \/ Release(r)

Spec == Init /\ [][Next]_vars
=============================================================================
