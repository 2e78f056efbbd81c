--------------------------- MODULE SharedSnapshot ---------------------------
(***************************************************************************)
(* shared_snapshot and Snapshot of project2: a fixed number of versions of *)
(* a snapshot, one writer that installs a new version with exchange(), and *)
(* readers that acquire() the current version, copy it and release() it.   *)
(*                                                                         *)
(* A reader counts itself in with one fetch_add on the control block,      *)
(* which holds the outer count and the index of the current version        *)
(* together, and out with one fetch_add on the inner count of the version. *)
(* When the writer replaces a version it takes the outer count with it and *)
(* subtracts it from the inner count: whoever brings the inner count to    *)
(* zero sets the recycle flag.                                             *)
(*                                                                         *)
(* Every access to the control block, an inner count, a recycle flag or    *)
(* the contents of a version is a step of its own.                         *)
(***************************************************************************)
EXTENDS Integers, FiniteSets

CONSTANTS Readers,       \* the threads that may acquire the snapshot
          VersionCount,  \* version_count
          Data,          \* the contents a snapshot may have
          NoData,        \* the contents of a version that is not allocated
          MaxCount       \* bound: the largest outer count (2^31 - 1 in the code)

ASSUME ReadersAssumption == IsFiniteSet(Readers)

ASSUME VersionAssumption == VersionCount \in Nat \ {0}

ASSUME DataAssumption == NoData \notin Data

ASSUME CountAssumption == MaxCount \in Nat

VARIABLES block,  \* outer_cnt_with_index: the outer count and the current index
          snap,   \* the versions: inner_cnt, recycle_flag and the contents
          wpc,    \* where the writer is in exchange()
          wi,     \* exchange(): i
          wdata,  \* exchange(): the snapshot to install
          old,    \* exchange(): old_ref_cnt and old_index, until it returns
          rpc,    \* where each reader is between acquire() and release()
          ridx    \* acquire(): the index each reader got

vars == <<block, snap, wpc, wi, wdata, old, rpc, ridx>>

Index == 0 .. VersionCount - 1

\* The value of old outside exchange().
NoOld == [cnt |-> 0, idx |-> 0]

Block == [cnt : 0 .. MaxCount, idx : Index]

\* A version. Its pointer is null exactly while its contents are NoData.
Version == [inner : Int, recycle : BOOLEAN, data : Data \cup {NoData}]

WriterAt == {"idle", "find", "new", "fill", "zero", "unflag", "swap", "reset",
             "setflag", "failed"}

ReaderAt == {"out", "copy", "release", "setflag"}

\* WaitfreeAtomicSnapshot gives a cell thread_count + 1 versions. The readers of
\* a cell are then the thread_count - 1 registered threads that do not write it.
EnoughVersions == VersionCount >= Cardinality(Readers) + 2

-----------------------------------------------------------------------------
Init ==
  /\ block = [cnt |-> 0, idx |-> 0]
  /\ snap = [k \in Index |-> [inner |-> 0, recycle |-> FALSE, data |-> NoData]]
  /\ wpc = "idle"
  /\ wi = 0
  /\ wdata = NoData
  /\ old = NoOld
  /\ rpc = [r \in Readers |-> "out"]
  /\ ridx = [r \in Readers |-> 0]

\* Mutant of Exchange: the search begins one past the last version.
ExchangeFromEnd(d) ==
  /\ wpc = "idle"
  /\ wpc' = "find"
  /\ wi' = VersionCount
  /\ wdata' = d
  /\ UNCHANGED <<block, snap, old, rpc, ridx>>

\* exchange() is called with the snapshot d.
Exchange(d) ==
  /\ wpc = "idle"
  /\ wpc' = "find"
  /\ wi' = 0
  /\ wdata' = d
  /\ UNCHANGED <<block, snap, old, rpc, ridx>>

\* Mutant of Free: any version but the current one.
FreeIfNotCurrent(k) == snap[k].data = NoData \/ k # block.idx

\* A version can be taken if it was never allocated or has its recycle flag set.
Free(k) == snap[k].data = NoData \/ snap[k].recycle

\* One iteration of the search. The assertion after the loop fails when no
\* version is free.
Find ==
  /\ wpc = "find"
  /\ IF Free(wi)
       THEN /\ wpc' = IF snap[wi].data = NoData THEN "new" ELSE "fill"
            /\ wi' = wi
       ELSE /\ wpc' = IF wi + 1 = VersionCount THEN "failed" ELSE "find"
            /\ wi' = IF wi + 1 = VersionCount THEN wi ELSE wi + 1
  /\ UNCHANGED <<block, snap, wdata, old, rpc, ridx>>

\* The version did not exist: new Snapshot(...).
New ==
  /\ wpc = "new"
  /\ snap' = [snap EXCEPT ![wi] = [inner |-> 0, recycle |-> FALSE, data |-> wdata]]
  /\ wpc' = "swap"
  /\ UNCHANGED <<block, wi, wdata, old, rpc, ridx>>

\* The assignment of a snapshot: the registers, then inner_cnt, then recycle_flag.
Fill ==
  /\ wpc = "fill"
  /\ snap' = [snap EXCEPT ![wi].data = wdata]
  /\ wpc' = "zero"
  /\ UNCHANGED <<block, wi, wdata, old, rpc, ridx>>

Zero ==
  /\ wpc = "zero"
  /\ snap' = [snap EXCEPT ![wi].inner = 0]
  /\ wpc' = "unflag"
  /\ UNCHANGED <<block, wi, wdata, old, rpc, ridx>>

Unflag ==
  /\ wpc = "unflag"
  /\ snap' = [snap EXCEPT ![wi].recycle = FALSE]
  /\ wpc' = "swap"
  /\ UNCHANGED <<block, wi, wdata, old, rpc, ridx>>

\* Mutant of Swap: the outer count goes on with the new version.
SwapKeepsCount ==
  /\ wpc = "swap"
  /\ block' = [block EXCEPT !.idx = wi]
  /\ old' = block
  /\ wpc' = IF block.idx # wi THEN "reset" ELSE "idle"
  /\ UNCHANGED <<snap, wi, wdata, rpc, ridx>>

\* The new version becomes current; the writer keeps the old control block.
Swap ==
  /\ wpc = "swap"
  /\ block' = [cnt |-> 0, idx |-> wi]
  /\ old' = block
  /\ wpc' = IF block.idx # wi THEN "reset" ELSE "idle"
  /\ UNCHANGED <<snap, wi, wdata, rpc, ridx>>

\* Mutant of LastOut: any count that is not negative.
NotNegative(n) == n >= 0

\* Mutant of LastOut: zero does not count.
Positive(n) == n > 0

\* The inner count says that nobody references the version any more.
LastOut(n) == n = 0

\* Snapshot::reset(old_ref_cnt) on the version that was replaced.
Reset ==
  /\ wpc = "reset"
  /\ snap' = [snap EXCEPT ![old.idx].inner = @ - old.cnt]
  /\ IF LastOut(snap'[old.idx].inner)
       THEN wpc' = "setflag" /\ UNCHANGED old
       ELSE wpc' = "idle" /\ old' = NoOld
  /\ UNCHANGED <<block, wi, wdata, rpc, ridx>>

ResetFlag ==
  /\ wpc = "setflag"
  /\ snap' = [snap EXCEPT ![old.idx].recycle = TRUE]
  /\ wpc' = "idle"
  /\ old' = NoOld
  /\ UNCHANGED <<block, wi, wdata, rpc, ridx>>

\* The first exchange() is over. Until then index 0 of the control block names
\* a version that does not exist or is not published.
Installed == /\ snap[block.idx].data # NoData
             /\ ~(wpc = "swap" /\ wi = block.idx)

\* acquire(). scan() calls it only for a register that changed twice, so after
\* the first exchange() (AtomicSnapshot checks this).
Acquire(r) ==
  /\ rpc[r] = "out"
  /\ Installed
  /\ block.cnt < MaxCount
  /\ block' = [block EXCEPT !.cnt = @ + 1]
  /\ ridx' = [ridx EXCEPT ![r] = block.idx]
  /\ rpc' = [rpc EXCEPT ![r] = "copy"]
  /\ UNCHANGED <<snap, wpc, wi, wdata, old>>

\* The reader has copied the registers of the version it acquired.
Copied(r) ==
  /\ rpc[r] = "copy"
  /\ rpc' = [rpc EXCEPT ![r] = "release"]
  /\ UNCHANGED <<block, snap, wpc, wi, wdata, old, ridx>>

\* Snapshot::release().
Release(r) ==
  /\ rpc[r] = "release"
  /\ snap' = [snap EXCEPT ![ridx[r]].inner = @ + 1]
  /\ rpc' = [rpc EXCEPT ![r] = IF LastOut(snap'[ridx[r]].inner) THEN "setflag" ELSE "out"]
  /\ UNCHANGED <<block, wpc, wi, wdata, old, ridx>>

\* Mutant of ReleaseFlag: the reader leaves without setting the flag.
ReleaseNoFlag(r) ==
  /\ rpc[r] = "setflag"
  /\ rpc' = [rpc EXCEPT ![r] = "out"]
  /\ UNCHANGED <<block, snap, wpc, wi, wdata, old, ridx>>

ReleaseFlag(r) ==
  /\ rpc[r] = "setflag"
  /\ snap' = [snap EXCEPT ![ridx[r]].recycle = TRUE]
  /\ rpc' = [rpc EXCEPT ![r] = "out"]
  /\ UNCHANGED <<block, wpc, wi, wdata, old, ridx>>

-----------------------------------------------------------------------------
WriterStep == Find \/ New \/ Fill \/ Zero \/ Unflag \/ Swap \/ Reset \/ ResetFlag

ReaderStep(r) == Copied(r) \/ Release(r) \/ ReleaseFlag(r)

Next == \/ \E d \in Data : Exchange(d)
        \/ WriterStep
        \/ \E r \in Readers : Acquire(r) \/ ReaderStep(r)

Spec == Init /\ [][Next]_vars

\* The writer, while it is inside exchange(), is scheduled again. It does not
\* have to call exchange(), and the readers may stop anywhere.
FairSpec == Spec /\ WF_vars(WriterStep)

\* A reader between acquire() and the end of release() is scheduled again.
ReadersFair == \A r \in Readers : WF_vars(ReaderStep(r))

-----------------------------------------------------------------------------
TypeOK ==
  /\ block \in Block
  /\ snap \in [Index -> Version]
  /\ wpc \in WriterAt
  /\ wi \in Index
  /\ wdata \in Data \cup {NoData}
  /\ old \in Block
  /\ rpc \in [Readers -> ReaderAt]
  /\ ridx \in [Readers -> Index]

\* The assertion of exchange() never fails: the search finds a version within
\* one pass, however slow the readers are. It takes EnoughVersions.
VersionAvailable == wpc # "failed"

\* The readers that will still touch version k, and those that will copy it
\* or count themselves out of it.
Users(k) == {r \in Readers : ridx[r] = k /\ rpc[r] # "out"}

Holders(k) == {r \in Readers : ridx[r] = k /\ rpc[r] \in {"copy", "release"}}

\* The writer overwrites a version only when no reader is copying it, has yet
\* to count itself out of it, or has yet to set its recycle flag.
NoUseAfterRecycle ==
  wpc \in {"new", "fill", "zero", "unflag", "swap"} => Users(wi) = {}

\* Exactly one thread brings the inner count of a replaced version to zero:
\* two of them never set the recycle flag of one version, and the flag is set
\* only when no reader is left.
Setters(k) == {r \in Users(k) : rpc[r] = "setflag"}

SingleRecycler ==
  \A k \in Index :
    /\ Cardinality(Setters(k)) + (IF wpc = "setflag" /\ old.idx = k THEN 1 ELSE 0) <= 1
    /\ Setters(k) # {} \/ (wpc = "setflag" /\ old.idx = k) => Holders(k) = {}
    /\ snap[k].recycle => Users(k) = {}

\* No version is lost: one that is allocated, not current and not free yet is
\* in the hands of a reader or of the writer.
NoVersionLost ==
  \A k \in Index :
    Free(k) \/ k = block.idx \/ Users(k) # {}
            \/ (wpc \in {"swap", "unflag"} /\ wi = k)
            \/ (wpc \in {"reset", "setflag"} /\ old.idx = k)

\* What the control block and the inner count say together is the number of
\* readers that hold the current version.
CountsExact ==
  Installed =>
    block.cnt = snap[block.idx].inner + Cardinality(Holders(block.idx))

-----------------------------------------------------------------------------
\* SnapshotCell seen through the versions: the current snapshot is the one at
\* the current index, and a copying reader holds the version it acquired.
Cell == INSTANCE SnapshotCell WITH
          current <- IF Installed THEN snap[block.idx].data ELSE NoData,
          held    <- [r \in Readers |-> IF rpc[r] = "copy" THEN snap[ridx[r]].data ELSE NoData]

\* What a reader copies is the snapshot that was current when it acquired it,
\* whole, whatever the writer installs meanwhile.
ImplementsCell == Cell!Spec

\* A version that is replaced gets its recycle flag in the end, once the
\* readers that acquired it go on.
RetiredRecycled ==
  ReadersFair =>
    \A k \in Index : (wpc = "reset" /\ old.idx = k) ~> snap[k].recycle

\* exchange() is wait-free: it ends even if the readers stop for good.
ExchangeEnds == (wpc # "idle") ~> (wpc = "idle")
=============================================================================
