----------------------- MODULE SharedSnapshot_proofs -----------------------
(***************************************************************************)
(* Proofs about SharedSnapshot, for every number of readers and versions:  *)
(* its types, the safety of its two reference counters, the assertion of   *)
(* exchange(), and that it implements SnapshotCell.                        *)
(***************************************************************************)
EXTENDS SharedSnapshot, FiniteSetTheorems, TLAPS

(***************************************************************************)
(* The inductive invariant. A version is in one of six states, and what    *)
(* its inner count says differs in each: it was never allocated, it is     *)
(* current, the writer is taking it (from the search to the swap), the     *)
(* writer has replaced it and is about to subtract the outer count from    *)
(* its inner count, or it is retired: then the inner count is minus the    *)
(* number of readers that still hold it.                                   *)
(***************************************************************************)
Taking == wpc \in {"new", "fill", "zero", "unflag", "swap"}

Current(k) == k = block.idx /\ Installed

Replaced(k) == wpc = "reset" /\ old.idx = k

WriterSets(k) == wpc = "setflag" /\ old.idx = k

Retired(k) == /\ snap[k].data # NoData
              /\ ~Current(k)
              /\ ~Replaced(k)
              /\ ~(Taking /\ wi = k)

\* What exchange() installs, and that the assignment of the contents is done
\* before the recycle flag is cleared.
WriterInv ==
  /\ wpc = "find" \/ Taking => wdata \in Data
  /\ wpc = "new" => snap[wi].data = NoData
  /\ wpc = "fill" => snap[wi].data # NoData
  /\ wpc \in {"zero", "unflag", "swap"} => snap[wi].data = wdata
  /\ wpc \in {"fill", "zero", "unflag"} => snap[wi].recycle
  /\ wpc = "swap" => ~snap[wi].recycle
  /\ wpc \in {"unflag", "swap"} => snap[wi].inner = 0
  /\ Taking => Users(wi) = {} /\ (wi = block.idx => ~Installed)
  /\ wpc \in {"reset", "setflag"} =>
       old.idx # block.idx /\ snap[old.idx].data # NoData

\* Until the first exchange() has published version 0, the writer takes no other.
FirstInv == ~Installed =>
  /\ block.idx = 0
  /\ wpc = "idle" \/ (wpc \in {"find", "new", "swap"} /\ wi = 0)

FreshInv(k) == snap[k].data = NoData =>
  Users(k) = {} /\ snap[k].inner = 0 /\ ~snap[k].recycle

CurrentInv(k) == Current(k) =>
  /\ snap[k].inner >= 0
  /\ ~snap[k].recycle
  /\ Setters(k) = {}
  /\ block.cnt = snap[k].inner + Cardinality(Holders(k))

ReplacedInv(k) == Replaced(k) =>
  /\ snap[k].inner >= 0
  /\ ~snap[k].recycle
  /\ Setters(k) = {}
  /\ old.cnt = snap[k].inner + Cardinality(Holders(k))

RetiredInv(k) == Retired(k) =>
  /\ snap[k].inner = -Cardinality(Holders(k))
  /\ snap[k].recycle => Users(k) = {}
  /\ WriterSets(k) => Users(k) = {} /\ ~snap[k].recycle
  /\ Setters(k) # {} => Holders(k) = {}
  /\ \A r, s \in Setters(k) : r = s
  /\ snap[k].recycle \/ WriterSets(k) \/ Users(k) # {}

VersionInv(k) == FreshInv(k) /\ CurrentInv(k) /\ ReplacedInv(k) /\ RetiredInv(k)

IInv == TypeOK /\ WriterInv /\ FirstInv /\ \A k \in Index : VersionInv(k)

-----------------------------------------------------------------------------
USE DEF Index, Block, Version, NoOld, WriterAt, ReaderAt

\* An assignment to one field of one version leaves the versions versions.
LEMMA FieldTyped ==
  ASSUME TypeOK, NEW k \in Index, NEW n \in Int, NEW f \in BOOLEAN
  PROVE  /\ [snap EXCEPT ![k].inner = n] \in [Index -> Version]
         /\ [snap EXCEPT ![k].recycle = f] \in [Index -> Version]
<1>1. snap[k] \in Version
  BY DEF TypeOK
<1>2. [snap[k] EXCEPT !.inner = n] \in Version
  BY <1>1
<1>3. [snap[k] EXCEPT !.recycle = f] \in Version
  BY <1>1
<1> QED
  BY <1>2, <1>3 DEF TypeOK

\* The types are inductive by themselves.
LEMMA TypeStep == TypeOK /\ [Next]_vars => TypeOK'
<1> SUFFICES ASSUME TypeOK, [Next]_vars PROVE TypeOK'
  OBVIOUS
<1> USE VersionAssumption, CountAssumption DEF TypeOK
<1>1. ASSUME NEW d \in Data, Exchange(d) PROVE TypeOK'
  BY <1>1 DEF Exchange
<1>2. CASE Find
  <2>1. wi' = wi \/ (wi' = wi + 1 /\ wi + 1 # VersionCount)
    BY <1>2 DEF Find
  <2>2. wi' \in Index
    BY <2>1
  <2>3. wpc' \in WriterAt
    BY <1>2 DEF Find
  <2> QED
    BY <1>2, <2>2, <2>3 DEF Find
<1>3. CASE New
  BY <1>3 DEF New
<1>4. CASE Fill
  <2>1. snap' = [snap EXCEPT ![wi].data = wdata] /\ wi \in Index /\ snap[wi] \in Version
    BY <1>4 DEF Fill
  <2>2. [snap[wi] EXCEPT !.data = wdata] \in Version
    BY <2>1
  <2>3. snap' \in [Index -> Version]
    BY <2>1, <2>2
  <2> QED
    BY <1>4, <2>3 DEF Fill
<1>5. CASE Zero
  <2>1. snap' \in [Index -> Version]
    <3>1. snap' = [snap EXCEPT ![wi].inner = 0] /\ wi \in Index /\ 0 \in Int
      BY <1>5 DEF Zero
    <3> QED
      BY <3>1, FieldTyped
  <2> QED
    BY <1>5, <2>1 DEF Zero
<1>6. CASE Unflag
  <2>1. snap' \in [Index -> Version]
    BY <1>6, FieldTyped DEF Unflag
  <2> QED
    BY <1>6, <2>1 DEF Unflag
<1>7. CASE Swap
  BY <1>7 DEF Swap
<1>8. CASE Reset
  <2>1. snap[old.idx].inner - old.cnt \in Int
    OBVIOUS
  <2>2. snap' \in [Index -> Version]
    BY <1>8, <2>1, FieldTyped DEF Reset
  <2>3. wpc' \in WriterAt /\ old' \in Block
    BY <1>8 DEF Reset
  <2> QED
    BY <1>8, <2>2, <2>3 DEF Reset
<1>9. CASE ResetFlag
  <2>1. snap' \in [Index -> Version]
    BY <1>9, FieldTyped DEF ResetFlag
  <2>2. wpc' \in WriterAt /\ old' \in Block
    BY <1>9 DEF ResetFlag
  <2> QED
    BY <1>9, <2>1, <2>2 DEF ResetFlag
<1>10. ASSUME NEW r \in Readers, Acquire(r) PROVE TypeOK'
  <2>1. block.cnt + 1 \in 0 .. MaxCount
    <3>1. block.cnt \in Nat /\ block.cnt < MaxCount
      BY <1>10 DEF Acquire
    <3> QED
      BY <3>1
  <2>2. block' \in Block
    BY <1>10, <2>1 DEF Acquire
  <2> QED
    BY <1>10, <2>2 DEF Acquire
<1>11. ASSUME NEW r \in Readers, Copied(r) PROVE TypeOK'
  BY <1>11 DEF Copied
<1>12. ASSUME NEW r \in Readers, Release(r) PROVE TypeOK'
  <2>1. snap[ridx[r]].inner + 1 \in Int
    BY <1>12
  <2>2. snap' \in [Index -> Version]
    BY <1>12, <2>1, FieldTyped DEF Release
  <2> QED
    BY <1>12, <2>2 DEF Release
<1>13. ASSUME NEW r \in Readers, ReleaseFlag(r) PROVE TypeOK'
  <2>1. snap' \in [Index -> Version]
    BY <1>13, FieldTyped DEF ReleaseFlag
  <2> QED
    BY <1>13, <2>1 DEF ReleaseFlag
<1>14. CASE UNCHANGED vars
  BY <1>14 DEF vars
<1> QED
  BY <1>1, <1>2, <1>3, <1>4, <1>5, <1>6, <1>7, <1>8, <1>9, <1>10, <1>11, <1>12,
     <1>13, <1>14 DEF Next, WriterStep, ReaderStep

\* Every variable stays in its type: the indices that exchange() and acquire()
\* use are those of a version, and the outer count within its bound.
THEOREM TypeCorrect == Spec => []TypeOK
<1>1. Init => TypeOK
  BY VersionAssumption, CountAssumption DEF Init, TypeOK
<1> QED
  BY <1>1, TypeStep, PTL DEF Spec

-----------------------------------------------------------------------------
\* The readers of a version are finitely many, so that they can be counted.
LEMMA HoldersCount ==
  ASSUME NEW k
  PROVE  /\ IsFiniteSet(Holders(k))
         /\ Cardinality(Holders(k)) \in Nat
         /\ Cardinality(Holders(k)) = 0 <=> Holders(k) = {}
<1>1. Holders(k) \in SUBSET Readers
  BY DEF Holders
<1>2. IsFiniteSet(Holders(k))
  BY <1>1, ReadersAssumption, FS_Subset
<1> QED
  BY <1>2, FS_CardinalityType, FS_EmptySet

LEMMA HoldersCountPrime ==
  ASSUME NEW k
  PROVE  /\ Cardinality(Holders(k)') \in Nat
         /\ Cardinality(Holders(k)') = 0 <=> Holders(k)' = {}
<1>1. Holders(k)' \in SUBSET Readers
  BY DEF Holders
<1>2. IsFiniteSet(Holders(k)')
  BY <1>1, ReadersAssumption, FS_Subset
<1> QED
  BY <1>2, FS_CardinalityType, FS_EmptySet

\* A reader at a version holds it or is about to set its recycle flag.
LEMMA UsersSplit ==
  ASSUME TypeOK, NEW k
  PROVE  Users(k) = Holders(k) \cup Setters(k)
BY DEF TypeOK, Users, Holders, Setters

\* The steps of the writer, and the end of a copy, move no reader.
LEMMA ReadersStay ==
  ASSUME UNCHANGED <<rpc, ridx>>, NEW k
  PROVE  Users(k)' = Users(k) /\ Holders(k)' = Holders(k) /\ Setters(k)' = Setters(k)
BY DEF Users, Holders, Setters

LEMMA CopiedSets ==
  ASSUME TypeOK, NEW r \in Readers, Copied(r), NEW k
  PROVE  Users(k)' = Users(k) /\ Holders(k)' = Holders(k) /\ Setters(k)' = Setters(k)
<1>1. /\ ridx' = ridx
      /\ rpc[r] = "copy"
      /\ rpc' = [rpc EXCEPT ![r] = "release"]
  BY DEF Copied
<1>2. \A q \in Readers : q # r => rpc'[q] = rpc[q]
  BY <1>1 DEF TypeOK
<1>3. rpc'[r] = "release"
  BY <1>1 DEF TypeOK
<1> QED
  BY <1>1, <1>2, <1>3 DEF Users, Holders, Setters

\* acquire() makes one more holder of the current version.
LEMMA AcquireSets ==
  ASSUME TypeOK, NEW r \in Readers, Acquire(r), NEW k \in Index
  PROVE  /\ Setters(k)' = Setters(k)
         /\ k # block.idx => Users(k)' = Users(k) /\ Holders(k)' = Holders(k)
         /\ k = block.idx => Cardinality(Holders(k)') = Cardinality(Holders(k)) + 1
<1>1. /\ rpc[r] = "out"
      /\ rpc' = [rpc EXCEPT ![r] = "copy"]
      /\ ridx' = [ridx EXCEPT ![r] = block.idx]
  BY DEF Acquire
<1>2. \A q \in Readers : q # r => rpc'[q] = rpc[q] /\ ridx'[q] = ridx[q]
  BY <1>1 DEF TypeOK
<1>3. rpc'[r] = "copy" /\ ridx'[r] = block.idx
  BY <1>1 DEF TypeOK
<1>4. k = block.idx => Holders(k)' = Holders(k) \cup {r}
  BY <1>1, <1>2, <1>3 DEF Holders
<1>5. r \notin Holders(k)
  BY <1>1 DEF Holders
<1>6. k = block.idx => Cardinality(Holders(k)') = Cardinality(Holders(k)) + 1
  BY <1>4, <1>5, HoldersCount, FS_AddElement
<1> QED
  BY <1>1, <1>2, <1>3, <1>6 DEF Users, Holders, Setters

\* release() makes one holder less, and perhaps one that sets the flag.
LEMMA ReleaseSets ==
  ASSUME TypeOK, NEW r \in Readers, Release(r), NEW k \in Index
  PROVE  /\ k # ridx[r] => /\ Users(k)' = Users(k)
                           /\ Holders(k)' = Holders(k)
                           /\ Setters(k)' = Setters(k)
         /\ k = ridx[r] =>
              /\ r \in Holders(k)
              /\ Cardinality(Holders(k)') = Cardinality(Holders(k)) - 1
              /\ Setters(k)' = IF LastOut(snap'[k].inner) THEN Setters(k) \cup {r}
                                                          ELSE Setters(k)
<1>1. /\ rpc[r] = "release"
      /\ rpc' = [rpc EXCEPT ![r] = IF LastOut(snap'[ridx[r]].inner) THEN "setflag" ELSE "out"]
      /\ ridx' = ridx
  BY DEF Release
<1>2. \A q \in Readers : q # r => rpc'[q] = rpc[q]
  BY <1>1 DEF TypeOK
<1>3. rpc'[r] = IF LastOut(snap'[ridx[r]].inner) THEN "setflag" ELSE "out"
  BY <1>1 DEF TypeOK
<1>4. k = ridx[r] => r \in Holders(k) /\ Holders(k)' = Holders(k) \ {r}
  BY <1>1, <1>2, <1>3 DEF Holders
<1>5. k = ridx[r] => Cardinality(Holders(k)') = Cardinality(Holders(k)) - 1
  BY <1>4, HoldersCount, FS_RemoveElement
<1>6. k # ridx[r] => /\ Users(k)' = Users(k)
                     /\ Holders(k)' = Holders(k)
                     /\ Setters(k)' = Setters(k)
  BY <1>1, <1>2, <1>3 DEF Users, Holders, Setters
<1>7. k = ridx[r] => Setters(k)' = IF LastOut(snap'[k].inner) THEN Setters(k) \cup {r}
                                                              ELSE Setters(k)
  BY <1>1, <1>2, <1>3 DEF Users, Setters
<1> QED
  BY <1>4, <1>5, <1>6, <1>7

\* The thread that sets the recycle flag leaves the version.
LEMMA ReleaseFlagSets ==
  ASSUME TypeOK, NEW r \in Readers, ReleaseFlag(r), NEW k \in Index
  PROVE  /\ Holders(k)' = Holders(k)
         /\ k # ridx[r] => Users(k)' = Users(k) /\ Setters(k)' = Setters(k)
         /\ k = ridx[r] => r \in Setters(k) /\ Users(k)' = Users(k) \ {r}
                                            /\ Setters(k)' = Setters(k) \ {r}
<1>1. /\ rpc[r] = "setflag"
      /\ rpc' = [rpc EXCEPT ![r] = "out"]
      /\ ridx' = ridx
  BY DEF ReleaseFlag
<1>2. \A q \in Readers : q # r => rpc'[q] = rpc[q]
  BY <1>1 DEF TypeOK
<1>3. rpc'[r] = "out"
  BY <1>1 DEF TypeOK
<1> QED
  BY <1>1, <1>2, <1>3 DEF Users, Holders, Setters

-----------------------------------------------------------------------------
\* The steps of the writer, one lemma each.
LEMMA ExchangeStep ==
  ASSUME IInv, NEW d \in Data, Exchange(d)
  PROVE  WriterInv' /\ FirstInv' /\ \A k \in Index : VersionInv(k)'
<1>1. /\ wpc = "idle" /\ wpc' = "find" /\ wi' = 0 /\ wdata' = d
      /\ UNCHANGED <<block, snap, old, rpc, ridx>>
  BY DEF Exchange
<1>2. WriterInv'
  BY <1>1 DEF WriterInv, Taking
<1>3. FirstInv'
  BY <1>1 DEF IInv, FirstInv, Installed
<1>4. ASSUME NEW k \in Index PROVE VersionInv(k)'
  <2>1. VersionInv(k)
    BY DEF IInv
  <2> QED
    BY <1>1, <2>1, ReadersStay
       DEF VersionInv, FreshInv, CurrentInv, ReplacedInv, RetiredInv, Retired, Current,
           Replaced, WriterSets, Taking, Installed
<1> QED
  BY <1>2, <1>3, <1>4

LEMMA FindStep ==
  ASSUME IInv, Find
  PROVE  WriterInv' /\ FirstInv' /\ \A k \in Index : VersionInv(k)'
<1>1. /\ wpc = "find" /\ UNCHANGED <<block, snap, wdata, old, rpc, ridx>>
      /\ IF Free(wi)
           THEN wpc' = (IF snap[wi].data = NoData THEN "new" ELSE "fill") /\ wi' = wi
           ELSE wpc' \in {"failed", "find"}
  BY DEF Find
<1>2. VersionInv(wi) /\ wi \in Index
  BY DEF IInv, TypeOK
<1>3. WriterInv'
  BY <1>1, <1>2, ReadersStay
     DEF IInv, WriterInv, Taking, Free, VersionInv, FreshInv, CurrentInv, RetiredInv,
         Retired, Current, Replaced, Installed
<1>4. FirstInv'
  <2> SUFFICES ASSUME ~Installed' PROVE FirstInv'
    BY DEF FirstInv
  <2>1. snap[block.idx].data = NoData
    BY <1>1 DEF Installed, Free
  <2>2. wi = 0 /\ block.idx = 0
    BY <1>1, <2>1 DEF IInv, FirstInv, Installed
  <2> QED
    BY <1>1, <2>1, <2>2 DEF FirstInv, Free
<1>5. ASSUME NEW k \in Index PROVE VersionInv(k)'
  <2>1. VersionInv(k)
    BY DEF IInv
  <2> QED
    BY <1>1, <2>1, ReadersStay
       DEF VersionInv, FreshInv, CurrentInv, ReplacedInv, RetiredInv, Retired, Current,
           Replaced, WriterSets, Taking, Installed
<1> QED
  BY <1>3, <1>4, <1>5

LEMMA NewStep ==
  ASSUME IInv, New
  PROVE  WriterInv' /\ FirstInv' /\ \A k \in Index : VersionInv(k)'
<1>1. /\ wpc = "new" /\ wpc' = "swap" /\ UNCHANGED <<block, wi, wdata, old, rpc, ridx>>
  BY DEF New
<1>2. wi \in Index /\ VersionInv(wi) /\ TypeOK
  BY DEF IInv, TypeOK
<1>3. /\ snap'[wi] = [inner |-> 0, recycle |-> FALSE, data |-> wdata]
      /\ \A k \in Index : k # wi => snap'[k] = snap[k]
  BY <1>2 DEF New, TypeOK
<1>4. block.idx \in Index /\ old.idx \in Index
  BY <1>2 DEF TypeOK
<1>5. WriterInv'
  BY <1>1, <1>2, <1>3, <1>4, ReadersStay DEF IInv, WriterInv, Taking, Installed
<1>6. FirstInv'
  BY <1>1, <1>2, <1>3, <1>4 DEF IInv, FirstInv, WriterInv, Taking, Installed
<1>7. ASSUME NEW k \in Index PROVE VersionInv(k)'
  <2>1. VersionInv(k)
    BY DEF IInv
  <2> QED
    BY <1>1, <1>2, <1>3, <1>4, <2>1, ReadersStay, DataAssumption
       DEF IInv, WriterInv, FirstInv, VersionInv, FreshInv, CurrentInv, ReplacedInv,
           RetiredInv, Retired, Current, Replaced, WriterSets, Taking, Installed
<1> QED
  BY <1>5, <1>6, <1>7

LEMMA FillStep ==
  ASSUME IInv, Fill
  PROVE  WriterInv' /\ FirstInv' /\ \A k \in Index : VersionInv(k)'
<1>1. /\ wpc = "fill" /\ wpc' = "zero" /\ UNCHANGED <<block, wi, wdata, old, rpc, ridx>>
  BY DEF Fill
<1>2. TypeOK /\ wi \in Index /\ block.idx \in Index
  BY DEF IInv, TypeOK
<1>3. /\ snap'[wi].inner = snap[wi].inner
      /\ snap'[wi].recycle = snap[wi].recycle
      /\ snap'[wi].data = wdata
      /\ \A k \in Index : k # wi => snap'[k] = snap[k]
  BY <1>2 DEF Fill, TypeOK
<1>4. Installed /\ wi # block.idx
  BY <1>1 DEF IInv, FirstInv, WriterInv, Taking
<1>5. Installed'
  BY <1>1, <1>2, <1>3, <1>4 DEF Installed
<1>6. WriterInv'
  BY <1>1, <1>3, <1>4, ReadersStay DEF IInv, WriterInv, Taking
<1>7. FirstInv'
  BY <1>5 DEF FirstInv
<1>8. ASSUME NEW k \in Index, k = wi PROVE VersionInv(k)'
  <2>1. snap'[k].data # NoData
    BY <1>1, <1>3, <1>8, DataAssumption DEF IInv, WriterInv, Taking
  <2> QED
    BY <1>1, <1>4, <1>8, <2>1
       DEF VersionInv, FreshInv, CurrentInv, ReplacedInv, RetiredInv, Retired, Current,
           Replaced, Taking
<1>9. ASSUME NEW k \in Index, k # wi PROVE VersionInv(k)'
  <2>1. VersionInv(k) /\ snap'[k] = snap[k]
    BY <1>3, <1>9 DEF IInv
  <2> QED
    BY <1>1, <1>4, <1>5, <1>9, <2>1, ReadersStay
       DEF VersionInv, FreshInv, CurrentInv, ReplacedInv, RetiredInv, Retired, Current,
           Replaced, WriterSets, Taking
<1> QED
  BY <1>6, <1>7, <1>8, <1>9

LEMMA ZeroStep ==
  ASSUME IInv, Zero
  PROVE  WriterInv' /\ FirstInv' /\ \A k \in Index : VersionInv(k)'
<1>1. /\ wpc = "zero" /\ wpc' = "unflag" /\ UNCHANGED <<block, wi, wdata, old, rpc, ridx>>
  BY DEF Zero
<1>2. TypeOK /\ wi \in Index /\ block.idx \in Index
  BY DEF IInv, TypeOK
<1>3. /\ snap'[wi].inner = 0
      /\ snap'[wi].recycle = snap[wi].recycle
      /\ snap'[wi].data = snap[wi].data
      /\ \A k \in Index : k # wi => snap'[k] = snap[k]
  BY <1>2 DEF Zero, TypeOK
<1>4. Installed /\ wi # block.idx
  BY <1>1 DEF IInv, FirstInv, WriterInv, Taking
<1>5. Installed'
  BY <1>1, <1>2, <1>3, <1>4 DEF Installed
<1>6. WriterInv'
  BY <1>1, <1>3, <1>4, ReadersStay DEF IInv, WriterInv, Taking
<1>7. FirstInv'
  BY <1>5 DEF FirstInv
<1>8. ASSUME NEW k \in Index, k = wi PROVE VersionInv(k)'
  <2>1. snap'[k].data # NoData
    BY <1>1, <1>3, <1>8, DataAssumption DEF IInv, WriterInv, Taking
  <2> QED
    BY <1>1, <1>4, <1>8, <2>1
       DEF VersionInv, FreshInv, CurrentInv, ReplacedInv, RetiredInv, Retired, Current,
           Replaced, Taking
<1>9. ASSUME NEW k \in Index, k # wi PROVE VersionInv(k)'
  <2>1. VersionInv(k) /\ snap'[k] = snap[k]
    BY <1>3, <1>9 DEF IInv
  <2> QED
    BY <1>1, <1>4, <1>5, <1>9, <2>1, ReadersStay
       DEF VersionInv, FreshInv, CurrentInv, ReplacedInv, RetiredInv, Retired, Current,
           Replaced, WriterSets, Taking
<1> QED
  BY <1>6, <1>7, <1>8, <1>9

LEMMA UnflagStep ==
  ASSUME IInv, Unflag
  PROVE  WriterInv' /\ FirstInv' /\ \A k \in Index : VersionInv(k)'
<1>1. /\ wpc = "unflag" /\ wpc' = "swap" /\ UNCHANGED <<block, wi, wdata, old, rpc, ridx>>
  BY DEF Unflag
<1>2. TypeOK /\ wi \in Index /\ block.idx \in Index
  BY DEF IInv, TypeOK
<1>3. /\ snap'[wi].inner = snap[wi].inner
      /\ snap'[wi].recycle = FALSE
      /\ snap'[wi].data = snap[wi].data
      /\ \A k \in Index : k # wi => snap'[k] = snap[k]
  BY <1>2 DEF Unflag, TypeOK
<1>4. Installed /\ wi # block.idx
  BY <1>1 DEF IInv, FirstInv, WriterInv, Taking
<1>5. Installed'
  BY <1>1, <1>2, <1>3, <1>4 DEF Installed
<1>6. WriterInv'
  BY <1>1, <1>3, <1>4, ReadersStay DEF IInv, WriterInv, Taking
<1>7. FirstInv'
  BY <1>5 DEF FirstInv
<1>8. ASSUME NEW k \in Index, k = wi PROVE VersionInv(k)'
  <2>1. snap'[k].data # NoData
    BY <1>1, <1>3, <1>8, DataAssumption DEF IInv, WriterInv, Taking
  <2> QED
    BY <1>1, <1>4, <1>8, <2>1
       DEF VersionInv, FreshInv, CurrentInv, ReplacedInv, RetiredInv, Retired, Current,
           Replaced, Taking
<1>9. ASSUME NEW k \in Index, k # wi PROVE VersionInv(k)'
  <2>1. VersionInv(k) /\ snap'[k] = snap[k]
    BY <1>3, <1>9 DEF IInv
  <2> QED
    BY <1>1, <1>4, <1>5, <1>9, <2>1, ReadersStay
       DEF VersionInv, FreshInv, CurrentInv, ReplacedInv, RetiredInv, Retired, Current,
           Replaced, WriterSets, Taking
<1> QED
  BY <1>6, <1>7, <1>8, <1>9

\* The version that is replaced hands its outer count to the writer, and the
\* new one starts with both counts at zero.
LEMMA SwapStep ==
  ASSUME IInv, Swap
  PROVE  WriterInv' /\ FirstInv' /\ \A k \in Index : VersionInv(k)'
<1>1. /\ wpc = "swap" /\ UNCHANGED <<snap, wi, wdata, rpc, ridx>>
      /\ block'.cnt = 0 /\ block'.idx = wi /\ old' = block
      /\ wpc' = IF block.idx # wi THEN "reset" ELSE "idle"
  BY DEF Swap
<1>2. wi \in Index /\ snap[wi].data # NoData /\ ~snap[wi].recycle /\ snap[wi].inner = 0
                   /\ Users(wi) = {}
  BY <1>1, DataAssumption DEF IInv, TypeOK, WriterInv, Taking
<1>3. Holders(wi) = {} /\ Setters(wi) = {}
  BY <1>2, UsersSplit DEF IInv
<1>4. Installed'
  BY <1>1, <1>2 DEF Installed
<1>5. block.idx # wi => Installed
  BY <1>1 DEF IInv, FirstInv
<1>6. block.idx # wi => snap[block.idx].data # NoData
  BY <1>5 DEF Installed
<1>7. WriterInv'
  BY <1>1, <1>6 DEF IInv, WriterInv, Taking
<1>8. FirstInv'
  BY <1>4 DEF FirstInv
<1>9. ASSUME NEW k \in Index PROVE VersionInv(k)'
  <2>1. VersionInv(k)
    BY DEF IInv
  <2>2. CASE k = wi
    <3>1. Cardinality(Holders(k)) = 0
      BY <1>3, <2>2, HoldersCount
    <3> QED
      BY <1>1, <1>2, <1>3, <1>4, <2>2, <3>1, ReadersStay
         DEF VersionInv, FreshInv, CurrentInv, ReplacedInv, RetiredInv, Retired, Current,
             Replaced
  <2>3. CASE k # wi /\ k = block.idx
    BY <1>1, <1>4, <1>5, <2>1, <2>3, ReadersStay
       DEF VersionInv, FreshInv, CurrentInv, ReplacedInv, RetiredInv, Retired, Current,
           Replaced
  <2>4. CASE k # wi /\ k # block.idx
    BY <1>1, <1>4, <2>1, <2>4, ReadersStay
       DEF VersionInv, FreshInv, CurrentInv, ReplacedInv, RetiredInv, Retired, Current,
           Replaced, WriterSets, Taking
  <2> QED
    BY <2>2, <2>3, <2>4
<1> QED
  BY <1>7, <1>8, <1>9

\* reset(): what the outer count said is settled with the inner count.
LEMMA ResetStep ==
  ASSUME IInv, Reset
  PROVE  WriterInv' /\ FirstInv' /\ \A k \in Index : VersionInv(k)'
<1> DEFINE o == old.idx
<1>1. /\ wpc = "reset" /\ UNCHANGED <<block, wi, wdata, rpc, ridx>>
      /\ wpc' = IF LastOut(snap'[o].inner) THEN "setflag" ELSE "idle"
      /\ wpc' = "setflag" => UNCHANGED old
  BY DEF Reset
<1>2. TypeOK /\ o \in Index /\ block.idx \in Index /\ snap[o].inner \in Int /\ old.cnt \in Nat
  BY CountAssumption DEF IInv, TypeOK
<1>3. /\ snap'[o].inner = snap[o].inner - old.cnt
      /\ snap'[o].recycle = snap[o].recycle
      /\ snap'[o].data = snap[o].data
      /\ \A k \in Index : k # o => snap'[k] = snap[k]
  BY <1>2 DEF Reset, TypeOK
<1>4. Installed /\ o # block.idx /\ snap[o].data # NoData
  BY <1>1 DEF IInv, FirstInv, WriterInv
<1>5. Installed'
  BY <1>1, <1>2, <1>3, <1>4 DEF Installed
<1>6. WriterInv'
  BY <1>1, <1>3, <1>4 DEF IInv, WriterInv, Taking
<1>7. FirstInv'
  BY <1>5 DEF FirstInv
<1>8. ASSUME NEW k \in Index, k = o PROVE VersionInv(k)'
  <2>1. /\ ~snap[k].recycle /\ Setters(k) = {}
        /\ old.cnt = snap[k].inner + Cardinality(Holders(k))
    BY <1>1, <1>8 DEF IInv, VersionInv, ReplacedInv, Replaced
  <2>2. Cardinality(Holders(k)) \in Nat /\ (Cardinality(Holders(k)) = 0 <=> Holders(k) = {})
    BY HoldersCount
  <2>3. Users(k) = Holders(k)
    BY <1>2, <2>1, UsersSplit
  <2>4. snap'[k].inner = -Cardinality(Holders(k))
    BY <1>2, <1>3, <1>8, <2>1, <2>2
  <2>5. wpc' = IF Holders(k) = {} THEN "setflag" ELSE "idle"
    BY <1>1, <1>8, <2>2, <2>4 DEF LastOut
  <2>6. ~Current(k)' /\ ~Replaced(k)' /\ (WriterSets(k)' <=> Holders(k) = {})
    BY <1>1, <1>4, <1>8, <2>5 DEF Current, Replaced, WriterSets
  <2>7. RetiredInv(k)'
    BY <1>1, <1>3, <1>8, <2>1, <2>3, <2>4, <2>6, ReadersStay DEF RetiredInv
  <2> QED
    BY <1>3, <1>4, <1>8, <2>6, <2>7 DEF VersionInv, FreshInv, CurrentInv, ReplacedInv
<1>9. ASSUME NEW k \in Index, k # o PROVE VersionInv(k)'
  <2>1. VersionInv(k) /\ snap'[k] = snap[k]
    BY <1>3, <1>9 DEF IInv
  <2> QED
    BY <1>1, <1>4, <1>5, <1>9, <2>1, ReadersStay
       DEF VersionInv, FreshInv, CurrentInv, ReplacedInv, RetiredInv, Retired, Current,
           Replaced, WriterSets, Taking
<1> QED
  BY <1>6, <1>7, <1>8, <1>9

LEMMA ResetFlagStep ==
  ASSUME IInv, ResetFlag
  PROVE  WriterInv' /\ FirstInv' /\ \A k \in Index : VersionInv(k)'
<1> DEFINE o == old.idx
<1>1. wpc = "setflag" /\ wpc' = "idle" /\ UNCHANGED <<block, wi, wdata, rpc, ridx>>
  BY DEF ResetFlag
<1>2. TypeOK /\ o \in Index /\ block.idx \in Index
  BY DEF IInv, TypeOK
<1>3. /\ snap'[o].inner = snap[o].inner
      /\ snap'[o].recycle = TRUE
      /\ snap'[o].data = snap[o].data
      /\ \A k \in Index : k # o => snap'[k] = snap[k]
  BY <1>2 DEF ResetFlag, TypeOK
<1>4. Installed /\ o # block.idx /\ snap[o].data # NoData
  BY <1>1 DEF IInv, FirstInv, WriterInv
<1>5. Installed'
  BY <1>1, <1>2, <1>3, <1>4 DEF Installed
<1>6. WriterInv'
  BY <1>1 DEF WriterInv, Taking
<1>7. FirstInv'
  BY <1>5 DEF FirstInv
<1>8. ASSUME NEW k \in Index, k = o PROVE VersionInv(k)'
  <2>1. Retired(k)
    BY <1>1, <1>4, <1>8 DEF Retired, Current, Replaced, Taking
  <2>2. Users(k) = {} /\ snap[k].inner = -Cardinality(Holders(k))
    BY <1>1, <1>8, <2>1 DEF IInv, VersionInv, RetiredInv, WriterSets
  <2>3. Setters(k) = {}
    BY <1>2, <2>2, UsersSplit
  <2> QED
    BY <1>1, <1>3, <1>4, <1>8, <2>2, <2>3, ReadersStay
       DEF VersionInv, FreshInv, CurrentInv, ReplacedInv, RetiredInv, Current, Replaced,
           WriterSets
<1>9. ASSUME NEW k \in Index, k # o PROVE VersionInv(k)'
  <2>1. VersionInv(k) /\ snap'[k] = snap[k]
    BY <1>3, <1>9 DEF IInv
  <2> QED
    BY <1>1, <1>4, <1>5, <1>9, <2>1, ReadersStay
       DEF VersionInv, FreshInv, CurrentInv, ReplacedInv, RetiredInv, Retired, Current,
           Replaced, WriterSets, Taking
<1> QED
  BY <1>6, <1>7, <1>8, <1>9

-----------------------------------------------------------------------------
\* The steps of a reader, one lemma each.
LEMMA AcquireStep ==
  ASSUME IInv, NEW r \in Readers, Acquire(r)
  PROVE  WriterInv' /\ FirstInv' /\ \A k \in Index : VersionInv(k)'
<1> DEFINE b == block.idx
<1>1. /\ Installed /\ UNCHANGED <<snap, wpc, wi, wdata, old>>
      /\ block'.cnt = block.cnt + 1 /\ block'.idx = b
  BY DEF Acquire, IInv, TypeOK
<1>2. TypeOK /\ b \in Index /\ block.cnt \in Nat
  BY CountAssumption DEF IInv, TypeOK
<1>3. Installed'
  BY <1>1 DEF Installed
<1>4. Taking => wi # b /\ wi \in Index /\ Users(wi)' = Users(wi)
  BY <1>1, <1>2, AcquireSets DEF IInv, WriterInv, TypeOK
<1>5. WriterInv'
  BY <1>1, <1>3, <1>4 DEF IInv, WriterInv, Taking
<1>6. FirstInv'
  BY <1>3 DEF FirstInv
<1>7. ASSUME NEW k \in Index, k = b PROVE VersionInv(k)'
  <2>1. /\ Current(k) /\ snap[k].data # NoData
        /\ snap[k].inner >= 0 /\ ~snap[k].recycle /\ Setters(k) = {}
        /\ block.cnt = snap[k].inner + Cardinality(Holders(k))
    BY <1>1, <1>7 DEF IInv, VersionInv, CurrentInv, Current, Installed
  <2>2. /\ Setters(k)' = {}
        /\ Cardinality(Holders(k)') = Cardinality(Holders(k)) + 1
    BY <1>2, <1>7, <2>1, AcquireSets
  <2>3. Cardinality(Holders(k)) \in Nat /\ snap[k].inner \in Int
    BY <1>2, HoldersCount DEF TypeOK
  <2>4. block'.cnt = snap'[k].inner + Cardinality(Holders(k)')
    BY <1>1, <2>1, <2>2, <2>3
  <2>5. Current(k)' /\ ~Replaced(k)'
    BY <1>1, <1>3, <1>7 DEF IInv, WriterInv, Current, Replaced
  <2> QED
    BY <1>1, <2>1, <2>2, <2>4, <2>5
       DEF VersionInv, FreshInv, CurrentInv, ReplacedInv, RetiredInv, Retired
<1>8. ASSUME NEW k \in Index, k # b PROVE VersionInv(k)'
  <2>1. VersionInv(k)
    BY DEF IInv
  <2>2. Users(k)' = Users(k) /\ Holders(k)' = Holders(k) /\ Setters(k)' = Setters(k)
    BY <1>2, <1>8, AcquireSets
  <2> QED
    BY <1>1, <1>3, <1>8, <2>1, <2>2
       DEF VersionInv, FreshInv, CurrentInv, ReplacedInv, RetiredInv, Retired, Current,
           Replaced, WriterSets, Taking
<1> QED
  BY <1>5, <1>6, <1>7, <1>8

LEMMA CopiedStep ==
  ASSUME IInv, NEW r \in Readers, Copied(r)
  PROVE  WriterInv' /\ FirstInv' /\ \A k \in Index : VersionInv(k)'
<1>1. UNCHANGED <<block, snap, wpc, wi, wdata, old>>
  BY DEF Copied
<1>2. \A k : Users(k)' = Users(k) /\ Holders(k)' = Holders(k) /\ Setters(k)' = Setters(k)
  BY CopiedSets DEF IInv
<1>3. Installed' = Installed
  BY <1>1 DEF Installed
<1>4. WriterInv'
  BY <1>1, <1>2, <1>3 DEF IInv, WriterInv, Taking
<1>5. FirstInv'
  BY <1>1, <1>3 DEF IInv, FirstInv
<1>6. ASSUME NEW k \in Index PROVE VersionInv(k)'
  <2>1. VersionInv(k)
    BY DEF IInv
  <2> QED
    BY <1>1, <1>2, <1>3, <2>1
       DEF VersionInv, FreshInv, CurrentInv, ReplacedInv, RetiredInv, Retired, Current,
           Replaced, WriterSets, Taking
<1> QED
  BY <1>4, <1>5, <1>6

\* A reader that holds a version is not at one the writer takes, and the version
\* exists: it is current, replaced or retired.
LEMMA HeldVersion ==
  ASSUME IInv, NEW r \in Readers, rpc[r] # "out"
  PROVE  /\ ridx[r] \in Index /\ r \in Users(ridx[r])
         /\ ~(Taking /\ wi = ridx[r])
         /\ snap[ridx[r]].data # NoData
<1>1. ridx[r] \in Index /\ r \in Users(ridx[r])
  BY DEF IInv, TypeOK, Users
<1>2. ~(Taking /\ wi = ridx[r])
  BY <1>1 DEF IInv, WriterInv
<1>3. snap[ridx[r]].data # NoData
  BY <1>1 DEF IInv, VersionInv, FreshInv
<1> QED
  BY <1>1, <1>2, <1>3

\* release(): the reader that brings the inner count of a retired version to
\* zero is the last one, and no other thread does.
LEMMA ReleaseStep ==
  ASSUME IInv, NEW r \in Readers, Release(r)
  PROVE  WriterInv' /\ FirstInv' /\ \A k \in Index : VersionInv(k)'
<1> DEFINE v == ridx[r]
<1>1. rpc[r] = "release" /\ UNCHANGED <<block, wpc, wi, wdata, old, ridx>>
  BY DEF Release
<1>2. TypeOK /\ v \in Index /\ block.idx \in Index /\ wi \in Index /\ old.idx \in Index
             /\ snap[v].inner \in Int
  BY DEF IInv, TypeOK
<1>3. /\ snap'[v].inner = snap[v].inner + 1
      /\ snap'[v].recycle = snap[v].recycle
      /\ snap'[v].data = snap[v].data
      /\ \A k \in Index : k # v => snap'[k] = snap[k]
  BY <1>2 DEF Release, TypeOK
<1>4. \A k \in Index : snap'[k].data = snap[k].data /\ snap'[k].recycle = snap[k].recycle
  BY <1>3
<1>5. Installed' = Installed
  BY <1>1, <1>2, <1>4 DEF Installed
<1>6. v \in Index /\ r \in Users(v) /\ ~(Taking /\ wi = v) /\ snap[v].data # NoData
  BY <1>1, HeldVersion
<1>7. WriterInv'
  <2>1. Taking => snap'[wi] = snap[wi] /\ Users(wi)' = Users(wi)
    BY <1>1, <1>2, <1>3, <1>6, ReleaseSets
  <2>2. snap'[old.idx].data = snap[old.idx].data
    BY <1>2, <1>4
  <2>3. WriterInv
    BY DEF IInv
  <2> QED
    BY <1>1, <1>5, <2>1, <2>2, <2>3 DEF WriterInv, Taking
<1>8. FirstInv'
  BY <1>1, <1>5 DEF IInv, FirstInv
<1>9. ASSUME NEW k \in Index, k = v PROVE VersionInv(k)'
  <2>1. /\ r \in Holders(k)
        /\ Cardinality(Holders(k)') = Cardinality(Holders(k)) - 1
        /\ Setters(k)' = IF LastOut(snap'[k].inner) THEN Setters(k) \cup {r} ELSE Setters(k)
    BY <1>2, <1>9, ReleaseSets
  <2>2. /\ Cardinality(Holders(k)) \in Nat
        /\ Cardinality(Holders(k)') \in Nat
        /\ Cardinality(Holders(k)') = 0 <=> Holders(k)' = {}
    BY HoldersCount, HoldersCountPrime
  <2>3. VersionInv(k) /\ r \in Users(k) /\ snap[k].data # NoData
    BY <1>6, <1>9 DEF IInv
  <2>4. CASE Current(k) \/ Replaced(k)
    <3>1. snap[k].inner >= 0 /\ Setters(k) = {} /\ ~snap[k].recycle
      BY <2>3, <2>4 DEF VersionInv, CurrentInv, ReplacedInv
    <3>2. Setters(k)' = {} /\ snap'[k].inner >= 0
      BY <1>2, <1>3, <1>9, <2>1, <3>1 DEF LastOut
    <3>3. Current(k) => block.cnt = snap'[k].inner + Cardinality(Holders(k)')
      BY <1>2, <1>3, <1>9, <2>1, <2>2, <2>3 DEF VersionInv, CurrentInv
    <3>4. Replaced(k) => old.cnt = snap'[k].inner + Cardinality(Holders(k)')
      BY <1>2, <1>3, <1>9, <2>1, <2>2, <2>3 DEF VersionInv, ReplacedInv
    <3> QED
      BY <1>1, <1>4, <1>5, <2>3, <2>4, <3>1, <3>2, <3>3, <3>4
         DEF VersionInv, FreshInv, CurrentInv, ReplacedInv, RetiredInv, Retired, Current,
             Replaced
  <2>5. CASE ~Current(k) /\ ~Replaced(k)
    <3>1. Retired(k)
      BY <1>6, <1>9, <2>5 DEF Retired
    <3>2. /\ snap[k].inner = -Cardinality(Holders(k))
          /\ ~snap[k].recycle /\ ~WriterSets(k) /\ Setters(k) = {}
      BY <2>1, <2>3, <3>1 DEF VersionInv, RetiredInv
    <3>3. snap'[k].inner = -Cardinality(Holders(k)')
      BY <1>3, <1>9, <2>1, <2>2, <3>2
    <3>4. Setters(k)' = IF Holders(k)' = {} THEN {r} ELSE {}
      BY <2>1, <2>2, <3>2, <3>3 DEF LastOut
    <3>5. Users(k)' = Holders(k)' \cup Setters(k)'
      <4>1. TypeOK'
        BY <1>2, TypeStep DEF Next, ReaderStep
      <4> QED
        BY <4>1 DEF TypeOK, Users, Holders, Setters
    <3> QED
      BY <1>1, <1>4, <1>5, <2>3, <2>5, <3>2, <3>3, <3>4, <3>5
         DEF VersionInv, FreshInv, CurrentInv, ReplacedInv, RetiredInv, Current,
             Replaced, WriterSets
  <2> QED
    BY <2>4, <2>5
<1>10. ASSUME NEW k \in Index, k # v PROVE VersionInv(k)'
  <2>1. VersionInv(k) /\ snap'[k] = snap[k]
    BY <1>3, <1>10 DEF IInv
  <2>2. Users(k)' = Users(k) /\ Holders(k)' = Holders(k) /\ Setters(k)' = Setters(k)
    BY <1>2, <1>10, ReleaseSets
  <2> QED
    BY <1>1, <1>5, <2>1, <2>2
       DEF VersionInv, FreshInv, CurrentInv, ReplacedInv, RetiredInv, Retired, Current,
           Replaced, WriterSets, Taking
<1> QED
  BY <1>7, <1>8, <1>9, <1>10

LEMMA ReleaseFlagStep ==
  ASSUME IInv, NEW r \in Readers, ReleaseFlag(r)
  PROVE  WriterInv' /\ FirstInv' /\ \A k \in Index : VersionInv(k)'
<1> DEFINE v == ridx[r]
<1>1. rpc[r] = "setflag" /\ UNCHANGED <<block, wpc, wi, wdata, old, ridx>>
  BY DEF ReleaseFlag
<1>2. TypeOK /\ v \in Index /\ block.idx \in Index /\ wi \in Index /\ old.idx \in Index
  BY DEF IInv, TypeOK
<1>3. /\ snap'[v].inner = snap[v].inner
      /\ snap'[v].recycle = TRUE
      /\ snap'[v].data = snap[v].data
      /\ \A k \in Index : k # v => snap'[k] = snap[k]
  BY <1>2 DEF ReleaseFlag, TypeOK
<1>4. \A k \in Index : snap'[k].data = snap[k].data
  BY <1>3
<1>5. Installed' = Installed
  BY <1>1, <1>2, <1>4 DEF Installed
<1>6. v \in Index /\ r \in Users(v) /\ ~(Taking /\ wi = v) /\ snap[v].data # NoData
  BY <1>1, HeldVersion
<1>7. WriterInv'
  <2>1. Taking => snap'[wi] = snap[wi] /\ Users(wi)' = Users(wi)
    BY <1>1, <1>2, <1>3, <1>6, ReleaseFlagSets
  <2>2. snap'[old.idx].data = snap[old.idx].data
    BY <1>2, <1>4
  <2>3. WriterInv
    BY DEF IInv
  <2> QED
    BY <1>1, <1>5, <2>1, <2>2, <2>3 DEF WriterInv, Taking
<1>8. FirstInv'
  BY <1>1, <1>5 DEF IInv, FirstInv
<1>9. ASSUME NEW k \in Index, k = v PROVE VersionInv(k)'
  <2>1. VersionInv(k) /\ r \in Setters(k) /\ snap[k].data # NoData
    BY <1>2, <1>6, <1>9, ReleaseFlagSets DEF IInv
  <2>2. ~Current(k) /\ ~Replaced(k)
    BY <2>1 DEF VersionInv, CurrentInv, ReplacedInv
  <2>3. Retired(k)
    BY <1>6, <1>9, <2>2 DEF Retired
  <2>4. /\ snap[k].inner = -Cardinality(Holders(k)) /\ Holders(k) = {}
        /\ ~WriterSets(k) /\ Setters(k) = {r}
    BY <2>1, <2>3, UsersSplit, <1>2 DEF VersionInv, RetiredInv
  <2>5. Users(k) = {r}
    BY <1>2, <2>4, UsersSplit
  <2>6. Users(k)' = {} /\ Holders(k)' = {} /\ Setters(k)' = {} /\ Holders(k)' = Holders(k)
    BY <1>2, <1>9, <2>4, <2>5, ReleaseFlagSets
  <2> QED
    BY <1>1, <1>3, <1>5, <1>9, <2>1, <2>2, <2>4, <2>6
       DEF VersionInv, FreshInv, CurrentInv, ReplacedInv, RetiredInv, Current,
           Replaced, WriterSets
<1>10. ASSUME NEW k \in Index, k # v PROVE VersionInv(k)'
  <2>1. VersionInv(k) /\ snap'[k] = snap[k]
    BY <1>3, <1>10 DEF IInv
  <2>2. Users(k)' = Users(k) /\ Holders(k)' = Holders(k) /\ Setters(k)' = Setters(k)
    BY <1>2, <1>10, ReleaseFlagSets
  <2> QED
    BY <1>1, <1>5, <2>1, <2>2
       DEF VersionInv, FreshInv, CurrentInv, ReplacedInv, RetiredInv, Retired, Current,
           Replaced, WriterSets, Taking
<1> QED
  BY <1>7, <1>8, <1>9, <1>10

-----------------------------------------------------------------------------
LEMMA InitInv == Init => IInv
<1> SUFFICES ASSUME Init PROVE IInv
  OBVIOUS
<1>1. TypeOK
  BY VersionAssumption, CountAssumption DEF Init, TypeOK
<1>2. \A k : Users(k) = {} /\ Holders(k) = {} /\ Setters(k) = {}
  BY DEF Init, Users, Holders, Setters
<1>3. \A k \in Index : snap[k] = [inner |-> 0, recycle |-> FALSE, data |-> NoData]
  BY DEF Init
<1>4. ~Installed
  BY <1>1, <1>3 DEF TypeOK, Installed
<1>5. WriterInv
  BY DEF Init, WriterInv, Taking
<1>6. FirstInv
  BY DEF Init, FirstInv
<1>7. ASSUME NEW k \in Index PROVE VersionInv(k)
  BY <1>2, <1>3, <1>4
     DEF Init, VersionInv, FreshInv, CurrentInv, ReplacedInv, RetiredInv, Retired,
         Current, Replaced
<1> QED
  BY <1>1, <1>5, <1>6, <1>7 DEF IInv

LEMMA NextInv == IInv /\ [Next]_vars => IInv'
<1> SUFFICES ASSUME IInv, [Next]_vars
             PROVE  WriterInv' /\ FirstInv' /\ \A k \in Index : VersionInv(k)'
  BY TypeStep DEF IInv
<1>1. ASSUME NEW d \in Data, Exchange(d)
      PROVE  WriterInv' /\ FirstInv' /\ \A k \in Index : VersionInv(k)'
  BY <1>1, ExchangeStep
<1>2. CASE WriterStep
  BY <1>2, FindStep, NewStep, FillStep, ZeroStep, UnflagStep, SwapStep, ResetStep,
     ResetFlagStep DEF WriterStep
<1>3. ASSUME NEW r \in Readers, Acquire(r) \/ ReaderStep(r)
      PROVE  WriterInv' /\ FirstInv' /\ \A k \in Index : VersionInv(k)'
  BY <1>3, AcquireStep, CopiedStep, ReleaseStep, ReleaseFlagStep DEF ReaderStep
<1>4. CASE UNCHANGED vars
  <2>1. UNCHANGED <<block, snap, wpc, wi, wdata, old, rpc, ridx>>
    BY <1>4 DEF vars
  <2>2. Installed' = Installed
    BY <2>1 DEF Installed
  <2>3. WriterInv'
    BY <2>1, <2>2, ReadersStay DEF IInv, WriterInv, Taking
  <2>4. FirstInv'
    BY <2>1, <2>2 DEF IInv, FirstInv
  <2>5. ASSUME NEW k \in Index PROVE VersionInv(k)'
    <3>1. VersionInv(k)
      BY DEF IInv
    <3> QED
      BY <2>1, <2>2, <3>1, ReadersStay
         DEF VersionInv, FreshInv, CurrentInv, ReplacedInv, RetiredInv, Retired, Current,
             Replaced, WriterSets, Taking
  <2> QED
    BY <2>3, <2>4, <2>5
<1> QED
  BY <1>1, <1>2, <1>3, <1>4 DEF Next

LEMMA Invariant == Spec => []IInv
BY InitInv, NextInv, PTL DEF Spec

\* exchange() never takes a version that a reader copies, has yet to count itself
\* out of or has yet to recycle, whatever the number of versions is.
THEOREM NoReaderAtTakenVersion == Spec => []NoUseAfterRecycle
<1>1. IInv => NoUseAfterRecycle
  BY DEF IInv, WriterInv, Taking, NoUseAfterRecycle
<1> QED
  BY <1>1, Invariant, PTL

\* While a version is current, the outer count is the number of its releases
\* and of the readers that hold it: no acquire() and no release() is lost.
THEOREM CountsAreExact == Spec => []CountsExact
<1>1. IInv => CountsExact
  BY DEF IInv, TypeOK, VersionInv, CurrentInv, Current, CountsExact
<1> QED
  BY <1>1, Invariant, PTL

\* A version that was replaced is free, or some thread will still free it.
THEOREM VersionsAreKept == Spec => []NoVersionLost
<1>1. IInv => NoVersionLost
  <2> SUFFICES ASSUME IInv, NEW k \in Index, ~Free(k), k # block.idx,
                      Users(k) = {}, ~(wpc \in {"swap", "unflag"} /\ wi = k),
                      ~(wpc \in {"reset", "setflag"} /\ old.idx = k)
               PROVE  FALSE
    BY DEF NoVersionLost
  <2>1. ~(Taking /\ wi = k)
    BY DEF IInv, WriterInv, Taking, Free
  <2>2. Retired(k)
    BY <2>1 DEF Retired, Current, Replaced, Free
  <2> QED
    BY <2>2 DEF IInv, VersionInv, RetiredInv, WriterSets, Free
<1> QED
  BY <1>1, Invariant, PTL

\* Of all the threads that leave a version, one sets its recycle flag, and when
\* it is set every reader has left.
THEOREM OneThreadRecycles == Spec => []SingleRecycler
<1>1. ASSUME IInv, NEW k \in Index
      PROVE  /\ Cardinality(Setters(k)) + (IF wpc = "setflag" /\ old.idx = k THEN 1 ELSE 0) <= 1
             /\ Setters(k) # {} \/ (wpc = "setflag" /\ old.idx = k) => Holders(k) = {}
             /\ snap[k].recycle => Users(k) = {}
  <2>1. VersionInv(k) /\ Users(k) = Holders(k) \cup Setters(k)
    BY <1>1, UsersSplit DEF IInv
  <2>2. Setters(k) # {} => Retired(k)
    <3>1. Setters(k) # {} => snap[k].data # NoData /\ ~Current(k) /\ ~Replaced(k)
      BY <2>1 DEF VersionInv, FreshInv, CurrentInv, ReplacedInv
    <3>2. Setters(k) # {} => ~(Taking /\ wi = k)
      BY <1>1, <2>1 DEF IInv, WriterInv
    <3> QED
      BY <3>1, <3>2 DEF Retired
  <2>3. WriterSets(k) => Retired(k)
    BY <1>1 DEF IInv, WriterInv, WriterSets, Retired, Current, Replaced, Taking
  <2>4. snap[k].recycle => Users(k) = {}
    <3>1. CASE Taking /\ wi = k
      BY <1>1, <3>1 DEF IInv, WriterInv
    <3>2. CASE Retired(k)
      BY <2>1, <3>2 DEF VersionInv, RetiredInv
    <3>3. CASE snap[k].data = NoData \/ Current(k) \/ Replaced(k)
      BY <2>1, <3>3 DEF VersionInv, FreshInv, CurrentInv, ReplacedInv
    <3> QED
      BY <3>1, <3>2, <3>3 DEF Retired
  <2>5. /\ Setters(k) # {} => Holders(k) = {} /\ ~WriterSets(k)
        /\ WriterSets(k) => Holders(k) = {} /\ Setters(k) = {}
        /\ \A r, s \in Setters(k) : r = s
    BY <2>1, <2>2, <2>3 DEF VersionInv, RetiredInv
  <2>6. Cardinality(Setters(k)) = IF Setters(k) = {} THEN 0 ELSE 1
    <3>1. CASE Setters(k) = {}
      BY <3>1, FS_EmptySet
    <3>2. CASE Setters(k) # {}
      <4>1. PICK r : Setters(k) = {r}
        BY <2>5, <3>2
      <4> QED
        BY <3>2, <4>1, FS_Singleton
    <3> QED
      BY <3>1, <3>2
  <2> QED
    BY <2>4, <2>5, <2>6 DEF WriterSets
<1>2. IInv => SingleRecycler
  BY <1>1 DEF SingleRecycler
<1> QED
  BY <1>2, Invariant, PTL

-----------------------------------------------------------------------------
\* Between two calls of exchange() the versions that are not free are the
\* current one and one for each reader that is at a version.
LEMMA SomeFree ==
  ASSUME EnoughVersions, IInv, wpc = "idle"
  PROVE  \E k \in Index : Free(k)
<1> SUFFICES ASSUME \A k \in Index : ~Free(k) PROVE FALSE
  OBVIOUS
<1> DEFINE Others == Index \ {block.idx}
           User == [k \in Others |-> CHOOSE r \in Readers : r \in Users(k)]
<1>1. block.idx \in Index
  BY DEF IInv, TypeOK
<1>2. ASSUME NEW k \in Others PROVE \E r \in Readers : r \in Users(k)
  <2>1. Retired(k)
    BY DEF Retired, Current, Replaced, Taking, Free
  <2>2. Users(k) # {}
    BY <2>1 DEF IInv, VersionInv, RetiredInv, WriterSets, Free
  <2> QED
    BY <2>2 DEF Users
<1>3. \A k \in Others : User[k] \in Readers /\ User[k] \in Users(k)
  BY <1>2
<1>4. \A k \in Others : ridx[User[k]] = k
  BY <1>3 DEF Users
<1>5. User \in Injection(Others, Readers)
  <2>1. User \in [Others -> Readers]
    BY <1>3
  <2>2. \A j, k \in Others : User[j] = User[k] => j = k
    BY <1>4
  <2> QED
    BY <2>1, <2>2 DEF Injection, IsInjective
<1>6. Cardinality(Others) <= Cardinality(Readers)
  BY <1>5, ReadersAssumption, FS_Injection
<1>7. IsFiniteSet(Index) /\ Cardinality(Index) = VersionCount
  BY VersionAssumption, FS_Interval
<1>8. Cardinality(Others) = VersionCount - 1
  BY <1>1, <1>7, FS_RemoveElement
<1>9. Cardinality(Readers) \in Nat
  BY ReadersAssumption, FS_CardinalityType
<1> QED
  BY <1>6, <1>8, <1>9, VersionAssumption DEF EnoughVersions

\* The search has not passed the last free version yet: a version that is free
\* stays free until the writer takes it.
SearchInv == /\ wpc # "failed"
             /\ wpc = "find" => \E k \in Index : k >= wi /\ Free(k)

LEMMA SearchStep ==
  ASSUME EnoughVersions, IInv, SearchInv, [Next]_vars
  PROVE  SearchInv'
<1> USE DEF SearchInv
<1>1. TypeOK
  BY DEF IInv
<1>2. ASSUME NEW d \in Data, Exchange(d) PROVE SearchInv'
  <2>1. PICK k \in Index : Free(k)
    BY <1>2, SomeFree DEF Exchange
  <2>2. k >= 0 /\ Free(k)'
    BY <1>2, <2>1 DEF Exchange, Free
  <2> QED
    BY <1>2, <2>2 DEF Exchange
<1>3. CASE Find
  <2>1. PICK k \in Index : k >= wi /\ Free(k)
    BY <1>3 DEF Find
  <2>2. Free(k)'
    BY <1>3, <2>1 DEF Find, Free
  <2>3. ~Free(wi) => k >= wi + 1 /\ wi + 1 # VersionCount
    BY <1>1, <2>1, VersionAssumption DEF TypeOK
  <2> QED
    BY <1>3, <2>2, <2>3 DEF Find
<1>4. CASE New \/ Fill \/ Zero \/ Unflag \/ Swap \/ Reset \/ ResetFlag
  BY <1>4 DEF New, Fill, Zero, Unflag, Swap, Reset, ResetFlag
<1>5. ASSUME NEW r \in Readers, Acquire(r) \/ Copied(r) PROVE SearchInv'
  BY <1>5 DEF Acquire, Copied, Free
<1>6. ASSUME NEW r \in Readers, Release(r) \/ ReleaseFlag(r) PROVE SearchInv'
  <2>1. ridx[r] \in Index
    BY <1>1 DEF TypeOK
  <2>2. \A k \in Index : Free(k) => Free(k)'
    <3>1. CASE Release(r)
      BY <1>1, <2>1, <3>1 DEF TypeOK, Release, Free
    <3>2. CASE ReleaseFlag(r)
      BY <1>1, <2>1, <3>2 DEF TypeOK, ReleaseFlag, Free
    <3> QED
      BY <1>6, <3>1, <3>2
  <2>3. wpc' = wpc /\ wi' = wi
    BY <1>6 DEF Release, ReleaseFlag
  <2> QED
    BY <2>2, <2>3
<1>7. CASE UNCHANGED vars
  BY <1>7 DEF vars, Free
<1> QED
  BY <1>2, <1>3, <1>4, <1>5, <1>6, <1>7 DEF Next, WriterStep, ReaderStep

\* With two versions more than there are readers (thread_count + 1 versions for
\* the thread_count - 1 threads that may scan the cell) the assertion of
\* exchange() holds: the search always finds a version.
THEOREM SearchSucceeds ==
  ASSUME EnoughVersions PROVE Spec => []VersionAvailable
<1>1. Init => SearchInv
  BY DEF Init, SearchInv
<1>2. IInv /\ SearchInv /\ [Next]_vars => SearchInv'
  BY SearchStep
<1>3. SearchInv => VersionAvailable
  BY DEF SearchInv, VersionAvailable
<1> QED
  BY <1>1, <1>2, <1>3, Invariant, PTL DEF Spec

-----------------------------------------------------------------------------
\* The snapshot that SnapshotCell calls current, and those the readers hold.
CellCurrent == IF Installed THEN snap[block.idx].data ELSE NoData

CellHeld == [r \in Readers |-> IF rpc[r] = "copy" THEN snap[ridx[r]].data ELSE NoData]

\* A step that touches no variable of the cell's image.
LEMMA CellStutter ==
  ASSUME UNCHANGED <<CellCurrent, CellHeld>>
  PROVE  UNCHANGED Cell!vars
BY DEF CellCurrent, CellHeld, Cell!vars

\* A counter or a flag that changes leaves the contents of every version.
LEMMA ContentsStay ==
  ASSUME TypeOK, Zero \/ Unflag \/ Reset \/ ResetFlag, NEW k \in Index
  PROVE  snap'[k].data = snap[k].data
<1>1. CASE Zero
  BY <1>1 DEF Zero, TypeOK
<1>2. CASE Unflag
  BY <1>2 DEF Unflag, TypeOK
<1>3. CASE Reset
  BY <1>3 DEF Reset, TypeOK
<1>4. CASE ResetFlag
  BY <1>4 DEF ResetFlag, TypeOK
<1> QED
  BY <1>1, <1>2, <1>3, <1>4

\* Every step of the versions is a step of the cell or leaves the cell alone:
\* only the swap of the control block replaces the snapshot, and neither the
\* assignment of a taken version nor the counters are seen by a reader.
LEMMA CellStep == IInv /\ [Next]_vars => [Cell!Next]_(Cell!vars)
<1> SUFFICES ASSUME IInv, [Next]_vars PROVE [Cell!Next]_(Cell!vars)
  OBVIOUS
<1>1. TypeOK
  BY DEF IInv
<1>2. ASSUME NEW d \in Data, Exchange(d) PROVE UNCHANGED Cell!vars
  BY <1>2, CellStutter DEF Exchange, CellCurrent, CellHeld, Installed
<1>3. CASE Find
  BY <1>3, CellStutter DEF Find, CellCurrent, CellHeld, Installed
<1>4. CASE New \/ Fill
  <2>1. /\ wpc \in {"new", "fill"} /\ wpc' \in {"swap", "zero"}
        /\ wpc = "new" <=> wpc' = "swap"
        /\ UNCHANGED <<block, wi, rpc, ridx>>
        /\ \A k \in Index : k # wi => snap'[k] = snap[k]
    BY <1>1, <1>4 DEF New, Fill, TypeOK
  <2>2. Users(wi) = {} /\ (wi = block.idx => ~Installed) /\ block.idx \in Index
    BY <1>1, <2>1 DEF IInv, WriterInv, Taking, TypeOK
  <2>3. CellHeld' = CellHeld
    <3>1. \A r \in Readers : rpc[r] = "copy" => ridx[r] # wi /\ ridx[r] \in Index
      BY <1>1, <2>2 DEF Users, TypeOK
    <3>2. \A r \in Readers : rpc[r] = "copy" => snap'[ridx'[r]].data = snap[ridx[r]].data
      BY <2>1, <3>1
    <3> QED
      BY <2>1, <3>2 DEF CellHeld
  <2>4. CellCurrent' = CellCurrent
    <3>1. CASE wi = block.idx
      <4>1. ~Installed /\ wpc = "new"
        BY <2>1, <2>2, <3>1 DEF IInv, FirstInv
      <4>2. ~Installed'
        BY <2>1, <3>1, <4>1 DEF Installed
      <4> QED
        BY <4>1, <4>2 DEF CellCurrent
    <3>2. CASE wi # block.idx
      BY <2>1, <2>2, <3>2 DEF CellCurrent, Installed
    <3> QED
      BY <3>1, <3>2
  <2> QED
    BY <2>3, <2>4, CellStutter
<1>5. CASE Zero \/ Unflag
  <2>1. /\ wpc \in {"zero", "unflag"} /\ UNCHANGED <<block, wi, rpc, ridx>>
        /\ \A k \in Index : snap'[k].data = snap[k].data
    BY <1>1, <1>5, ContentsStay DEF Zero, Unflag
  <2>2. Installed /\ wi # block.idx
    BY <2>1 DEF IInv, FirstInv, WriterInv, Taking
  <2>3. block.idx \in Index /\ \A r \in Readers : ridx[r] \in Index
    BY <1>1 DEF TypeOK
  <2>4. CellCurrent' = CellCurrent
    BY <2>1, <2>2, <2>3 DEF CellCurrent, Installed
  <2>5. CellHeld' = CellHeld
    BY <2>1, <2>3 DEF CellHeld
  <2> QED
    BY <2>4, <2>5, CellStutter
<1>6. CASE Swap
  <2>1. /\ wpc = "swap" /\ wpc' \in {"reset", "idle"} /\ block'.idx = wi
        /\ UNCHANGED <<snap, wi, rpc, ridx>>
    BY <1>6 DEF Swap
  <2>2. snap[wi].data = wdata /\ wdata \in Data /\ wdata # NoData
    BY <2>1, DataAssumption DEF IInv, WriterInv, Taking
  <2>3. Installed'
    BY <2>1, <2>2 DEF Installed
  <2>4. CellCurrent' = wdata /\ CellHeld' = CellHeld
    BY <2>1, <2>2, <2>3 DEF CellCurrent, CellHeld
  <2>5. Cell!Install(wdata)
    BY <2>4 DEF Cell!Install, CellCurrent, CellHeld
  <2> QED
    BY <2>2, <2>5 DEF Cell!Next
<1>7. CASE Reset \/ ResetFlag
  <2>1. /\ wpc # "swap" /\ wpc' # "swap" /\ UNCHANGED <<block, rpc, ridx>>
        /\ \A k \in Index : snap'[k].data = snap[k].data
    BY <1>1, <1>7, ContentsStay DEF Reset, ResetFlag
  <2>2. block.idx \in Index /\ \A r \in Readers : ridx[r] \in Index
    BY <1>1 DEF TypeOK
  <2>3. CellCurrent' = CellCurrent /\ CellHeld' = CellHeld
    BY <2>1, <2>2 DEF CellCurrent, CellHeld, Installed
  <2> QED
    BY <2>3, CellStutter
<1>8. ASSUME NEW r \in Readers, Acquire(r) PROVE Cell!Next
  <2>1. /\ rpc[r] = "out" /\ Installed /\ block'.idx = block.idx
        /\ rpc' = [rpc EXCEPT ![r] = "copy"]
        /\ ridx' = [ridx EXCEPT ![r] = block.idx]
        /\ UNCHANGED <<snap, wpc, wi>>
    BY <1>1, <1>8 DEF Acquire, TypeOK
  <2>2. CellCurrent' = CellCurrent /\ CellCurrent = snap[block.idx].data
    BY <2>1 DEF CellCurrent, Installed
  <2>3. CellCurrent # NoData /\ CellHeld[r] = NoData
    BY <2>1, <2>2 DEF CellHeld, Installed
  <2>4. CellHeld' = [CellHeld EXCEPT ![r] = CellCurrent]
    BY <1>1, <2>1, <2>2 DEF CellHeld, TypeOK
  <2>5. Cell!Acquire(r)
    BY <2>2, <2>3, <2>4 DEF Cell!Acquire, CellCurrent, CellHeld
  <2> QED
    BY <2>5 DEF Cell!Next
<1>9. ASSUME NEW r \in Readers, Copied(r) PROVE Cell!Next
  <2>1. /\ rpc[r] = "copy" /\ rpc' = [rpc EXCEPT ![r] = "release"]
        /\ UNCHANGED <<block, snap, wpc, wi, ridx>>
    BY <1>9 DEF Copied
  <2>2. CellCurrent' = CellCurrent
    BY <2>1 DEF CellCurrent, Installed
  <2>3. CellHeld[r] # NoData
    BY <2>1, HeldVersion DEF CellHeld
  <2>4. CellHeld' = [CellHeld EXCEPT ![r] = NoData]
    BY <1>1, <2>1 DEF CellHeld, TypeOK
  <2>5. Cell!Release(r)
    BY <2>2, <2>3, <2>4 DEF Cell!Release, CellCurrent, CellHeld
  <2> QED
    BY <2>5 DEF Cell!Next
<1>10. ASSUME NEW r \in Readers, Release(r) \/ ReleaseFlag(r) PROVE UNCHANGED Cell!vars
  <2>1. ridx[r] \in Index /\ block.idx \in Index /\ \A q \in Readers : ridx[q] \in Index
    BY <1>1 DEF TypeOK
  <2>2. /\ UNCHANGED <<block, wpc, wi, ridx>>
        /\ rpc[r] # "copy" /\ rpc'[r] # "copy"
        /\ \A q \in Readers : q # r => rpc'[q] = rpc[q]
    BY <1>1, <1>10 DEF Release, ReleaseFlag, TypeOK
  <2>3. \A k \in Index : snap'[k].data = snap[k].data
    <3>1. CASE Release(r)
      BY <1>1, <2>1, <3>1 DEF Release, TypeOK
    <3>2. CASE ReleaseFlag(r)
      BY <1>1, <2>1, <3>2 DEF ReleaseFlag, TypeOK
    <3> QED
      BY <1>10, <3>1, <3>2
  <2>4. CellCurrent' = CellCurrent
    BY <2>1, <2>2, <2>3 DEF CellCurrent, Installed
  <2>5. \A q \in Readers : CellHeld'[q] = CellHeld[q]
    BY <2>1, <2>2, <2>3 DEF CellHeld
  <2>6. CellHeld' = CellHeld
    BY <2>5 DEF CellHeld
  <2> QED
    BY <2>4, <2>6, CellStutter
<1>11. CASE UNCHANGED vars
  BY <1>11, CellStutter DEF vars, CellCurrent, CellHeld, Installed
<1> QED
  BY <1>2, <1>3, <1>4, <1>5, <1>6, <1>7, <1>8, <1>9, <1>10, <1>11
     DEF Next, WriterStep, ReaderStep

\* A shared_snapshot behaves like a cell that is replaced and read atomically:
\* what a reader copies is the snapshot that was current when it acquired it.
THEOREM ImplementsTheCell == Spec => ImplementsCell
<1>1. Init => Cell!Init
  <2> SUFFICES ASSUME Init PROVE Cell!Init
    OBVIOUS
  <2>1. 0 \in Index
    BY VersionAssumption
  <2>2. ~Installed
    BY <2>1 DEF Init, Installed
  <2>3. CellCurrent = NoData /\ CellHeld = [r \in Readers |-> NoData]
    BY <2>2 DEF Init, CellCurrent, CellHeld
  <2> QED
    BY <2>3 DEF Cell!Init, CellCurrent, CellHeld
<1> QED
  BY <1>1, CellStep, Invariant, PTL DEF Spec, ImplementsCell, Cell!Spec
=============================================================================
