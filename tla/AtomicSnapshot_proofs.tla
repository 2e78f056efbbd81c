----------------------- MODULE AtomicSnapshot_proofs -----------------------
(***************************************************************************)
(* Proofs about AtomicSnapshot, for every number of threads and of writes: *)
(* its types, that scan() returns what a thread saw of the registers, how  *)
(* stale that may be, that it makes a bounded number of passes, and that a *)
(* snapshot is acquired only after it was installed.                       *)
(***************************************************************************)
EXTENDS AtomicSnapshot, FiniteSetTheorems, TLAPS

(***************************************************************************)
(* The inductive invariant. A scan of thread t began when t saw some       *)
(* contents s of the registers. A thread r whose register has since come   *)
(* to be above s[r] for all to see has done its write, or has had it late, *)
(* during the scan of t; so the scan of its next update() began when that  *)
(* write was late or later, and all that can be returned by it, t may      *)
(* return as well. Two writes after s[r], the snapshot of r is therefore   *)
(* one that t may return.                                                  *)
(***************************************************************************)
Nested(t, r, s) ==
  /\ reg[r] > s[r] /\ pc[r] \in Scanning \cup {"exchange"} => seen[r] \subseteq seen[t]
  /\ reg[r] > s[r] /\ (pc[r] = "write" \/ late[r]) => cell[r] \in seen[t]
  /\ reg[r] > s[r] + 1 => cell[r] \in seen[t]

\* What the scan of t has collected of register r, and how often it has seen it
\* change.
Collected(t, r, s) ==
  /\ pc[t] = "first" /\ r < i[t] => s[r] <= first[t][r] /\ first[t][r] <= View(t)[r]
  /\ pc[t] \in {"second", "compare"} =>
       /\ first[t][r] <= View(t)[r]
       /\ r < i[t] => second[t][r] <= View(t)[r] /\ s[r] + changes[t][r] <= second[t][r]
       /\ r >= i[t] => s[r] + changes[t][r] <= first[t][r]
  /\ pc[t] = "acquire" /\ r = i[t] => s[r] + 2 <= View(t)[r]

\* The contents s with which the scan began.
Begun(t, s) ==
  /\ s[t] = View(t)[t]
  /\ \A r \in Thread : s[r] <= View(t)[r] /\ Nested(t, r, s) /\ Collected(t, r, s)

\* The contents b with which the present pass began lie between two collects.
Between(t, b) ==
  \A r \in Thread : /\ first[t][r] <= b[r] /\ b[r] <= View(t)[r]
                    /\ r < i[t] => b[r] <= second[t][r]

ScanInv(t) ==
  /\ pc[t] \in Scanning => /\ recent \subseteq seen[t] /\ mine[t] \subseteq seen[t]
                           /\ View(t) \in mine[t]
                           /\ \E s \in seen[t] : Begun(t, s)
  /\ pc[t] \in {"second", "compare"} => \E b \in mine[t] : Between(t, b)

\* Where i is in the loops of scan().
IndexInv(t) ==
  /\ pc[t] \in {"first", "second", "acquire"} => i[t] \in Thread
  /\ pc[t] = "compare" => i[t] = ThreadCount
  /\ pc[t] \notin {"second", "compare", "acquire"} => changes[t] = Zero
  /\ pc[t] \notin Scanning => i[t] = 0

\* A thread that has written, or is about to, has installed a snapshot.
InstallInv(t) == View(t)[t] > 0 \/ pc[t] = "write" => cell[t] \in Snapshot

\* A thread writes after a locked instruction. If its last store is late, it has
\* been so throughout the scan that follows it.
LateInv(t) ==
  /\ View(t) \in recent
  /\ pc[t] = "write" => ~late[t]
  /\ late[t] /\ pc[t] \in Scanning \cup {"exchange"} => seen[t] \subseteq recent

ResultInv(t) == HasResult(t) => first[t] \in seen[t]

ThreadInv(t) == IndexInv(t) /\ InstallInv(t) /\ LateInv(t) /\ ResultInv(t) /\ ScanInv(t)

IInv == TypeOK /\ \A t \in Thread : ThreadInv(t)

(***************************************************************************)
(* The number of passes: each pass but the last sees some other register   *)
(* change for the first time.                                              *)
(***************************************************************************)
Changed(t) == {r \in Thread : changes[t][r] = 1}

Differs(t) == \E r \in Thread : r < i[t] /\ first[t][r] # second[t][r]

RoundInv(t) ==
  /\ pc[t] \notin Scanning => rounds[t] = 0
  /\ pc[t] = "first" => rounds[t] = 0
  /\ pc[t] \in {"second", "compare"} =>
       rounds[t] <= Cardinality(Changed(t)) + (IF Differs(t) THEN 0 ELSE 1)
  /\ rounds[t] <= ThreadCount

(***************************************************************************)
(* The outer count of thread c: since c installed its snapshot, as many    *)
(* different threads have acquired it. One that has done so began its next *)
(* scan, if any, after that, and sees no more than the one write of c.     *)
(***************************************************************************)
\* What the register of c was when c installed its snapshot.
Installed(c) == IF pc[c] = "write" \/ late[c] THEN reg[c] ELSE reg[c] - 1

Since(t, c) ==
  /\ pc[t] = "first" /\ c < i[t] => Installed(c) <= first[t][c]
  /\ pc[t] \in {"second", "compare"} =>
       /\ c < i[t] => Installed(c) + changes[t][c] <= second[t][c]
       /\ c >= i[t] => Installed(c) + changes[t][c] <= first[t][c]
  /\ pc[t] = "acquire" => i[t] # c

CountInv(c) ==
  \E A \in SUBSET (Thread \ {c}) :
    /\ acquired[c] = Cardinality(A)
    /\ \A t \in A : Since(t, c)

-----------------------------------------------------------------------------
LEMMA ThreadNumbers ==
  \A r \in Thread : r \in Int /\ 0 <= r /\ r < ThreadCount
BY ThreadAssumption DEF Thread

LEMMA FirstThread == 0 \in Thread /\ ThreadCount \in Nat
BY ThreadAssumption DEF Thread

LEMMA ThreadsFinite == IsFiniteSet(Thread) /\ Cardinality(Thread) = ThreadCount
BY ThreadAssumption, FS_Interval DEF Thread

LEMMA ZeroTyped == Zero \in Snapshot
BY DEF Zero, Snapshot, Stamp

\* A view differs from the registers at most in the thread's own register.
LEMMA ViewOf ==
  ASSUME TypeOK, NEW t \in Thread
  PROVE  /\ View(t) \in Snapshot
         /\ View(t)[t] = IF late[t] THEN reg[t] + 1 ELSE reg[t]
         /\ \A r \in Thread : reg[r] \in Nat /\ (r # t => View(t)[r] = reg[r])
<1>1. reg \in [Thread -> Nat] /\ late[t] \in BOOLEAN
  BY DEF TypeOK, Snapshot, Stamp
<1>2. CASE late[t]
  BY <1>1, <1>2 DEF View, Snapshot, Stamp
<1>3. CASE ~late[t]
  BY <1>1, <1>3 DEF View, Snapshot, Stamp
<1> QED
  BY <1>2, <1>3

\* The step of a thread leaves the local variables of the others.
Same(t) == /\ pc'[t] = pc[t]
           /\ i'[t] = i[t]
           /\ first'[t] = first[t]
           /\ second'[t] = second[t]
           /\ changes'[t] = changes[t]
           /\ rounds'[t] = rounds[t]

LEMMA OthersSame ==
  ASSUME TypeOK, NEW u \in Thread, NEW t \in Thread, t # u,
         Step(u) \/ \E update \in BOOLEAN : Call(u, update)
  PROVE  Same(t)
<1> USE DEF TypeOK, Same
<1>1. ASSUME NEW update \in BOOLEAN, Call(u, update) PROVE Same(t)
  BY <1>1 DEF Call
<1>2. CASE FirstCollect(u)
  BY <1>2 DEF FirstCollect
<1>3. CASE SecondCollect(u)
  BY <1>3 DEF SecondCollect
<1>4. CASE CleanCollect(u)
  BY <1>4 DEF CleanCollect, Forget
<1>5. CASE DirtyCollect(u)
  BY <1>5 DEF DirtyCollect
<1>6. CASE AcquireSnapshot(u)
  BY <1>6 DEF AcquireSnapshot, Forget
<1>7. CASE Return(u)
  BY <1>7 DEF Return
<1>8. CASE Exchange(u)
  BY <1>8 DEF Exchange
<1>9. CASE Write(u)
  BY <1>9 DEF Write
<1>10. CASE Settle(u)
  BY <1>10 DEF Settle
<1> QED
  BY <1>1, <1>2, <1>3, <1>4, <1>5, <1>6, <1>7, <1>8, <1>9, <1>10 DEF Step

-----------------------------------------------------------------------------
\* Steps that leave the registers and the snapshots: what the scan of t may
\* rely on stays, as long as no thread begins an update's scan or its write.
Quiet(t) ==
  /\ reg' = reg /\ late' = late /\ cell' = cell /\ recent' = recent
  /\ seen'[t] = seen[t] /\ mine'[t] = mine[t]
  /\ \A r \in Thread :
       /\ pc'[r] \in Scanning \cup {"exchange"} =>
            pc[r] \in Scanning \cup {"exchange"} /\ seen'[r] = seen[r]
       /\ pc'[r] = "write" => pc[r] = "write"

LEMMA QuietView ==
  ASSUME NEW t \in Thread, Quiet(t)
  PROVE  \A u \in Thread : View(u)' = View(u)
BY DEF Quiet, View

LEMMA QuietNested ==
  ASSUME NEW t \in Thread, NEW r \in Thread, NEW s, Quiet(t), Nested(t, r, s)
  PROVE  Nested(t, r, s)'
BY DEF Quiet, Nested

LEMMA QuietOthers ==
  ASSUME IInv, NEW t \in Thread, Same(t), Quiet(t)
  PROVE  ThreadInv(t)'
<1>1. ThreadInv(t) /\ View(t)' = View(t)
  BY QuietView DEF IInv
<1>2. IndexInv(t)' /\ ResultInv(t)'
  BY <1>1 DEF ThreadInv, IndexInv, ResultInv, HasResult, Same, Quiet
<1>3. InstallInv(t)' /\ LateInv(t)'
  BY <1>1 DEF ThreadInv, InstallInv, LateInv, Same, Quiet
<1>4. ASSUME NEW s \in seen[t], Begun(t, s)
      PROVE  Begun(t, s)'
  <2>1. ASSUME NEW r \in Thread
        PROVE  s[r] <= View(t)'[r] /\ Nested(t, r, s)' /\ Collected(t, r, s)'
    <3>1. s[r] <= View(t)[r] /\ Nested(t, r, s) /\ Collected(t, r, s)
      BY <1>4 DEF Begun
    <3>2. Collected(t, r, s)'
      BY <1>1, <3>1 DEF Collected, Same
    <3> QED
      BY <1>1, <3>1, <3>2, QuietNested
  <2> QED
    BY <1>1, <1>4, <2>1 DEF Begun
<1>5. ASSUME NEW b \in mine[t], Between(t, b)
      PROVE  Between(t, b)'
  BY <1>1, <1>5 DEF Between, Same
<1>6. ScanInv(t)'
  BY <1>1, <1>4, <1>5 DEF ThreadInv, ScanInv, Same, Quiet
<1> QED
  BY <1>2, <1>3, <1>6 DEF ThreadInv

\* The types of the variables that every step of a scan changes.
LEMMA ScanTypes ==
  ASSUME TypeOK, NEW t \in Thread
  PROVE  /\ reg \in Snapshot /\ first[t] \in Snapshot /\ second[t] \in Snapshot
         /\ late[t] \in BOOLEAN /\ recent \subseteq Snapshot /\ mine[t] \subseteq Snapshot
         /\ changes[t] \in [Thread -> {0, 1}] /\ i[t] \in 0 .. ThreadCount
         /\ seen[t] \subseteq Snapshot /\ pc[t] \in ThreadAt
         /\ cell[t] \in Snapshot \cup {NoSnapshot} /\ rounds[t] \in Nat
BY DEF TypeOK

LEMMA FirstCollectStep ==
  ASSUME IInv, NEW t \in Thread, FirstCollect(t)
  PROVE  TypeOK' /\ \A u \in Thread : ThreadInv(u)'
<1> DEFINE n == i[t]
<1>1. /\ pc[t] = "first" /\ UNCHANGED <<reg, late, cell, acquired, updating, second, changes>>
      /\ UNCHANGED <<recent, seen, mine>>
      /\ first' = [first EXCEPT ![t] = [first[t] EXCEPT ![n] = View(t)[n]]]
  BY DEF FirstCollect
<1>2. TypeOK /\ ThreadInv(t) /\ n \in Thread
  BY <1>1 DEF IInv, ThreadInv, IndexInv
<1>3. View(t)[n] \in Nat /\ [first[t] EXCEPT ![n] = View(t)[n]] \in Snapshot
  BY <1>2, ScanTypes, ViewOf DEF Snapshot, Stamp
<1>4. first' \in [Thread -> Snapshot]
  BY <1>1, <1>2, <1>3 DEF TypeOK
<1>5. /\ pc' \in [Thread -> ThreadAt] /\ i' \in [Thread -> 0 .. ThreadCount]
      /\ rounds' \in [Thread -> Nat]
  <2>1. n + 1 \in 0 .. ThreadCount /\ 0 \in 0 .. ThreadCount
    BY <1>2, ThreadNumbers, FirstThread
  <2>2. CASE n + 1 = ThreadCount
    <3>1. /\ pc' = [pc EXCEPT ![t] = "second"]
          /\ i' = [i EXCEPT ![t] = 0]
          /\ rounds' = [rounds EXCEPT ![t] = 1]
      BY <2>2 DEF FirstCollect
    <3> QED
      BY <1>2, <2>1, <3>1 DEF TypeOK, ThreadAt
  <2>3. CASE n + 1 # ThreadCount
    BY <1>2, <2>1, <2>3 DEF FirstCollect, TypeOK, ThreadAt
  <2> QED
    BY <2>2, <2>3
<1>6. TypeOK'
  BY <1>1, <1>2, <1>4, <1>5 DEF TypeOK
<1>7. ASSUME NEW u \in Thread, u # t PROVE Same(u)
  BY <1>2, <1>7, OthersSame DEF Step
<1>8. pc'[t] = (IF n + 1 = ThreadCount THEN "second" ELSE "first")
      /\ i'[t] = (IF n + 1 = ThreadCount THEN 0 ELSE n + 1)
  BY <1>2 DEF FirstCollect, TypeOK
<1>9. /\ first'[t][n] = View(t)[n]
      /\ \A r \in Thread : r # n => first'[t][r] = first[t][r]
  BY <1>1, <1>2 DEF TypeOK, Snapshot
<1>10. ASSUME NEW u \in Thread PROVE Quiet(u)
  BY <1>1, <1>7, <1>8 DEF Quiet, Same, Scanning
<1>11. View(t)' = View(t)
  BY <1>10, QuietView
<1>12. IndexInv(t)' /\ ResultInv(t)'
  BY <1>1, <1>2, <1>8, ThreadNumbers, FirstThread
     DEF ThreadInv, IndexInv, ResultInv, HasResult, Scanning, Thread
<1>13. InstallInv(t)' /\ LateInv(t)'
  BY <1>1, <1>2, <1>8, <1>11 DEF ThreadInv, InstallInv, LateInv, Scanning
<1>14. PICK s \in seen[t] : Begun(t, s)
  BY <1>1, <1>2 DEF ThreadInv, ScanInv, Scanning
<1>15. recent \subseteq seen[t] /\ mine[t] \subseteq seen[t] /\ View(t) \in mine[t]
  BY <1>1, <1>2 DEF ThreadInv, ScanInv, Scanning
<1>16. \A r \in Thread : (r < n + 1 <=> r < n \/ r = n) /\ (n + 1 = ThreadCount => r < n + 1)
  BY <1>2, ThreadNumbers
<1>17. \A r \in Thread : /\ s[r] \in Nat /\ View(t)[r] \in Nat
                         /\ s[r] <= View(t)[r] /\ Nested(t, r, s)
                         /\ r < n => s[r] <= first[t][r] /\ first[t][r] <= View(t)[r]
                         /\ changes[t][r] = 0
  BY <1>1, <1>2, <1>14, ScanTypes, ViewOf
     DEF Begun, Collected, Snapshot, Stamp, ThreadInv, IndexInv, Zero
<1>18. \A r \in Thread : r < n + 1 => s[r] <= first'[t][r] /\ first'[t][r] <= View(t)[r]
  BY <1>9, <1>16, <1>17, <1>3
<1>19. ASSUME NEW r \in Thread PROVE Collected(t, r, s)'
  <2>1. CASE n + 1 = ThreadCount
    BY <1>1, <1>8, <1>11, <1>16, <1>17, <1>18, <2>1, ThreadNumbers DEF Collected
  <2>2. CASE n + 1 # ThreadCount
    BY <1>1, <1>8, <1>11, <1>18, <2>2 DEF Collected
  <2> QED
    BY <2>1, <2>2
<1>20. Begun(t, s)'
  BY <1>1, <1>10, <1>11, <1>14, <1>17, <1>19, QuietNested DEF Begun
<1>21. pc'[t] = "second" => Between(t, View(t))'
  BY <1>1, <1>8, <1>11, <1>16, <1>17, <1>18, ThreadNumbers DEF Between
<1>22. ScanInv(t)'
  <2>1. pc'[t] \notin {"compare"}
    BY <1>8
  <2>2. pc'[t] = "second" => \E b \in mine'[t] : Between(t, b)'
    BY <1>1, <1>11, <1>15, <1>21
  <2> QED
    BY <1>1, <1>11, <1>14, <1>15, <1>20, <2>1, <2>2 DEF ScanInv
<1> QED
  BY <1>6, <1>7, <1>10, <1>12, <1>13, <1>22, QuietOthers DEF ThreadInv

\* What the first visit to a register that has changed tells, and the second.
LEMMA SecondCollectStep ==
  ASSUME IInv, NEW t \in Thread, SecondCollect(t)
  PROVE  TypeOK' /\ \A u \in Thread : ThreadInv(u)'
<1> DEFINE n == i[t]
           change == IF first[t][n] # View(t)[n] THEN changes[t][n] + 1 ELSE changes[t][n]
<1>1. /\ pc[t] = "second" /\ UNCHANGED <<reg, late, cell, acquired, updating, first, rounds>>
      /\ UNCHANGED <<recent, seen, mine>>
      /\ second' = [second EXCEPT ![t] = [second[t] EXCEPT ![n] = View(t)[n]]]
  BY DEF SecondCollect
<1>2. TypeOK /\ ThreadInv(t) /\ n \in Thread
  BY <1>1 DEF IInv, ThreadInv, IndexInv
<1>3. ChangedTwice(t, n) =>
        pc' = [pc EXCEPT ![t] = "acquire"] /\ UNCHANGED <<i, changes>>
  BY DEF SecondCollect
<1>4. ~ChangedTwice(t, n) =>
        /\ changes' = [changes EXCEPT ![t] = [changes[t] EXCEPT ![n] = change]]
        /\ i' = [i EXCEPT ![t] = n + 1]
        /\ pc' = [pc EXCEPT ![t] = IF n + 1 = ThreadCount THEN "compare" ELSE "second"]
  BY DEF SecondCollect
<1>5. PICK s \in seen[t] : Begun(t, s)
  BY <1>1, <1>2 DEF ThreadInv, ScanInv, Scanning
<1>6. PICK b \in mine[t] : Between(t, b)
  BY <1>1, <1>2 DEF ThreadInv, ScanInv
<1>7. recent \subseteq seen[t] /\ mine[t] \subseteq seen[t] /\ View(t) \in mine[t]
  BY <1>1, <1>2 DEF ThreadInv, ScanInv, Scanning
<1>8. \A r \in Thread : /\ s[r] \in Nat /\ b[r] \in Nat /\ View(t)[r] \in Nat
                        /\ first[t][r] \in Nat /\ second[t][r] \in Nat
                        /\ changes[t][r] \in {0, 1} /\ s[r] <= View(t)[r] /\ Nested(t, r, s)
  BY <1>2, <1>5, <1>6, ScanTypes, ViewOf DEF Begun, Snapshot, Stamp
<1>9. \A r \in Thread : /\ first[t][r] <= View(t)[r]
                        /\ r < n => second[t][r] <= View(t)[r] /\ s[r] + changes[t][r] <= second[t][r]
                        /\ r >= n => s[r] + changes[t][r] <= first[t][r]
  BY <1>1, <1>5 DEF Begun, Collected
<1>10. ~ChangedTwice(t, n) => change \in {0, 1}
  BY <1>2, <1>8 DEF ChangedTwice
<1>11. [second[t] EXCEPT ![n] = View(t)[n]] \in Snapshot
  BY <1>2, <1>8, ScanTypes DEF Snapshot, Stamp
<1>12. n + 1 \in 0 .. ThreadCount
  BY <1>2, ThreadNumbers, FirstThread
<1>13. TypeOK'
  <2>1. second' \in [Thread -> Snapshot]
    BY <1>1, <1>2, <1>11 DEF TypeOK
  <2>2. CASE ChangedTwice(t, n)
    BY <1>1, <1>2, <1>3, <2>1, <2>2 DEF TypeOK, ThreadAt
  <2>3. CASE ~ChangedTwice(t, n)
    <3>1. [changes[t] EXCEPT ![n] = change] \in [Thread -> {0, 1}]
      BY <1>2, <1>10, <2>3, ScanTypes
    <3>2. changes' \in [Thread -> [Thread -> {0, 1}]]
      <4> DEFINE row == [changes[t] EXCEPT ![n] = change]
      <4>1. row \in [Thread -> {0, 1}] /\ changes' = [changes EXCEPT ![t] = row]
        BY <1>4, <2>3, <3>1
      <4> HIDE DEF row
      <4> QED
        BY <1>2, <4>1 DEF TypeOK
    <3>3. i' \in [Thread -> 0 .. ThreadCount]
      BY <1>2, <1>4, <1>12, <2>3 DEF TypeOK
    <3>4. pc' \in [Thread -> ThreadAt]
      BY <1>2, <1>4, <2>3 DEF TypeOK, ThreadAt
    <3> QED
      BY <1>1, <1>2, <2>1, <3>2, <3>3, <3>4 DEF TypeOK
  <2> QED
    BY <2>2, <2>3
<1>14. ASSUME NEW u \in Thread, u # t PROVE Same(u)
  BY <1>2, <1>14, OthersSame DEF Step
<1>15. pc'[t] \in {"second", "compare", "acquire"}
  BY <1>2, <1>3, <1>4 DEF TypeOK
<1>16. ASSUME NEW u \in Thread PROVE Quiet(u)
  BY <1>1, <1>14, <1>15 DEF Quiet, Same, Scanning
<1>17. /\ View(t)' = View(t) /\ second'[t][n] = View(t)[n]
       /\ \A r \in Thread : r # n => second'[t][r] = second[t][r]
  BY <1>1, <1>2, <1>16, QuietView, ScanTypes DEF TypeOK, Snapshot
<1>18. CASE ChangedTwice(t, n)
  <2>1. pc'[t] = "acquire" /\ i'[t] = n /\ changes'[t] = changes[t]
    BY <1>2, <1>3, <1>18 DEF TypeOK
  <2>2. s[n] + 2 <= View(t)[n]
    BY <1>2, <1>8, <1>9, <1>18, ThreadNumbers DEF ChangedTwice
  <2>3. \A r \in Thread : Collected(t, r, s)'
    BY <1>1, <1>17, <2>1, <2>2 DEF Collected
  <2>4. Begun(t, s)'
    BY <1>1, <1>5, <1>8, <1>16, <1>17, <2>3, QuietNested DEF Begun
  <2>5. ScanInv(t)'
    BY <1>1, <1>5, <1>7, <1>17, <2>1, <2>4 DEF ScanInv
  <2>6. IndexInv(t)' /\ ResultInv(t)'
    BY <1>1, <1>2, <2>1 DEF ThreadInv, IndexInv, ResultInv, HasResult, Scanning
  <2>7. InstallInv(t)' /\ LateInv(t)'
    BY <1>1, <1>2, <1>17, <2>1 DEF ThreadInv, InstallInv, LateInv, Scanning
  <2> QED
    BY <1>13, <1>14, <1>16, <2>5, <2>6, <2>7, QuietOthers DEF ThreadInv
<1>19. CASE ~ChangedTwice(t, n)
  <2>1. /\ pc'[t] = (IF n + 1 = ThreadCount THEN "compare" ELSE "second")
        /\ i'[t] = n + 1
    BY <1>2, <1>4, <1>19 DEF TypeOK
  <2>2. /\ changes'[t][n] = change
        /\ \A r \in Thread : r # n => changes'[t][r] = changes[t][r]
    BY <1>2, <1>4, <1>19, ScanTypes DEF TypeOK
  <2>3. \A r \in Thread : (r < n + 1 <=> r < n \/ r = n) /\ (r >= n + 1 => r >= n /\ r # n)
    BY <1>2, ThreadNumbers
  <2>4. s[n] + change <= View(t)[n] /\ change \in {0, 1}
    BY <1>2, <1>8, <1>9, <1>10, <1>19, ThreadNumbers DEF ChangedTwice
  <2>5. ASSUME NEW r \in Thread PROVE Collected(t, r, s)'
    <3>1. CASE r = n
      BY <1>1, <1>2, <1>8, <1>9, <1>17, <2>1, <2>2, <2>3, <2>4, <3>1 DEF Collected
    <3>2. CASE r # n
      BY <1>1, <1>9, <1>17, <2>1, <2>2, <2>3, <3>2 DEF Collected
    <3> QED
      BY <3>1, <3>2
  <2>6. Begun(t, s)'
    BY <1>1, <1>5, <1>8, <1>16, <1>17, <2>5, QuietNested DEF Begun
  <2>7. Between(t, b)'
    BY <1>1, <1>2, <1>6, <1>17, <2>1, <2>3 DEF Between
  <2>8. ScanInv(t)'
    BY <1>1, <1>5, <1>6, <1>7, <1>17, <2>1, <2>6, <2>7 DEF ScanInv
  <2>9. IndexInv(t)' /\ ResultInv(t)'
    BY <1>1, <1>2, <2>1, ThreadNumbers, FirstThread
       DEF ThreadInv, IndexInv, ResultInv, HasResult, Scanning, Thread
  <2>10. InstallInv(t)' /\ LateInv(t)'
    BY <1>1, <1>2, <1>17, <2>1 DEF ThreadInv, InstallInv, LateInv, Scanning
  <2> QED
    BY <1>13, <1>14, <1>16, <2>8, <2>9, <2>10, QuietOthers DEF ThreadInv
<1> QED
  BY <1>18, <1>19

\* A clean collect lies between two contents that are equal, so that it is the
\* contents with which the last pass began.
LEMMA CleanView ==
  ASSUME IInv, NEW t \in Thread, pc[t] = "compare", SameFlag(t)
  PROVE  first[t] \in mine[t]
<1>1. TypeOK /\ ThreadInv(t) /\ first[t] = second[t]
  BY DEF IInv, SameFlag
<1>2. PICK b \in mine[t] : Between(t, b)
  BY <1>1 DEF ThreadInv, ScanInv
<1>3. i[t] = ThreadCount
  BY <1>1 DEF ThreadInv, IndexInv
<1>4. \A r \in Thread : first[t][r] <= b[r] /\ b[r] <= first[t][r]
  BY <1>1, <1>2, <1>3, ThreadNumbers DEF Between
<1>5. first[t] \in [Thread -> Nat] /\ b \in [Thread -> Nat]
  BY <1>1, <1>2, ScanTypes DEF Snapshot, Stamp
<1>6. \A r \in Thread : first[t][r] = b[r]
  BY <1>4, <1>5
<1>7. first[t] = b
  BY <1>5, <1>6
<1> QED
  BY <1>2, <1>7

LEMMA CleanCollectStep ==
  ASSUME IInv, NEW t \in Thread, CleanCollect(t)
  PROVE  TypeOK' /\ \A u \in Thread : ThreadInv(u)'
<1>1. /\ pc[t] = "compare" /\ UNCHANGED <<reg, late, cell, acquired, updating, first>>
      /\ UNCHANGED <<recent, seen, mine>>
      /\ first[t] = second[t] /\ pc' = [pc EXCEPT ![t] = Returned(t)]
      /\ i' = [i EXCEPT ![t] = 0] /\ second' = [second EXCEPT ![t] = Zero]
      /\ changes' = [changes EXCEPT ![t] = Zero] /\ rounds' = [rounds EXCEPT ![t] = 0]
  BY DEF CleanCollect, Forget, SameFlag
<1>2. TypeOK /\ ThreadInv(t)
  BY DEF IInv
<1>3. Returned(t) \in {"exchange", "returned"}
  BY DEF Returned
<1>4. TypeOK'
  BY <1>1, <1>2, <1>3, ZeroTyped, FirstThread DEF TypeOK, ThreadAt, Zero
<1>5. ASSUME NEW u \in Thread, u # t PROVE Same(u)
  BY <1>2, <1>5, OthersSame DEF Step
<1>6. pc'[t] = Returned(t) /\ i'[t] = 0 /\ changes'[t] = Zero
  BY <1>1, <1>2 DEF TypeOK
<1>7. ASSUME NEW u \in Thread PROVE Quiet(u)
  BY <1>1, <1>3, <1>5, <1>6 DEF Quiet, Same, Scanning
<1>8. first[t] \in seen[t]
  BY <1>1, <1>2, CleanView DEF SameFlag, ThreadInv, ScanInv, Scanning
<1>9. View(t)' = View(t)
  BY <1>7, QuietView
<1>10. IndexInv(t)' /\ ResultInv(t)' /\ ScanInv(t)'
  BY <1>1, <1>2, <1>3, <1>6, <1>8
     DEF ThreadInv, IndexInv, ResultInv, HasResult, ScanInv, Scanning
<1>11. InstallInv(t)' /\ LateInv(t)'
  BY <1>1, <1>2, <1>3, <1>6, <1>9 DEF ThreadInv, InstallInv, LateInv, Scanning
<1> QED
  BY <1>4, <1>5, <1>7, <1>10, <1>11, QuietOthers DEF ThreadInv

\* The next pass begins with the registers as the thread sees them.
LEMMA DirtyCollectStep ==
  ASSUME IInv, NEW t \in Thread, DirtyCollect(t)
  PROVE  TypeOK' /\ \A u \in Thread : ThreadInv(u)'
<1>1. /\ pc[t] = "compare" /\ UNCHANGED <<reg, late, cell, acquired, updating, second, changes>>
      /\ UNCHANGED <<recent, seen, mine>>
      /\ first' = [first EXCEPT ![t] = second[t]] /\ pc' = [pc EXCEPT ![t] = "second"]
      /\ i' = [i EXCEPT ![t] = 0] /\ rounds' = [rounds EXCEPT ![t] = rounds[t] + 1]
  BY DEF DirtyCollect
<1>2. TypeOK /\ ThreadInv(t) /\ i[t] = ThreadCount
  BY <1>1 DEF IInv, ThreadInv, IndexInv
<1>3. TypeOK'
  <2>1. rounds[t] + 1 \in Nat /\ second[t] \in Snapshot /\ 0 \in 0 .. ThreadCount
    BY <1>2, ScanTypes, FirstThread
  <2> QED
    BY <1>1, <1>2, <2>1 DEF TypeOK, ThreadAt
<1>4. ASSUME NEW u \in Thread, u # t PROVE Same(u)
  BY <1>2, <1>4, OthersSame DEF Step
<1>5. pc'[t] = "second" /\ i'[t] = 0 /\ first'[t] = second[t]
  BY <1>1, <1>2 DEF TypeOK
<1>6. ASSUME NEW u \in Thread PROVE Quiet(u)
  BY <1>1, <1>4, <1>5 DEF Quiet, Same, Scanning
<1>7. PICK s \in seen[t] : Begun(t, s)
  BY <1>1, <1>2 DEF ThreadInv, ScanInv, Scanning
<1>8. recent \subseteq seen[t] /\ mine[t] \subseteq seen[t] /\ View(t) \in mine[t]
  BY <1>1, <1>2 DEF ThreadInv, ScanInv, Scanning
<1>9. \A r \in Thread : /\ s[r] <= View(t)[r] /\ Nested(t, r, s)
                        /\ second[t][r] <= View(t)[r] /\ s[r] + changes[t][r] <= second[t][r]
  BY <1>1, <1>2, <1>7, ThreadNumbers DEF Begun, Collected
<1>10. View(t)' = View(t)
  BY <1>6, QuietView
<1>11. \A r \in Thread : Collected(t, r, s)'
  BY <1>1, <1>5, <1>9, <1>10, ThreadNumbers DEF Collected
<1>12. Begun(t, s)'
  BY <1>1, <1>6, <1>7, <1>9, <1>10, <1>11, QuietNested DEF Begun
<1>13. Between(t, View(t))'
  <2>1. \A r \in Thread : View(t)[r] \in Nat
    BY <1>2, ViewOf DEF Snapshot, Stamp
  <2> QED
    BY <1>1, <1>5, <1>9, <1>10, <2>1, ThreadNumbers DEF Between
<1>14. ScanInv(t)'
  <2>1. \E b \in mine'[t] : Between(t, b)'
    BY <1>1, <1>8, <1>10, <1>13
  <2> QED
    BY <1>1, <1>7, <1>8, <1>10, <1>12, <2>1 DEF ScanInv
<1>15. IndexInv(t)' /\ ResultInv(t)'
  BY <1>1, <1>2, <1>5, FirstThread DEF ThreadInv, IndexInv, ResultInv, HasResult, Scanning
<1>16. InstallInv(t)' /\ LateInv(t)'
  BY <1>1, <1>2, <1>5, <1>10 DEF ThreadInv, InstallInv, LateInv, Scanning
<1> QED
  BY <1>3, <1>4, <1>6, <1>14, <1>15, <1>16, QuietOthers DEF ThreadInv

\* The snapshot of a thread that has written twice since the scan began was
\* taken within the scan.
LEMMA AcquireSnapshotStep ==
  ASSUME IInv, NEW t \in Thread, AcquireSnapshot(t)
  PROVE  TypeOK' /\ \A u \in Thread : ThreadInv(u)'
<1> DEFINE n == i[t]
<1>1. /\ pc[t] = "acquire" /\ UNCHANGED <<reg, late, cell, updating, recent, seen, mine>>
      /\ first' = [first EXCEPT ![t] = cell[n]]
      /\ acquired' = [acquired EXCEPT ![n] = acquired[n] + 1]
      /\ pc' = [pc EXCEPT ![t] = Returned(t)]
      /\ i' = [i EXCEPT ![t] = 0] /\ second' = [second EXCEPT ![t] = Zero]
      /\ changes' = [changes EXCEPT ![t] = Zero] /\ rounds' = [rounds EXCEPT ![t] = 0]
  BY DEF AcquireSnapshot, Forget
<1>2. TypeOK /\ ThreadInv(t) /\ n \in Thread
  BY <1>1 DEF IInv, ThreadInv, IndexInv
<1>3. Returned(t) \in {"exchange", "returned"}
  BY DEF Returned
<1>4. cell[n] \in seen[t]
  <2>1. PICK s \in seen[t] : Begun(t, s)
    BY <1>1, <1>2 DEF ThreadInv, ScanInv, Scanning
  <2>2. s[n] + 2 <= View(t)[n] /\ s[t] = View(t)[t] /\ Nested(t, n, s)
    BY <1>1, <1>2, <2>1 DEF Begun, Collected
  <2>3. s[n] \in Nat /\ View(t)[n] \in Nat
    BY <1>2, <2>1, ScanTypes, ViewOf DEF Snapshot, Stamp
  <2>4. reg[n] = View(t)[n]
    BY <1>2, <2>2, <2>3, ViewOf
  <2> QED
    BY <2>2, <2>3, <2>4 DEF Nested
<1>5. TypeOK'
  <2>1. cell[n] \in Snapshot
    BY <1>2, <1>4, ScanTypes
  <2>2. acquired' \in [Thread -> Nat]
    BY <1>1, <1>2 DEF TypeOK
  <2> QED
    BY <1>1, <1>2, <1>3, <2>1, <2>2, ZeroTyped, FirstThread DEF TypeOK, ThreadAt, Zero
<1>6. ASSUME NEW u \in Thread, u # t PROVE Same(u)
  BY <1>2, <1>6, OthersSame DEF Step
<1>7. pc'[t] = Returned(t) /\ i'[t] = 0 /\ changes'[t] = Zero /\ first'[t] = cell[n]
  BY <1>1, <1>2 DEF TypeOK
<1>8. ASSUME NEW u \in Thread PROVE Quiet(u)
  BY <1>1, <1>3, <1>6, <1>7 DEF Quiet, Same, Scanning
<1>9. View(t)' = View(t)
  BY <1>8, QuietView
<1>10. IndexInv(t)' /\ ResultInv(t)' /\ ScanInv(t)'
  BY <1>1, <1>2, <1>3, <1>4, <1>7
     DEF ThreadInv, IndexInv, ResultInv, HasResult, ScanInv, Scanning
<1>11. InstallInv(t)' /\ LateInv(t)'
  BY <1>1, <1>2, <1>3, <1>7, <1>9 DEF ThreadInv, InstallInv, LateInv, Scanning
<1> QED
  BY <1>5, <1>6, <1>8, <1>10, <1>11, QuietOthers DEF ThreadInv

LEMMA ReturnStep ==
  ASSUME IInv, NEW t \in Thread, Return(t)
  PROVE  TypeOK' /\ \A u \in Thread : ThreadInv(u)'
<1>1. /\ pc[t] = "returned" /\ UNCHANGED <<reg, late, cell, acquired, updating, i, second, changes>>
      /\ UNCHANGED <<recent, rounds>> /\ mine' = [mine EXCEPT ![t] = {}]
      /\ first' = [first EXCEPT ![t] = Zero] /\ pc' = [pc EXCEPT ![t] = "idle"]
      /\ seen' = [seen EXCEPT ![t] = {}]
  BY DEF Return
<1>2. TypeOK /\ ThreadInv(t)
  BY DEF IInv
<1>3. TypeOK'
  BY <1>1, <1>2, ZeroTyped DEF TypeOK, ThreadAt
<1>4. ASSUME NEW u \in Thread, u # t PROVE Same(u) /\ seen'[u] = seen[u] /\ mine'[u] = mine[u]
  BY <1>1, <1>2, <1>4, OthersSame DEF Step, TypeOK
<1>5. pc'[t] = "idle"
  BY <1>1, <1>2 DEF TypeOK
<1>6. ASSUME NEW u \in Thread, u # t PROVE Quiet(u)
  BY <1>1, <1>4, <1>5, <1>6 DEF Quiet, Same, Scanning
<1>7. View(t)' = View(t)
  BY <1>1 DEF View
<1>8. IndexInv(t)' /\ ResultInv(t)' /\ ScanInv(t)'
  BY <1>1, <1>2, <1>5 DEF ThreadInv, IndexInv, ResultInv, HasResult, ScanInv, Scanning
<1>9. InstallInv(t)' /\ LateInv(t)'
  BY <1>1, <1>2, <1>5, <1>7 DEF ThreadInv, InstallInv, LateInv, Scanning
<1> QED
  BY <1>3, <1>4, <1>6, <1>8, <1>9, QuietOthers DEF ThreadInv

-----------------------------------------------------------------------------
\* Once the scan of an update() is over, another scan may see more than it did,
\* but the snapshot that is installed lies in both.
LEMMA ExchangeStep ==
  ASSUME IInv, NEW t \in Thread, Exchange(t)
  PROVE  TypeOK' /\ \A u \in Thread : ThreadInv(u)'
<1>1. /\ pc[t] = "exchange" /\ UNCHANGED <<reg, late, updating, i, second, changes, recent, rounds>>
      /\ ~late[t] /\ mine' = [mine EXCEPT ![t] = {}]
      /\ cell' = [cell EXCEPT ![t] = first[t]] /\ acquired' = [acquired EXCEPT ![t] = 0]
      /\ first' = [first EXCEPT ![t] = Zero] /\ pc' = [pc EXCEPT ![t] = "write"]
      /\ seen' = [seen EXCEPT ![t] = {}]
  BY DEF Exchange
<1>2. TypeOK /\ ThreadInv(t) /\ first[t] \in seen[t] /\ first[t] \in Snapshot
  BY <1>1, ScanTypes DEF IInv, ThreadInv, ResultInv, HasResult
<1>3. TypeOK'
  BY <1>1, <1>2, ZeroTyped DEF TypeOK, ThreadAt
<1>4. pc'[t] = "write" /\ cell'[t] = first[t] /\ reg' = reg
  BY <1>1, <1>2 DEF TypeOK
<1>5. ASSUME NEW u \in Thread, u # t
      PROVE  Same(u) /\ seen'[u] = seen[u] /\ mine'[u] = mine[u] /\ cell'[u] = cell[u]
  BY <1>1, <1>2, <1>5, OthersSame DEF Step, TypeOK
<1>6. \A u \in Thread : View(u)' = View(u)
  BY <1>1 DEF View
<1>7. ThreadInv(t)'
  <2>1. IndexInv(t)' /\ ResultInv(t)' /\ ScanInv(t)'
    BY <1>1, <1>2, <1>4 DEF ThreadInv, IndexInv, ResultInv, HasResult, ScanInv, Scanning
  <2>2. InstallInv(t)' /\ LateInv(t)'
    BY <1>1, <1>2, <1>4, <1>6 DEF ThreadInv, InstallInv, LateInv, Scanning
  <2> QED
    BY <2>1, <2>2 DEF ThreadInv
<1>8. ASSUME NEW u \in Thread, u # t PROVE ThreadInv(u)'
  <2>1. /\ ThreadInv(u) /\ Same(u) /\ seen'[u] = seen[u] /\ mine'[u] = mine[u]
        /\ cell'[u] = cell[u] /\ View(u)' = View(u) /\ late' = late /\ recent' = recent
    BY <1>1, <1>5, <1>6, <1>8 DEF IInv
  <2>2. IndexInv(u)' /\ InstallInv(u)' /\ LateInv(u)' /\ ResultInv(u)'
    BY <2>1 DEF ThreadInv, IndexInv, InstallInv, LateInv, ResultInv, HasResult, Same
  <2>3. ASSUME NEW s \in seen[u], Begun(u, s) PROVE Begun(u, s)'
    <3>1. \A r \in Thread : s[r] <= View(u)[r] /\ Nested(u, r, s) /\ Collected(u, r, s)
      BY <2>3 DEF Begun
    <3>2. \A r \in Thread : Collected(u, r, s)'
      BY <2>1, <3>1 DEF Collected, Same
    <3>3. Nested(u, t, s)'
      <4>1. reg[t] > s[t] => first[t] \in seen[u]
        BY <1>1, <1>2, <3>1 DEF Nested
      <4>2. reg[t] \in Nat /\ s[t] \in Nat
        BY <1>2, <2>3, ScanTypes DEF Snapshot, Stamp
      <4> QED
        BY <1>1, <1>4, <2>1, <4>1, <4>2 DEF Nested, Scanning
    <3>4. ASSUME NEW r \in Thread, r # t PROVE Nested(u, r, s)'
      <4>1. pc'[r] = pc[r] /\ seen'[r] = seen[r] /\ cell'[r] = cell[r]
        BY <1>5, <3>4 DEF Same
      <4> QED
        BY <1>4, <2>1, <3>1, <4>1 DEF Nested
    <3> QED
      BY <2>1, <2>3, <3>1, <3>2, <3>3, <3>4 DEF Begun
  <2>4. ASSUME NEW b \in mine[u], Between(u, b) PROVE Between(u, b)'
    BY <2>1, <2>4 DEF Between, Same
  <2>5. ScanInv(u)'
    BY <2>1, <2>3, <2>4 DEF ThreadInv, ScanInv, Same
  <2> QED
    BY <2>2, <2>5 DEF ThreadInv
<1> QED
  BY <1>3, <1>7, <1>8

\* The histories when the views have changed.
LEMMA WitnessedSets ==
  ASSUME TypeOK, Witnessed, reg' \in Snapshot, late' \in [Thread -> BOOLEAN]
  PROVE  /\ recent' \subseteq Snapshot
         /\ seen' \in [Thread -> SUBSET Snapshot] /\ mine' \in [Thread -> SUBSET Snapshot]
         /\ recent' \subseteq recent \cup Views'
         /\ \A u \in Thread :
              /\ View(u)' \in Snapshot /\ View(u)' \in Views' /\ View(u)' \in recent'
              /\ late'[u] => recent' = recent \cup Views'
              /\ pc[u] \in Scanning => /\ seen'[u] = seen[u] \cup Views'
                                       /\ mine'[u] = mine[u] \cup {View(u)'}
              /\ pc[u] \notin Scanning => seen'[u] = seen[u] /\ mine'[u] = mine[u]
<1>1. \A u \in Thread : View(u)' \in Snapshot /\ View(u)' \in Views'
  <2> SUFFICES ASSUME NEW u \in Thread PROVE View(u)' \in Snapshot /\ View(u)' \in Views'
    OBVIOUS
  <2>1. View(u)' \in Views'
    BY DEF Views
  <2>2. CASE late'[u]
    <3>1. View(u)' = [reg' EXCEPT ![u] = reg'[u] + 1]
      BY <2>2 DEF View
    <3> QED
      BY <2>1, <3>1 DEF Snapshot, Stamp
  <2>3. CASE ~late'[u]
    BY <2>1, <2>3 DEF View
  <2> QED
    BY <2>2, <2>3
<1>2. Views' \subseteq Snapshot
  BY <1>1 DEF Views
<1>3. recent' = Views' \/ recent' = recent \cup Views'
  BY DEF Witnessed
<1>4. \A u \in Thread : late'[u] => recent' = recent \cup Views'
  BY DEF Witnessed
<1>5. ASSUME NEW u \in Thread
      PROVE  /\ pc[u] \in Scanning => /\ seen'[u] = seen[u] \cup Views'
                                      /\ mine'[u] = mine[u] \cup {View(u)'}
             /\ pc[u] \notin Scanning => seen'[u] = seen[u] /\ mine'[u] = mine[u]
  BY DEF Witnessed
<1>6. recent \subseteq Snapshot /\ \A u \in Thread : seen[u] \subseteq Snapshot /\ mine[u] \subseteq Snapshot
  BY DEF TypeOK
<1>7. seen' \in [Thread -> SUBSET Snapshot]
  <2>1. seen' = [u \in Thread |-> IF pc[u] \in Scanning THEN seen[u] \cup Views' ELSE seen[u]]
    BY DEF Witnessed
  <2> QED
    BY <1>2, <1>6, <2>1
<1>8. mine' \in [Thread -> SUBSET Snapshot]
  <2>1. mine' = [u \in Thread |-> IF pc[u] \in Scanning THEN mine[u] \cup {View(u)'} ELSE mine[u]]
    BY DEF Witnessed
  <2> QED
    BY <1>1, <1>6, <2>1
<1> QED
  BY <1>1, <1>2, <1>3, <1>4, <1>5, <1>6, <1>7, <1>8

\* What a store does to the registers and to the views, late and when it settles.
LEMMA StoreViews ==
  ASSUME IInv, NEW t \in Thread, Write(t) \/ Settle(t)
  PROVE  /\ reg' \in Snapshot /\ late' \in [Thread -> BOOLEAN] /\ Witnessed
         /\ UNCHANGED <<cell, acquired, updating, i, first, second, changes, rounds>>
         /\ \A r \in Thread \ {t} : /\ reg'[r] = reg[r] /\ late'[r] = late[r] /\ pc'[r] = pc[r]
                                    /\ View(r)'[r] = View(r)[r]
         /\ \A u, r \in Thread : View(u)[r] <= View(u)'[r]
<1>1. TypeOK /\ reg \in Snapshot /\ (pc[t] = "write" => ~late[t])
  BY DEF IInv, TypeOK, ThreadInv, LateInv
<1>2. \A u \in Thread : /\ View(u) \in Snapshot
                        /\ View(u)[u] = IF late[u] THEN reg[u] + 1 ELSE reg[u]
                        /\ \A r \in Thread : reg[r] \in Nat /\ (r # u => View(u)[r] = reg[r])
  BY <1>1, ViewOf
<1>3. CASE Write(t)
  <2>1. /\ pc[t] = "write" /\ reg' = reg /\ late' = [late EXCEPT ![t] = TRUE] /\ Witnessed
        /\ pc' = [pc EXCEPT ![t] = "idle"]
        /\ UNCHANGED <<cell, acquired, updating, i, first, second, changes, rounds>>
    BY <1>3 DEF Write
  <2>2. late' \in [Thread -> BOOLEAN] /\ late'[t] = TRUE
    BY <1>1, <2>1 DEF TypeOK
  <2>3. \A r \in Thread \ {t} : late'[r] = late[r] /\ pc'[r] = pc[r]
    BY <1>1, <2>1 DEF TypeOK
  <2>4. \A u \in Thread \ {t} : View(u)' = View(u)
    BY <2>1, <2>3 DEF View
  <2>5. View(t)' = [reg EXCEPT ![t] = reg[t] + 1] /\ View(t) = reg
    BY <1>1, <2>1, <2>2 DEF View
  <2>6. ASSUME NEW u \in Thread, NEW r \in Thread PROVE View(u)[r] <= View(u)'[r]
    <3>1. CASE u = t
      BY <1>1, <1>2, <2>5, <3>1 DEF Snapshot
    <3>2. CASE u # t
      <4>1. View(u)[r] \in Nat
        BY <1>2 DEF Snapshot, Stamp
      <4> QED
        BY <2>4, <3>2, <4>1
    <3> QED
      BY <3>1, <3>2
  <2> QED
    BY <1>1, <2>1, <2>2, <2>3, <2>4, <2>6
<1>4. CASE Settle(t)
  <2>1. /\ late[t] /\ reg' = View(t) /\ late' = [late EXCEPT ![t] = FALSE] /\ Witnessed
        /\ UNCHANGED <<cell, acquired, pc, updating, i, first, second, changes, rounds>>
    BY <1>4 DEF Settle
  <2>2. late' \in [Thread -> BOOLEAN] /\ late'[t] = FALSE
    BY <1>1, <2>1 DEF TypeOK
  <2>3. \A r \in Thread \ {t} : late'[r] = late[r] /\ reg'[r] = reg[r]
    BY <1>1, <1>2, <2>1 DEF TypeOK
  <2>4. reg'[t] = reg[t] + 1 /\ \A r \in Thread : reg'[r] \in Nat /\ reg[r] <= reg'[r]
    BY <1>2, <2>1, <2>3
  <2>5. ASSUME NEW u \in Thread, NEW r \in Thread
        PROVE  View(u)[r] <= View(u)'[r] /\ (u # t => View(u)'[u] = View(u)[u])
    <3>1. CASE u = t
      <4>1. View(u)' = reg'
        BY <2>2, <3>1 DEF View
      <4>2. View(u)[r] \in Nat /\ View(u) = reg'
        BY <1>2, <2>1, <3>1 DEF Snapshot, Stamp
      <4> QED
        BY <3>1, <4>1, <4>2
    <3>2. CASE u # t
      <4>1. late'[u] = late[u] /\ reg'[u] = reg[u] /\ reg' \in Snapshot
        BY <1>2, <2>1, <2>3, <3>2
      <4>2. CASE late[u]
        <5>1. View(u)' = [reg' EXCEPT ![u] = reg'[u] + 1]
          BY <4>1, <4>2 DEF View
        <5> QED
          BY <1>2, <2>4, <3>2, <4>1, <4>2, <5>1 DEF Snapshot
      <4>3. CASE ~late[u]
        <5>1. View(u)' = reg' /\ View(u) = reg
          BY <4>1, <4>3 DEF View
        <5> QED
          BY <2>4, <4>1, <5>1
      <4> QED
        BY <4>2, <4>3
    <3> QED
      BY <3>1, <3>2
  <2> QED
    BY <1>2, <2>1, <2>2, <2>3, <2>5
<1> QED
  BY <1>3, <1>4

\* A store that gets late, or settles, widens what the scans in progress may return. One that
\* settles has been late throughout the scan after it, which is then nested in those that began
\* earlier.
LEMMA StoreStep ==
  ASSUME IInv, NEW t \in Thread, Write(t) \/ Settle(t)
  PROVE  TypeOK' /\ \A u \in Thread : ThreadInv(u)'
<1>1. TypeOK /\ ThreadInv(t)
  BY DEF IInv
<1>2. /\ reg' \in Snapshot /\ late' \in [Thread -> BOOLEAN] /\ Witnessed
      /\ UNCHANGED <<cell, acquired, updating, i, first, second, changes, rounds>>
      /\ \A r \in Thread \ {t} : /\ reg'[r] = reg[r] /\ late'[r] = late[r] /\ pc'[r] = pc[r]
                                 /\ View(r)'[r] = View(r)[r]
      /\ \A u, r \in Thread : View(u)[r] <= View(u)'[r]
  BY StoreViews
<1>3. /\ recent' \subseteq Snapshot
      /\ seen' \in [Thread -> SUBSET Snapshot] /\ mine' \in [Thread -> SUBSET Snapshot]
      /\ recent' \subseteq recent \cup Views'
      /\ \A u \in Thread :
           /\ View(u)' \in Snapshot /\ View(u)' \in Views' /\ View(u)' \in recent'
           /\ late'[u] => recent' = recent \cup Views'
           /\ pc[u] \in Scanning => /\ seen'[u] = seen[u] \cup Views'
                                    /\ mine'[u] = mine[u] \cup {View(u)'}
           /\ pc[u] \notin Scanning => seen'[u] = seen[u] /\ mine'[u] = mine[u]
  BY <1>1, <1>2, WitnessedSets
<1>4. /\ Write(t) => pc[t] = "write" /\ pc'[t] = "idle" /\ reg'[t] = reg[t] /\ late'[t]
      /\ Settle(t) => /\ pc' = pc /\ pc[t] # "write" /\ late[t] /\ ~late'[t]
                      /\ reg'[t] = reg[t] + 1 /\ View(t)[t] = reg[t] + 1 /\ View(t)' = View(t)
  <2>1. ASSUME Write(t)
        PROVE  pc[t] = "write" /\ pc'[t] = "idle" /\ reg'[t] = reg[t] /\ late'[t]
    BY <1>1, <2>1 DEF Write, TypeOK
  <2>2. ASSUME Settle(t)
        PROVE  /\ pc' = pc /\ pc[t] # "write" /\ late[t] /\ ~late'[t]
               /\ reg'[t] = reg[t] + 1 /\ View(t)[t] = reg[t] + 1 /\ View(t)' = View(t)
    <3>1. late[t] /\ reg' = View(t) /\ ~late'[t] /\ pc' = pc
      BY <1>1, <2>2 DEF Settle, TypeOK
    <3>2. View(t)' = View(t) /\ reg'[t] = reg[t] + 1 /\ View(t)[t] = reg[t] + 1
      BY <1>1, <3>1, ViewOf DEF View
    <3>3. pc[t] # "write"
      BY <1>1, <3>1 DEF ThreadInv, LateInv
    <3> QED
      BY <3>1, <3>2, <3>3
  <2> QED
    BY <2>1, <2>2
<1>5. TypeOK'
  <2>1. pc' \in [Thread -> ThreadAt]
    BY <1>1 DEF TypeOK, ThreadAt, Write, Settle
  <2> QED
    BY <1>1, <1>2, <1>3, <2>1 DEF TypeOK
<1>6. \A u \in Thread : /\ ThreadInv(u) /\ View(u) \in Snapshot
                        /\ \A r \in Thread : /\ reg[r] \in Nat
                                             /\ View(u)[r] \in Nat /\ View(u)'[r] \in Nat
  <2>1. \A u \in Thread : View(u)' \in Snapshot
    BY <1>3
  <2> QED
    BY <1>1, <2>1, ViewOf DEF IInv, Snapshot, Stamp
<1>7. ASSUME Write(t) PROVE ThreadInv(t)'
  <2>1. pc'[t] = "idle" /\ i[t] = 0 /\ changes[t] = Zero /\ cell[t] \in Snapshot
    BY <1>1, <1>4, <1>7 DEF ThreadInv, IndexInv, InstallInv, Scanning
  <2>2. IndexInv(t)' /\ ResultInv(t)' /\ ScanInv(t)'
    BY <1>2, <2>1 DEF IndexInv, ResultInv, HasResult, ScanInv, Scanning
  <2>3. InstallInv(t)' /\ LateInv(t)'
    BY <1>2, <1>3, <2>1 DEF InstallInv, LateInv, Scanning
  <2> QED
    BY <2>2, <2>3 DEF ThreadInv
<1>8. ASSUME NEW u \in Thread, u # t \/ Settle(t) PROVE ThreadInv(u)'
  <2>1. /\ ThreadInv(u) /\ pc'[u] = pc[u] /\ View(u)'[u] = View(u)[u]
        /\ late'[u] => late[u]
    BY <1>2, <1>4, <1>6, <1>8
  <2>2. seen[u] \subseteq seen'[u] /\ mine[u] \subseteq mine'[u]
    BY <1>3
  <2>3. IndexInv(u)' /\ ResultInv(u)'
    BY <1>2, <2>1, <2>2 DEF ThreadInv, IndexInv, ResultInv, HasResult
  <2>4. InstallInv(u)'
    BY <1>2, <2>1 DEF ThreadInv, InstallInv
  <2>5. LateInv(u)'
    BY <1>3, <2>1 DEF ThreadInv, LateInv
  <2>6. ASSUME NEW s \in seen[u], Begun(u, s), pc[u] \in Scanning PROVE Begun(u, s)'
    <3>1. \A r \in Thread : s[r] <= View(u)[r] /\ Nested(u, r, s) /\ Collected(u, r, s)
      BY <2>6 DEF Begun
    <3>2. \A r \in Thread : s[r] \in Nat /\ first[u][r] \in Nat /\ second[u][r] \in Nat
      BY <1>1, <2>6, ScanTypes DEF Snapshot, Stamp
    <3>3. ASSUME NEW r \in Thread PROVE Collected(u, r, s)' /\ s[r] <= View(u)'[r]
      BY <1>2, <1>6, <2>1, <3>1, <3>2 DEF Collected
    <3>4. Nested(u, t, s)'
      <4>1. recent \subseteq seen[u] /\ Views' \subseteq seen'[u]
        BY <1>3, <2>1, <2>6 DEF ThreadInv, ScanInv
      <4>2. reg[t] > s[t] /\ (pc[t] = "write" \/ late[t]) => cell[t] \in seen[u]
        BY <3>1 DEF Nested
      <4>3. CASE Write(t)
        BY <1>2, <1>4, <2>2, <3>1, <4>2, <4>3 DEF Nested, Scanning
      <4>4. CASE Settle(t) /\ u = t
        <5>1. s[t] = View(t)[t] /\ View(t)[t] = reg[t] + 1 /\ reg'[t] = reg[t] + 1
          BY <1>4, <2>6, <4>4 DEF Begun
        <5> QED
          BY <1>6, <4>4, <5>1 DEF Nested
      <4>5. CASE Settle(t) /\ u # t
        <5>1. late[t] /\ ~late'[t] /\ pc' = pc /\ reg'[t] = reg[t] + 1 /\ pc[t] # "write"
          BY <1>4, <4>5
        <5>2. pc[t] \in Scanning \cup {"exchange"} => seen[t] \subseteq recent
          BY <1>1, <5>1 DEF ThreadInv, LateInv
        <5>3. pc[t] \in Scanning \cup {"exchange"} => seen'[t] \subseteq seen'[u]
          BY <1>3, <2>2, <4>1, <5>2
        <5>4. reg'[t] > s[t] + 1 => cell[t] \in seen'[u]
          BY <1>6, <2>2, <3>2, <4>2, <5>1
        <5> QED
          BY <1>2, <5>1, <5>3, <5>4 DEF Nested
      <4> QED
        BY <4>3, <4>4, <4>5
    <3>5. ASSUME NEW r \in Thread, r # t PROVE Nested(u, r, s)'
      <4>1. reg'[r] = reg[r] /\ pc'[r] = pc[r] /\ late'[r] = late[r] /\ cell'[r] = cell[r]
        BY <1>2, <3>5
      <4>2. seen[r] \subseteq seen[u] => seen'[r] \subseteq seen'[u]
        BY <1>3, <2>6
      <4> QED
        BY <2>2, <3>1, <4>1, <4>2 DEF Nested
    <3> QED
      BY <2>1, <2>6, <3>3, <3>4, <3>5 DEF Begun
  <2>7. ASSUME NEW b \in mine[u], Between(u, b) PROVE Between(u, b)'
    <3>1. \A r \in Thread : b[r] \in Nat
      BY <1>1, <2>7, ScanTypes DEF Snapshot, Stamp
    <3>2. \A r \in Thread : b[r] <= View(u)'[r]
      BY <1>2, <1>6, <2>7, <3>1 DEF Between
    <3> QED
      BY <1>2, <2>7, <3>2 DEF Between
  <2>8. ScanInv(u)'
    <3>1. pc[u] \in Scanning =>
            /\ recent' \subseteq seen'[u] /\ mine'[u] \subseteq seen'[u] /\ View(u)' \in mine'[u]
      BY <1>3, <2>1 DEF ThreadInv, ScanInv
    <3> QED
      BY <2>1, <2>2, <2>6, <2>7, <3>1 DEF ThreadInv, ScanInv, Scanning
  <2> QED
    BY <2>3, <2>4, <2>5, <2>8 DEF ThreadInv
<1> QED
  BY <1>4, <1>5, <1>7, <1>8

\* A scan may return what the scans in progress may return, and begins with the present view.
LEMMA CallStep ==
  ASSUME IInv, NEW t \in Thread, NEW update \in BOOLEAN, Call(t, update)
  PROVE  TypeOK' /\ \A u \in Thread : ThreadInv(u)'
<1>1. /\ pc[t] = "idle" /\ UNCHANGED <<reg, late, cell, acquired, i, first, second, changes>>
      /\ UNCHANGED <<recent, rounds>> /\ mine' = [mine EXCEPT ![t] = {View(t)}]
      /\ pc' = [pc EXCEPT ![t] = "first"] /\ updating' = [updating EXCEPT ![t] = update]
      /\ seen' = [seen EXCEPT ![t] = recent]
  BY DEF Call
<1>2. /\ TypeOK /\ ThreadInv(t) /\ recent \subseteq Snapshot /\ View(t) \in recent
      /\ View(t) \in Snapshot
  BY ViewOf, ScanTypes DEF IInv, ThreadInv, LateInv
<1>3. TypeOK'
  BY <1>1, <1>2 DEF TypeOK, ThreadAt
<1>4. /\ pc'[t] = "first" /\ seen'[t] = recent /\ mine'[t] = {View(t)}
      /\ i'[t] = 0 /\ changes'[t] = Zero
  BY <1>1, <1>2 DEF TypeOK, ThreadInv, IndexInv, Scanning
<1>5. ASSUME NEW u \in Thread, u # t PROVE Same(u) /\ seen'[u] = seen[u] /\ mine'[u] = mine[u]
  BY <1>1, <1>2, <1>5, OthersSame DEF TypeOK
<1>6. \A u \in Thread : View(u)' = View(u)
  BY <1>1 DEF View
<1>7. \A r \in Thread : reg[r] \in Nat /\ View(t)[r] \in Nat /\ reg[r] <= View(t)[r]
  BY <1>2, ViewOf DEF Snapshot, Stamp
<1>8. ThreadInv(t)'
  <2>1. Begun(t, View(t))'
    <3>1. ASSUME NEW r \in Thread PROVE Nested(t, r, View(t))' /\ Collected(t, r, View(t))'
      BY <1>1, <1>4, <1>6, <1>7, ThreadNumbers DEF Nested, Collected
    <3> QED
      BY <1>6, <1>7, <3>1 DEF Begun
  <2>2. ScanInv(t)'
    BY <1>1, <1>2, <1>4, <1>6, <2>1 DEF ScanInv
  <2>3. IndexInv(t)' /\ ResultInv(t)'
    BY <1>1, <1>4, FirstThread DEF IndexInv, ResultInv, HasResult, Scanning
  <2>4. InstallInv(t)' /\ LateInv(t)'
    BY <1>1, <1>2, <1>4, <1>6 DEF ThreadInv, InstallInv, LateInv, Scanning
  <2> QED
    BY <2>2, <2>3, <2>4 DEF ThreadInv
<1>9. ASSUME NEW u \in Thread, u # t PROVE ThreadInv(u)'
  <2>1. /\ ThreadInv(u) /\ Same(u) /\ seen'[u] = seen[u] /\ mine'[u] = mine[u]
        /\ View(u)' = View(u) /\ UNCHANGED <<reg, late, cell, recent>>
    BY <1>1, <1>5, <1>6, <1>9 DEF IInv
  <2>2. IndexInv(u)' /\ InstallInv(u)' /\ LateInv(u)' /\ ResultInv(u)'
    BY <2>1 DEF ThreadInv, IndexInv, InstallInv, LateInv, ResultInv, HasResult, Same
  <2>3. ASSUME NEW s \in seen[u], Begun(u, s), recent \subseteq seen[u] PROVE Begun(u, s)'
    <3>1. \A r \in Thread : s[r] <= View(u)[r] /\ Nested(u, r, s) /\ Collected(u, r, s)
      BY <2>3 DEF Begun
    <3>2. \A r \in Thread : Collected(u, r, s)'
      BY <2>1, <3>1 DEF Collected, Same
    <3>3. Nested(u, t, s)'
      BY <1>4, <2>1, <2>3, <3>1 DEF Nested
    <3>4. ASSUME NEW r \in Thread, r # t PROVE Nested(u, r, s)'
      <4>1. pc'[r] = pc[r] /\ seen'[r] = seen[r]
        BY <1>5, <3>4 DEF Same
      <4> QED
        BY <2>1, <3>1, <4>1 DEF Nested
    <3> QED
      BY <2>1, <2>3, <3>1, <3>2, <3>3, <3>4 DEF Begun
  <2>4. ASSUME NEW b \in mine[u], Between(u, b) PROVE Between(u, b)'
    BY <2>1, <2>4 DEF Between, Same
  <2>5. ScanInv(u)'
    BY <2>1, <2>3, <2>4 DEF ThreadInv, ScanInv, Same
  <2> QED
    BY <2>2, <2>5 DEF ThreadInv
<1> QED
  BY <1>3, <1>8, <1>9

-----------------------------------------------------------------------------
LEMMA InitInv == Init => IInv
<1> SUFFICES ASSUME Init PROVE IInv
  OBVIOUS
<1>1. TypeOK
  BY ZeroTyped, FirstThread DEF Init, TypeOK, ThreadAt, Zero
<1>2. ASSUME NEW t \in Thread PROVE ThreadInv(t)
  <2>1. View(t) = Zero /\ Zero[t] = 0
    BY DEF Init, View, Zero
  <2> QED
    BY <2>1 DEF Init, ThreadInv, IndexInv, InstallInv, LateInv, ResultInv, HasResult, ScanInv,
                Scanning
<1> QED
  BY <1>1, <1>2 DEF IInv

LEMMA NextInv == IInv /\ [Next]_vars => IInv'
<1> SUFFICES ASSUME IInv, [Next]_vars PROVE IInv'
  OBVIOUS
<1>1. ASSUME NEW t \in Thread, Step(t) PROVE IInv'
  BY <1>1, FirstCollectStep, SecondCollectStep, CleanCollectStep, DirtyCollectStep,
     AcquireSnapshotStep, ReturnStep, ExchangeStep, StoreStep DEF Step, IInv
<1>2. ASSUME NEW t \in Thread, NEW update \in BOOLEAN, Call(t, update) PROVE IInv'
  BY <1>2, CallStep DEF IInv
<1>3. CASE UNCHANGED vars
  <2>1. TypeOK'
    BY <1>3 DEF IInv, TypeOK, vars
  <2>2. ASSUME NEW t \in Thread PROVE Same(t) /\ Quiet(t)
    BY <1>3 DEF Same, Quiet, vars
  <2> QED
    BY <2>1, <2>2, QuietOthers DEF IInv
<1> QED
  BY <1>1, <1>2, <1>3 DEF Next

LEMMA Invariant == Spec => []IInv
BY InitInv, NextInv, PTL DEF Spec

\* Every variable stays in its type: a scan never indexes a register beyond the
\* last one, and counts at most one change of a register before it acquires.
THEOREM TypeCorrect == Spec => []TypeOK
<1>1. IInv => TypeOK
  BY DEF IInv
<1> QED
  BY <1>1, Invariant, PTL

\* What scan() returns was the view of one thread during the scan, or before it while stores
\* were late without a break: for every number of threads, of scanners and of writes.
THEOREM ScansAreViews == Spec => []ScanIsView
<1>1. IInv => ScanIsView
  BY DEF IInv, ThreadInv, ResultInv, ScanIsView
<1> QED
  BY <1>1, Invariant, PTL

\* A collect that equals the one before it is what its thread saw at a moment of the scan: the
\* moment at which the last pass began.
THEOREM CleanCollectsAreAtomic == Spec => []CleanIsAtomic
<1>1. ASSUME IInv, NEW t \in Thread, pc[t] = "compare", SameFlag(t) PROVE first[t] \in mine[t]
  BY <1>1, CleanView
<1>2. IInv => CleanIsAtomic
  BY <1>1 DEF CleanIsAtomic
<1> QED
  BY <1>2, Invariant, PTL

\* acquire() is only called on a cell that has a version.
THEOREM AcquiresFollowInstalls == Spec => []AcquireAfterInstall
<1>1. ASSUME IInv, NEW t \in Thread, pc[t] = "acquire" PROVE cell[i[t]] # NoSnapshot
  <2>1. i[t] \in Thread /\ \E s \in seen[t] : Begun(t, s)
    BY <1>1 DEF IInv, ThreadInv, IndexInv, ScanInv, Scanning
  <2>2. PICK s \in seen[t] : Begun(t, s)
    BY <2>1
  <2>3. s[i[t]] + 2 <= View(t)[i[t]] /\ s[t] = View(t)[t]
    BY <1>1, <2>1, <2>2 DEF Begun, Collected
  <2>4. s[i[t]] \in Nat /\ View(t)[i[t]] \in Nat
    BY <1>1, <2>1, <2>2, ScanTypes, ViewOf DEF IInv, Snapshot, Stamp
  <2>5. cell[i[t]] \in Snapshot
    <3>1. /\ View(t)[i[t]] = reg[i[t]] /\ reg[i[t]] \in Nat
          /\ View(i[t])[i[t]] = IF late[i[t]] THEN reg[i[t]] + 1 ELSE reg[i[t]]
      BY <1>1, <2>1, <2>3, <2>4, ViewOf DEF IInv
    <3>2. View(i[t])[i[t]] > 0
      BY <2>3, <2>4, <3>1
    <3> QED
      BY <1>1, <2>1, <3>2 DEF IInv, ThreadInv, InstallInv
  <2>6. NoSnapshot \notin Snapshot
    <3>1. DOMAIN NoSnapshot = {}
      BY DEF NoSnapshot
    <3> QED
      BY <3>1, FirstThread DEF Snapshot
  <2> QED
    BY <2>5, <2>6
<1>2. IInv => AcquireAfterInstall
  BY <1>1 DEF AcquireAfterInstall
<1> QED
  BY <1>2, Invariant, PTL

-----------------------------------------------------------------------------
\* A scan cannot see its own register change, since the thread writes only after.
LEMMA ChangedOthers ==
  ASSUME IInv, NEW t \in Thread, pc[t] \in {"second", "compare"}
  PROVE  /\ IsFiniteSet(Changed(t))
         /\ Cardinality(Changed(t)) \in Nat
         /\ Cardinality(Changed(t)) < ThreadCount
<1>1. TypeOK /\ ThreadInv(t)
  BY DEF IInv
<1>2. changes[t][t] = 0
  <2>1. PICK s \in seen[t] : Begun(t, s)
    BY <1>1 DEF ThreadInv, ScanInv, Scanning
  <2>2. s[t] = View(t)[t] /\ Collected(t, t, s)
    BY <2>1 DEF Begun
  <2>3. /\ s[t] \in Nat /\ first[t][t] \in Nat /\ second[t][t] \in Nat
        /\ changes[t][t] \in {0, 1} /\ i[t] \in Nat
    BY <1>1, <2>1, ScanTypes, FirstThread DEF Snapshot, Stamp
  <2> QED
    BY <2>2, <2>3, ThreadNumbers DEF Collected
<1>3. Changed(t) \subseteq Thread \ {t}
  BY <1>2 DEF Changed
<1>4. IsFiniteSet(Thread) /\ Cardinality(Thread) = ThreadCount
  BY ThreadsFinite
<1>5. /\ IsFiniteSet(Thread \ {t})
      /\ Cardinality(Thread \ {t}) = ThreadCount - 1
  BY <1>4, FS_RemoveElement
<1>6. /\ IsFiniteSet(Changed(t))
      /\ Cardinality(Changed(t)) <= ThreadCount - 1
  BY <1>3, <1>5, FS_Subset
<1> QED
  BY <1>6, FS_CardinalityType, FirstThread

LEMMA RoundOthers ==
  ASSUME NEW t \in Thread, RoundInv(t), Same(t)
  PROVE  RoundInv(t)'
<1>1. Changed(t)' = Changed(t) /\ Differs(t)' = Differs(t)
  BY DEF Changed, Differs, Same
<1> QED
  BY <1>1 DEF RoundInv, Same

LEMMA RoundStep ==
  ASSUME IInv, NEW t \in Thread, RoundInv(t), Step(t) \/ \E update \in BOOLEAN : Call(t, update)
  PROVE  RoundInv(t)'
<1> DEFINE n == i[t]
<1>1. /\ TypeOK /\ ThreadInv(t) /\ rounds[t] \in Nat /\ rounds[t] <= ThreadCount
      /\ ThreadCount \in Nat /\ ThreadCount > 0
  BY ScanTypes, ThreadAssumption DEF IInv, RoundInv
<1>2. ASSUME NEW update \in BOOLEAN, Call(t, update) PROVE RoundInv(t)'
  BY <1>1, <1>2 DEF Call, TypeOK, RoundInv, Scanning
<1>3. CASE FirstCollect(t)
  <2>1. CASE n + 1 # ThreadCount
    BY <1>1, <1>3, <2>1 DEF FirstCollect, TypeOK, RoundInv, Scanning
  <2>2. CASE n + 1 = ThreadCount
    <3>1. /\ pc'[t] = "second" /\ i'[t] = 0 /\ rounds'[t] = 1 /\ changes'[t] = Zero
      BY <1>1, <1>3, <2>2 DEF FirstCollect, TypeOK, ThreadInv, IndexInv
    <3>2. ~Differs(t)'
      BY <3>1, ThreadNumbers DEF Differs
    <3>3. Changed(t)' = {}
      BY <3>1 DEF Changed, Zero
    <3> QED
      BY <1>1, <3>1, <3>2, <3>3, FS_EmptySet DEF RoundInv, Scanning
  <2> QED
    BY <2>1, <2>2
<1>4. CASE SecondCollect(t)
  <2>1. /\ pc[t] = "second" /\ n \in Thread /\ rounds' = rounds /\ first' = first
        /\ rounds[t] <= Cardinality(Changed(t)) + (IF Differs(t) THEN 0 ELSE 1)
        /\ second' = [second EXCEPT ![t] = [second[t] EXCEPT ![n] = View(t)[n]]]
    BY <1>1, <1>4 DEF SecondCollect, ThreadInv, IndexInv, RoundInv
  <2>2. CASE ChangedTwice(t, n)
    BY <1>1, <1>4, <2>1, <2>2 DEF SecondCollect, TypeOK, RoundInv, Scanning
  <2>3. CASE ~ChangedTwice(t, n)
    <3>1. /\ pc'[t] \in {"second", "compare"} /\ i'[t] = n + 1
          /\ changes'[t] = [changes[t] EXCEPT ![n] = IF first[t][n] # View(t)[n] THEN changes[t][n] + 1
                                                                            ELSE changes[t][n]]
      BY <1>1, <1>4, <2>3 DEF SecondCollect, TypeOK
    <3>2. changes[t] \in [Thread -> {0, 1}]
      BY <1>1, ScanTypes
    <3>3. IsFiniteSet(Changed(t)) /\ Cardinality(Changed(t)) \in Nat
      BY <2>1, ChangedOthers
    <3>4. CASE first[t][n] # View(t)[n]
      <4>1. changes[t][n] = 0
        BY <2>1, <2>3, <3>2, <3>4 DEF ChangedTwice
      <4>2. Changed(t)' = Changed(t) \cup {n} /\ n \notin Changed(t)
        BY <2>1, <3>1, <3>2, <3>4, <4>1 DEF Changed
      <4>3. Cardinality(Changed(t)') = Cardinality(Changed(t)) + 1
        BY <3>3, <4>2, FS_AddElement
      <4>4. rounds'[t] <= Cardinality(Changed(t)')
        BY <1>1, <2>1, <3>3, <4>3
      <4>5. Cardinality(Changed(t)') \in Nat
        BY <3>3, <4>3
      <4>6. rounds'[t] <= Cardinality(Changed(t)') + (IF Differs(t)' THEN 0 ELSE 1)
        BY <1>1, <2>1, <4>4, <4>5
      <4> QED
        BY <1>1, <2>1, <3>1, <4>6 DEF RoundInv, Scanning
    <3>5. CASE first[t][n] = View(t)[n]
      <4>1. Changed(t)' = Changed(t)
        BY <3>1, <3>2, <3>5 DEF Changed
      <4>2. /\ second'[t][n] = View(t)[n]
            /\ \A r \in Thread : r # n => second'[t][r] = second[t][r]
        BY <1>1, <2>1, ScanTypes DEF TypeOK, Snapshot
      <4>3. \A r \in Thread : r < n + 1 <=> r < n \/ r = n
        BY <2>1, ThreadNumbers
      <4>4. ASSUME NEW r \in Thread
            PROVE  /\ first'[t][r] = first[t][r]
                   /\ r < n + 1 /\ first[t][r] # second'[t][r] <=> r < n /\ first[t][r] # second[t][r]
        BY <2>1, <3>5, <4>2, <4>3, ThreadNumbers
      <4>5. Differs(t)' <=> Differs(t)
        BY <3>1, <4>4 DEF Differs
      <4> QED
        BY <1>1, <2>1, <3>1, <4>1, <4>5 DEF RoundInv, Scanning
    <3> QED
      BY <3>4, <3>5
  <2> QED
    BY <2>2, <2>3
<1>5. CASE CleanCollect(t)
  BY <1>1, <1>5 DEF CleanCollect, Forget, Returned, TypeOK, RoundInv, Scanning
<1>6. CASE DirtyCollect(t)
  <2>1. /\ pc[t] = "compare" /\ n = ThreadCount /\ first[t] # second[t]
        /\ pc'[t] = "second" /\ i'[t] = 0 /\ rounds'[t] = rounds[t] + 1 /\ changes' = changes
        /\ rounds[t] <= Cardinality(Changed(t)) + (IF Differs(t) THEN 0 ELSE 1)
    BY <1>1, <1>6 DEF DirtyCollect, SameFlag, TypeOK, ThreadInv, IndexInv, RoundInv
  <2>2. Differs(t)
    <3>1. PICK r \in Thread : first[t][r] # second[t][r]
      BY <1>1, <2>1, ScanTypes DEF Snapshot
    <3> QED
      BY <2>1, <3>1, ThreadNumbers DEF Differs
  <2>3. ~Differs(t)'
    BY <2>1, ThreadNumbers DEF Differs
  <2>4. Changed(t)' = Changed(t)
    BY <2>1 DEF Changed
  <2>5. Cardinality(Changed(t)) \in Nat /\ Cardinality(Changed(t)) < ThreadCount
    BY <2>1, ChangedOthers
  <2> QED
    BY <1>1, <2>1, <2>2, <2>3, <2>4, <2>5 DEF RoundInv, Scanning
<1>7. CASE AcquireSnapshot(t)
  BY <1>1, <1>7 DEF AcquireSnapshot, Forget, Returned, TypeOK, RoundInv, Scanning
<1>8. CASE Return(t)
  BY <1>1, <1>8 DEF Return, TypeOK, RoundInv, Scanning
<1>9. CASE Exchange(t)
  BY <1>1, <1>9 DEF Exchange, TypeOK, RoundInv, Scanning
<1>10. CASE Write(t)
  BY <1>1, <1>10 DEF Write, TypeOK, RoundInv, Scanning
<1>11. CASE Settle(t)
  <2>1. Same(t)
    BY <1>11 DEF Settle, Same
  <2> QED
    BY <2>1, RoundOthers
<1> QED
  BY <1>2, <1>3, <1>4, <1>5, <1>6, <1>7, <1>8, <1>9, <1>10, <1>11 DEF Step

\* scan() makes at most thread_count passes after the first: each of them but
\* the last sees another thread's register change for the first time.
THEOREM ScansAreBounded == Spec => []ScanIsBounded
<1> DEFINE Rounds == \A t \in Thread : RoundInv(t)
<1>1. Init => Rounds
  BY ThreadAssumption DEF Init, RoundInv, Scanning
<1>2. IInv /\ Rounds /\ [Next]_vars => Rounds'
  <2> SUFFICES ASSUME IInv, Rounds, [Next]_vars, NEW t \in Thread PROVE RoundInv(t)'
    OBVIOUS
  <2>1. ASSUME NEW u \in Thread, Step(u) \/ \E update \in BOOLEAN : Call(u, update)
        PROVE  RoundInv(t)'
    <3>1. CASE u = t
      BY <2>1, <3>1, RoundStep
    <3>2. CASE u # t
      BY <2>1, <3>2, OthersSame, RoundOthers DEF IInv
    <3> QED
      BY <3>1, <3>2
  <2>2. CASE UNCHANGED vars
    <3>1. Same(t)
      BY <2>2 DEF Same, vars
    <3> QED
      BY <3>1, RoundOthers
  <2> QED
    BY <2>1, <2>2 DEF Next
<1>3. Rounds => ScanIsBounded
  BY DEF RoundInv, ScanIsBounded
<1> QED
  BY <1>1, <1>2, <1>3, Invariant, PTL DEF Spec

-----------------------------------------------------------------------------
\* Until c installs another snapshot.
LEMMA InstalledStays ==
  ASSUME IInv, NEW u \in Thread, NEW c \in Thread, ~Exchange(c),
         Step(u) \/ \E update \in BOOLEAN : Call(u, update)
  PROVE  Installed(c)' = Installed(c)
<1>1. TypeOK /\ reg[c] \in Nat
  BY ScanTypes DEF IInv, Snapshot, Stamp
<1>2. CASE u = c /\ (Write(u) \/ Settle(u))
  <2>1. CASE Write(u)
    BY <1>1, <1>2, <2>1 DEF Write, TypeOK, Installed
  <2>2. CASE Settle(u)
    <3>1. late[c] /\ reg' = View(c) /\ ~late'[c] /\ pc' = pc
      BY <1>1, <1>2, <2>2 DEF Settle, TypeOK
    <3>2. reg'[c] = reg[c] + 1 /\ pc[c] # "write"
      BY <1>1, <3>1, ViewOf DEF IInv, ThreadInv, LateInv
    <3> QED
      BY <1>1, <3>1, <3>2 DEF Installed
  <2> QED
    BY <1>2, <2>1, <2>2
<1>3. CASE u # c /\ (Write(u) \/ Settle(u))
  <2>1. pc'[c] = pc[c] /\ reg'[c] = reg[c] /\ late'[c] = late[c]
    BY <1>3, StoreViews
  <2> QED
    BY <2>1 DEF Installed
<1>4. CASE ~Write(u) /\ ~Settle(u)
  <2>1. reg' = reg /\ late' = late
    BY <1>4 DEF Step, Call, FirstCollect, SecondCollect, CleanCollect, DirtyCollect,
                AcquireSnapshot, Return, Exchange
  <2>2. pc'[c] = "write" <=> pc[c] = "write"
    <3>1. CASE u # c
      BY <1>1, <3>1, OthersSame DEF Same
    <3>2. CASE u = c
      BY <1>1, <1>4, <3>2
         DEF TypeOK, Step, Call, FirstCollect, SecondCollect, CleanCollect, DirtyCollect,
             AcquireSnapshot, Return, Returned
    <3> QED
      BY <3>1, <3>2
  <2> QED
    BY <2>1, <2>2 DEF Installed
<1> QED
  BY <1>2, <1>3, <1>4

\* A thread that has acquired the snapshot of c does not come to acquire it again.
LEMMA SinceStep ==
  ASSUME IInv, NEW u \in Thread, NEW t \in Thread, NEW c \in Thread, t # c,
         ~Exchange(c), Since(t, c), Step(u) \/ \E update \in BOOLEAN : Call(u, update)
  PROVE  Since(t, c)'
<1> DEFINE n == i[t]
<1>1. Installed(c)' = Installed(c)
  BY InstalledStays
<1>2. CASE u # t
  <2>1. Same(t)
    BY <1>2, OthersSame DEF IInv
  <2> QED
    BY <1>1, <2>1 DEF Since, Same
<1>3. /\ TypeOK /\ ThreadInv(t)
      /\ reg[c] \in Nat /\ first[t][c] \in Nat /\ second[t][c] \in Nat
      /\ changes[t][c] \in {0, 1} /\ Installed(c) \in Int
      /\ Installed(c) <= reg[c] /\ reg[c] <= Installed(c) + 1
      /\ View(t)[c] = reg[c]
  BY ScanTypes, ViewOf DEF IInv, Snapshot, Stamp, Installed
<1>4. ASSUME NEW update \in BOOLEAN, Call(t, update) PROVE Since(t, c)'
  BY <1>3, <1>4, ThreadNumbers DEF Call, TypeOK, ThreadInv, IndexInv, Scanning, Since
<1>5. CASE FirstCollect(t)
  <2>1. /\ pc[t] = "first" /\ n \in Thread /\ changes'[t] = Zero
        /\ first' = [first EXCEPT ![t] = [first[t] EXCEPT ![n] = View(t)[n]]]
        /\ pc'[t] = (IF n + 1 = ThreadCount THEN "second" ELSE "first")
        /\ i'[t] = (IF n + 1 = ThreadCount THEN 0 ELSE n + 1)
    BY <1>3, <1>5 DEF FirstCollect, TypeOK, ThreadInv, IndexInv
  <2>2. first'[t][c] = (IF c = n THEN reg[c] ELSE first[t][c])
    BY <1>3, <2>1, ScanTypes DEF TypeOK, Snapshot
  <2>3. c < n + 1 => Installed(c) <= first'[t][c]
    <3>1. c < n => Installed(c) <= first[t][c]
      BY <2>1 DEF Since
    <3> QED
      BY <1>3, <2>1, <2>2, <3>1, ThreadNumbers
  <2>4. changes'[t][c] = 0
    BY <2>1 DEF Zero
  <2>5. n + 1 = ThreadCount => c < n + 1
    BY ThreadNumbers
  <2>6. first'[t][c] \in Nat
    BY <1>3, <2>2
  <2>7. CASE n + 1 = ThreadCount
    BY <1>1, <1>3, <2>1, <2>3, <2>4, <2>5, <2>6, <2>7, ThreadNumbers DEF Since
  <2>8. CASE n + 1 # ThreadCount
    BY <1>1, <2>1, <2>3, <2>8 DEF Since
  <2> QED
    BY <2>7, <2>8
<1>6. CASE SecondCollect(t)
  <2>1. /\ pc[t] = "second" /\ n \in Thread /\ first' = first
        /\ second' = [second EXCEPT ![t] = [second[t] EXCEPT ![n] = View(t)[n]]]
    BY <1>3, <1>6 DEF SecondCollect, ThreadInv, IndexInv
  <2>2. second'[t][c] = (IF c = n THEN reg[c] ELSE second[t][c])
    BY <1>3, <2>1, ScanTypes DEF TypeOK, Snapshot
  <2>3. /\ c < n => Installed(c) + changes[t][c] <= second[t][c]
        /\ c >= n => Installed(c) + changes[t][c] <= first[t][c]
    BY <2>1 DEF Since
  <2>4. first[t][c] <= reg[c]
    <3>1. PICK s \in seen[t] : Begun(t, s)
      BY <1>3, <2>1 DEF ThreadInv, ScanInv, Scanning
    <3> QED
      BY <1>3, <2>1, <3>1 DEF Begun, Collected
  <2>5. CASE ChangedTwice(t, n)
    <3>1. pc'[t] = "acquire" /\ i'[t] = n
      BY <1>3, <1>6, <2>5 DEF SecondCollect, TypeOK
    <3>2. n # c
      BY <1>3, <2>3, <2>4, <2>5, ThreadNumbers DEF ChangedTwice
    <3> QED
      BY <3>1, <3>2 DEF Since
  <2>6. CASE ~ChangedTwice(t, n)
    <3>1. /\ pc'[t] \in {"second", "compare"} /\ i'[t] = n + 1
          /\ changes'[t] = [changes[t] EXCEPT ![n] = IF first[t][n] # View(t)[n] THEN changes[t][n] + 1
                                                                            ELSE changes[t][n]]
      BY <1>3, <1>6, <2>6 DEF SecondCollect, TypeOK
    <3>2. CASE c = n
      <4>1. changes'[t][c] = IF first[t][c] # reg[c] THEN changes[t][c] + 1 ELSE changes[t][c]
        BY <1>3, <2>1, <3>1, <3>2, ScanTypes
      <4>2. Installed(c) + changes'[t][c] <= reg[c]
        BY <1>3, <2>3, <2>4, <3>2, <4>1, ThreadNumbers
      <4> QED
        BY <1>1, <2>2, <3>1, <3>2, <4>2, ThreadNumbers DEF Since
    <3>3. CASE c # n
      <4>1. changes'[t][c] = changes[t][c]
        BY <1>3, <2>1, <3>1, <3>3, ScanTypes
      <4>2. (c < n + 1 => c < n) /\ (c >= n + 1 => c >= n)
        BY <2>1, <3>3, ThreadNumbers
      <4> QED
        BY <1>1, <2>1, <2>2, <2>3, <3>1, <3>3, <4>1, <4>2 DEF Since
    <3> QED
      BY <3>2, <3>3
  <2> QED
    BY <2>5, <2>6
<1>7. CASE DirtyCollect(t)
  <2>1. /\ pc[t] = "compare" /\ n = ThreadCount /\ changes' = changes
        /\ pc'[t] = "second" /\ i'[t] = 0 /\ first'[t] = second[t]
    BY <1>3, <1>7 DEF DirtyCollect, TypeOK, ThreadInv, IndexInv
  <2>2. Installed(c) + changes[t][c] <= second[t][c]
    BY <2>1, ThreadNumbers DEF Since
  <2> QED
    BY <1>1, <2>1, <2>2, ThreadNumbers DEF Since
<1>8. CASE Settle(t)
  BY <1>1, <1>8 DEF Settle, Since
<1>9. CASE CleanCollect(t) \/ AcquireSnapshot(t) \/ Return(t) \/ Exchange(t) \/ Write(t)
  <2>1. pc'[t] \in {"exchange", "returned", "idle", "write"}
    BY <1>3, <1>9 DEF TypeOK, CleanCollect, AcquireSnapshot, Returned, Return, Exchange, Write
  <2> QED
    BY <2>1 DEF Since
<1> QED
  BY <1>2, <1>4, <1>5, <1>6, <1>7, <1>8, <1>9 DEF Step

LEMMA CountStep ==
  ASSUME IInv, NEW u \in Thread, NEW c \in Thread, CountInv(c),
         Step(u) \/ \E update \in BOOLEAN : Call(u, update)
  PROVE  CountInv(c)'
<1>1. TypeOK
  BY DEF IInv
<1>2. PICK A \in SUBSET (Thread \ {c}) : acquired[c] = Cardinality(A) /\ \A t \in A : Since(t, c)
  BY DEF CountInv
<1>3. CASE Exchange(c)
  <2>1. acquired'[c] = 0
    BY <1>1, <1>3 DEF Exchange, TypeOK
  <2> QED
    BY <2>1, FS_EmptySet DEF CountInv
<1>4. ASSUME ~Exchange(c), NEW t \in A PROVE Since(t, c)'
  BY <1>2, <1>4, SinceStep
<1>5. CASE ~Exchange(c) /\ ~(AcquireSnapshot(u) /\ i[u] = c)
  <2>1. acquired'[c] = acquired[c]
    BY <1>1, <1>5
       DEF TypeOK, Step, Call, FirstCollect, SecondCollect, CleanCollect, DirtyCollect,
           AcquireSnapshot, Return, Exchange, Write, Settle
  <2> QED
    BY <1>2, <1>4, <1>5, <2>1 DEF CountInv
<1>6. CASE ~Exchange(c) /\ AcquireSnapshot(u) /\ i[u] = c
  <2>1. /\ pc[u] = "acquire" /\ acquired'[c] = acquired[c] + 1
        /\ pc'[u] \in {"exchange", "returned"}
    BY <1>1, <1>6 DEF AcquireSnapshot, TypeOK, Returned
  <2>2. u \notin A
    BY <1>2, <1>6, <2>1 DEF Since
  <2>3. u # c
    <3>1. PICK s \in seen[u] : Begun(u, s)
      BY <2>1 DEF IInv, ThreadInv, ScanInv, Scanning
    <3>2. s[u] = View(u)[u] /\ Collected(u, u, s) /\ View(u)[u] \in Nat
      BY <1>1, <3>1, ViewOf DEF Begun, Snapshot, Stamp
    <3> QED
      BY <1>6, <2>1, <3>2 DEF Collected
  <2>4. IsFiniteSet(A)
    BY ThreadsFinite, FS_Subset
  <2>5. Cardinality(A \cup {u}) = acquired'[c]
    <3>1. Cardinality(A \cup {u}) = Cardinality(A) + 1
      BY <2>2, <2>4, FS_AddElement
    <3> QED
      BY <1>2, <2>1, <3>1
  <2>6. Since(u, c)'
    BY <2>1 DEF Since
  <2> QED
    BY <1>2, <1>4, <1>6, <2>3, <2>5, <2>6 DEF CountInv
<1> QED
  BY <1>3, <1>5, <1>6

\* No version is acquired by thread_count readers, so that the outer count of a
\* cell cannot reach the sign bit, however long the program runs.
THEOREM OuterCountsAreBounded == Spec => []OuterCountBounded
<1> DEFINE Counts == \A c \in Thread : CountInv(c)
<1>1. Init => Counts
  <2> SUFFICES ASSUME Init, NEW c \in Thread PROVE CountInv(c)
    OBVIOUS
  <2>1. acquired[c] = Cardinality({})
    BY FS_EmptySet DEF Init
  <2> QED
    BY <2>1 DEF CountInv
<1>2. IInv /\ Counts /\ [Next]_vars => Counts'
  <2> SUFFICES ASSUME IInv, Counts, [Next]_vars, NEW c \in Thread PROVE CountInv(c)'
    OBVIOUS
  <2>1. CASE UNCHANGED vars
    BY <2>1 DEF vars, CountInv, Since, Installed
  <2> QED
    BY <2>1, CountStep DEF Next
<1>3. Counts => OuterCountBounded
  <2> SUFFICES ASSUME NEW c \in Thread, CountInv(c) PROVE acquired[c] < ThreadCount
    BY DEF OuterCountBounded
  <2>1. PICK A \in SUBSET (Thread \ {c}) : acquired[c] = Cardinality(A)
    BY DEF CountInv
  <2>2. IsFiniteSet(Thread) /\ Cardinality(Thread) = ThreadCount
    BY ThreadsFinite
  <2>3. IsFiniteSet(Thread \ {c}) /\ Cardinality(Thread \ {c}) = ThreadCount - 1
    BY <2>2, FS_RemoveElement
  <2>4. IsFiniteSet(A) /\ Cardinality(A) <= ThreadCount - 1
    BY <2>3, FS_Subset
  <2> QED
    BY <2>1, <2>4, FS_CardinalityType, FirstThread
<1> QED
  BY <1>1, <1>2, <1>3, Invariant, PTL DEF Spec
=============================================================================
