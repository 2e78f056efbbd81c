--------------------------- MODULE AtomicSnapshot ---------------------------
(***************************************************************************)
(* WaitfreeAtomicSnapshot of project2: one register per thread, scan() and *)
(* update(). A register is a time stamp and a value in one word; here it   *)
(* is the time stamp alone, which names the write that produced the value. *)
(*                                                                         *)
(* A register is a plain word. update() ends with a plain store to it, and *)
(* the next scan() of the thread begins with plain loads, which the        *)
(* processor may perform before the store reaches the other threads: the   *)
(* store is late until then. A locked instruction, in exchange() and in    *)
(* acquire(), waits for it.                                                *)
(*                                                                         *)
(* Each thread owns a cell with the snapshot it took before its last       *)
(* write. The cell is the one of SnapshotCell: exchange() and acquire()    *)
(* take effect in one step, and what a reader acquired does not change     *)
(* until it has copied it. SharedSnapshot implements that.                 *)
(***************************************************************************)
EXTENDS Naturals, FiniteSets

CONSTANTS ThreadCount,  \* thread_count
          Scanners,     \* the threads that also call scan() without update()
          MaxWrites     \* bound: each thread's largest time stamp (2^32 - 1 in the code)

Thread == 0 .. ThreadCount - 1

ASSUME ThreadAssumption == ThreadCount \in Nat \ {0} /\ Scanners \subseteq Thread

ASSUME WritesAssumption == MaxWrites \in [Thread -> Nat]

VARIABLES reg,       \* atomic_register_vector, as every thread sees it
          late,      \* whether the last store of each thread to its register is late
          cell,      \* the current snapshot of each thread's shared_snapshot
          acquired,  \* the outer count of each thread's shared_snapshot
          pc,        \* where each thread is
          updating,  \* whether the scan is the one of an update()
          i,         \* scan(): i
          first,     \* scan(): first_snapshot, also the result
          second,    \* scan(): second_snapshot
          changes,   \* scan(): change_count_vector
          recent,    \* history: the views since no store was late
          seen,      \* history: recent when the scan began, and the views since then
          mine,      \* history: the views of the thread itself since the scan began
          rounds     \* history: the passes the scan has begun

vars == <<reg, late, cell, acquired, pc, updating, i, first, second, changes,
          recent, seen, mine, rounds>>

Stamp == Nat

Snapshot == [Thread -> Stamp]

NoSnapshot == << >>

Zero == [t \in Thread |-> 0]

ThreadAt == {"idle", "first", "second", "compare", "acquire", "returned", "exchange", "write"}

Scanning == {"first", "second", "compare", "acquire"}

\* What a thread reads from the registers: its own late store, nobody else's.
View(t) == IF late[t] THEN [reg EXCEPT ![t] = @ + 1] ELSE reg

Views == {View(t) : t \in Thread}

-----------------------------------------------------------------------------
Init ==
  /\ reg = Zero
  /\ late = [t \in Thread |-> FALSE]
  /\ cell = [t \in Thread |-> NoSnapshot]
  /\ acquired = [t \in Thread |-> 0]
  /\ pc = [t \in Thread |-> "idle"]
  /\ updating = [t \in Thread |-> FALSE]
  /\ i = Zero
  /\ first = [t \in Thread |-> Zero]
  /\ second = [t \in Thread |-> Zero]
  /\ changes = [t \in Thread |-> Zero]
  /\ recent = {Zero}
  /\ seen = [t \in Thread |-> {}]
  /\ mine = [t \in Thread |-> {}]
  /\ rounds = [t \in Thread |-> 0]

\* update(value) begins with a scan; a thread may also just scan().
Call(t, update) ==
  /\ pc[t] = "idle"
  /\ IF update THEN View(t)[t] < MaxWrites[t] ELSE t \in Scanners
  /\ pc' = [pc EXCEPT ![t] = "first"]
  /\ updating' = [updating EXCEPT ![t] = update]
  /\ seen' = [seen EXCEPT ![t] = recent]
  /\ mine' = [mine EXCEPT ![t] = {View(t)}]
  /\ UNCHANGED <<reg, late, cell, acquired, i, first, second, changes, recent, rounds>>

\* The first collect: the registers are copied one after the other.
FirstCollect(t) ==
  /\ pc[t] = "first"
  /\ first' = [first EXCEPT ![t][i[t]] = View(t)[i[t]]]
  /\ IF i[t] + 1 = ThreadCount
       THEN /\ pc' = [pc EXCEPT ![t] = "second"]
            /\ i' = [i EXCEPT ![t] = 0]
            /\ rounds' = [rounds EXCEPT ![t] = 1]
       ELSE /\ i' = [i EXCEPT ![t] = @ + 1]
            /\ UNCHANGED <<pc, rounds>>
  /\ UNCHANGED <<reg, late, cell, acquired, updating, second, changes, recent, seen, mine>>

\* Mutant of Returned: update() writes without installing its scan.
ReturnedToWrite(t) == IF updating[t] THEN "write" ELSE "returned"

\* The scan is over: update() goes on with its result.
Returned(t) == IF updating[t] THEN "exchange" ELSE "returned"

\* Mutant of ChangedTwice: three changes are needed.
ChangedThrice(t, r) == first[t][r] # View(t)[r] /\ changes[t][r] + 1 = 3

\* Mutant of ChangedTwice: one change is enough.
ChangedOnce(t, r) == first[t][r] # View(t)[r] /\ changes[t][r] + 1 = 1

\* The register has changed since the previous collect, for the second time.
ChangedTwice(t, r) == first[t][r] # View(t)[r] /\ changes[t][r] + 1 = 2

\* One register of a second collect, compared with the collect before it.
SecondCollect(t) ==
  LET r == i[t] IN
  /\ pc[t] = "second"
  /\ second' = [second EXCEPT ![t][r] = View(t)[r]]
  /\ IF ChangedTwice(t, r)
       THEN /\ pc' = [pc EXCEPT ![t] = "acquire"]
            /\ UNCHANGED <<i, changes>>
       ELSE /\ changes' = [changes EXCEPT ![t][r] = IF first[t][r] # View(t)[r] THEN @ + 1 ELSE @]
            /\ i' = [i EXCEPT ![t] = @ + 1]
            /\ pc' = [pc EXCEPT ![t] = IF r + 1 = ThreadCount THEN "compare" ELSE "second"]
  /\ UNCHANGED <<reg, late, cell, acquired, updating, first, recent, seen, mine, rounds>>

\* Mutant of SameFlag: only the last comparison of the loop counts.
SameAtLast(t) == first[t][ThreadCount - 1] = second[t][ThreadCount - 1]

\* No register differed between the two collects.
SameFlag(t) == first[t] = second[t]

\* The thread's copies are gone once the scan has its result.
Forget(t) ==
  /\ i' = [i EXCEPT ![t] = 0]
  /\ second' = [second EXCEPT ![t] = Zero]
  /\ changes' = [changes EXCEPT ![t] = Zero]
  /\ rounds' = [rounds EXCEPT ![t] = 0]

\* The collect was clean if it equals the one before it ...
CleanCollect(t) ==
  /\ pc[t] = "compare"
  /\ SameFlag(t)
  /\ pc' = [pc EXCEPT ![t] = Returned(t)]
  /\ Forget(t)
  /\ UNCHANGED <<reg, late, cell, acquired, updating, first, recent, seen, mine>>

\* ... otherwise it is compared with the next one.
DirtyCollect(t) ==
  /\ pc[t] = "compare"
  /\ ~SameFlag(t)
  /\ first' = [first EXCEPT ![t] = second[t]]
  /\ pc' = [pc EXCEPT ![t] = "second"]
  /\ i' = [i EXCEPT ![t] = 0]
  /\ rounds' = [rounds EXCEPT ![t] = @ + 1]
  /\ UNCHANGED <<reg, late, cell, acquired, updating, second, changes, recent, seen, mine>>

\* The writer of the register that changed twice has taken a snapshot since the
\* first collect: acquire(), copy it, release().
AcquireSnapshot(t) ==
  /\ pc[t] = "acquire"
  /\ ~late[t]
  /\ first' = [first EXCEPT ![t] = cell[i[t]]]
  /\ acquired' = [acquired EXCEPT ![i[t]] = @ + 1]
  /\ pc' = [pc EXCEPT ![t] = Returned(t)]
  /\ Forget(t)
  /\ UNCHANGED <<reg, late, cell, updating, recent, seen, mine>>

\* A scan() outside update() hands its result to the caller.
Return(t) ==
  /\ pc[t] = "returned"
  /\ pc' = [pc EXCEPT ![t] = "idle"]
  /\ first' = [first EXCEPT ![t] = Zero]
  /\ seen' = [seen EXCEPT ![t] = {}]
  /\ mine' = [mine EXCEPT ![t] = {}]
  /\ UNCHANGED <<reg, late, cell, acquired, updating, i, second, changes, recent, rounds>>

\* Mutant of Exchange: the outer count goes on with the new snapshot.
ExchangeKeepsCount(t) ==
  /\ pc[t] = "exchange"
  /\ ~late[t]
  /\ cell' = [cell EXCEPT ![t] = first[t]]
  /\ pc' = [pc EXCEPT ![t] = "write"]
  /\ first' = [first EXCEPT ![t] = Zero]
  /\ seen' = [seen EXCEPT ![t] = {}]
  /\ mine' = [mine EXCEPT ![t] = {}]
  /\ UNCHANGED <<reg, late, acquired, updating, i, second, changes, recent, rounds>>

\* update(): the scan becomes the thread's snapshot ...
Exchange(t) ==
  /\ pc[t] = "exchange"
  /\ ~late[t]
  /\ cell' = [cell EXCEPT ![t] = first[t]]
  /\ acquired' = [acquired EXCEPT ![t] = 0]
  /\ pc' = [pc EXCEPT ![t] = "write"]
  /\ first' = [first EXCEPT ![t] = Zero]
  /\ seen' = [seen EXCEPT ![t] = {}]
  /\ mine' = [mine EXCEPT ![t] = {}]
  /\ UNCHANGED <<reg, late, updating, i, second, changes, recent, rounds>>

\* The views have changed. Every scan in progress may get a new one.
Witnessed ==
  /\ recent' = IF \A t \in Thread : ~late'[t] THEN Views' ELSE recent \cup Views'
  /\ seen' = [s \in Thread |-> IF pc[s] \in Scanning THEN seen[s] \cup Views' ELSE seen[s]]
  /\ mine' = [s \in Thread |-> IF pc[s] \in Scanning THEN mine[s] \cup {View(s)'} ELSE mine[s]]

\* ... before it stores to its register, and returns. No other thread sees the store yet.
Write(t) ==
  /\ pc[t] = "write"
  /\ late' = [late EXCEPT ![t] = TRUE]
  /\ pc' = [pc EXCEPT ![t] = "idle"]
  /\ UNCHANGED <<reg, cell, acquired, updating, i, first, second, changes, rounds>>
  /\ Witnessed

\* The store reaches the other threads, at any time, wherever the thread has got to.
Settle(t) ==
  /\ late[t]
  /\ reg' = View(t)
  /\ late' = [late EXCEPT ![t] = FALSE]
  /\ UNCHANGED <<cell, acquired, pc, updating, i, first, second, changes, rounds>>
  /\ Witnessed

-----------------------------------------------------------------------------
Step(t) == \/ FirstCollect(t)
           \/ SecondCollect(t)
           \/ CleanCollect(t)
           \/ DirtyCollect(t)
           \/ AcquireSnapshot(t)
           \/ Return(t)
           \/ Exchange(t)
           \/ Write(t)
           \/ Settle(t)

Next == \E t \in Thread : Step(t) \/ \E update \in BOOLEAN : Call(t, update)

Spec == Init /\ [][Next]_vars

-----------------------------------------------------------------------------
TypeOK ==
  /\ reg \in Snapshot
  /\ late \in [Thread -> BOOLEAN]
  /\ cell \in [Thread -> Snapshot \cup {NoSnapshot}]
  /\ acquired \in [Thread -> Nat]
  /\ pc \in [Thread -> ThreadAt]
  /\ updating \in [Thread -> BOOLEAN]
  /\ i \in [Thread -> 0 .. ThreadCount]
  /\ first \in [Thread -> Snapshot]
  /\ second \in [Thread -> Snapshot]
  /\ changes \in [Thread -> [Thread -> {0, 1}]]
  /\ recent \in SUBSET Snapshot
  /\ seen \in [Thread -> SUBSET Snapshot]
  /\ mine \in [Thread -> SUBSET Snapshot]
  /\ rounds \in [Thread -> Nat]

HasResult(t) == pc[t] \in {"exchange", "returned"}

\* What scan() returns, its own collect or the snapshot of another thread, is a
\* view that one thread had of all the registers together: during the scan, or
\* before it, but then no store was ever without another one late since. While
\* no store is late it is what the registers held at a moment of the scan.
ScanIsView == \A t \in Thread : HasResult(t) => first[t] \in seen[t]

\* A collect that equals the one before it is what the thread itself saw of all
\* the registers together at a moment of the scan, though its loads came one by one.
CleanIsAtomic ==
  \A t \in Thread : pc[t] = "compare" /\ SameFlag(t) => first[t] \in mine[t]

\* Any two scans return contents of which one came first: no two threads see
\* writes in different orders.
ScansAreOrdered ==
  \A t, u \in Thread :
    HasResult(t) /\ HasResult(u) =>
      \/ \A r \in Thread : first[t][r] <= first[u][r]
      \/ \A r \in Thread : first[u][r] <= first[t][r]

\* scan() is wait-free: it makes at most thread_count passes over the registers
\* after the first, however often the others write.
ScanIsBounded == \A t \in Thread : rounds[t] <= ThreadCount

\* A scan acquires a snapshot only from a thread that has installed one: the
\* control block never hands out a version that does not exist.
AcquireAfterInstall ==
  \A t \in Thread : pc[t] = "acquire" => cell[i[t]] # NoSnapshot

\* Each other thread acquires one version of a cell at most once, so that the
\* outer count stays far below the sign bit the assertion of exchange() looks at.
OuterCountBounded == \A t \in Thread : acquired[t] < ThreadCount
=============================================================================
