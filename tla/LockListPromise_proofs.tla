---------------------- MODULE LockListPromise_proofs ----------------------
(***************************************************************************)
(* Proofs about LockList, from what LockList_proofs says of the lists:     *)
(* that the table keeps the promise of LockService, that no wakeup is      *)
(* lost, that what is reachable from the heads is intact, and that two     *)
(* threads miss no deadlock.                                               *)
(*                                                                         *)
(* Worked says that a transaction has one lock for each of its requests,   *)
(* and none in use when it is over. With it, the live locks of a record    *)
(* are the line of LockService (Mapped); a lock joins it with its id, a    *)
(* step of LockService, and most of the others are none (Quiet).           *)
(*                                                                         *)
(* Awakes says who waits for whom: a blocked thread has a signal, or a     *)
(* lock before its own in a hand (WaitInv); who signals has left the head  *)
(* on a lock in a hand (WakeInv); and a head that no one is about to       *)
(* signal was signalled when it came (FrontInv). A hand lets go of a lock  *)
(* with its last unlock only, and whoever waited for that one can then     *)
(* wait for the head, or has its signal (Handover).                        *)
(*                                                                         *)
(* Chain is what Reach finds: locks of every rank from the head on, each   *)
(* linked to the next (ChainIs), up to the live ones (LiveInChain).        *)
(*                                                                         *)
(* Watched says that of two threads that wait for each other, one is still *)
(* searching, and will see the other (Sight): the one that was the last to *)
(* name its lock in conflict_lock. A step of either leaves the lists as    *)
(* they are (LooksKeep), so its walk comes to its own lock (WalksOn).      *)
(***************************************************************************)
EXTENDS LockList_proofs, FiniteSetTheorems, WellFoundedInduction

-----------------------------------------------------------------------------
(* The requests of a transaction *)

\* The locks of a thread are for the requests of its transaction, one each. Those it has released
\* so far are OBSOLETE, and it has no other lock that is not.
WorkInv(t) ==
  /\ \A n \in 1 .. Len(deque[t]) : Rec(deque[t][n]) = Program(t)[n].rec
  /\ pc[t] = "done" => deque[t] = << >>
  /\ pc[t] \in Renewing => Rec(loc[t].new) = Wanted(t).rec
  /\ pc[t] \in Freeing =>
       \A n \in 1 .. Len(deque[t]) :
         n < loc[t].i \/ (n = loc[t].i /\ pc[t] # "release") => lk[deque[t][n]].state = "OBSOLETE"
  /\ \A l \in Lock : Owner(l) = t /\ Created(l) /\ lk[l].state # "OBSOLETE" =>
       l \in Locks(t) \/ (pc[t] \in Renewing /\ l = loc[t].new)

Worked == \A t \in Thread : WorkInv(t)

\* No two locks that a thread has are of the same record.
LEMMA OneEach ==
  ASSUME IInv, NEW t \in Thread, WorkInv(t), NEW l \in Locks(t), NEW m \in Locks(t), Rec(l) = Rec(m)
  PROVE  l = m
<1>1. Types /\ ProgramInv(t)
  BY DEF IInv
<1>2. PICK j, k \in 1 .. Len(deque[t]) : l = deque[t][j] /\ m = deque[t][k]
  BY DEF Locks
<1>3. pc[t] # "done"
  <2>1. pc[t] = "done" => deque[t] = << >>
    BY DEF WorkInv
  <2> QED
    BY <1>2, <2>1
<1>4. trx[t] \in 1 .. Len(Programs[t]) /\ Len(deque[t]) <= Len(Program(t)) /\ deque[t] \in Seq(Lock)
  BY <1>1, <1>3, ProgramIs DEF ProgramInv, Types
<1>5. Program(t) \in Seq(Request)
  BY <1>4, ProgramIs DEF Program
<1>6. j \in 1 .. Len(Program(t)) /\ k \in 1 .. Len(Program(t))
  BY <1>2, <1>4, <1>5
<1>7. Program(t)[j].rec = Program(t)[k].rec
  BY <1>2 DEF WorkInv
<1>8. \A x \in 1 .. Len(Programs[t]) : \A a, b \in 1 .. Len(Programs[t][x]) :
        Programs[t][x][a].rec = Programs[t][x][b].rec => a = b
  BY ProgramAssumption
<1>9. j = k
  BY <1>4, <1>6, <1>7, <1>8 DEF Program
<1> QED
  BY <1>2, <1>9

\* A step creates and releases no lock, and neither begins to use one again.
Idle ==
  /\ saved' = saved
  /\ \A l \in Lock : lk'[l].state = "OBSOLETE" <=> lk[l].state = "OBSOLETE"

\* Nor does it change anything that others see of a lock in use.
Still == Idle /\ \A l \in Lock : lk'[l].id = lk[l].id /\ lk'[l].mode = lk[l].mode

\* A step of t releases and creates its own locks only.
OwnOnly(t) ==
  /\ Others(t)
  /\ \A l \in Lock : Owner(l) # t =>
       /\ lk'[l].state = "OBSOLETE" <=> lk[l].state = "OBSOLETE"
       /\ Created(l)' <=> Created(l)

LEMMA IdleOwn ==
  ASSUME NEW t \in Thread, Others(t), Idle
  PROVE  OwnOnly(t)
BY DEF Idle, OwnOnly, Created

LEMMA WorkOthers ==
  ASSUME IInv, NEW t \in Thread, OwnOnly(t), NEW u \in Thread, u # t, WorkInv(u), DequeInv(u)
  PROVE  WorkInv(u)'
<1>1. Types
  BY DEF IInv
<1>2. /\ pc'[u] = pc[u] /\ loc'[u] = loc[u] /\ deque'[u] = deque[u] /\ trx'[u] = trx[u]
  BY DEF OwnOnly, Others
<1>3. Locks(u)' = Locks(u) /\ Locks(u) \subseteq Lock
  BY <1>1, <1>2, LocksIs DEF Locks
<1>4. \A n \in 1 .. Len(deque[u]) : deque[u][n] \in Locks(u)
  BY DEF Locks
<1>5. \A n \in 1 .. Len(deque[u]) : deque[u][n] \in Lock /\ Owner(deque[u][n]) = u
  BY <1>3, <1>4 DEF DequeInv
<1>6. \A l \in Lock : Owner(l) = u =>
        (lk'[l].state = "OBSOLETE" <=> lk[l].state = "OBSOLETE") /\ (Created(l)' <=> Created(l))
  BY DEF OwnOnly
<1>7. \A n \in 1 .. Len(deque'[u]) : Rec(deque'[u][n]) = Program(u)'[n].rec
  BY <1>2 DEF WorkInv, Program
<1>8. pc'[u] \in Renewing => Rec(loc'[u].new) = Wanted(u)'.rec
  BY <1>2 DEF WorkInv, Wanted, Program
<1>9. pc'[u] \in Freeing =>
        \A n \in 1 .. Len(deque'[u]) :
          n < loc'[u].i \/ (n = loc'[u].i /\ pc'[u] # "release") => lk'[deque'[u][n]].state = "OBSOLETE"
  BY <1>2, <1>5, <1>6 DEF WorkInv
<1>10. \A l \in Lock : Owner(l) = u /\ Created(l)' /\ lk'[l].state # "OBSOLETE" =>
       l \in Locks(u)' \/ (pc'[u] \in Renewing /\ l = loc'[u].new)
  BY <1>2, <1>3, <1>6 DEF WorkInv
<1>11. pc'[u] = "done" => deque'[u] = << >>
  BY <1>2 DEF WorkInv
<1> QED
  BY <1>7, <1>8, <1>9, <1>10, <1>11 DEF WorkInv

LEMMA WorkStep ==
  ASSUME IInv, NEW rank, ListInv(rank), Worked, NEW t \in Thread, OwnOnly(t), WorkInv(t)'
  PROVE  Worked'
<1>1. ASSUME NEW u \in Thread, u # t PROVE WorkInv(u)'
  <2>1. WorkInv(u) /\ DequeInv(u)
    BY DEF Worked, ListInv
  <2> QED
    BY <1>1, <2>1, WorkOthers
<1> QED
  BY <1>1 DEF Worked

\* The step of t to p does not begin or end a request or a release.
Stays(t, p, x) ==
  /\ UNCHANGED <<deque, trx>>
  /\ p # "done"
  /\ p \in Renewing <=> pc[t] \in Renewing
  /\ p \in Renewing => x.new = loc[t].new
  /\ p \in Freeing => pc[t] \in Freeing /\ x.i = loc[t].i /\ (p = "release" <=> pc[t] = "release")

LEMMA WorkStays ==
  ASSUME IInv, NEW t \in Thread, WorkInv(t), Idle, NEW p, NEW x, p = pc'[t], x = loc'[t], Stays(t, p, x)
  PROVE  WorkInv(t)'
<1>1. Types /\ deque' = deque /\ trx' = trx
  BY DEF IInv, Stays
<1>2. \A n \in 1 .. Len(deque[t]) : deque[t][n] \in Lock
  BY <1>1 DEF Types
<1>3. \A n \in 1 .. Len(deque'[t]) : Rec(deque'[t][n]) = Program(t)'[n].rec
  BY <1>1 DEF WorkInv, Program
<1>4. p \in Renewing => Rec(x.new) = Wanted(t)'.rec
  BY <1>1 DEF WorkInv, Wanted, Program, Stays
<1>5. p \in Freeing =>
        \A n \in 1 .. Len(deque'[t]) :
          n < x.i \/ (n = x.i /\ p # "release") => lk'[deque'[t][n]].state = "OBSOLETE"
  BY <1>1, <1>2 DEF WorkInv, Stays, Idle
<1>6. \A l : (Created(l)' <=> Created(l)) /\ Locks(t)' = Locks(t)
  BY <1>1 DEF Idle, Created, Locks
<1>7. \A l \in Lock : Owner(l) = t /\ Created(l)' /\ lk'[l].state # "OBSOLETE" =>
       l \in Locks(t)' \/ (p \in Renewing /\ l = x.new)
  BY <1>6 DEF WorkInv, Stays, Idle
<1> QED
  BY <1>3, <1>4, <1>5, <1>7 DEF WorkInv, Stays

\* The place p with the locals x is one of a thread that waits for a record.
AskAt(p, x) == IF p \in Waiting \cup {"pass_id", "conflict"} THEN Rec(x.new) ELSE NoLock

\* Its step to p is no step of LockService, unless its lock is granted.
Asks(t, p, x) ==
  \/ AskAt(p, x) = AskAt(pc[t], loc[t])
  \/ p = "grant" /\ pc[t] \in Waiting /\ x.new = loc[t].new

Quiet(t, p, x) == Others(t) /\ Still /\ Stays(t, p, x) /\ Asks(t, p, x)

LEMMA FieldsIs ==
  ASSUME lk \in [Lock -> Fields], NEW n \in Lock, NEW f, lk' = [lk EXCEPT ![n] = f],
         f.id = lk[n].id, f.mode = lk[n].mode, f.state = "OBSOLETE" <=> lk[n].state = "OBSOLETE", saved' = saved
  PROVE  Still
BY DEF Still, Idle

\* A thread that waits looks at the locks before its own, or sets the state of its lock.
LEMMA WaitingStays ==
  ASSUME NEW t \in Thread, NEW p, NEW x, pc[t] \in Waiting, p \in Waiting \cup {"grant"},
         x.new = loc[t].new, UNCHANGED <<deque, trx>>
  PROVE  Stays(t, p, x) /\ Asks(t, p, x)
<1>1. /\ p # "done" /\ p \notin Renewing /\ pc[t] \notin Renewing /\ p \notin Freeing
  BY DEF Waiting, Renewing, Freeing, HoldingMutex
<1> QED
  BY <1>1 DEF Stays, Asks, AskAt

LEMMA LooksQuiet ==
  ASSUME IInv, NEW t \in Thread, NEW p, NEW x, p = pc'[t], x = loc'[t],
         Searching(t) \/ FromHead(t) \/ Collect(t) \/ CollectNext(t) \/ Check(t) \/ CheckId(t) \/ CheckMode(t)
  PROVE  Quiet(t, p, x)
<1>1. Types
  BY DEF IInv
<1>2. pc \in [Thread -> Place] /\ loc \in [Thread -> Locals]
  BY <1>1 DEF Types
<1>3. /\ Others(t) /\ UNCHANGED <<lk, saved, deque, trx>>
      /\ pc[t] \in Waiting /\ p \in Waiting \cup {"grant"} /\ x.new = loc[t].new
  <2>1. CASE Searching(t)
    BY <2>1, SearchingMoves DEF shared, Seeking, Probing, Waiting
  <2>2. CASE FromHead(t)
    BY <1>2, <2>2 DEF FromHead, CollectAt, Goto, Others, shared, Locals, Waiting
  <2>3. CASE Collect(t)
    BY <1>2, <2>3 DEF Collect, Goto, Others, shared, Locals, Waiting
  <2>4. CASE CollectNext(t)
    BY <1>2, <2>4 DEF CollectNext, CollectAt, Goto, Others, shared, Locals, Waiting
  <2>5. CASE Check(t)
    BY <1>2, <2>5 DEF Check, Skip, CheckOn, Goto, Others, shared, Locals, Waiting
  <2>6. CASE CheckId(t)
    BY <1>2, <2>6 DEF CheckId, Skip, CheckOn, Goto, Others, shared, Locals, Waiting
  <2>7. CASE CheckMode(t)
    BY <1>2, <2>7 DEF CheckMode, CheckOn, Goto, Others, shared, Locals, Waiting
  <2> QED
    BY <2>1, <2>2, <2>3, <2>4, <2>5, <2>6, <2>7
<1>4. Still
  BY <1>3 DEF Still, Idle
<1> QED
  BY <1>3, <1>4, WaitingStays DEF Quiet

LEMMA StatesQuiet ==
  ASSUME IInv, NEW rank, ListInv(rank), NEW t \in Thread, NEW p, NEW x, p = pc'[t], x = loc'[t],
         Wait(t) \/ Unwait(t) \/ Sleep(t) \/ Awake(t)
  PROVE  Quiet(t, p, x)
<1>1. Types
  BY DEF IInv
<1>2. pc \in [Thread -> Place] /\ loc \in [Thread -> Locals] /\ lk \in [Lock -> Fields]
  BY <1>1 DEF Types
<1>3. pc[t] \in {"wait", "unwait", "sleep", "asleep"} /\ pc[t] \in Waiting /\ pc[t] \notin Freeing \cup {"give_up"}
      /\ pc[t] \in Joined
  BY DEF Wait, Unwait, Sleep, Awake, Waiting, Freeing, HoldingMutex, Joined
<1>4. PICK n : n = loc[t].new
  OBVIOUS
<1>5. n \in Lock /\ lk[n].state # "OBSOLETE"
  BY <1>3, <1>4, Settled DEF ListInv, DequeInv
<1>6. /\ Others(t) /\ UNCHANGED <<saved, deque, trx>> /\ p \in Waiting \cup {"grant"} /\ x.new = loc[t].new
      /\ lk' = lk \/ \E s \in {"WAIT", "ACTIVE"} : lk' = [lk EXCEPT ![n].state = s]
  <2>1. CASE Wait(t)
    BY <1>2, <1>4, <2>1 DEF Wait, Goto, Others, shared, Waiting
  <2>2. CASE Unwait(t)
    BY <1>2, <1>4, <2>2 DEF Unwait, CheckOn, Goto, Others, shared, Locals, Waiting
  <2>3. CASE Sleep(t)
    BY <1>2, <1>4, <2>3 DEF Sleep, Goto, Others, Waiting
  <2>4. CASE Awake(t)
    BY <1>2, <1>4, <2>4 DEF Awake, Goto, Others, shared, Waiting
  <2> QED
    BY <2>1, <2>2, <2>3, <2>4
<1>7. Still
  <2>1. CASE lk' = lk
    BY <1>6, <2>1 DEF Still, Idle
  <2>2. ASSUME NEW s \in {"WAIT", "ACTIVE"}, lk' = [lk EXCEPT ![n].state = s]
        PROVE  Still
    <3>1. PICK f : f = [lk[n] EXCEPT !.state = s]
      OBVIOUS
    <3>2. lk[n] \in Fields
      BY <1>2, <1>5
    <3>3. f.id = lk[n].id /\ f.mode = lk[n].mode /\ f.state # "OBSOLETE"
      BY <3>1, <3>2 DEF Fields
    <3>4. lk' = [lk EXCEPT ![n] = f]
      BY <2>2, <3>1
    <3> QED
      BY <1>2, <1>5, <1>6, <3>3, <3>4, FieldsIs
  <2> QED
    BY <1>6, <2>1, <2>2
<1> QED
  BY <1>3, <1>6, <1>7, WaitingStays DEF Quiet

LEMMA JoinsQuiet ==
  ASSUME IInv, NEW t \in Thread, NEW p, NEW x, p = pc'[t], x = loc'[t],
         RenewNext(t) \/ Swap(t) \/ Link(t) \/ PassId(t) \/ SetConflict(t)
  PROVE  Quiet(t, p, x)
<1>1. Types /\ LockInv(t) /\ CallInv(t)
  BY DEF IInv
<1>2. pc \in [Thread -> Place] /\ loc \in [Thread -> Locals] /\ lk \in [Lock -> Fields]
  BY <1>1 DEF Types
<1>3. PICK n, m : n = loc[t].new /\ m = loc[t].prev
  OBVIOUS
<1>4. pc[t] \in Renewing \cup Headless \cup Joined => n \in Lock
  BY <1>1, <1>3 DEF LockInv
<1>5. pc[t] \in Linking => m \in Lock
  BY <1>1, <1>3 DEF CallInv, CallAt
<1>6. CASE RenewNext(t)
  <2>1. /\ Others(t) /\ UNCHANGED <<saved, deque, trx>> /\ pc[t] = "renew_next" /\ p = "mode" /\ x = loc[t]
        /\ lk' = [lk EXCEPT ![n].next = NoLock, ![n].headPass = FALSE, ![n].signal = FALSE]
    BY <1>2, <1>3, <1>6 DEF RenewNext, Goto, Others, shared
  <2>2. n \in Lock
    BY <1>4, <2>1 DEF Renewing
  <2>3. PICK f : f = [lk[n] EXCEPT !.next = NoLock, !.headPass = FALSE, !.signal = FALSE]
    OBVIOUS
  <2>4. lk[n] \in Fields
    BY <1>2, <2>2
  <2>5. f.id = lk[n].id /\ f.mode = lk[n].mode /\ f.state = lk[n].state
    BY <2>3, <2>4 DEF Fields
  <2>6. lk' = [lk EXCEPT ![n] = f]
    BY <1>2, <2>1, <2>2, <2>3
  <2>9. saved' = saved
    BY <2>1
  <2>7. Still
    BY <1>2, <2>2, <2>5, <2>6, <2>9, FieldsIs
  <2>8. Stays(t, p, x) /\ Asks(t, p, x)
    BY <2>1 DEF Stays, Asks, AskAt, Renewing, Freeing, HoldingMutex, Waiting
  <2> QED
    BY <2>1, <2>7, <2>8 DEF Quiet
<1>7. CASE Swap(t)
  <2>1. /\ Others(t) /\ UNCHANGED <<lk, saved, deque, trx>> /\ pc[t] = "swap" /\ p \in {"first", "link"}
        /\ x.new = loc[t].new
    BY <1>2, <1>7 DEF Swap, Goto, Others, Locals
  <2>2. Still
    BY <2>1 DEF Still, Idle
  <2>3. Stays(t, p, x) /\ Asks(t, p, x)
    BY <2>1 DEF Stays, Asks, AskAt, Renewing, Freeing, HoldingMutex, Waiting
  <2> QED
    BY <2>1, <2>2, <2>3 DEF Quiet
<1>8. CASE Link(t)
  <2>1. /\ Others(t) /\ UNCHANGED <<saved, deque, trx>> /\ pc[t] = "link" /\ p = "await_id" /\ x = loc[t]
        /\ lk' = [lk EXCEPT ![m].next = n]
    BY <1>2, <1>3, <1>8 DEF Link, Goto, Others, shared
  <2>2. m \in Lock
    BY <1>5, <2>1 DEF Linking
  <2>3. PICK f : f = [lk[m] EXCEPT !.next = n]
    OBVIOUS
  <2>4. lk[m] \in Fields
    BY <1>2, <2>2
  <2>5. f.id = lk[m].id /\ f.mode = lk[m].mode /\ f.state = lk[m].state
    BY <2>3, <2>4 DEF Fields
  <2>6. lk' = [lk EXCEPT ![m] = f]
    BY <1>2, <2>1, <2>2, <2>3
  <2>9. saved' = saved
    BY <2>1
  <2>7. Still
    BY <1>2, <2>2, <2>5, <2>6, <2>9, FieldsIs
  <2>8. Stays(t, p, x) /\ Asks(t, p, x)
    BY <2>1 DEF Stays, Asks, AskAt, Renewing, Freeing, HoldingMutex, Waiting
  <2> QED
    BY <2>1, <2>7, <2>8 DEF Quiet
<1>9. CASE PassId(t)
  <2>1. /\ Others(t) /\ UNCHANGED <<saved, deque, trx>> /\ pc[t] = "pass_id" /\ p = "conflict" /\ x = loc[t]
        /\ lk' = [lk EXCEPT ![m].idPass = TRUE]
    BY <1>2, <1>3, <1>9 DEF PassId, Goto, Others, shared
  <2>2. m \in Lock
    BY <1>5, <2>1 DEF Linking
  <2>3. PICK f : f = [lk[m] EXCEPT !.idPass = TRUE]
    OBVIOUS
  <2>4. lk[m] \in Fields
    BY <1>2, <2>2
  <2>5. f.id = lk[m].id /\ f.mode = lk[m].mode /\ f.state = lk[m].state
    BY <2>3, <2>4 DEF Fields
  <2>6. lk' = [lk EXCEPT ![m] = f]
    BY <1>2, <2>1, <2>2, <2>3
  <2>9. saved' = saved
    BY <2>1
  <2>7. Still
    BY <1>2, <2>2, <2>5, <2>6, <2>9, FieldsIs
  <2>8. Stays(t, p, x) /\ Asks(t, p, x)
    BY <2>1 DEF Stays, Asks, AskAt, Renewing, Freeing, HoldingMutex, Waiting
  <2> QED
    BY <2>1, <2>7, <2>8 DEF Quiet
<1>10. CASE SetConflict(t)
  <2>1. /\ Others(t) /\ UNCHANGED <<lk, saved, deque, trx>> /\ pc[t] = "conflict" /\ p = "head" /\ x = loc[t]
    <3>1. conflict \in [Thread -> Node]
      BY <1>1 DEF Types
    <3> QED
      BY <1>2, <1>10, <3>1 DEF SetConflict, Goto, Others
  <2>2. Still
    BY <2>1 DEF Still, Idle
  <2>3. Stays(t, p, x) /\ Asks(t, p, x)
    BY <2>1 DEF Stays, Asks, AskAt, Renewing, Freeing, HoldingMutex, Waiting
  <2> QED
    BY <2>1, <2>2, <2>3 DEF Quiet
<1> QED
  BY <1>6, <1>7, <1>8, <1>9, <1>10

\* A release goes on, or it is over.
LEMMA ReleasesQuiet ==
  ASSUME IInv, NEW t \in Thread, NEW p, NEW x, p = pc'[t], x = loc'[t],
         LockHead(t) \/ Front(t) \/ Advance(t) \/ PassHead(t) \/ NewFront(t)
           \/ WakeHead(t) \/ WakeNext(t) \/ WakeOther(t)
  PROVE  Quiet(t, p, x) \/ (Unlock(t) /\ Still /\ pc[t] \in HoldingMutex)
<1>1. Types /\ CallInv(t)
  BY DEF IInv
<1>2. pc \in [Thread -> Place] /\ loc \in [Thread -> Locals] /\ lk \in [Lock -> Fields]
  BY <1>1 DEF Types
<1>3. pc[t] \in {"head_mutex"} \cup HoldingMutex
  BY DEF LockHead, Front, Advance, PassHead, NewFront, WakeHead, WakeNext, WakeOther, HoldingMutex
<1>4. ASSUME Others(t), Still, UNCHANGED <<deque, trx>>, p \in HoldingMutex, x.i = loc[t].i
      PROVE  Quiet(t, p, x)
  <2>1. /\ pc[t] \in Freeing /\ pc[t] # "release" /\ p # "release" /\ p # "done" /\ p # "grant"
        /\ p \notin Renewing /\ pc[t] \notin Renewing
        /\ p \notin Waiting \cup {"pass_id", "conflict"} /\ pc[t] \notin Waiting \cup {"pass_id", "conflict"}
    BY <1>3, <1>4 DEF Freeing, HoldingMutex, Renewing, Waiting
  <2> QED
    BY <1>4, <2>1 DEF Quiet, Stays, Asks, AskAt
<1>5. CASE LockHead(t)
  <2>1. /\ Others(t) /\ UNCHANGED <<lk, saved, deque, trx>> /\ p \in HoldingMutex /\ x.i = loc[t].i
    BY <1>2, <1>5 DEF LockHead, Goto, Others, Locals, HoldingMutex
  <2>2. Still
    BY <2>1 DEF Still, Idle
  <2> QED
    BY <1>4, <2>1, <2>2
<1>6. CASE Front(t)
  <2>1. /\ UNCHANGED <<lk, saved>> /\ pc[t] \in HoldingMutex
        /\ Unlock(t) \/ (Others(t) /\ UNCHANGED <<deque, trx>> /\ p \in HoldingMutex /\ x.i = loc[t].i)
    BY <1>2, <1>6 DEF Front, Hold, Goto, Others, HoldingMutex
  <2>2. Still
    BY <2>1 DEF Still, Idle
  <2> QED
    BY <1>4, <2>1, <2>2
<1>7. CASE Advance(t)
  <2>1. /\ UNCHANGED <<lk, saved>> /\ pc[t] \in HoldingMutex
        /\ Unlock(t) \/ (Others(t) /\ UNCHANGED <<deque, trx>> /\ p \in HoldingMutex /\ x.i = loc[t].i)
    BY <1>2, <1>7 DEF Advance, Goto, Others, HoldingMutex, Locals
  <2>2. Still
    BY <2>1 DEF Still, Idle
  <2> QED
    BY <1>4, <2>1, <2>2
<1>8. CASE NewFront(t)
  <2>1. /\ Others(t) /\ UNCHANGED <<lk, saved, deque, trx>> /\ p \in HoldingMutex /\ x.i = loc[t].i
    BY <1>2, <1>8 DEF NewFront, Goto, Others, shared, HoldingMutex
  <2>2. Still
    BY <2>1 DEF Still, Idle
  <2> QED
    BY <1>4, <2>1, <2>2
<1>9. CASE WakeNext(t)
  <2>1. /\ UNCHANGED <<lk, saved>> /\ pc[t] \in HoldingMutex
        /\ Unlock(t) \/ (Others(t) /\ UNCHANGED <<deque, trx>> /\ p \in HoldingMutex /\ x.i = loc[t].i)
    BY <1>2, <1>9 DEF WakeNext, Goto, Others, HoldingMutex, Locals
  <2>2. Still
    BY <2>1 DEF Still, Idle
  <2> QED
    BY <1>4, <2>1, <2>2
<1>10. CASE PassHead(t)
  <2>1. PICK n : n = loc[t].prev
    OBVIOUS
  <2>2. /\ Others(t) /\ UNCHANGED <<saved, deque, trx>> /\ pc[t] = "pass_head" /\ p \in HoldingMutex /\ x.i = loc[t].i
        /\ lk' = [lk EXCEPT ![n].headPass = TRUE]
    BY <1>2, <1>10, <2>1 DEF PassHead, Goto, Others, shared, HoldingMutex
  <2>3. n \in Lock
    BY <1>1, <2>1, <2>2 DEF CallInv, CallAt
  <2>4. PICK f : f = [lk[n] EXCEPT !.headPass = TRUE]
    OBVIOUS
  <2>5. lk[n] \in Fields
    BY <1>2, <2>3
  <2>6. f.id = lk[n].id /\ f.mode = lk[n].mode /\ f.state = lk[n].state
    BY <2>4, <2>5 DEF Fields
  <2>7. lk' = [lk EXCEPT ![n] = f]
    BY <1>2, <2>2, <2>3, <2>4
  <2>8. Still
    BY <1>2, <2>2, <2>3, <2>6, <2>7, FieldsIs
  <2> QED
    BY <1>4, <2>2, <2>8
<1>11. CASE WakeHead(t) \/ WakeOther(t)
  <2>1. PICK n : n = loc[t].target
    OBVIOUS
  <2>2. /\ saved' = saved /\ pc[t] \in HoldingMutex /\ Wake(n)
        /\ Unlock(t) \/ \E q \in HoldingMutex : Hold(t, q)
        /\ conflict' = conflict
    BY <1>11, <2>1 DEF WakeHead, WakeOther, HoldingMutex
  <2>3. n \in Lock
    BY <1>1, <2>1, <2>2 DEF CallInv, CallAt
  <2>4. PICK f : f = [lk[n] EXCEPT !.signal = TRUE]
    OBVIOUS
  <2>5. lk[n] \in Fields
    BY <1>2, <2>3
  <2>6. f.id = lk[n].id /\ f.mode = lk[n].mode /\ f.state = lk[n].state
    BY <2>4, <2>5 DEF Fields
  <2>7. lk' = [lk EXCEPT ![n] = f]
    BY <1>2, <2>2, <2>3, <2>4 DEF Wake
  <2>8. Still
    BY <1>2, <2>2, <2>3, <2>6, <2>7, FieldsIs
  <2>9. CASE \E q \in HoldingMutex : Hold(t, q)
    <3>1. Others(t) /\ UNCHANGED <<deque, trx>> /\ p \in HoldingMutex /\ x.i = loc[t].i
      BY <1>2, <2>2, <2>9 DEF Hold, Goto, Others
    <3> QED
      BY <1>4, <2>8, <3>1
  <2> QED
    BY <2>2, <2>8, <2>9
<1> QED
  BY <1>5, <1>6, <1>7, <1>8, <1>9, <1>10, <1>11

LEMMA UnlockOthers ==
  ASSUME IInv, NEW t \in Thread, Unlock(t), conflict' = conflict
  PROVE  Others(t)
<1>1. Types
  BY DEF IInv
<1>2. pc \in [Thread -> Place] /\ loc \in [Thread -> Locals] /\ deque \in [Thread -> Seq(Lock)] /\ trx \in [Thread -> Nat \ {0}]
  BY <1>1 DEF Types
<1> QED
  BY <1>2 DEF Unlock, Goto, Others

LEMMA UnlockWork ==
  ASSUME IInv, NEW t \in Thread, WorkInv(t), Unlock(t), Idle, pc[t] \in HoldingMutex
  PROVE  WorkInv(t)'
<1>1. Types /\ ProgramInv(t)
  BY DEF IInv
<1>2. pc \in [Thread -> Place] /\ loc \in [Thread -> Locals] /\ deque \in [Thread -> Seq(Lock)] /\ trx \in [Thread -> Nat \ {0}]
  BY <1>1 DEF Types
<1>3. PICK p, x : p = pc'[t] /\ x = loc'[t]
  OBVIOUS
<1>4. pc[t] \in Freeing /\ pc[t] # "release" /\ pc[t] \notin Renewing /\ loc[t].i \in 1 .. Len(deque[t])
  BY <1>1 DEF Freeing, HoldingMutex, Renewing, ProgramInv
<1>5. \A n \in 1 .. Len(deque[t]) : n <= loc[t].i => deque[t][n] \in Lock /\ lk'[deque[t][n]].state = "OBSOLETE"
  BY <1>2, <1>4 DEF WorkInv, Idle
<1>6. \A l \in Lock : Owner(l) = t /\ Created(l)' /\ lk'[l].state # "OBSOLETE" => l \in Locks(t)
  BY <1>4 DEF WorkInv, Idle, Created
<1>7. CASE loc[t].i < Len(deque[t])
  <2>1. p = "release" /\ x.i = loc[t].i + 1 /\ deque' = deque /\ trx' = trx
    BY <1>2, <1>3, <1>7 DEF Unlock, Goto, NoLocals
  <2>2. p \notin Renewing /\ p # "done"
    BY <2>1 DEF Renewing
  <2>3. \A n \in 1 .. Len(deque'[t]) : Rec(deque'[t][n]) = Program(t)'[n].rec
    BY <2>1 DEF WorkInv, Program
  <2>4. \A n \in 1 .. Len(deque'[t]) : n < x.i => lk'[deque'[t][n]].state = "OBSOLETE"
    BY <1>2, <1>4, <1>5, <2>1
  <2>5. Locks(t)' = Locks(t)
    BY <2>1 DEF Locks
  <2> QED
    BY <1>3, <1>6, <2>1, <2>2, <2>3, <2>4, <2>5 DEF WorkInv
<1>8. CASE ~(loc[t].i < Len(deque[t]))
  <2>1. p \in {"pick", "done"} /\ deque'[t] = << >>
    BY <1>2, <1>3, <1>8 DEF Unlock, Goto
  <2>2. p \notin Renewing /\ p \notin Freeing /\ Len(deque'[t]) = 0
    BY <2>1 DEF Renewing, Freeing, HoldingMutex
  <2>3. \A l \in Locks(t) : lk'[l].state = "OBSOLETE"
    BY <1>2, <1>4, <1>5, <1>8 DEF Locks
  <2> QED
    BY <1>3, <1>6, <2>1, <2>2, <2>3 DEF WorkInv
<1> QED
  BY <1>7, <1>8

\* A lock for the next request.
LEMMA PickWork ==
  ASSUME IInv, NEW rank, ListInv(rank), NEW t \in Thread, WorkInv(t), Pick(t)
  PROVE  OwnOnly(t) /\ WorkInv(t)'
<1>1. Types /\ ProgramInv(t) /\ CallInv(t) /\ DequeInv(t)
  BY DEF IInv, ListInv
<1>2. pc \in [Thread -> Place] /\ loc \in [Thread -> Locals] /\ lk \in [Lock -> Fields]
  BY <1>1 DEF Types
<1>3. PICK p, x, r : p = pc'[t] /\ x = loc'[t] /\ r = Wanted(t).rec
  OBVIOUS
<1>4. pc[t] = "pick" /\ UNCHANGED <<conflict, deque, trx>> /\ r \in Record
  BY <1>1, <1>3, WantedIs DEF Pick
<1>5. /\ \A n \in 1 .. Len(deque'[t]) : Rec(deque'[t][n]) = Program(t)'[n].rec
      /\ Wanted(t)'.rec = r /\ Locks(t)' = Locks(t)
  BY <1>3, <1>4 DEF WorkInv, Program, Wanted, Locks
<1>6. pc[t] \notin Renewing
  BY <1>4 DEF Renewing
<1>7. CASE loc[t].i > saved[t][r] /\ Create(t)
  <2>1. PICK n : n = <<t, r, saved[t][r] + 1>>
    OBVIOUS
  <2>2. /\ Others(t) /\ x.new = n /\ p = "mode" /\ lk' = lk /\ saved' = [saved EXCEPT ![t][r] = @ + 1]
    BY <1>2, <1>3, <1>4, <1>7, <2>1 DEF Create, Goto, Others, Locals
  <2>3. saved \in [Thread -> [Record -> 0 .. MaxLocks]] /\ saved[t][r] \in 0 .. MaxLocks /\ MaxLocks \in Nat
    BY <1>1, <1>4, LockIs DEF Types
  <2>4. saved'[t][r] = saved[t][r] + 1 /\ \A u \in Thread, q \in Record : u # t \/ q # r => saved'[u][q] = saved[u][q]
    BY <1>4, <2>2, <2>3
  <2>5. \A l \in Lock \ {n} : Created(l)' <=> Created(l)
    <3>1. ASSUME NEW l \in Lock \ {n}
          PROVE  Created(l)' <=> Created(l)
      <4>1. CASE Owner(l) = t /\ Rec(l) = r
        <5>1. l = <<t, r, l[3]>> /\ l[3] \in Nat /\ l[3] # saved[t][r] + 1
          BY <2>1, <3>1, <4>1, LockIs DEF Lock, Owner, Rec
        <5>2. saved'[t][r] = saved[t][r] + 1
          BY <2>4
        <5> QED
          BY <2>3, <4>1, <5>1, <5>2, SMTT(60) DEF Created
      <4>2. CASE ~(Owner(l) = t /\ Rec(l) = r)
        BY <2>4, <4>2, LockIs DEF Created
      <4> QED
        BY <4>1, <4>2
    <3> QED
      BY <3>1
  <2>6. Owner(n) = t /\ Rec(n) = r
    BY <2>1 DEF Owner, Rec
  <2>7. OwnOnly(t)
    BY <2>2, <2>5, <2>6 DEF OwnOnly
  <2>8. p \in Renewing /\ p \notin Freeing /\ p # "done"
    BY <2>2 DEF Renewing, Freeing, HoldingMutex
  <2>9. \A l \in Lock : Owner(l) = t /\ Created(l)' /\ lk'[l].state # "OBSOLETE" => l \in Locks(t) \/ l = n
    BY <1>6, <2>2, <2>5 DEF WorkInv
  <2> QED
    BY <1>3, <1>5, <2>2, <2>6, <2>7, <2>8, <2>9 DEF WorkInv
<1>8. CASE loc[t].i <= saved[t][r] /\ Recyclable(<<t, r, loc[t].i>>) /\ Recycle(t, <<t, r, loc[t].i>>)
  <2>1. PICK n : n = <<t, r, loc[t].i>>
    OBVIOUS
  <2>2. /\ Others(t) /\ x.new = n /\ p = "renew_state" /\ saved' = saved
        /\ lk' = [lk EXCEPT ![n].id = MaxId, ![n].idPass = FALSE]
    BY <1>2, <1>3, <1>4, <1>8, <2>1 DEF Recycle, Goto, Others, Locals
  <2>3. \A l \in Lock : lk'[l].state = lk[l].state
    <3>1. ASSUME NEW l \in Lock PROVE lk'[l].state = lk[l].state
      <4>1. lk[l] \in Fields
        BY <1>2
      <4>2. lk'[l] = lk[l] \/ lk'[l] = [lk[l] EXCEPT !.id = MaxId, !.idPass = FALSE]
        BY <1>2, <2>2
      <4> QED
        BY <4>1, <4>2 DEF Fields
    <3> QED
      BY <3>1
  <2>4. Owner(n) = t /\ Rec(n) = r /\ \A l \in Lock : Created(l)' <=> Created(l)
    BY <2>1, <2>2 DEF Owner, Rec, Created
  <2>5. OwnOnly(t)
    BY <2>2, <2>3, <2>4 DEF OwnOnly
  <2>6. p \in Renewing /\ p \notin Freeing /\ p # "done"
    BY <2>2 DEF Renewing, Freeing, HoldingMutex
  <2>7. \A l \in Lock : Owner(l) = t /\ Created(l)' /\ lk'[l].state # "OBSOLETE" => l \in Locks(t)
    BY <1>6, <2>3, <2>4 DEF WorkInv
  <2> QED
    BY <1>3, <1>5, <2>2, <2>4, <2>5, <2>6, <2>7 DEF WorkInv
<1>9. CASE loc' = [loc EXCEPT ![t].i = @ + 1] /\ UNCHANGED <<lk, saved, pc>>
  <2>1. Others(t) /\ p = "pick"
    BY <1>2, <1>3, <1>4, <1>9 DEF Others
  <2>2. Idle /\ p \notin Renewing /\ p \notin Freeing
    BY <1>9, <2>1 DEF Idle, Renewing, Freeing, HoldingMutex
  <2>3. Stays(t, p, x)
    BY <1>4, <2>1, <2>2 DEF Stays
  <2>4. WorkInv(t)'
    BY <1>3, <2>2, <2>3, WorkStays
  <2> QED
    BY <2>1, <2>2, <2>4, IdleOwn
<1> QED
  BY <1>3, <1>7, <1>8, <1>9 DEF Pick

\* The new lock before it joins the list.
LEMMA RenewStateWork ==
  ASSUME IInv, NEW t \in Thread, WorkInv(t), RenewState(t)
  PROVE  OwnOnly(t) /\ WorkInv(t)'
<1>1. Types /\ LockInv(t)
  BY DEF IInv
<1>2. pc \in [Thread -> Place] /\ lk \in [Lock -> Fields]
  BY <1>1 DEF Types
<1>3. PICK p, x, n : p = pc'[t] /\ x = loc'[t] /\ n = loc[t].new
  OBVIOUS
<1>4. /\ Others(t) /\ UNCHANGED <<saved, deque, trx>> /\ pc[t] = "renew_state" /\ p = "renew_next" /\ x = loc[t]
      /\ lk' = [lk EXCEPT ![n].state = "ACTIVE"]
  BY <1>2, <1>3 DEF RenewState, Goto, Others, shared
<1>5. pc[t] \in Renewing /\ p \in Renewing /\ p \notin Freeing /\ p # "done"
  BY <1>4 DEF Renewing, Freeing, HoldingMutex
<1>6. n \in Lock /\ Owner(n) = t
  BY <1>1, <1>3, <1>5 DEF LockInv
<1>7. \A l \in Lock : l # n => lk'[l] = lk[l]
  BY <1>2, <1>4, <1>6
<1>8. \A l : Created(l)' <=> Created(l)
  BY <1>4 DEF Created
<1>9. OwnOnly(t)
  BY <1>4, <1>6, <1>7, <1>8 DEF OwnOnly
<1>10. /\ \A k \in 1 .. Len(deque'[t]) : Rec(deque'[t][k]) = Program(t)'[k].rec
       /\ Rec(x.new) = Wanted(t)'.rec /\ Locks(t)' = Locks(t)
  BY <1>4, <1>5 DEF WorkInv, Program, Wanted, Locks
<1>11. \A l \in Lock : Owner(l) = t /\ Created(l)' /\ lk'[l].state # "OBSOLETE" => l \in Locks(t) \/ l = n
  BY <1>3, <1>7, <1>8 DEF WorkInv
<1> QED
  BY <1>3, <1>4, <1>5, <1>9, <1>10, <1>11 DEF WorkInv

LEMMA SetModeWork ==
  ASSUME IInv, NEW t \in Thread, WorkInv(t), SetMode(t)
  PROVE  OwnOnly(t) /\ WorkInv(t)'
<1>1. Types /\ LockInv(t) /\ ProgramInv(t)
  BY DEF IInv
<1>2. pc \in [Thread -> Place] /\ lk \in [Lock -> Fields] /\ deque \in [Thread -> Seq(Lock)]
  BY <1>1 DEF Types
<1>3. PICK p, x, n, s : p = pc'[t] /\ x = loc'[t] /\ n = loc[t].new /\ s = deque[t]
  OBVIOUS
<1>4. /\ Others(t) /\ UNCHANGED <<saved, trx>> /\ pc[t] = "mode" /\ p = "swap" /\ x = loc[t]
      /\ lk' = [lk EXCEPT ![n].mode = Wanted(t).mode] /\ deque'[t] = Append(s, n)
  BY <1>2, <1>3 DEF SetMode, Goto, Others
<1>5. pc[t] \in Renewing /\ p \notin Renewing /\ p \notin Freeing /\ p # "done"
  BY <1>4 DEF Renewing, Freeing, HoldingMutex
<1>6. n \in Lock /\ Owner(n) = t /\ s \in Seq(Lock)
  BY <1>1, <1>2, <1>3, <1>5 DEF LockInv
<1>7. \A l \in Lock : lk'[l].state = lk[l].state
  <2>1. /\ \A l \in Lock : l # n => lk'[l] = lk[l]
        /\ lk'[n] = [lk[n] EXCEPT !.mode = Wanted(t).mode] /\ lk[n] \in Fields
    BY <1>2, <1>4, <1>6
  <2>2. lk'[n].state = lk[n].state
    BY <2>1 DEF Fields
  <2> QED
    BY <2>1, <2>2
<1>8. \A l : Created(l)' <=> Created(l)
  BY <1>4 DEF Created
<1>9. OwnOnly(t)
  BY <1>4, <1>7, <1>8 DEF OwnOnly
<1>10. PICK d : d = deque'[t]
  OBVIOUS
<1>11. Len(d) = Len(s) + 1 /\ d[Len(s) + 1] = n /\ Len(s) \in Nat /\ \A k \in 1 .. Len(s) : d[k] = s[k]
  BY <1>4, <1>6, <1>10
<1>12. \A k \in 1 .. Len(d) : Rec(d[k]) = Program(t)'[k].rec
  <2>1. Rec(n) = Program(t)[Len(s) + 1].rec
    BY <1>3, <1>5 DEF WorkInv, Wanted
  <2>2. \A k \in 1 .. Len(s) : Rec(s[k]) = Program(t)[k].rec
    BY <1>3 DEF WorkInv
  <2>3. Program(t)' = Program(t)
    BY <1>4 DEF Program
  <2>4. \A k \in 1 .. Len(d) : k \in 1 .. Len(s) \/ k = Len(s) + 1
    BY <1>11
  <2> QED
    BY <1>11, <2>1, <2>2, <2>3, <2>4
<1>13. Locks(t)' = Locks(t) \cup {n}
  <2>1. Locks(t)' = {d[k] : k \in 1 .. Len(d)} /\ Locks(t) = {s[k] : k \in 1 .. Len(s)}
    BY <1>3, <1>10 DEF Locks
  <2>2. 1 .. Len(d) = (1 .. Len(s)) \cup {Len(s) + 1}
    BY <1>11
  <2> QED
    BY <1>11, <2>1, <2>2
<1>14. \A l \in Lock : Owner(l) = t /\ Created(l)' /\ lk'[l].state # "OBSOLETE" => l \in Locks(t) \/ l = n
  BY <1>3, <1>7, <1>8 DEF WorkInv
<1> QED
  BY <1>3, <1>5, <1>9, <1>10, <1>12, <1>13, <1>14 DEF WorkInv

LEMMA OwnWork ==
  ASSUME IInv, NEW rank, ListInv(rank), NEW t \in Thread, WorkInv(t),
         AwaitId(t) \/ FirstLock(t) \/ Deadlock(t) \/ GiveUp(t) \/ Grant(t) \/ MarkObsolete(t)
  PROVE  OwnOnly(t) /\ WorkInv(t)'
<1>1. Types /\ LockInv(t) /\ ProgramInv(t) /\ DequeInv(t)
  BY DEF IInv, ListInv
<1>2. pc \in [Thread -> Place] /\ lk \in [Lock -> Fields] /\ loc \in [Thread -> Locals] /\ conflict \in [Thread -> Node]
      /\ deque \in [Thread -> Seq(Lock)]
  BY <1>1 DEF Types
<1>3. PICK p, x, n : p = pc'[t] /\ x = loc'[t] /\ n = loc[t].new
  OBVIOUS
<1>4. CASE AwaitId(t) \/ FirstLock(t)
  <2>1. /\ Others(t) /\ UNCHANGED <<saved, deque, trx>> /\ pc[t] \in {"await_id", "first"} /\ p \in {"pass_id", "conflict"}
        /\ \E i : lk' = [lk EXCEPT ![n].id = i]
    BY <1>2, <1>3, <1>4 DEF AwaitId, FirstLock, Goto, Others, shared
  <2>2. \A l \in Lock : lk'[l].state = lk[l].state
    <3>1. PICK i : lk' = [lk EXCEPT ![n].id = i]
      BY <2>1
    <3>2. ASSUME NEW l \in Lock PROVE lk'[l].state = lk[l].state
      <4>1. lk[l] \in Fields
        BY <1>2
      <4>2. lk'[l] = lk[l] \/ lk'[l] = [lk[l] EXCEPT !.id = i]
        BY <1>2, <3>1
      <4> QED
        BY <4>1, <4>2 DEF Fields
    <3> QED
      BY <3>2
  <2>3. Idle /\ Others(t) /\ UNCHANGED <<deque, trx>>
    BY <2>1, <2>2 DEF Idle
  <2>4. p # "done" /\ p \notin Renewing /\ pc[t] \notin Renewing /\ p \notin Freeing
    BY <2>1 DEF Renewing, Freeing, HoldingMutex
  <2>5. Stays(t, p, x)
    BY <2>3, <2>4 DEF Stays
  <2>6. WorkInv(t)'
    BY <1>3, <2>3, <2>5, WorkStays
  <2> QED
    BY <2>3, <2>6, IdleOwn
<1>5. CASE Deadlock(t)
  <2>1. /\ Others(t) /\ UNCHANGED <<saved, deque, trx>> /\ pc[t] = "deadlock" /\ p = "give_up"
        /\ lk' = [lk EXCEPT ![n].state = "OBSOLETE"]
    BY <1>2, <1>3, <1>5 DEF Deadlock, Goto, Others, shared
  <2>2. n \in Lock /\ Owner(n) = t
    BY <1>1, <1>3, <2>1 DEF LockInv, Joined, Waiting
  <2>3. \A l \in Lock : l # n => lk'[l] = lk[l]
    BY <1>2, <2>1
  <2>4. lk'[n].state = "OBSOLETE"
    <3>1. lk'[n] = [lk[n] EXCEPT !.state = "OBSOLETE"] /\ lk[n] \in Fields
      BY <1>2, <2>1, <2>2
    <3> QED
      BY <3>1 DEF Fields
  <2>5. \A l : Created(l)' <=> Created(l)
    BY <2>1 DEF Created
  <2>6. OwnOnly(t)
    BY <2>1, <2>2, <2>3, <2>5 DEF OwnOnly
  <2>7. p # "done" /\ p \notin Renewing /\ pc[t] \notin Renewing /\ p \notin Freeing
    BY <2>1 DEF Renewing, Freeing, HoldingMutex
  <2>8. /\ \A k \in 1 .. Len(deque'[t]) : Rec(deque'[t][k]) = Program(t)'[k].rec
        /\ Locks(t)' = Locks(t)
    BY <2>1 DEF WorkInv, Program, Locks
  <2>9. \A l \in Lock : Owner(l) = t /\ Created(l)' /\ lk'[l].state # "OBSOLETE" => l \in Locks(t)
    BY <2>3, <2>4, <2>5, <2>7 DEF WorkInv
  <2> QED
    BY <1>3, <2>6, <2>7, <2>8, <2>9 DEF WorkInv
<1>6. CASE GiveUp(t) \/ Grant(t)
  <2>1. /\ Others(t) /\ UNCHANGED <<lk, saved, deque, trx>> /\ pc[t] \in {"give_up", "grant"} /\ p \in {"release", "pick"}
        /\ x.i = 1
    BY <1>2, <1>3, <1>6 DEF GiveUp, Grant, Goto, Others, NoLocals
  <2>2. OwnOnly(t)
    BY <2>1 DEF OwnOnly, Created
  <2>3. p # "done" /\ p \notin Renewing /\ pc[t] \notin Renewing
    BY <2>1 DEF Renewing
  <2>4. p \in Freeing => p = "release"
    BY <2>1 DEF Freeing, HoldingMutex
  <2>5. /\ \A k \in 1 .. Len(deque'[t]) : Rec(deque'[t][k]) = Program(t)'[k].rec
        /\ Locks(t)' = Locks(t)
    BY <2>1 DEF WorkInv, Program, Locks
  <2>6. \A l \in Lock : Owner(l) = t /\ Created(l)' /\ lk'[l].state # "OBSOLETE" => l \in Locks(t)
    BY <2>1, <2>3 DEF WorkInv, Created
  <2>7. \A k \in 1 .. Len(deque'[t]) : ~(k < x.i)
    BY <2>1
  <2> QED
    BY <1>3, <2>2, <2>3, <2>4, <2>5, <2>6, <2>7 DEF WorkInv
<1>7. CASE MarkObsolete(t)
  <2>1. PICK k, i : k = Releases(t) /\ i = loc[t].i
    OBVIOUS
  <2>2. /\ Others(t) /\ UNCHANGED <<saved, deque, trx>> /\ pc[t] = "release" /\ p = "head_mutex" /\ x.i = i
        /\ lk' = [lk EXCEPT ![k].state = "OBSOLETE"]
    BY <1>2, <1>3, <1>7, <2>1 DEF MarkObsolete, Goto, Others, shared
  <2>3. pc[t] \in Freeing /\ p # "done" /\ p \notin Renewing /\ pc[t] \notin Renewing /\ pc[t] # "swap"
    BY <2>2 DEF Renewing, Freeing, HoldingMutex
  <2>4. i \in 1 .. Len(deque[t]) /\ deque[t][i] = k /\ k \in Lock /\ k \in Locks(t)
    BY <1>1, <1>2, <2>1, <2>3 DEF ProgramInv, Releases, Locks
  <2>5. Owner(k) = t
    BY <1>1, <2>4 DEF DequeInv
  <2>6. \A l \in Lock : l # k => lk'[l] = lk[l]
    BY <1>2, <2>2
  <2>7. lk'[k].state = "OBSOLETE"
    <3>1. lk'[k] = [lk[k] EXCEPT !.state = "OBSOLETE"] /\ lk[k] \in Fields
      BY <1>2, <2>2, <2>4
    <3> QED
      BY <3>1 DEF Fields
  <2>8. \A l : Created(l)' <=> Created(l)
    BY <2>2 DEF Created
  <2>9. OwnOnly(t)
    BY <2>2, <2>5, <2>6, <2>8 DEF OwnOnly
  <2>10. /\ \A j \in 1 .. Len(deque'[t]) : Rec(deque'[t][j]) = Program(t)'[j].rec
         /\ Locks(t)' = Locks(t)
    BY <2>2 DEF WorkInv, Program, Locks
  <2>11. \A l \in Lock : Owner(l) = t /\ Created(l)' /\ lk'[l].state # "OBSOLETE" => l \in Locks(t)
    BY <2>3, <2>6, <2>7, <2>8 DEF WorkInv
  <2>12. \A j \in 1 .. Len(deque[t]) : j < i \/ j = i => lk'[deque[t][j]].state = "OBSOLETE"
    <3>1. ASSUME NEW j \in 1 .. Len(deque[t]), j < i \/ j = i PROVE lk'[deque[t][j]].state = "OBSOLETE"
      <4>1. deque[t][j] \in Lock
        BY <1>2
      <4>2. j < i => lk[deque[t][j]].state = "OBSOLETE"
        BY <2>1, <2>3 DEF WorkInv
      <4> QED
        BY <2>4, <2>6, <2>7, <3>1, <4>1, <4>2
    <3> QED
      BY <3>1
  <2>13. \A j \in 1 .. Len(deque'[t]) :
           j < x.i \/ (j = x.i /\ p # "release") => lk'[deque'[t][j]].state = "OBSOLETE"
    BY <2>2, <2>12
  <2> QED
    BY <1>3, <2>3, <2>9, <2>10, <2>11, <2>13 DEF WorkInv
<1> QED
  BY <1>4, <1>5, <1>6, <1>7

\* The transactions go through their requests, and release every lock.
LEMMA NextWorked == IInv /\ Ordered /\ Worked /\ [Next]_vars => Worked'
<1> SUFFICES ASSUME IInv, Ordered, Worked, [Next]_vars PROVE Worked'
  OBVIOUS
<1>1. PICK rank : ListInv(rank)
  BY DEF Ordered, Orderly
<1>2. ASSUME NEW t \in Thread, NEW p, NEW x, p = pc'[t], x = loc'[t], Quiet(t, p, x) PROVE Worked'
  <2>1. WorkInv(t) /\ OwnOnly(t) /\ Idle /\ Stays(t, p, x)
    BY <1>2, IdleOwn DEF Quiet, Worked, Still
  <2>2. WorkInv(t)'
    BY <1>2, <2>1, WorkStays
  <2> QED
    BY <1>1, <2>1, <2>2, WorkStep
<1>3. ASSUME NEW t \in Thread, OwnOnly(t) /\ WorkInv(t)' PROVE Worked'
  BY <1>1, <1>3, WorkStep
<1>4. ASSUME NEW t \in Thread, Step(t) PROVE Worked'
  <2>1. PICK p, x : p = pc'[t] /\ x = loc'[t]
    OBVIOUS
  <2>2. WorkInv(t)
    BY DEF Worked
  <2>3. CASE Searching(t) \/ FromHead(t) \/ Collect(t) \/ CollectNext(t) \/ Check(t) \/ CheckId(t) \/ CheckMode(t)
    BY <1>2, <2>1, <2>3, LooksQuiet
  <2>4. CASE Wait(t) \/ Unwait(t) \/ Sleep(t) \/ Awake(t)
    BY <1>1, <1>2, <2>1, <2>4, StatesQuiet
  <2>5. CASE RenewNext(t) \/ Swap(t) \/ Link(t) \/ PassId(t) \/ SetConflict(t)
    BY <1>2, <2>1, <2>5, JoinsQuiet
  <2>6. CASE LockHead(t) \/ Front(t) \/ Advance(t) \/ PassHead(t) \/ NewFront(t)
               \/ WakeHead(t) \/ WakeNext(t) \/ WakeOther(t)
    <3>1. CASE Quiet(t, p, x)
      BY <1>2, <2>1, <3>1
    <3>2. CASE Unlock(t) /\ Still /\ pc[t] \in HoldingMutex
      <4>1. conflict' = conflict
        BY <2>6 DEF LockHead, Front, Advance, PassHead, NewFront, WakeHead, WakeNext, WakeOther, shared
      <4>2. Idle /\ OwnOnly(t)
        BY <3>2, <4>1, UnlockOthers, IdleOwn DEF Still
      <4>3. WorkInv(t)'
        BY <2>2, <3>2, <4>2, UnlockWork
      <4> QED
        BY <1>3, <4>2, <4>3
    <3> QED
      BY <2>1, <2>6, <3>1, <3>2, ReleasesQuiet
  <2>7. CASE Pick(t)
    BY <1>1, <1>3, <2>2, <2>7, PickWork
  <2>8. CASE RenewState(t)
    BY <1>3, <2>2, <2>8, RenewStateWork
  <2>9. CASE SetMode(t)
    BY <1>3, <2>2, <2>9, SetModeWork
  <2>10. CASE AwaitId(t) \/ FirstLock(t) \/ Deadlock(t) \/ GiveUp(t) \/ Grant(t) \/ MarkObsolete(t)
    BY <1>1, <1>3, <2>2, <2>10, OwnWork
  <2> QED
    BY <1>4, <2>3, <2>4, <2>5, <2>6, <2>7, <2>8, <2>9, <2>10 DEF Step, Acquiring, Releasing
<1>5. CASE UNCHANGED vars
  BY <1>5 DEF vars, Worked, WorkInv, Program, Wanted, Locks, Created
<1> QED
  BY <1>4, <1>5 DEF Next, Done

LEMMA InitWorked == Init => Worked
<1> SUFFICES ASSUME Init, NEW t \in Thread PROVE WorkInv(t)
  BY DEF Worked
<1>1. deque[t] = << >> /\ pc[t] \in {"pick", "done"} /\ Len(deque[t]) = 0
  BY DEF Init
<1>2. pc[t] \notin Renewing /\ pc[t] \notin Freeing
  BY <1>1 DEF Renewing, Freeing, HoldingMutex
<1>3. \A l \in Lock : Owner(l) = t => ~Created(l)
  <2>1. \A l \in Lock : l[3] \in Nat /\ l[3] > 0 /\ Owner(l) \in Thread /\ Rec(l) \in Record
    BY LockIs DEF Lock
  <2>2. \A u \in Thread, r \in Record : saved[u][r] = 0
    BY DEF Init
  <2> QED
    BY <2>1, <2>2 DEF Created
<1> QED
  BY <1>1, <1>2, <1>3 DEF WorkInv

-----------------------------------------------------------------------------
(* The promise of LockService *)

\* What a request in the line of LockService is here: the live lock of the thread.
Stands(t, r, l) == Live(l) /\ Owner(l) = t /\ Rec(l) = r

Earlier(l) == {m \in Lock : Live(m) /\ Before(m, l)}

\* The mapping, request by request.
Mapped ==
  /\ \A r \in Record : \A t \in Thread :
       /\ \A l \in Lock : Stands(t, r, l) =>
            LineMode[r][t] = lk[l].mode /\ LineAhead[r][t] = {Owner(m) : m \in Earlier(l)}
       /\ (\A l \in Lock : ~Stands(t, r, l)) => LineMode[r][t] = "NONE" /\ LineAhead[r][t] = {}
  /\ LineMode = [r \in Record |-> [t \in Thread |-> LineMode[r][t]]]
  /\ LineAhead = [r \in Record |-> [t \in Thread |-> LineAhead[r][t]]]
  /\ LineAsks = [t \in Thread |-> AskAt(pc[t], loc[t])]
  /\ \A l \in Lock : lk[l].mode \in Mode
  /\ \A l, m \in Lock : Live(l) /\ Live(m) /\ Owner(l) = Owner(m) /\ Rec(l) = Rec(m) => l = m

LEMMA MappedHolds == IInv /\ Ordered /\ Worked => Mapped
<1> SUFFICES ASSUME IInv, NEW rank, ListInv(rank), Worked PROVE Mapped
  BY DEF Ordered, Orderly
<1>1. Types /\ lk \in [Lock -> Fields]
  BY DEF IInv, Types
<1>2. ASSUME NEW t \in Thread PROVE \A l \in Locks(t) : l \in Lock /\ Owner(l) = t
  <2>1. DequeInv(t)
    BY DEF ListInv
  <2> QED
    BY <1>1, <2>1, LocksIs DEF DequeInv
<1>3. ASSUME NEW t \in Thread, NEW r \in Record PROVE InLine(t, r) = {l \in Lock : Stands(t, r, l)}
  <2>1. \A l \in Lock : Stands(t, r, l) => l \in InLine(t, r)
    BY DEF Stands, Live, InLine
  <2>2. \A l \in InLine(t, r) : l \in Lock /\ Stands(t, r, l)
    BY <1>2 DEF Stands, Live, InLine
  <2> QED
    BY <2>1, <2>2
<1>4. ASSUME NEW l \in Lock, NEW m \in Lock, Live(l), Live(m), Owner(l) = Owner(m), Rec(l) = Rec(m) PROVE l = m
  <2>1. Owner(l) \in Thread /\ l \in Locks(Owner(l)) /\ m \in Locks(Owner(l)) /\ WorkInv(Owner(l))
    BY <1>4, LockIs DEF Live, Worked
  <2> QED
    BY <1>4, <2>1, OneEach
<1>5. ASSUME NEW r \in Record, NEW t \in Thread, NEW l \in Lock, Stands(t, r, l)
      PROVE  LineMode[r][t] = lk[l].mode /\ LineAhead[r][t] = {Owner(m) : m \in Earlier(l)}
  <2>1. \A m \in Lock : Stands(t, r, m) => m = l
    BY <1>4, <1>5 DEF Stands
  <2>2. InLine(t, r) = {l}
    BY <1>3, <1>5, <2>1
  <2>3. LineMode[r][t] = lk[l].mode
    BY <2>2 DEF LineMode
  <2>4. LineAhead[r][t] = {u \in Thread : \E m \in InLine(u, r) : Before(m, l)}
    BY <2>2 DEF LineAhead
  <2>5. \A u \in Thread : InLine(u, r) = {m \in Lock : Stands(u, r, m)}
    BY <1>3
  <2>6. \A u \in Thread : (\E m \in InLine(u, r) : Before(m, l)) <=> \E m \in Earlier(l) : Owner(m) = u
    <3>1. ASSUME NEW u \in Thread
          PROVE  (\E m \in InLine(u, r) : Before(m, l)) <=> \E m \in Earlier(l) : Owner(m) = u
      BY <1>5, <2>5 DEF Stands, Earlier, Before
    <3> QED
      BY <3>1
  <2>7. \A m \in Earlier(l) : Owner(m) \in Thread
    BY LockIs DEF Earlier
  <2> QED
    BY <2>3, <2>4, <2>6, <2>7
<1>6. ASSUME NEW r \in Record, NEW t \in Thread, \A l \in Lock : ~Stands(t, r, l)
      PROVE  LineMode[r][t] = "NONE" /\ LineAhead[r][t] = {}
  <2>1. InLine(t, r) = {}
    BY <1>3, <1>6
  <2> QED
    BY <2>1 DEF LineMode, LineAhead
<1>7. /\ LineMode = [r \in Record |-> [t \in Thread |-> LineMode[r][t]]]
      /\ LineAhead = [r \in Record |-> [t \in Thread |-> LineAhead[r][t]]]
  BY DEF LineMode, LineAhead
<1>8. LineAsks = [t \in Thread |-> AskAt(pc[t], loc[t])]
  BY DEF LineAsks, AskAt
<1>9. \A l \in Lock : lk[l].mode \in Mode
  BY <1>1 DEF Fields
<1> QED
  BY <1>4, <1>5, <1>6, <1>7, <1>8, <1>9 DEF Mapped

\* The requests of a line are the live locks.
LEMMA LineIs ==
  ASSUME Mapped, NEW r \in Record
  PROVE  Service!Line(r) = {t \in Thread : \E l \in Lock : Stands(t, r, l)}
<1>1. ASSUME NEW t \in Thread PROVE LineMode[r][t] # "NONE" <=> \E l \in Lock : Stands(t, r, l)
  <2>1. ASSUME NEW l \in Lock, Stands(t, r, l) PROVE LineMode[r][t] # "NONE"
    <3>1. LineMode[r][t] = lk[l].mode /\ lk[l].mode \in Mode
      BY <2>1 DEF Mapped
    <3> QED
      BY <3>1 DEF Mode
  <2>2. ASSUME ~\E l \in Lock : Stands(t, r, l) PROVE LineMode[r][t] = "NONE"
    BY <2>2 DEF Mapped
  <2> QED
    BY <2>1, <2>2
<1> QED
  BY <1>1 DEF Service!Line

\* A live lock stays as it is.
SameFields(l) == lk'[l].id = lk[l].id /\ lk'[l].mode = lk[l].mode

\* The request of u for r keeps its place, if of those before it only the one of a leaves.
LEMMA KeepsPlace ==
  ASSUME Mapped, Mapped', NEW r \in Record, NEW u \in Thread, NEW a \in SUBSET Thread,
         \A l \in Lock : Stands(u, r, l)' <=> Stands(u, r, l),
         \A l \in Lock : Stands(u, r, l) =>
           /\ lk'[l].mode = lk[l].mode
           /\ {Owner(m) : m \in Earlier(l)'} = {Owner(m) : m \in Earlier(l)} \ a
  PROVE  LineMode'[r][u] = LineMode[r][u] /\ LineAhead'[r][u] = LineAhead[r][u] \ a
<1>1. CASE \E l \in Lock : Stands(u, r, l)
  <2>1. PICK l \in Lock : Stands(u, r, l)
    BY <1>1
  <2>2. LineMode[r][u] = lk[l].mode /\ LineAhead[r][u] = {Owner(m) : m \in Earlier(l)}
    BY <2>1 DEF Mapped
  <2>3. LineMode'[r][u] = lk'[l].mode /\ LineAhead'[r][u] = {Owner(m) : m \in Earlier(l)'}
    BY <2>1 DEF Mapped
  <2> QED
    BY <2>1, <2>2, <2>3
<1>2. CASE ~\E l \in Lock : Stands(u, r, l)
  <2>1. LineMode[r][u] = "NONE" /\ LineAhead[r][u] = {}
    BY <1>2 DEF Mapped
  <2>2. LineMode'[r][u] = "NONE" /\ LineAhead'[r][u] = {}
    BY <1>2 DEF Mapped
  <2> QED
    BY <2>1, <2>2
<1> QED
  BY <1>1, <1>2

\* Where the same locks are live, the lines are as before.
LEMMA SameLines ==
  ASSUME Mapped, Mapped',
         \A l \in Lock : (Live(l)' <=> Live(l)) /\ (Live(l) => SameFields(l))
  PROVE  LineMode' = LineMode /\ LineAhead' = LineAhead
<1>1. ASSUME NEW r \in Record, NEW u \in Thread
      PROVE  LineMode'[r][u] = LineMode[r][u] /\ LineAhead'[r][u] = LineAhead[r][u]
  <2>0. PICK a \in SUBSET Thread : a = {}
    OBVIOUS
  <2>1. \A l \in Lock : Stands(u, r, l)' <=> Stands(u, r, l)
    BY DEF Stands
  <2>2. ASSUME NEW l \in Lock, Live(l) PROVE Earlier(l)' = Earlier(l)
    BY <2>2 DEF Earlier, Before, SameFields
  <2>3. \A l \in Lock : Stands(u, r, l) =>
           /\ lk'[l].mode = lk[l].mode
           /\ {Owner(m) : m \in Earlier(l)'} = {Owner(m) : m \in Earlier(l)} \ a
    <3>1. ASSUME NEW l \in Lock, Stands(u, r, l)
          PROVE  lk'[l].mode = lk[l].mode /\ {Owner(m) : m \in Earlier(l)'} = {Owner(m) : m \in Earlier(l)} \ a
      <4>1. Live(l) /\ SameFields(l) /\ Earlier(l)' = Earlier(l)
        BY <2>2, <3>1 DEF Stands
      <4> QED
        BY <2>0, <4>1 DEF SameFields
    <3> QED
      BY <3>1
  <2>5. a \in SUBSET Thread
    BY <2>0
  <2>4. LineMode'[r][u] = LineMode[r][u] /\ LineAhead'[r][u] = LineAhead[r][u] \ a
    BY <2>1, <2>3, <2>5, KeepsPlace, ZenonT(90)
  <2> QED
    BY <2>0, <2>4
<1>2. /\ LineMode = [r \in Record |-> [t \in Thread |-> LineMode[r][t]]]
      /\ LineAhead = [r \in Record |-> [t \in Thread |-> LineAhead[r][t]]]
      /\ LineMode' = [r \in Record |-> [t \in Thread |-> LineMode'[r][t]]]
      /\ LineAhead' = [r \in Record |-> [t \in Thread |-> LineAhead'[r][t]]]
  BY DEF Mapped
<1> QED
  BY <1>1, <1>2

\* A lock that gets an id above all others of its list joins the line behind them.
LEMMA Joins ==
  ASSUME Mapped, Mapped', NEW t \in Thread, NEW n \in Lock, Owner(n) = t, ~Live(n),
         \A l \in Lock : Live(l)' <=> Live(l) \/ l = n,
         \A l \in Lock : Live(l) => SameFields(l),
         \A l \in Lock : Live(l) /\ Rec(l) = Rec(n) => lk'[l].id < lk'[n].id /\ ~(lk'[n].id < lk'[l].id),
         ~(lk'[n].id < lk'[n].id), \A l \in Lock : Live(l) /\ Owner(l) = t => Rec(l) # Rec(n),
         LineAsks[t] = NoLock, LineAsks' = [LineAsks EXCEPT ![t] = Rec(n)]
  PROVE  Service!Next
<1>1. PICK r, m : r = Rec(n) /\ m = lk'[n].mode
  OBVIOUS
<1>2. r \in Record /\ m \in Mode /\ Live(n)'
  BY <1>1, LockIs DEF Mapped
<1>3. Service!Line(r) = {u \in Thread : \E l \in Lock : Stands(u, r, l)}
  BY <1>2, LineIs
<1>4. LineMode'[r][t] = m /\ LineAhead'[r][t] = Service!Line(r)
  <2>1. Stands(t, r, n)'
    BY <1>1, <1>2 DEF Stands
  <2>2. LineMode'[r][t] = m /\ LineAhead'[r][t] = {Owner(l) : l \in Earlier(n)'}
    BY <1>1, <1>2, <2>1 DEF Mapped
  <2>3. Earlier(n)' = {l \in Lock : Live(l) /\ Rec(l) = r}
    BY <1>1 DEF Earlier, Before
  <2>4. {Owner(l) : l \in Earlier(n)'} = {u \in Thread : \E l \in Lock : Stands(u, r, l)}
    BY <2>3, LockIs DEF Stands
  <2> QED
    BY <1>3, <2>2, <2>4
<1>5. ASSUME NEW q \in Record, NEW u \in Thread, ~(q = r /\ u = t)
      PROVE  LineMode'[q][u] = LineMode[q][u] /\ LineAhead'[q][u] = LineAhead[q][u]
  <2>0. PICK a \in SUBSET Thread : a = {}
    OBVIOUS
  <2>1. \A l \in Lock : Stands(u, q, l)' <=> Stands(u, q, l)
    BY <1>1, <1>5 DEF Stands
  <2>2. ASSUME NEW l \in Lock, Live(l) PROVE Earlier(l)' = Earlier(l)
    <3>1. ~Before(n, l)'
      BY <2>2 DEF Before
    <3>2. \A k \in Lock : Live(k) => (Before(k, l)' <=> Before(k, l))
      BY <2>2 DEF Before, SameFields
    <3> QED
      BY <3>1, <3>2 DEF Earlier
  <2>3. \A l \in Lock : Stands(u, q, l) =>
           /\ lk'[l].mode = lk[l].mode
           /\ {Owner(k) : k \in Earlier(l)'} = {Owner(k) : k \in Earlier(l)} \ a
    <3>1. ASSUME NEW l \in Lock, Stands(u, q, l)
          PROVE  lk'[l].mode = lk[l].mode /\ {Owner(k) : k \in Earlier(l)'} = {Owner(k) : k \in Earlier(l)} \ a
      <4>1. Live(l) /\ SameFields(l) /\ Earlier(l)' = Earlier(l)
        BY <2>2, <3>1 DEF Stands
      <4> QED
        BY <2>0, <4>1 DEF SameFields
    <3> QED
      BY <3>1
  <2>5. a \in SUBSET Thread
    BY <2>0
  <2>4. LineMode'[q][u] = LineMode[q][u] /\ LineAhead'[q][u] = LineAhead[q][u] \ a
    BY <2>1, <2>3, <2>5, KeepsPlace, ZenonT(90)
  <2> QED
    BY <2>0, <2>4
<1>6. /\ LineMode = [q \in Record |-> [u \in Thread |-> LineMode[q][u]]]
      /\ LineAhead = [q \in Record |-> [u \in Thread |-> LineAhead[q][u]]]
      /\ LineMode' = [q \in Record |-> [u \in Thread |-> LineMode'[q][u]]]
      /\ LineAhead' = [q \in Record |-> [u \in Thread |-> LineAhead'[q][u]]]
  BY DEF Mapped
<1>7. LineMode' = [LineMode EXCEPT ![r][t] = m]
  BY <1>2, <1>4, <1>5, <1>6
<1>8. PICK line : line = Service!Line(r)
  OBVIOUS
<1>9. LineAhead' = [LineAhead EXCEPT ![r][t] = line]
  BY <1>2, <1>4, <1>5, <1>6, <1>8
<1>10. t \notin line
  BY <1>1, <1>3, <1>8 DEF Stands
<1>11. Service!Request(t, r, m)
  BY <1>1, <1>7, <1>8, <1>9, <1>10 DEF Service!Request, Service!Join
<1> QED
  BY <1>2, <1>11 DEF Service!Next, Mode, Service!Mode

\* A lock that is OBSOLETE now leaves the line, and nobody else moves.
LEMMA Leaves ==
  ASSUME Mapped, Mapped', NEW t \in Thread, NEW n \in Lock, Owner(n) = t, Live(n),
         \A l \in Lock : Live(l)' <=> Live(l) /\ l # n,
         \A l \in Lock : Live(l) => SameFields(l)
  PROVE  Service!Leave(t, Rec(n)) /\ t \in Service!Line(Rec(n))
<1>1. PICK r : r = Rec(n)
  OBVIOUS
<1>2. r \in Record
  BY <1>1, LockIs
<1>3. t \in Service!Line(r)
  <2>1. Stands(t, r, n)
    BY <1>1 DEF Stands
  <2> QED
    BY <1>2, <2>1, LineIs
<1>4. \A l \in Lock : Stands(t, r, l) <=> l = n
  BY <1>1 DEF Stands, Mapped
<1>5. LineMode'[r][t] = "NONE" /\ LineAhead'[r][t] = {}
  <2>1. \A l \in Lock : ~Stands(t, r, l)'
    BY <1>4 DEF Stands
  <2> QED
    BY <1>2, <2>1 DEF Mapped
<1>6. ASSUME NEW q \in Record, NEW u \in Thread, ~(q = r /\ u = t)
      PROVE  /\ LineMode'[q][u] = LineMode[q][u]
             /\ LineAhead'[q][u] = LineAhead[q][u] \ (IF q = r THEN {t} ELSE {})
  <2>1. \A l \in Lock : Stands(u, q, l)' <=> Stands(u, q, l)
    BY <1>1, <1>6 DEF Stands
  <2>2. ASSUME NEW l \in Lock, Live(l), l # n PROVE Earlier(l)' = Earlier(l) \ {n}
    BY <2>2 DEF Earlier, Before, SameFields
  <2>3. PICK a : a = IF q = r THEN {t} ELSE {}
    OBVIOUS
  <2>4. \A l \in Lock : Stands(u, q, l) =>
           /\ lk'[l].mode = lk[l].mode
           /\ {Owner(k) : k \in Earlier(l)'} = {Owner(k) : k \in Earlier(l)} \ a
    <3>1. ASSUME NEW l \in Lock, Stands(u, q, l)
          PROVE  lk'[l].mode = lk[l].mode /\ {Owner(k) : k \in Earlier(l)'} = {Owner(k) : k \in Earlier(l)} \ a
      <4>1. Live(l) /\ SameFields(l) /\ l # n /\ Rec(l) = q
        BY <1>1, <1>6, <3>1 DEF Stands
      <4>2. Earlier(l)' = Earlier(l) \ {n}
        BY <2>2, <4>1
      <4>3. \A k \in Earlier(l) : k \in Lock /\ Live(k) /\ Rec(k) = q
        BY <4>1 DEF Earlier, Before
      <4>4. CASE q = r
        <5>1. \A k \in Earlier(l) : Owner(k) = t <=> k = n
          BY <1>4, <4>3, <4>4 DEF Stands
        <5>2. {Owner(k) : k \in Earlier(l) \ {n}} = {Owner(k) : k \in Earlier(l)} \ {t}
          BY <5>1
        <5> QED
          BY <2>3, <4>1, <4>2, <4>4, <5>2 DEF SameFields
      <4>5. CASE q # r
        <5>1. n \notin Earlier(l)
          BY <1>1, <4>3, <4>5
        <5> QED
          BY <2>3, <4>1, <4>2, <4>5, <5>1 DEF SameFields
      <4> QED
        BY <4>4, <4>5
    <3> QED
      BY <3>1
  <2>5. a \in SUBSET Thread
    BY <2>3
  <2>6. LineMode'[q][u] = LineMode[q][u] /\ LineAhead'[q][u] = LineAhead[q][u] \ a
    BY <2>1, <2>4, <2>5, KeepsPlace, ZenonT(90)
  <2> QED
    BY <2>3, <2>6
<1>7. /\ LineMode = [q \in Record |-> [u \in Thread |-> LineMode[q][u]]]
      /\ LineAhead = [q \in Record |-> [u \in Thread |-> LineAhead[q][u]]]
      /\ LineMode' = [q \in Record |-> [u \in Thread |-> LineMode'[q][u]]]
      /\ LineAhead' = [q \in Record |-> [u \in Thread |-> LineAhead'[q][u]]]
  BY DEF Mapped
<1>8. LineMode' = [LineMode EXCEPT ![r][t] = "NONE"]
  <2>1. \A q \in Record : \A u \in Thread :
          LineMode'[q][u] = IF q = r /\ u = t THEN "NONE" ELSE LineMode[q][u]
    BY <1>5, <1>6
  <2> QED
    BY <1>2, <1>7, <2>1
<1>9. LineAhead' = [LineAhead EXCEPT ![r] = [u \in Thread |-> IF u = t THEN {} ELSE @[u] \ {t}]]
  <2>0. ASSUME NEW q \in Record, NEW u \in Thread
        PROVE  LineAhead'[q][u] = IF q = r THEN IF u = t THEN {} ELSE LineAhead[q][u] \ {t}
                                  ELSE LineAhead[q][u]
    <3>1. CASE q = r /\ u = t
      BY <1>5, <3>1
    <3>2. CASE ~(q = r /\ u = t)
      <4>1. LineAhead'[q][u] = LineAhead[q][u] \ (IF q = r THEN {t} ELSE {})
        BY <1>6, <3>2
      <4> QED
        BY <3>2, <4>1
    <3> QED
      BY <3>1, <3>2
  <2>1. \A q \in Record : \A u \in Thread :
          LineAhead'[q][u] = IF q = r THEN IF u = t THEN {} ELSE LineAhead[q][u] \ {t}
                             ELSE LineAhead[q][u]
    BY <2>0
  <2>2. \A q \in Record : /\ LineAhead[q] = [u \in Thread |-> LineAhead[q][u]]
                          /\ LineAhead'[q] = [u \in Thread |-> LineAhead'[q][u]]
    BY <1>7
  <2>3. LineAhead'[r] = [u \in Thread |-> IF u = t THEN {} ELSE LineAhead[r][u] \ {t}]
    BY <1>2, <2>1, <2>2
  <2>4. ASSUME NEW q \in Record, q # r PROVE LineAhead'[q] = LineAhead[q]
    BY <2>1, <2>2, <2>4
  <2>5. LineAhead = [q \in Record |-> LineAhead[q]] /\ LineAhead' = [q \in Record |-> LineAhead'[q]]
    BY <1>7
  <2> QED
    BY <1>2, <2>3, <2>4, <2>5
<1>10. Service!Leave(t, r)
  BY <1>8, <1>9 DEF Service!Leave
<1> QED
  BY <1>1, <1>3, <1>10

\* Nothing incompatible is before the lock that is granted.
LEMMA Grants ==
  ASSUME Mapped, NEW t \in Thread, NEW n \in Lock, Owner(n) = t, Live(n),
         LineMode' = LineMode, LineAhead' = LineAhead,
         LineAsks[t] = Rec(n), LineAsks' = [LineAsks EXCEPT ![t] = NoLock],
         \A m \in Earlier(n) : Compatible(m, n)
  PROVE  Service!Next
<1>1. PICK r : r = Rec(n)
  OBVIOUS
<1>2. r \in Record /\ r # NoLock
  BY <1>1, LockIs, NoLockAssumption
<1>3. Stands(t, r, n)
  BY <1>1 DEF Stands
<1>4. LineMode[r][t] = lk[n].mode /\ LineAhead[r][t] = {Owner(m) : m \in Earlier(n)}
  BY <1>2, <1>3 DEF Mapped
<1>5. ASSUME NEW u \in LineAhead[r][t] PROVE Service!Compatible(LineMode[r][u], LineMode[r][t])
  <2>1. PICK m \in Earlier(n) : u = Owner(m)
    BY <1>4
  <2>2. m \in Lock /\ Live(m) /\ Rec(m) = r /\ u \in Thread
    BY <1>1, <2>1, LockIs DEF Earlier, Before
  <2>3. LineMode[r][u] = lk[m].mode
    BY <1>2, <2>1, <2>2 DEF Mapped, Stands
  <2>4. Compatible(m, n)
    BY <2>1
  <2> QED
    BY <1>4, <2>3, <2>4 DEF Compatible, Service!Compatible
<1>6. Service!Grant(t)
  BY <1>1, <1>2, <1>5 DEF Service!Grant, Service!Free
<1> QED
  BY <1>6 DEF Service!Next

LEMMA AsksSet ==
  ASSUME Mapped, Mapped', NEW t \in Thread, Others(t), NEW v, AskAt(pc'[t], loc'[t]) = v
  PROVE  LineAsks' = [LineAsks EXCEPT ![t] = v]
<1>1. LineAsks = [u \in Thread |-> AskAt(pc[u], loc[u])]
  BY DEF Mapped
<1>2. LineAsks' = [u \in Thread |-> AskAt(pc'[u], loc'[u])]
  BY DEF Mapped, AskAt
<1>3. \A u \in Thread \ {t} : AskAt(pc'[u], loc'[u]) = AskAt(pc[u], loc[u])
  BY DEF Others
<1> QED
  BY <1>1, <1>2, <1>3

LEMMA AsksSame ==
  ASSUME Mapped, Mapped', NEW t \in Thread, Others(t), AskAt(pc'[t], loc'[t]) = AskAt(pc[t], loc[t])
  PROVE  LineAsks' = LineAsks
<1>1. LineAsks' = [LineAsks EXCEPT ![t] = AskAt(pc[t], loc[t])]
  BY AsksSet
<1>2. LineAsks = [u \in Thread |-> AskAt(pc[u], loc[u])]
  BY DEF Mapped
<1> QED
  BY <1>1, <1>2

\* A step that LockService does not see.
Unseen == LineMode' = LineMode /\ LineAhead' = LineAhead /\ LineAsks' = LineAsks

\* The lock of a thread that waits for it.
LEMMA AskerIs ==
  ASSUME IInv, NEW rank, ListInv(rank), NEW t \in Thread, pc[t] \in Waiting, NEW n, n = loc[t].new
  PROVE  n \in Lock /\ Owner(n) = t /\ Live(n) /\ AskAt(pc[t], loc[t]) = Rec(n)
<1>1. pc[t] \in Joined /\ pc[t] \notin Freeing \cup {"give_up"}
  BY DEF Joined, Waiting, Freeing, HoldingMutex
<1>2. /\ n \in Lock /\ Owner(n) = t /\ n \in Locks(t) /\ lk[n].id # MaxId /\ DequeInv(t)
  BY <1>1, Settled DEF ListInv
<1>3. lk[n].state # "OBSOLETE"
  BY <1>1, <1>2 DEF DequeInv
<1> QED
  BY <1>2, <1>3 DEF Live, AskAt

LEMMA StillLines ==
  ASSUME Mapped, Mapped', Still, \A u \in Thread : \A l \in Lock : Live(l) /\ Owner(l) = u => l \in Locks(u)',
         \A u \in Thread : Locks(u)' \subseteq Locks(u)
  PROVE  /\ LineMode' = LineMode /\ LineAhead' = LineAhead
         /\ \A l \in Lock : (Live(l)' <=> Live(l)) /\ SameFields(l)
<1>1. ASSUME NEW l \in Lock PROVE (Live(l)' <=> Live(l)) /\ SameFields(l)
  <2>1. Owner(l) \in Thread
    BY LockIs
  <2> QED
    BY <2>1 DEF Live, Still, Idle, SameFields
<1> QED
  BY <1>1, SameLines

LEMMA QuietService ==
  ASSUME IInv, NEW rank, ListInv(rank), Mapped, Mapped', GrantedInOrder', NEW t \in Thread,
         NEW p, NEW x, p = pc'[t], x = loc'[t], Quiet(t, p, x)
  PROVE  Service!Next \/ Unseen
<1>1. Others(t) /\ Still /\ deque' = deque /\ Asks(t, p, x)
  BY DEF Quiet, Stays
<1>2. \A u \in Thread : Locks(u)' = Locks(u)
  BY <1>1 DEF Locks
<1>3. /\ LineMode' = LineMode /\ LineAhead' = LineAhead
      /\ \A l \in Lock : (Live(l)' <=> Live(l)) /\ SameFields(l)
  BY <1>1, <1>2, StillLines DEF Live
<1>4. CASE AskAt(p, x) = AskAt(pc[t], loc[t])
  BY <1>1, <1>3, <1>4, AsksSame DEF Unseen
<1>5. CASE p = "grant" /\ pc[t] \in Waiting /\ x.new = loc[t].new
  <2>1. PICK n : n = loc[t].new
    OBVIOUS
  <2>2. n \in Lock /\ Owner(n) = t /\ Live(n) /\ AskAt(pc[t], loc[t]) = Rec(n)
    BY <1>5, <2>1, AskerIs
  <2>3. AskAt(p, x) = NoLock
    BY <1>5 DEF AskAt, Waiting
  <2>4. LineAsks' = [LineAsks EXCEPT ![t] = NoLock]
    BY <1>1, <2>3, AsksSet
  <2>5. LineAsks[t] = Rec(n)
    BY <2>2 DEF Mapped
  <2>6. n \in Held(t)'
    <3>1. n \in Locks(t)' /\ lk'[n].state # "OBSOLETE"
      BY <1>1, <1>2, <2>2 DEF Live, Still, Idle
    <3> QED
      BY <1>5, <3>1 DEF Held
  <2>7. \A m \in Earlier(n) : Compatible(m, n)
    <3>1. ASSUME NEW m \in Earlier(n) PROVE Compatible(m, n)
      <4>1. m \in Lock /\ Live(m) /\ Before(m, n)
        BY <3>1 DEF Earlier
      <4>2. Live(m)' /\ SameFields(m) /\ SameFields(n)
        BY <1>3, <2>2, <4>1
      <4>3. Before(m, n)'
        BY <4>1, <4>2 DEF Before, SameFields
      <4>4. Compatible(m, n)'
        BY <2>6, <4>1, <4>2, <4>3 DEF GrantedInOrder
      <4> QED
        BY <4>2, <4>4 DEF Compatible, SameFields
    <3> QED
      BY <3>1
  <2> QED
    BY <1>3, <2>2, <2>4, <2>5, <2>7, Grants
<1> QED
  BY <1>1, <1>4, <1>5 DEF Asks

\* The deque is cleared of released locks.
LEMMA UnlockService ==
  ASSUME IInv, NEW rank, ListInv(rank), Worked, Mapped, Mapped', NEW t \in Thread,
         Unlock(t), Still, pc[t] \in HoldingMutex, conflict' = conflict
  PROVE  Unseen
<1>1. Types /\ ProgramInv(t) /\ DequeInv(t) /\ WorkInv(t)
  BY DEF IInv, ListInv, Worked
<1>2. pc \in [Thread -> Place] /\ loc \in [Thread -> Locals] /\ deque \in [Thread -> Seq(Lock)]
  BY <1>1 DEF Types
<1>3. Others(t)
  BY UnlockOthers
<1>4. PICK p, x : p = pc'[t] /\ x = loc'[t]
  OBVIOUS
<1>5. p \in {"release", "pick", "done"}
  BY <1>2, <1>4 DEF Unlock, Goto
<1>6. AskAt(p, x) = NoLock /\ AskAt(pc[t], loc[t]) = NoLock
  BY <1>5 DEF AskAt, Waiting, HoldingMutex
<1>7. LineAsks' = LineAsks
  BY <1>3, <1>4, <1>6, AsksSame
<1>8. \A u \in Thread : u # t => Locks(u)' = Locks(u)
  BY <1>3 DEF Others, Locks
<1>9. pc[t] \in Freeing /\ pc[t] # "release" /\ loc[t].i \in 1 .. Len(deque[t])
  BY <1>1 DEF Freeing, HoldingMutex, ProgramInv
<1>10. Locks(t)' \subseteq Locks(t) /\ \A l \in Lock : Live(l) /\ Owner(l) = t => l \in Locks(t)'
  <2>1. CASE loc[t].i < Len(deque[t])
    <3>1. deque' = deque
      BY <2>1 DEF Unlock
    <3> QED
      BY <3>1 DEF Locks, Live
  <2>2. CASE ~(loc[t].i < Len(deque[t]))
    <3>1. deque'[t] = << >>
      BY <1>2, <2>2 DEF Unlock
    <3>2. Locks(t)' = {}
      BY <3>1 DEF Locks
    <3>3. \A n \in 1 .. Len(deque[t]) : lk[deque[t][n]].state = "OBSOLETE"
      BY <1>1, <1>2, <1>9, <2>2 DEF WorkInv
    <3>4. \A l \in Locks(t) : lk[l].state = "OBSOLETE"
      BY <3>3 DEF Locks
    <3> QED
      BY <3>2, <3>4 DEF Live
  <2> QED
    BY <2>1, <2>2
<1>11. \A u \in Thread : Locks(u)' \subseteq Locks(u) /\ \A l \in Lock : Live(l) /\ Owner(l) = u => l \in Locks(u)'
  BY <1>8, <1>10 DEF Live
<1> QED
  BY <1>7, <1>11, StillLines DEF Unseen

\* A step that changes one lock, which is live neither before nor after it.
LEMMA OneUnseen ==
  ASSUME Mapped, Mapped', NEW t \in Thread, Others(t), NEW n,
         \A l \in Lock : l # n => lk'[l] = lk[l], n \in Lock => ~Live(n) /\ ~Live(n)',
         Locks(t) \subseteq Locks(t)', Locks(t)' \subseteq Locks(t) \cup {n},
         AskAt(pc'[t], loc'[t]) = AskAt(pc[t], loc[t])
  PROVE  Unseen
<1>1. \A u \in Thread : u # t => Locks(u)' = Locks(u)
  BY DEF Others, Locks
<1>2. ASSUME NEW l \in Lock PROVE (Live(l)' <=> Live(l)) /\ (Live(l) => SameFields(l))
  <2>1. CASE l = n
    BY <2>1
  <2>2. CASE l # n
    <3>1. lk'[l] = lk[l] /\ (l \in Locks(Owner(l))' <=> l \in Locks(Owner(l)))
      BY <1>1, <2>2, LockIs
    <3> QED
      BY <3>1 DEF Live, SameFields
  <2> QED
    BY <2>1, <2>2
<1>3. LineMode' = LineMode /\ LineAhead' = LineAhead
  BY <1>2, SameLines
<1> QED
  BY <1>3, AsksSame DEF Unseen

\* The new lock is prepared outside of the lists.
LEMMA PrepareService ==
  ASSUME IInv, IInv', NEW rank, ListInv(rank), Mapped, Mapped', NEW t \in Thread,
         Pick(t) \/ RenewState(t) \/ SetMode(t) \/ GiveUp(t) \/ Grant(t)
  PROVE  Unseen
<1>1. Types /\ LockInv(t) /\ DequeInv(t)
  BY DEF IInv, ListInv
<1>2. pc \in [Thread -> Place] /\ loc \in [Thread -> Locals] /\ lk \in [Lock -> Fields] /\ deque \in [Thread -> Seq(Lock)]
  BY <1>1 DEF Types
<1>3. PICK p, x : p = pc'[t] /\ x = loc'[t]
  OBVIOUS
<1>4. CASE Pick(t)
  <2>1. PICK n : n = <<t, Wanted(t).rec, loc[t].i>>
    OBVIOUS
  <2>2. /\ pc[t] = "pick" /\ p \in {"pick", "mode", "renew_state"} /\ Others(t) /\ deque' = deque
        /\ lk' = lk \/ (lk[n].state = "OBSOLETE" /\ lk' = [lk EXCEPT ![n].id = MaxId, ![n].idPass = FALSE])
    BY <1>2, <1>3, <1>4, <2>1 DEF Pick, Create, Recycle, Recyclable, Goto, Others
  <2>3. \A l \in Lock : l # n => lk'[l] = lk[l]
    BY <1>2, <2>2
  <2>4. CASE lk' = lk
    <3>0. PICK k : k \notin Lock
      BY LockIs
    <3>1. AskAt(p, x) = AskAt(pc[t], loc[t])
      BY <2>2 DEF AskAt, Waiting
    <3>2. Locks(t)' = Locks(t)
      BY <2>2 DEF Locks
    <3> QED
      BY <1>3, <2>2, <2>4, <3>0, <3>1, <3>2, OneUnseen
  <2>5. CASE lk[n].state = "OBSOLETE" /\ lk' = [lk EXCEPT ![n].id = MaxId, ![n].idPass = FALSE]
    <3>1. AskAt(p, x) = AskAt(pc[t], loc[t])
      BY <2>2 DEF AskAt, Waiting
    <3>2. Locks(t)' = Locks(t)
      BY <2>2 DEF Locks
    <3>3. n \in Lock => lk'[n].state = "OBSOLETE"
      <4> SUFFICES ASSUME n \in Lock PROVE lk'[n].state = "OBSOLETE"
        OBVIOUS
      <4>1. lk'[n] = [lk[n] EXCEPT !.id = MaxId, !.idPass = FALSE] /\ lk[n] \in Fields
        BY <1>2, <2>5
      <4>2. lk[n].state = "OBSOLETE"
        BY <2>5
      <4> QED
        BY <4>1, <4>2 DEF Fields
    <3>4. n \in Lock => ~Live(n) /\ ~Live(n)'
      BY <2>5, <3>3 DEF Live
    <3>5. Others(t)
      BY <2>2
    <3> QED
      BY <1>3, <2>3, <3>1, <3>2, <3>4, <3>5, OneUnseen
  <2> QED
    BY <2>2, <2>4, <2>5
<1>5. CASE RenewState(t) \/ SetMode(t)
  <2>1. PICK n : n = loc[t].new
    OBVIOUS
  <2>2. /\ pc[t] \in {"renew_state", "mode"} /\ p \in {"renew_next", "swap"} /\ Others(t) /\ x = loc[t]
        /\ \/ lk' = [lk EXCEPT ![n].state = "ACTIVE"]
           \/ lk' = [lk EXCEPT ![n].mode = Wanted(t).mode]
        /\ deque'[t] = deque[t] \/ deque'[t] = Append(deque[t], n)
    BY <1>2, <1>3, <1>5, <2>1 DEF RenewState, SetMode, Goto, Others, shared
  <2>3. pc[t] \in Preparing /\ pc[t] \in Renewing
    BY <2>2 DEF Preparing, Renewing
  <2>4. n \in Lock /\ Owner(n) = t
    BY <1>1, <2>1, <2>3 DEF LockInv
  <2>5. lk[n].id = MaxId
    BY <2>1, <2>3, <2>4 DEF ListInv, IdInv, Listed, Out
  <2>6. \A l \in Lock : l # n => lk'[l] = lk[l]
    BY <1>2, <2>2
  <2>7. lk'[n].id = MaxId
    <3>1. lk[n] \in Fields /\ (lk'[n] = [lk[n] EXCEPT !.state = "ACTIVE"] \/ lk'[n] = [lk[n] EXCEPT !.mode = Wanted(t).mode])
      BY <1>2, <2>2, <2>4
    <3> QED
      BY <2>5, <3>1 DEF Fields
  <2>8. ~Live(n) /\ ~Live(n)'
    BY <2>5, <2>7 DEF Live
  <2>9. Locks(t) \subseteq Locks(t)' /\ Locks(t)' \subseteq Locks(t) \cup {n}
    <3>1. PICK d, s : d = deque'[t] /\ s = deque[t]
      OBVIOUS
    <3>2. s \in Seq(Lock) /\ (d = s \/ d = Append(s, n))
      BY <1>2, <2>2, <3>1
    <3>3. Locks(t)' = {d[k] : k \in 1 .. Len(d)} /\ Locks(t) = {s[k] : k \in 1 .. Len(s)}
      BY <3>1 DEF Locks
    <3>4. CASE d = s
      BY <3>3, <3>4
    <3>5. CASE d = Append(s, n)
      <4>1. Len(d) = Len(s) + 1 /\ d[Len(s) + 1] = n /\ Len(s) \in Nat /\ \A k \in 1 .. Len(s) : d[k] = s[k]
        BY <2>4, <3>2, <3>5
      <4>2. 1 .. Len(d) = (1 .. Len(s)) \cup {Len(s) + 1}
        BY <4>1
      <4> QED
        BY <3>3, <4>1, <4>2
    <3> QED
      BY <3>2, <3>4, <3>5
  <2>10. AskAt(p, x) = AskAt(pc[t], loc[t])
    BY <2>2 DEF AskAt, Waiting
  <2>11. Others(t)
    BY <2>2
  <2> QED
    BY <1>3, <2>6, <2>8, <2>9, <2>10, <2>11, OneUnseen
<1>6. CASE GiveUp(t) \/ Grant(t)
  <2>1. /\ Others(t) /\ lk' = lk /\ deque' = deque /\ pc[t] \in {"give_up", "grant"} /\ p \in {"release", "pick"}
    BY <1>1, <1>2, <1>3, <1>6 DEF GiveUp, Grant, Goto, Others, Types
  <2>2. PICK k : k \notin Lock
    BY LockIs
  <2>3. AskAt(p, x) = AskAt(pc[t], loc[t])
    BY <2>1 DEF AskAt, Waiting
  <2>4. Locks(t)' = Locks(t)
    BY <2>1 DEF Locks
  <2> QED
    BY <1>3, <2>1, <2>2, <2>3, <2>4, OneUnseen
<1> QED
  BY <1>4, <1>5, <1>6

\* A deadlock, and a release: the lock leaves the line.
LEMMA ReleaseService ==
  ASSUME IInv, NEW rank, ListInv(rank), Mapped, Mapped', NEW t \in Thread,
         Deadlock(t) \/ MarkObsolete(t)
  PROVE  Service!Next \/ Unseen
<1>1. Types /\ LockInv(t) /\ ProgramInv(t) /\ DequeInv(t)
  BY DEF IInv, ListInv
<1>2. pc \in [Thread -> Place] /\ loc \in [Thread -> Locals] /\ lk \in [Lock -> Fields] /\ deque \in [Thread -> Seq(Lock)]
  BY <1>1 DEF Types
<1>3. PICK p, x, n : p = pc'[t] /\ x = loc'[t] /\ n = IF pc[t] = "deadlock" THEN loc[t].new ELSE Releases(t)
  OBVIOUS
<1>4. /\ pc[t] \in {"deadlock", "release"} /\ p \in {"give_up", "head_mutex"} /\ Others(t) /\ deque' = deque
      /\ lk' = [lk EXCEPT ![n].state = "OBSOLETE"]
  BY <1>2, <1>3 DEF Deadlock, MarkObsolete, Goto, Others, shared
<1>5. n \in Lock /\ Owner(n) = t
  <2>1. CASE pc[t] = "deadlock"
    <3>1. pc[t] \in Joined
      BY <2>1 DEF Joined, Waiting
    <3> QED
      BY <1>1, <1>3, <2>1, <3>1 DEF LockInv
  <2>2. CASE pc[t] = "release"
    <3>1. pc[t] \in Freeing /\ loc[t].i \in 1 .. Len(deque[t])
      BY <1>1, <2>2 DEF ProgramInv, Freeing
    <3>2. n \in Locks(t) /\ n \in Lock
      BY <1>2, <1>3, <2>2, <3>1 DEF Releases, Locks
    <3> QED
      BY <1>1, <3>2 DEF DequeInv
  <2> QED
    BY <1>4, <2>1, <2>2
<1>6. \A l \in Lock : l # n => lk'[l] = lk[l]
  BY <1>2, <1>4
<1>7. lk'[n].state = "OBSOLETE" /\ lk'[n].id = lk[n].id /\ lk'[n].mode = lk[n].mode
  <2>1. lk'[n] = [lk[n] EXCEPT !.state = "OBSOLETE"] /\ lk[n] \in Fields
    BY <1>2, <1>4, <1>5
  <2> QED
    BY <2>1 DEF Fields
<1>8. \A u \in Thread : Locks(u)' = Locks(u)
  BY <1>4 DEF Locks
<1>9. Others(t)
  BY <1>4
<1>10. AskAt(p, x) = NoLock
  BY <1>4 DEF AskAt, Waiting
<1>11. \A l \in Lock : Live(l)' <=> Live(l) /\ l # n
  <2>1. ~Live(n)'
    BY <1>7 DEF Live
  <2>2. ASSUME NEW l \in Lock, l # n PROVE Live(l)' <=> Live(l)
    BY <1>6, <1>8, <2>2, LockIs DEF Live
  <2> QED
    BY <2>1, <2>2
<1>12. CASE ~Live(n)
  <2>1. pc[t] # "deadlock"
    <3> SUFFICES ASSUME pc[t] = "deadlock" PROVE FALSE
      OBVIOUS
    <3>1. pc[t] \in Waiting /\ n = loc[t].new
      BY <1>3 DEF Waiting
    <3> QED
      BY <1>12, <3>1, AskerIs
  <2>2. AskAt(p, x) = AskAt(pc[t], loc[t])
    BY <1>4, <1>10, <2>1 DEF AskAt, Waiting
  <2>3. ~Live(n)' /\ Locks(t)' = Locks(t)
    BY <1>5, <1>8, <1>11
  <2> QED
    BY <1>3, <1>6, <1>9, <1>12, <2>2, <2>3, OneUnseen
<1>13. CASE Live(n)
  <2>1. \A l \in Lock : Live(l) => SameFields(l)
    BY <1>6, <1>7 DEF SameFields
  <2>2. Service!Leave(t, Rec(n)) /\ t \in Service!Line(Rec(n))
    BY <1>5, <1>11, <1>13, <2>1, Leaves
  <2>3. LineAsks' = [LineAsks EXCEPT ![t] = NoLock]
    BY <1>3, <1>9, <1>10, AsksSet
  <2>4. LineAsks[t] = AskAt(pc[t], loc[t]) /\ Rec(n) \in Record /\ Rec(n) # NoLock
    BY <1>5, LockIs, NoLockAssumption DEF Mapped
  <2>5. CASE pc[t] = "deadlock"
    <3>1. LineAsks[t] = Rec(n)
      BY <1>3, <2>4, <2>5 DEF AskAt, Waiting
    <3>2. Service!Refuse(t)
      BY <2>2, <2>3, <2>4, <3>1 DEF Service!Refuse
    <3> QED
      BY <3>2 DEF Service!Next
  <2>6. CASE pc[t] = "release"
    <3>1. LineAsks[t] = NoLock
      BY <2>4, <2>6 DEF AskAt, Waiting
    <3>2. LineAsks' = LineAsks
      <4>1. AskAt(p, x) = AskAt(pc[t], loc[t])
        BY <1>10, <2>4, <3>1
      <4> QED
        BY <1>3, <1>9, <4>1, AsksSame
    <3>3. Service!Release(t, Rec(n))
      BY <2>2, <2>4, <3>1, <3>2 DEF Service!Release, Service!Holders
    <3> QED
      BY <2>4, <3>3 DEF Service!Next
  <2> QED
    BY <1>4, <2>5, <2>6
<1> QED
  BY <1>12, <1>13

\* A lock gets its id: the last in its list that has one.
LEMMA JoinService ==
  ASSUME IInv, NEW rank \in [Lock -> Nat], ListInv(rank), IdsLast, Worked, Mapped, Mapped', NEW t \in Thread,
         AwaitId(t) \/ FirstLock(t)
  PROVE  Service!Next
<1>1. Types /\ LockInv(t) /\ DequeInv(t) /\ WorkInv(t)
  BY DEF IInv, ListInv, Worked
<1>2. pc \in [Thread -> Place] /\ loc \in [Thread -> Locals] /\ lk \in [Lock -> Fields]
  BY <1>1 DEF Types
<1>3. PICK p, x, n, k, i : p = pc'[t] /\ x = loc'[t] /\ n = loc[t].new /\ k = loc[t].prev
                           /\ i = IF pc[t] = "first" THEN 0 ELSE lk[k].id + 1
  OBVIOUS
<1>4. /\ pc[t] \in {"await_id", "first"} /\ p \in {"pass_id", "conflict"} /\ Others(t) /\ x = loc[t]
      /\ deque' = deque /\ lk' = [lk EXCEPT ![n].id = i] /\ (pc[t] = "await_id" => lk[k].id # MaxId)
  BY <1>2, <1>3 DEF AwaitId, FirstLock, NextId, Goto, Others, shared
<1>5. pc[t] \in Headless /\ pc[t] \notin Freeing \cup {"give_up"}
  BY <1>4 DEF Headless, Freeing, HoldingMutex
<1>6. n \in Lock /\ Owner(n) = t /\ n \in Locks(t) /\ lk[n].state # "OBSOLETE" /\ Listed(n)
  <2>1. n \in Lock /\ Owner(n) = t /\ n \in Locks(t)
    BY <1>1, <1>3, <1>5 DEF LockInv, DequeInv
  <2> QED
    BY <1>1, <1>4, <1>5, <2>1 DEF DequeInv
<1>7. lk[n].id = MaxId
  <2>1. IdInv(rank, n)
    BY <1>6 DEF ListInv
  <2> QED
    BY <1>3, <1>4, <1>6, <2>1 DEF IdInv
<1>8. i = rank[n] /\ i # MaxId
  <2>1. JoinAt(rank, pc[t], loc[t])
    BY DEF ListInv
  <2>2. CASE pc[t] = "first"
    BY <1>3, <2>1, <2>2, NoThreadAssumption DEF JoinAt
  <2>3. CASE pc[t] = "await_id"
    <3>1. k \in Lock
      BY <1>3, <2>3, PassIs DEF Linking
    <3>2. Listed(k) /\ rank[n] = rank[k] + 1
      BY <1>3, <2>1, <2>3 DEF JoinAt, Linking
    <3>3. lk[k].id = rank[k]
      BY <1>4, <2>3, <3>1, <3>2 DEF ListInv, IdInv
    <3>4. lk[k].id + 1 < MaxId
      BY <1>4, <2>3, <3>1 DEF IdsLast
    <3>5. lk[k].id \in Nat
      BY <1>2, <3>1 DEF Fields
    <3>6. MaxId \in Nat
      BY LockIs
    <3> QED
      BY <1>3, <2>3, <3>2, <3>3, <3>4, <3>5, <3>6
  <2> QED
    BY <1>4, <2>2, <2>3
<1>9. \A l \in Lock : l # n => lk'[l] = lk[l]
  BY <1>2, <1>4
<1>10. lk'[n].id = i /\ lk'[n].state # "OBSOLETE"
  <2>1. lk'[n] = [lk[n] EXCEPT !.id = i] /\ lk[n] \in Fields
    BY <1>2, <1>4, <1>6
  <2> QED
    BY <1>6, <2>1 DEF Fields
<1>11. \A u \in Thread : Locks(u)' = Locks(u)
  BY <1>4 DEF Locks
<1>12. ~Live(n) /\ Live(n)'
  BY <1>6, <1>7, <1>8, <1>10, <1>11 DEF Live
<1>13. \A l \in Lock : Live(l)' <=> Live(l) \/ l = n
  <2>1. ASSUME NEW l \in Lock, l # n PROVE Live(l)' <=> Live(l)
    BY <1>9, <1>11, <2>1, LockIs DEF Live
  <2> QED
    BY <1>12, <2>1
<1>14. \A l \in Lock : Live(l) => SameFields(l)
  BY <1>9, <1>12 DEF SameFields
<1>15. ASSUME NEW l \in Lock, Live(l), Rec(l) = Rec(n)
       PROVE  lk'[l].id < lk'[n].id /\ ~(lk'[n].id < lk'[l].id)
  <2>1. l # n /\ lk'[l].id = lk[l].id /\ lk[l].id # MaxId
    BY <1>9, <1>12, <1>15 DEF Live
  <2>2. IdInv(rank, l) /\ OrderInv(rank, l, n) /\ OrderInv(rank, n, l)
    BY <1>6 DEF ListInv
  <2>3. Listed(l) /\ lk[l].id = rank[l]
    BY <2>1, <2>2 DEF IdInv
  <2>4. rank[l] # rank[n]
    BY <1>6, <1>15, <2>1, <2>2, <2>3 DEF OrderInv
  <2>5. ~(rank[n] < rank[l])
    BY <1>6, <1>7, <1>15, <2>1, <2>2, <2>3 DEF OrderInv
  <2>6. rank[l] \in Nat /\ rank[n] \in Nat
    BY <1>6
  <2> QED
    BY <1>8, <1>10, <2>1, <2>3, <2>4, <2>5, <2>6
<1>16. ~(lk'[n].id < lk'[n].id)
  BY <1>6, <1>8, <1>10
<1>17. ASSUME NEW l \in Lock, Live(l), Owner(l) = t PROVE Rec(l) # Rec(n)
  <2>1. l \in Locks(t)
    BY <1>17 DEF Live
  <2>2. Rec(l) = Rec(n) => l = n
    BY <1>1, <1>6, <2>1, OneEach
  <2> QED
    BY <1>12, <1>17, <2>2
<1>18. LineAsks[t] = NoLock
  <2>1. LineAsks[t] = AskAt(pc[t], loc[t])
    BY DEF Mapped
  <2> QED
    BY <1>4, <2>1 DEF AskAt, Waiting
<1>19. LineAsks' = [LineAsks EXCEPT ![t] = Rec(n)]
  <2>1. AskAt(p, x) = Rec(n) /\ Others(t)
    BY <1>3, <1>4 DEF AskAt
  <2> QED
    BY <1>3, <2>1, AsksSet
<1> QED
  BY <1>6, <1>12, <1>13, <1>14, <1>15, <1>16, <1>17, <1>18, <1>19, Joins

\* Every step is one of LockService, or none that it sees.
LEMMA NextService ==
  ASSUME IInv, IInv', IdsLast, Ordered, Worked, Mapped, Mapped', GrantedInOrder', [Next]_vars
  PROVE  Service!Next \/ Unseen
<1>1. PICK rank \in [Lock -> Nat] : ListInv(rank)
  BY DEF Ordered, Orderly
<1>2. ASSUME NEW t \in Thread, NEW p, NEW x, p = pc'[t], x = loc'[t], Quiet(t, p, x) PROVE Service!Next \/ Unseen
  BY <1>1, <1>2, QuietService
<1>3. ASSUME NEW t \in Thread, Step(t) PROVE Service!Next \/ Unseen
  <2>1. PICK p, x : p = pc'[t] /\ x = loc'[t]
    OBVIOUS
  <2>2. CASE Searching(t) \/ FromHead(t) \/ Collect(t) \/ CollectNext(t) \/ Check(t) \/ CheckId(t) \/ CheckMode(t)
    BY <1>2, <2>1, <2>2, LooksQuiet
  <2>3. CASE Wait(t) \/ Unwait(t) \/ Sleep(t) \/ Awake(t)
    BY <1>1, <1>2, <2>1, <2>3, StatesQuiet
  <2>4. CASE RenewNext(t) \/ Swap(t) \/ Link(t) \/ PassId(t) \/ SetConflict(t)
    BY <1>2, <2>1, <2>4, JoinsQuiet
  <2>5. CASE LockHead(t) \/ Front(t) \/ Advance(t) \/ PassHead(t) \/ NewFront(t)
               \/ WakeHead(t) \/ WakeNext(t) \/ WakeOther(t)
    <3>1. CASE Quiet(t, p, x)
      BY <1>2, <2>1, <3>1
    <3>2. CASE Unlock(t) /\ Still /\ pc[t] \in HoldingMutex
      <4>1. conflict' = conflict
        BY <2>5 DEF LockHead, Front, Advance, PassHead, NewFront, WakeHead, WakeNext, WakeOther, shared
      <4> QED
        BY <1>1, <3>2, <4>1, UnlockService
    <3> QED
      BY <2>1, <2>5, <3>1, <3>2, ReleasesQuiet
  <2>6. CASE Pick(t) \/ RenewState(t) \/ SetMode(t) \/ GiveUp(t) \/ Grant(t)
    BY <1>1, <2>6, PrepareService
  <2>7. CASE AwaitId(t) \/ FirstLock(t)
    BY <1>1, <2>7, JoinService
  <2>8. CASE Deadlock(t) \/ MarkObsolete(t)
    BY <1>1, <2>8, ReleaseService
  <2> QED
    BY <1>3, <2>2, <2>3, <2>4, <2>5, <2>6, <2>7, <2>8 DEF Step, Acquiring, Releasing
<1>4. CASE UNCHANGED vars
  BY <1>4 DEF vars, Unseen, LineMode, LineAhead, LineAsks, InLine, Locks, Before
<1> QED
  BY <1>3, <1>4 DEF Next, Done

LEMMA InitService == Init => Service!Init
<1> SUFFICES ASSUME Init PROVE Service!Init
  OBVIOUS
<1>1. \A t \in Thread : deque[t] = << >> /\ pc[t] \in {"pick", "done"}
  BY DEF Init
<1>2. \A t \in Thread, r \in Record : InLine(t, r) = {}
  BY <1>1 DEF InLine, Locks
<1>3. \A t \in Thread : pc[t] \notin Waiting \cup {"pass_id", "conflict"}
  BY <1>1 DEF Waiting
<1>4. LineMode = [r \in Record |-> [t \in Thread |-> "NONE"]]
  BY <1>2 DEF LineMode
<1>5. LineAhead = [r \in Record |-> [t \in Thread |-> {}]]
  BY <1>2 DEF LineAhead
<1>6. LineAsks = [t \in Thread |-> NoLock]
  BY <1>3 DEF LineAsks
<1> QED
  BY <1>4, <1>5, <1>6 DEF Service!Init

LEMMA StepOfService ==
  IInv /\ IInv' /\ IdsLast /\ Ordered /\ Ordered' /\ Worked /\ Worked' /\ [Next]_vars
    => [Service!Next]_(Service!vars)
<1> SUFFICES ASSUME IInv, IInv', IdsLast, Ordered, Ordered', Worked, Worked', [Next]_vars
             PROVE  [Service!Next]_(Service!vars)
  OBVIOUS
<1>1. Mapped
  BY MappedHolds
<1>2. Mapped' /\ GrantedInOrder'
  <2>1. (IInv /\ Ordered /\ Worked => Mapped)'
    BY MappedHolds, PTL
  <2>2. (IInv /\ Ordered => GrantedInOrder /\ MutualExclusion)'
    BY OrderedGrants, PTL
  <2> QED
    BY <2>1, <2>2
<1>3. Service!Next \/ Unseen
  BY <1>1, <1>2, NextService
<1> QED
  BY <1>3 DEF Service!vars, Unseen

\* While no list uses up its ids, AcquireLock and ReleaseLock keep the promise of LockService.
THEOREM ImplementsTheService == Spec /\ []IdsLast => ImplementsService
<1>1. Init => Worked
  BY InitWorked
<1>2. IInv /\ Ordered /\ Worked /\ [Next]_vars => Worked'
  BY NextWorked
<1>3. Spec /\ []IdsLast => [](IInv /\ Ordered /\ Worked)
  BY <1>1, <1>2, OrderedAlways, PTL DEF Spec
<1>4. Spec /\ []IdsLast => Service!Init /\ [][Service!Next]_(Service!vars)
  BY <1>3, InitService, StepOfService, PTL DEF Spec
<1> QED
  BY <1>4 DEF ImplementsService, Service!Spec

-----------------------------------------------------------------------------
(* Sleeping and waking *)

\* The places of a thread that has seen an obstacle while its lock was WAIT.
Blocked == {"fill", "pop", "sleep", "asleep"} \cup Probing

\* The places of a search that has collected locks.
Examining == {"collect", "next", "check", "check_id", "check_mode", "wait", "unwait"}

\* The places between a move of the head and the signal to the new one.
Fronting == {"pass_head", "new_front", "wake_head"}

\* A lock before l is not released yet, or its release is not over.
Waits(l) == \E u \in Thread : \E m \in InHand(u) : Before(m, l)

\* The thread that is about to sleep, or sleeps, is signalled or has someone to wait for.
WaitInv(t) ==
  /\ t \in waitSet => pc[t] = "asleep" /\ ~lk[loc[t].new].signal
  /\ pc[t] \in Blocked =>
       lk[loc[t].new].state = "WAIT" /\ (lk[loc[t].new].signal \/ Waits(loc[t].new))
  /\ pc[t] = "check_id" /\ SecondLook(t) =>
       lk[loc[t].new].signal \/ Waits(loc[t].new) \/ Behind(t, Target(t))
  /\ pc[t] \in Examining =>
       \A j \in 1 .. Len(loc[t].vec) :
         Rec(loc[t].vec[j]) = Rec(loc[t].new) /\ loc[t].vec[j] # loc[t].new
  /\ pc[t] = "done" => loc[t].i > 0

\* Who wakes others has left the head on a lock that is not released.
WakeInv(t) ==
  LET h == head[Rec(Releases(t))] IN
  /\ pc[t] \in {"wake_head", "wake_next", "wake_other"} => h \in InHand(Owner(h)) /\ h # Releases(t)
  /\ pc[t] \in {"wake_next", "wake_other"} => lk[h].signal

\* The head came to its lock with a signal, or the one who moved it is about to signal.
FrontInv(r) ==
  HasHead(r) =>
    \/ lk[head[r]].state = "OBSOLETE" \/ lk[head[r]].id = 0 \/ lk[head[r]].signal
    \/ \E u \in Thread : pc[u] \in Fronting /\ loc[u].target = head[r]

Awakes == (\A t \in Thread : WaitInv(t) /\ WakeInv(t)) /\ \A r \in Record : FrontInv(r)

\* The locks in hand are all that a thread has, or, while it releases them, the rest.
LEMMA HandIs ==
  ASSUME IInv, NEW rank, ListInv(rank), Worked, NEW t \in Thread, pc[t] = "done" => loc[t].i > 0
  PROVE  /\ InHand(t) = IF pc[t] \in Freeing THEN {deque[t][n] : n \in loc[t].i .. Len(deque[t])} ELSE Locks(t)
         /\ InHand(t) \subseteq Locks(t) /\ Locks(t) \subseteq Lock
<1>1. Types /\ ProgramInv(t) /\ LockInv(t) /\ DequeInv(t) /\ WorkInv(t)
  BY DEF IInv, ListInv, Worked
<1>2. deque[t] \in Seq(Lock) /\ loc[t].i \in Nat /\ pc[t] \in Place
  BY <1>1 DEF Types, Locals
<1>3. Locks(t) \subseteq Lock
  BY <1>1, LocksIs
<1>4. CASE pc[t] \in Freeing
  <2>1. loc[t].new = NoLock /\ pc[t] # "pick" /\ loc[t].i \in 1 .. Len(deque[t])
    BY <1>1, <1>4 DEF DequeInv, ProgramInv, Freeing, HoldingMutex
  <2>2. InHand(t) = {deque[t][n] : n \in loc[t].i .. Len(deque[t])}
    BY <2>1 DEF InHand
  <2>3. \A n \in loc[t].i .. Len(deque[t]) : n \in 1 .. Len(deque[t])
    BY <1>2, <2>1
  <2> QED
    BY <1>3, <1>4, <2>2, <2>3 DEF Locks
<1>5. CASE pc[t] = "done"
  <2>1. deque[t] = << >> /\ pc[t] \notin Freeing
    BY <1>1, <1>5 DEF WorkInv, Freeing, HoldingMutex
  <2>2. loc[t].i .. Len(deque[t]) = {} /\ 1 .. Len(deque[t]) = {}
    BY <1>2, <1>5, <2>1
  <2>3. Locks(t) = {}
    BY <2>2 DEF Locks
  <2>4. {deque[t][n] : n \in loc[t].i .. Len(deque[t])} = {}
    BY <2>2
  <2>5. InHand(t) = {}
    BY <2>3, <2>4 DEF InHand
  <2> QED
    BY <2>1, <2>3, <2>5
<1>6. CASE pc[t] = "pick"
  <2>1. pc[t] \notin Freeing
    BY <1>6 DEF Freeing, HoldingMutex
  <2> QED
    BY <1>3, <1>6, <2>1 DEF InHand
<1>7. CASE pc[t] \notin Freeing \cup {"pick", "done"}
  <2>1. pc[t] \in Renewing \cup Headless \cup Joined
    BY <1>2, <1>7 DEF Place, Freeing, Renewing, Headless, Joined, Joining
  <2>2. loc[t].new # NoLock
    BY <1>1, <2>1, LockIs DEF LockInv
  <2> QED
    BY <1>3, <1>7, <2>2 DEF InHand
<1> QED
  BY <1>4, <1>5, <1>6, <1>7

\* A lock that is not released is in the hand of its owner.
LEMMA LiveInHand ==
  ASSUME IInv, NEW rank, ListInv(rank), Worked, NEW l \in Lock, Listed(l), lk[l].state # "OBSOLETE",
         pc[Owner(l)] = "done" => loc[Owner(l)].i > 0
  PROVE  l \in InHand(Owner(l)) /\ l \in Locks(Owner(l))
<1>1. PICK t \in Thread : t = Owner(l)
  BY LockIs
<1>2. t \in Thread /\ Types /\ ProgramInv(t) /\ WorkInv(t)
  BY <1>1 DEF IInv, Worked
<1>3. l \in Locks(t)
  <2>1. ~(pc[t] \in Renewing /\ l = loc[t].new)
    BY <1>1 DEF Listed, Out, Preparing
  <2> QED
    BY <1>1, <1>2, <2>1 DEF WorkInv, Listed
<1>4. InHand(t) = IF pc[t] \in Freeing THEN {deque[t][n] : n \in loc[t].i .. Len(deque[t])} ELSE Locks(t)
  BY <1>1, <1>2, HandIs
<1>5. CASE pc[t] \in Freeing
  <2>1. PICK n \in 1 .. Len(deque[t]) : l = deque[t][n]
    BY <1>3 DEF Locks
  <2>2. loc[t].i \in 1 .. Len(deque[t])
    BY <1>2, <1>5 DEF ProgramInv
  <2>3. ~(n < loc[t].i)
    BY <1>2, <1>5, <2>1 DEF WorkInv
  <2>4. n \in loc[t].i .. Len(deque[t])
    BY <2>1, <2>2, <2>3
  <2> QED
    BY <1>1, <1>3, <1>4, <1>5, <2>1, <2>4
<1> QED
  BY <1>1, <1>3, <1>4, <1>5

\* A lock in use with an id is the head, or behind it.
LEMMA HeadFirst ==
  ASSUME IInv, NEW rank \in [Lock -> Nat], ListInv(rank), NEW l \in Lock, Listed(l),
         lk[l].state # "OBSOLETE", lk[l].id # MaxId, NEW h, h = head[Rec(l)], h # NoLock
  PROVE  /\ h \in Lock /\ Rec(h) = Rec(l) /\ Listed(h) /\ lk[h].id = rank[h] /\ lk[l].id = rank[l] /\ rank[h] <= rank[l]
         /\ l # h => Before(h, l)
<1>1. PICK r \in Record : r = Rec(l)
  BY LockIs
<1>2. HasHead(r) /\ h = head[r] /\ EndsInv(rank, r) /\ h \in Lock
  BY <1>1 DEF HasHead, ListInv, IInv, Types, Node
<1>3. Rec(h) = r /\ Listed(h)
  BY <1>2 DEF EndsInv
<1>4. IdInv(rank, l) /\ IdInv(rank, h) /\ PassedInv(rank, l) /\ OrderInv(rank, l, h)
  BY <1>2 DEF ListInv
<1>5. ~(rank[l] < rank[h])
  BY <1>1, <1>2, <1>4 DEF PassedInv, Overtaken
<1>6. rank[l] \in Nat /\ rank[h] \in Nat
  BY <1>2
<1>7. lk[l].id = rank[l]
  BY <1>4 DEF IdInv
<1>8. CASE l = h
  BY <1>3, <1>2, <1>7, <1>8, <1>6
<1>9. CASE l # h
  <2>1. rank[l] # rank[h]
    BY <1>1, <1>3, <1>4, <1>9 DEF OrderInv
  <2>2. rank[h] < rank[l]
    BY <1>5, <1>6, <2>1
  <2>3. lk[h].id # MaxId
    BY <1>1, <1>3, <1>4, <2>2 DEF OrderInv
  <2>4. lk[h].id = rank[h]
    BY <1>3, <1>4, <2>3 DEF IdInv
  <2>5. rank[h] <= rank[l]
    BY <1>6, <2>2
  <2> QED
    BY <1>1, <1>2, <1>3, <1>7, <2>2, <2>4, <2>5 DEF Before
<1> QED
  BY <1>8, <1>9

\* What the step of thread t leaves to a thread that waits.
Heeds(t) ==
  /\ Others(t)
  /\ \A l \in Lock :
       /\ Listed(l) /\ lk[l].signal => lk'[l].signal
       /\ Listed(l) /\ lk[l].state = "OBSOLETE" => lk'[l].state = "OBSOLETE"
       /\ Owner(l) # t => lk'[l].state = lk[l].state
       /\ l \in Locks(Owner(l)) /\ lk[l].id # MaxId => lk'[l].id = lk[l].id
  /\ \A n, k \in Lock :
       n \in Locks(Owner(n)) /\ lk[n].id # MaxId /\ Rec(k) = Rec(n) /\ lk[k].id > lk[n].id
         => lk'[k].id > lk'[n].id

\* The lock of a thread that waits for it.
LEMMA AskedIs ==
  ASSUME IInv, NEW rank, ListInv(rank), NEW u \in Thread, pc[u] \in Waiting, NEW n, n = loc[u].new
  PROVE  /\ n \in Lock /\ Owner(n) = u /\ n \in Locks(u) /\ Listed(n) /\ HasHead(Rec(n))
         /\ lk[n].state # "OBSOLETE" /\ lk[n].id # MaxId
<1>1. Live(n) /\ n \in Lock /\ Owner(n) = u
  BY AskerIs
<1>2. pc[u] \in Joined
  BY DEF Joined
<1> QED
  BY <1>1, <1>2, Settled DEF Live

\* Who waits goes on to wait for a lock that stays in a hand.
LEMMA WaitsKept ==
  ASSUME IInv, NEW rank, ListInv(rank), IdsLast, Worked, Awakes, NEW t \in Thread, Heeds(t),
         NEW l \in Lock, l \in Locks(Owner(l)), lk[l].id # MaxId,
         NEW u \in Thread, NEW m \in InHand(u), m \in InHand(u)', Before(m, l)
  PROVE  Waits(l)'
<1>1. m \in Locks(u) /\ m \in Lock /\ Owner(m) = u
  <2>1. InHand(u) \subseteq Locks(u) /\ Locks(u) \subseteq Lock
    BY HandIs DEF Awakes, WaitInv
  <2>2. DequeInv(u)
    BY DEF ListInv
  <2> QED
    BY <2>1, <2>2 DEF DequeInv
<1>2. lk[l] \in Fields /\ lk[m] \in Fields
  BY <1>1 DEF IInv, Types
<1>3. lk[m].id # MaxId
  <2>1. lk[m].id < lk[l].id /\ lk[l].id + 1 < MaxId
    BY DEF Before, IdsLast
  <2>2. lk[m].id \in Nat /\ lk[l].id \in Nat /\ MaxId \in Nat
    BY <1>2, LockIs DEF Fields
  <2> QED
    BY <2>1, <2>2
<1>4. lk'[m].id = lk[m].id /\ lk'[l].id = lk[l].id
  BY <1>1, <1>3 DEF Heeds
<1>5. Before(m, l)'
  BY <1>4 DEF Before
<1> QED
  BY <1>5 DEF Waits

LEMMA WaitOthers ==
  ASSUME IInv, NEW rank, ListInv(rank), NEW t \in Thread, Heeds(t), NEW u \in Thread, u # t, WaitInv(u),
         u \in waitSet' => u \in waitSet /\ ~lk'[loc[u].new].signal,
         pc[u] \in Waiting /\ Waits(loc[u].new) => lk'[loc[u].new].signal \/ Waits(loc[u].new)'
  PROVE  WaitInv(u)'
<1>1. PICK n : n = loc[u].new
  OBVIOUS
<1>2. pc'[u] = pc[u] /\ loc'[u] = loc[u]
  BY DEF Heeds, Others
<1>3. pc[u] \in Waiting =>
        /\ n \in Lock /\ Owner(n) = u /\ n \in Locks(u) /\ Listed(n) /\ lk[n].id # MaxId
        /\ lk'[n].state = lk[n].state /\ (lk[n].signal => lk'[n].signal)
  BY <1>1, AskedIs DEF Heeds
<1>4. pc[u] \in Blocked => pc[u] \in Waiting
  BY DEF Blocked, Probing, Waiting
<1>5. u \in waitSet' => pc'[u] = "asleep" /\ ~lk'[n].signal
  BY <1>1, <1>2 DEF WaitInv
<1>6. pc'[u] \in Blocked => lk'[n].state = "WAIT" /\ (lk'[n].signal \/ Waits(n)')
  BY <1>1, <1>2, <1>3, <1>4 DEF WaitInv
<1>7. pc'[u] = "check_id" /\ lk'[n].state = "WAIT" =>
        lk'[n].signal \/ Waits(n)' \/ lk'[Target(u)].id > lk'[n].id
  <2> SUFFICES ASSUME pc[u] = "check_id", lk'[n].state = "WAIT"
               PROVE  lk'[n].signal \/ Waits(n)' \/ lk'[Target(u)].id > lk'[n].id
    BY <1>2
  <2>1. pc[u] \in Waiting /\ pc[u] \in Examining
    BY DEF Waiting, Examining
  <2>2. lk[n].signal \/ Waits(n) \/ lk[Target(u)].id > lk[n].id
    BY <1>1, <1>3, <2>1 DEF WaitInv, SecondLook, Behind
  <2>3. loc[u].i \in 1 .. Len(loc[u].vec) /\ loc[u].vec \in Seq(Lock)
    BY DEF IInv, CallInv, CallAt, Types, Locals
  <2>4. Target(u) \in Lock /\ Rec(Target(u)) = Rec(n)
    BY <1>1, <2>1, <2>3 DEF Target, WaitInv
  <2>5. lk[Target(u)].id > lk[n].id => lk'[Target(u)].id > lk'[n].id
    BY <1>3, <2>1, <2>4 DEF Heeds
  <2>6. lk[n].signal => lk'[n].signal
    BY <1>3, <2>1
  <2>7. Waits(n) => lk'[n].signal \/ Waits(n)'
    BY <1>1, <1>2, <2>1 DEF Waits
  <2> QED
    BY <2>2, <2>5, <2>6, <2>7
<1>8. pc'[u] \in Examining =>
       \A j \in 1 .. Len(loc'[u].vec) :
         Rec(loc'[u].vec[j]) = Rec(loc'[u].new) /\ loc'[u].vec[j] # loc'[u].new
  BY <1>2 DEF WaitInv
<1>9. pc'[u] = "done" => loc'[u].i > 0
  BY <1>2 DEF WaitInv
<1>10. Target(u)' = Target(u)
  BY <1>2 DEF Target
<1>11. Waits(loc[u].new)' <=> Waits(n)'
  BY <1>1, <1>2 DEF Waits
<1>12. pc'[u] \in Blocked => lk'[loc'[u].new].state = "WAIT" /\ (lk'[loc'[u].new].signal \/ Waits(loc[u].new)')
  BY <1>1, <1>2, <1>6, <1>11
<1>13. pc'[u] = "check_id" /\ SecondLook(u)' => lk'[loc'[u].new].signal \/ Waits(loc[u].new)' \/ Behind(u, Target(u))'
  BY <1>1, <1>2, <1>7, <1>10, <1>11 DEF SecondLook, Behind
<1> QED
  BY <1>1, <1>2, <1>5, <1>8, <1>9, <1>12, <1>13 DEF WaitInv

\* The thread t alone ends its release.
HandsKept(t) ==
  \A v \in Thread : \A m \in InHand(v) : m \in InHand(v)' \/ (m = Releases(t) /\ pc[t] \in HoldingMutex)

LEMMA WakeOthers ==
  ASSUME IInv, NEW rank, ListInv(rank), NEW t \in Thread, Heeds(t), HandsKept(t),
         NEW u \in Thread, u # t, WakeInv(u),
         pc[u] \in HoldingMutex => head'[Rec(Releases(u))] = head[Rec(Releases(u))]
  PROVE  WakeInv(u)'
<1>1. PICK m, h : m = Releases(u) /\ h = head[Rec(m)]
  OBVIOUS
<1>2. pc'[u] = pc[u] /\ loc'[u] = loc[u] /\ deque'[u] = deque[u]
  BY DEF Heeds, Others
<1>3. Releases(u)' = m
  BY <1>1, <1>2 DEF Releases
<1>4. CASE pc[u] \in {"wake_head", "wake_next", "wake_other"}
  <2>1. pc[u] \in HoldingMutex
    BY <1>4 DEF HoldingMutex
  <2>2. /\ m \in Lock /\ Rec(m) \in Record /\ mutex[Rec(m)] = u /\ h \in Lock
    BY <1>1, <2>1, HoldingIs
  <2>3. Rec(h) = Rec(m) /\ Listed(h)
    BY <1>1, <2>2, LockIs DEF ListInv, EndsInv, HasHead
  <2>4. head'[Rec(m)] = h
    BY <1>1, <2>1
  <2>5. h \in InHand(Owner(h)) /\ h # m /\ (pc[u] \in {"wake_next", "wake_other"} => lk[h].signal)
    BY <1>1, <1>4 DEF WakeInv
  <2>6. ~(h = Releases(t) /\ pc[t] \in HoldingMutex)
    <3> SUFFICES ASSUME h = Releases(t), pc[t] \in HoldingMutex PROVE FALSE
      OBVIOUS
    <3>1. mutex[Rec(h)] = t
      BY HoldingIs
    <3> QED
      BY <2>2, <2>3, <3>1
  <2>7. h \in InHand(Owner(h))'
    BY <2>2, <2>5, <2>6, LockIs DEF HandsKept
  <2>8. lk[h].signal => lk'[h].signal
    BY <2>2, <2>3 DEF Heeds
  <2> QED
    BY <1>2, <1>3, <2>4, <2>5, <2>7, <2>8 DEF WakeInv
<1>5. CASE pc[u] \notin {"wake_head", "wake_next", "wake_other"}
  BY <1>2, <1>5 DEF WakeInv
<1> QED
  BY <1>4, <1>5

LEMMA FrontKept ==
  ASSUME IInv, NEW rank, ListInv(rank), Worked, Awakes, NEW t \in Thread, Heeds(t),
         NEW r \in Record, NEW h, h = head[r], h # NoLock, head'[r] = h,
         pc[t] \in Fronting /\ loc[t].target = h =>
           (pc'[t] \in Fronting /\ loc'[t].target = h) \/ lk'[h].signal \/ lk'[h].state = "OBSOLETE"
  PROVE  FrontInv(r)'
<1>1. h \in Lock /\ Listed(h) /\ FrontInv(r)
  BY DEF IInv, Types, Node, ListInv, EndsInv, HasHead, Awakes
<1>2. (lk[h].signal => lk'[h].signal) /\ (lk[h].state = "OBSOLETE" => lk'[h].state = "OBSOLETE")
  BY <1>1 DEF Heeds
<1>3. lk[h].id = 0 /\ lk[h].state # "OBSOLETE" => lk'[h].id = 0
  <2> SUFFICES ASSUME lk[h].id = 0, lk[h].state # "OBSOLETE" PROVE lk'[h].id = 0
    OBVIOUS
  <2>1. h \in Locks(Owner(h))
    BY <1>1, LiveInHand, LockIs DEF Awakes, WaitInv
  <2> QED
    BY <1>1, <2>1, NoThreadAssumption DEF Heeds
<1>4. ASSUME NEW u \in Thread, pc[u] \in Fronting, loc[u].target = h
      PROVE  lk'[h].signal \/ lk'[h].state = "OBSOLETE" \/ \E v \in Thread : pc'[v] \in Fronting /\ loc'[v].target = h
  <2>1. CASE u = t
    BY <1>4, <2>1
  <2>2. CASE u # t
    BY <1>4, <2>2 DEF Heeds, Others
  <2> QED
    BY <2>1, <2>2
<1> QED
  BY <1>1, <1>2, <1>3, <1>4 DEF FrontInv, HasHead

\* Any step of t, if t keeps its part and does not take away the last lock someone waits for.
LEMMA AwakesStep ==
  ASSUME IInv, NEW rank, ListInv(rank), Awakes, NEW t \in Thread, Heeds(t), HandsKept(t),
         \A u \in Thread \ {t} : u \in waitSet' => u \in waitSet /\ ~lk'[loc[u].new].signal,
         \A u \in Thread \ {t} : pc[u] \in Waiting /\ Waits(loc[u].new) => lk'[loc[u].new].signal \/ Waits(loc[u].new)',
         \A u \in Thread \ {t} : pc[u] \in HoldingMutex => head'[Rec(Releases(u))] = head[Rec(Releases(u))],
         WaitInv(t)', WakeInv(t)', \A r \in Record : FrontInv(r)'
  PROVE  Awakes'
<1>1. ASSUME NEW u \in Thread, u # t PROVE WaitInv(u)' /\ WakeInv(u)'
  <2>1. WaitInv(u) /\ WakeInv(u)
    BY DEF Awakes
  <2>2. u \in waitSet' => u \in waitSet /\ ~lk'[loc[u].new].signal
    BY <1>1
  <2>3. pc[u] \in Waiting /\ Waits(loc[u].new) => lk'[loc[u].new].signal \/ Waits(loc[u].new)'
    BY <1>1
  <2>4. pc[u] \in HoldingMutex => head'[Rec(Releases(u))] = head[Rec(Releases(u))]
    BY <1>1
  <2>5. WaitInv(u)'
    BY <1>1, <2>1, <2>2, <2>3, WaitOthers
  <2>6. WakeInv(u)'
    BY <1>1, <2>1, <2>4, WakeOthers
  <2> QED
    BY <2>5, <2>6
<1> QED
  BY <1>1 DEF Awakes

\* All locks stay in hand: who waits for one goes on to wait.
LEMMA StillWaits ==
  ASSUME IInv, NEW rank, ListInv(rank), IdsLast, Worked, Awakes, NEW t \in Thread, Heeds(t),
         \A v \in Thread : InHand(v) \subseteq InHand(v)',
         NEW u \in Thread, pc[u] \in Waiting, Waits(loc[u].new)
  PROVE  Waits(loc[u].new)'  \/ loc'[u].new # loc[u].new
<1>1. PICK n : n = loc[u].new
  OBVIOUS
<1>2. n \in Lock /\ Owner(n) = u /\ n \in Locks(u) /\ lk[n].id # MaxId
  BY <1>1, AskedIs
<1>3. PICK v \in Thread : \E m \in InHand(v) : Before(m, n)
  BY <1>1 DEF Waits
<1>4. PICK m \in InHand(v) : Before(m, n)
  BY <1>3
<1>5. v \in Thread /\ m \in InHand(v) /\ m \in InHand(v)'
  BY <1>3, <1>4
<1>6. Waits(n)'
  BY <1>2, <1>4, <1>5, WaitsKept
<1> QED
  BY <1>1, <1>6

Handy ==
  \A u \in Thread : (pc[u] = "done" => loc[u].i > 0) =>
    /\ InHand(u) = IF pc[u] \in Freeing THEN {deque[u][n] : n \in loc[u].i .. Len(deque[u])} ELSE Locks(u)
    /\ InHand(u) \subseteq Locks(u)

LEMMA HandsAre == IInv /\ Ordered /\ Worked => Handy
BY HandIs DEF Ordered, Orderly, Handy

\* A step that does not end a release keeps what is in hand.
LEMMA HandGrows ==
  ASSUME IInv, IInv', Ordered, Ordered', Worked, Worked', NEW t \in Thread, NEW p, NEW x, p = pc'[t], x = loc'[t],
         pc[t] # "done", p # "done", Locks(t) \subseteq Locks(t)',
         p \in Freeing => x.i = 1 \/ (pc[t] \in Freeing /\ x.i = loc[t].i /\ deque' = deque)
  PROVE  InHand(t) \subseteq InHand(t)'
<1>1. /\ InHand(t) = IF pc[t] \in Freeing THEN {deque[t][n] : n \in loc[t].i .. Len(deque[t])} ELSE Locks(t)
      /\ InHand(t) \subseteq Locks(t)
  BY HandsAre DEF Handy
<1>2. (IInv /\ Ordered /\ Worked => Handy)'
  BY HandsAre, PTL
<1>3. InHand(t)' = IF p \in Freeing THEN {deque'[t][n] : n \in x.i .. Len(deque'[t])} ELSE Locks(t)'
  BY <1>2 DEF Handy
<1>4. CASE p \notin Freeing
  BY <1>1, <1>3, <1>4
<1>5. CASE p \in Freeing /\ x.i = 1
  <2>1. InHand(t)' = {deque'[t][n] : n \in 1 .. Len(deque'[t])}
    BY <1>3, <1>5
  <2> QED
    BY <1>1, <2>1 DEF Locks
<1>6. CASE p \in Freeing /\ pc[t] \in Freeing /\ x.i = loc[t].i /\ deque' = deque
  BY <1>1, <1>3, <1>6
<1> QED
  BY <1>4, <1>5, <1>6

\* No step but WakeHead and WakeOther signals, and no thread but t begins to sleep.
Calm(t) ==
  /\ \A l \in Lock : lk'[l].signal => lk[l].signal
  /\ \A u \in Thread \ {t} : u \in waitSet' => u \in waitSet

\* The thread leaves the others that sleep without a signal.
Sleepers(t) == \A u \in Thread \ {t} : u \in waitSet' => u \in waitSet /\ ~lk'[loc[u].new].signal

LEMMA CalmSleeps ==
  ASSUME IInv, NEW rank, ListInv(rank), Awakes, NEW t \in Thread, Calm(t)
  PROVE  Sleepers(t)
<1>1. ASSUME NEW u \in Thread \ {t}, u \in waitSet' PROVE u \in waitSet /\ ~lk'[loc[u].new].signal
  <2>1. u \in waitSet /\ pc[u] = "asleep" /\ ~lk[loc[u].new].signal
    BY <1>1 DEF Calm, Awakes, WaitInv
  <2>2. loc[u].new \in Lock
    BY <2>1, AskedIs DEF Waiting
  <2> QED
    BY <2>1, <2>2 DEF Calm
<1> QED
  BY <1>1 DEF Sleepers

\* A step that ends no release.
LEMMA GrowStep ==
  ASSUME IInv, NEW rank, ListInv(rank), IdsLast, Worked, Awakes, NEW t \in Thread, Heeds(t), Sleepers(t),
         InHand(t) \subseteq InHand(t)', WaitInv(t)', WakeInv(t)',
         \A u \in Thread \ {t} : pc[u] \in HoldingMutex => head'[Rec(Releases(u))] = head[Rec(Releases(u))],
         \A r \in Record : FrontInv(r)'
  PROVE  Awakes'
<1>1. ASSUME NEW u \in Thread \ {t} PROVE pc'[u] = pc[u] /\ loc'[u] = loc[u] /\ InHand(u)' = InHand(u)
  <2>1. pc'[u] = pc[u] /\ loc'[u] = loc[u] /\ deque'[u] = deque[u]
    BY DEF Heeds, Others
  <2> QED
    BY <2>1 DEF InHand, Locks
<1>2. \A v \in Thread : InHand(v) \subseteq InHand(v)'
  BY <1>1
<1>3. HandsKept(t)
  BY <1>2 DEF HandsKept
<1>4. \A u \in Thread \ {t} : u \in waitSet' => u \in waitSet /\ ~lk'[loc[u].new].signal
  BY DEF Sleepers
<1>5. ASSUME NEW u \in Thread \ {t}, pc[u] \in Waiting, Waits(loc[u].new) PROVE Waits(loc[u].new)'
  BY <1>1, <1>2, <1>5, StillWaits
<1>6. \A u \in Thread \ {t} : pc[u] \in Waiting /\ Waits(loc[u].new) => lk'[loc[u].new].signal \/ Waits(loc[u].new)'
  BY <1>5
<1> QED
  BY <1>3, <1>4, <1>6, AwakesStep

\* A head that stays where it is, unless t was about to signal to its lock.
LEMMA FrontSame ==
  ASSUME IInv, NEW rank, ListInv(rank), Worked, Awakes, NEW t \in Thread, Heeds(t),
         NEW r \in Record, head'[r] = head[r], pc[t] \notin Fronting
  PROVE  FrontInv(r)'
<1>1. CASE head[r] = NoLock
  BY <1>1 DEF FrontInv, HasHead
<1>2. CASE head[r] # NoLock
  BY <1>2, FrontKept
<1> QED
  BY <1>1, <1>2

\* A step that leaves the heads alone and ends no release.
LEMMA PlainStep ==
  ASSUME IInv, NEW rank, ListInv(rank), IdsLast, Worked, Awakes, NEW t \in Thread, Heeds(t), Calm(t),
         head' = head, InHand(t) \subseteq InHand(t)', pc[t] \notin Fronting, WaitInv(t)', WakeInv(t)'
  PROVE  Awakes'
<1>1. Sleepers(t)
  BY CalmSleeps
<1>2. \A r \in Record : FrontInv(r)'
  BY FrontSame
<1>3. \A u \in Thread \ {t} : pc[u] \in HoldingMutex => head'[Rec(Releases(u))] = head[Rec(Releases(u))]
  OBVIOUS
<1> QED
  BY <1>1, <1>2, <1>3, GrowStep

\* A thread that does not wait has nothing to be waked for.
LEMMA NotWaiting ==
  ASSUME NEW t \in Thread, NEW p, p = pc'[t], p \notin Waiting \/ p = "head", p # "done", t \notin waitSet'
  PROVE  WaitInv(t)'
<1>1. p \notin Blocked /\ p # "check_id" /\ p \notin Examining
  BY DEF Blocked, Probing, Waiting, Examining
<1> QED
  BY <1>1 DEF WaitInv

LEMMA NotWaking ==
  ASSUME NEW t \in Thread, NEW p, p = pc'[t], p \notin {"wake_head", "wake_next", "wake_other"}
  PROVE  WakeInv(t)'
BY DEF WakeInv

\* A step that changes nothing which matters to a thread that waits.
LEMMA StillHeeds ==
  ASSUME NEW t \in Thread, Others(t), Still, \A l \in Lock : Owner(l) # t => lk'[l].state = lk[l].state,
         \A l \in Lock : Listed(l) /\ lk[l].signal => lk'[l].signal
  PROVE  Heeds(t)
BY DEF Heeds, Still, Idle

\* A step of a thread that waits and changes nothing but the state of its lock.
LEMMA WaiterStep ==
  ASSUME IInv, IInv', NEW rank, ListInv(rank), IdsLast, Ordered, Ordered', Worked, Worked', Awakes,
         NEW t \in Thread, Others(t), Still, UNCHANGED <<head, deque>>,
         NEW p, NEW x, NEW n, p = pc'[t], x = loc'[t], n = loc[t].new, x.new = n,
         pc[t] \in Waiting, p \in Waiting \cup {"grant"},
         \A l \in Lock : lk'[l].signal = lk[l].signal /\ (Owner(l) # t => lk'[l].state = lk[l].state),
         \A u \in Thread \ {t} : u \in waitSet' => u \in waitSet,
         t \in waitSet' => p = "asleep" /\ ~lk[n].signal,
         p \in Blocked => lk'[n].state = "WAIT" /\ (lk[n].signal \/ Waits(n)),
         p = "check_id" /\ lk'[n].state = "WAIT" =>
           lk[n].signal \/ Waits(n) \/ lk[x.vec[x.i]].id > lk[n].id,
         p \in Examining => \A j \in 1 .. Len(x.vec) : Rec(x.vec[j]) = Rec(n) /\ x.vec[j] # n
  PROVE  Awakes'
<1>1. Heeds(t)
  BY StillHeeds
<1>2. Calm(t)
  BY DEF Calm
<1>3. pc[t] # "done" /\ p # "done" /\ p \notin Freeing /\ pc[t] \notin Fronting /\ pc[t] \notin Freeing
  BY DEF Waiting, Freeing, HoldingMutex, Fronting
<1>4. Locks(t)' = Locks(t)
  BY DEF Locks
<1>5. InHand(t) \subseteq InHand(t)'
  BY <1>3, <1>4, HandGrows
<1>6. n \in Lock /\ lk'[n].signal = lk[n].signal
  BY AskedIs
<1>7. Waits(n) => Waits(n)'
  <2>1. ASSUME NEW v \in Thread PROVE InHand(v) \subseteq InHand(v)'
    <3>1. CASE v = t
      BY <1>5, <3>1
    <3>2. CASE v # t
      <4>1. pc'[v] = pc[v] /\ loc'[v] = loc[v] /\ deque'[v] = deque[v]
        BY <3>2 DEF Others
      <4> QED
        BY <4>1 DEF InHand, Locks
    <3> QED
      BY <3>1, <3>2
  <2>2. Waits(loc[t].new) => Waits(loc[t].new)' \/ loc'[t].new # loc[t].new
    BY <1>1, <2>1, StillWaits
  <2>3. SUFFICES ASSUME Waits(n) PROVE Waits(n)'
    OBVIOUS
  <2>4. Waits(loc[t].new)'
    BY <2>2, <2>3
  <2>5. loc'[t].new = n
    OBVIOUS
  <2> QED
    BY <2>4, <2>5 DEF Waits
<1>8. \A k \in Lock : lk'[k].id = lk[k].id
  BY DEF Still
<1>9. p = "check_id" => x.vec[x.i] \in Lock
  <2> SUFFICES ASSUME p = "check_id" PROVE x.vec[x.i] \in Lock
    OBVIOUS
  <2>1. x \in Locals /\ x.i \in 1 .. Len(x.vec)
    BY DEF IInv, Types, CallInv, CallAt
  <2> QED
    BY <2>1 DEF Locals
<1>10. WaitInv(t)'
  <2>1. t \in waitSet' => p = "asleep" /\ ~lk'[x.new].signal
    BY <1>6
  <2>2. p \in Blocked => lk'[x.new].state = "WAIT" /\ (lk'[x.new].signal \/ Waits(n)')
    BY <1>6, <1>7
  <2>3. p = "check_id" /\ lk'[x.new].state = "WAIT" =>
          lk'[x.new].signal \/ Waits(n)' \/ lk'[x.vec[x.i]].id > lk'[x.new].id
    BY <1>6, <1>7, <1>8, <1>9
  <2>4. Waits(loc[t].new)' <=> Waits(n)'
    BY DEF Waits
  <2>5. Target(t)' = x.vec[x.i]
    BY DEF Target
  <2> QED
    BY <1>3, <2>1, <2>2, <2>3, <2>4, <2>5 DEF WaitInv, SecondLook, Behind
<1>11. WakeInv(t)'
  <2>1. p \notin {"wake_head", "wake_next", "wake_other"}
    BY DEF Waiting
  <2> QED
    BY <2>1, NotWaking
<1> QED
  BY <1>1, <1>2, <1>3, <1>5, <1>10, <1>11, PlainStep

\* The search for a deadlock goes on behind the lock that was found in the way.
LEMMA SearchingAwake ==
  ASSUME IInv, IInv', NEW rank, ListInv(rank), IdsLast, Ordered, Ordered', Worked, Worked', Awakes,
         NEW t \in Thread, Searching(t)
  PROVE  Awakes'
<1>1. PICK p, x, n : p = pc'[t] /\ x = loc'[t] /\ n = loc[t].new
  OBVIOUS
<1>2. /\ Others(t) /\ UNCHANGED <<lk, shared>> /\ x.new = n
      /\ pc[t] \in Seeking /\ p \in Seeking \cup {"deadlock", "sleep"}
  BY <1>1, SearchingMoves
<1>3. Still
  BY <1>1, LooksQuiet DEF Quiet
<1>4. pc[t] \in Blocked /\ pc[t] \in Waiting /\ p \in Waiting /\ pc[t] # "asleep" /\ p # "check_id" /\ p \notin Examining
  BY <1>2 DEF Seeking, Blocked, Probing, Waiting, Examining
<1>5. lk[n].state = "WAIT" /\ (lk[n].signal \/ Waits(n)) /\ t \notin waitSet
  BY <1>1, <1>4 DEF Awakes, WaitInv
<1>6. UNCHANGED <<head, deque, lk, waitSet>>
  BY <1>2 DEF shared
<1> QED
  BY <1>1, <1>2, <1>3, <1>4, <1>5, <1>6, WaiterStep

\* The search collects locks of its record before its own.
LEMMA CollectAwake ==
  ASSUME IInv, IInv', NEW rank \in [Lock -> Nat], Orderly(rank), IdsLast, Ordered, Ordered', Worked, Worked', Awakes,
         NEW t \in Thread, FromHead(t) \/ Collect(t) \/ CollectNext(t)
  PROVE  Awakes'
<1>1. PICK p, x, n : p = pc'[t] /\ x = loc'[t] /\ n = loc[t].new
  OBVIOUS
<1>2. Others(t) /\ Still
  BY <1>1, LooksQuiet DEF Quiet
<1>3. pc[t] \in Waiting /\ pc[t] # "asleep" /\ UNCHANGED <<lk, shared>> /\ pc[t] \in {"head", "collect", "next"}
  BY DEF FromHead, Collect, CollectNext, Waiting
<1>4. /\ pc \in [Thread -> Place] /\ loc \in [Thread -> Locals] /\ loc[t] \in Locals /\ ListInv(rank)
      /\ SearchAt(rank, pc[t], loc[t]) /\ CallAt(pc[t], loc[t]) /\ WaitInv(t)
  BY <1>3, WaitingIs DEF Orderly, OrderlyInv, Awakes
<1>5. t \notin waitSet /\ UNCHANGED <<head, deque, lk, waitSet>>
  BY <1>3, <1>4 DEF WaitInv, shared
<1>6. /\ p \in {"head", "collect", "next", "check", "grant"} /\ x.new = n
      /\ p \in Examining => \A j \in 1 .. Len(x.vec) : Rec(x.vec[j]) = Rec(n) /\ x.vec[j] # n
  <2>1. ASSUME NEW l, NEW vec, CollectAt(t, l, vec), \A j \in 1 .. Len(vec) : Rec(vec[j]) = Rec(n) /\ vec[j] # n
        PROVE  /\ p \in {"collect", "check", "grant"} /\ x.new = n
               /\ \A j \in 1 .. Len(x.vec) : Rec(x.vec[j]) = Rec(n) /\ x.vec[j] # n
    <3>1. p \in {"collect", "check", "grant"}
      BY <1>1, <1>4, <2>1 DEF CollectAt, Goto
    <3>2. x.vec = vec /\ x.new = n
      BY <1>1, <1>4, <2>1 DEF CollectAt, Locals
    <3> QED
      BY <2>1, <3>1, <3>2
  <2>2. CASE FromHead(t)
    <3>1. CollectAt(t, head[Rec(loc[t].new)], << >>)
      BY <2>2 DEF FromHead
    <3>2. \A j \in 1 .. Len(<< >>) : FALSE
      OBVIOUS
    <3>3. \A j \in 1 .. Len(<< >>) : Rec(<< >>[j]) = Rec(n) /\ << >>[j] # n
      BY <3>2
    <3> QED
      BY <2>1, <3>1, <3>3
  <2>3. CASE Collect(t)
    <3>1. pc[t] = "collect" /\ Rec(loc[t].target) = Rec(n) /\ loc[t].target # n
      BY <1>1, <1>4, <2>3 DEF Collect, SearchAt
    <3>2. \A j \in 1 .. Len(loc[t].vec) : Rec(loc[t].vec[j]) = Rec(n) /\ loc[t].vec[j] # n
      BY <1>1, <1>4, <3>1 DEF WaitInv, Examining
    <3>3. CASE Behind(t, loc[t].target)
      <4>1. p = "head" /\ x = loc[t]
        BY <1>1, <1>4, <2>3, <3>3 DEF Collect, Goto
      <4> QED
        BY <1>1, <4>1 DEF Examining
    <3>4. CASE ~Behind(t, loc[t].target)
      <4>1. p = "next"
        BY <1>1, <1>4, <2>3, <3>4 DEF Collect, Goto
      <4>2. x.vec = Append(loc[t].vec, loc[t].target) /\ x.new = n /\ loc[t].vec \in Seq(Lock) /\ loc[t].target \in Lock
        BY <1>1, <1>4, <2>3, <3>1, <3>4 DEF Collect, Locals, CallAt
      <4> QED
        BY <3>1, <3>2, <4>1, <4>2
    <3> QED
      BY <3>3, <3>4
  <2>4. CASE CollectNext(t)
    <3>1. pc[t] = "next"
      BY <2>4 DEF CollectNext
    <3>2. \A j \in 1 .. Len(loc[t].vec) : Rec(loc[t].vec[j]) = Rec(n) /\ loc[t].vec[j] # n
      BY <1>1, <1>4, <3>1 DEF WaitInv, Examining
    <3>3. PICK l : l = lk[loc[t].target].next
      OBVIOUS
    <3>4. CASE l = NoLock
      <4>1. p = "head" /\ x = loc[t]
        BY <1>1, <1>4, <2>4, <3>3, <3>4 DEF CollectNext, Goto
      <4> QED
        BY <1>1, <4>1 DEF Examining
    <3>5. CASE l # NoLock
      <4>1. CollectAt(t, l, loc[t].vec)
        BY <2>4, <3>3, <3>5 DEF CollectNext
      <4> QED
        BY <2>1, <3>2, <4>1
    <3> QED
      BY <3>4, <3>5
  <2> QED
    BY <2>2, <2>3, <2>4
<1>7. p \notin Blocked /\ p # "check_id" /\ p \in Waiting \cup {"grant"}
  BY <1>6 DEF Blocked, Probing, Waiting
<1> QED
  BY <1>1, <1>2, <1>3, <1>4, <1>5, <1>6, <1>7, WaiterStep

\* A lock that is not released and not behind n is one to wait for.
LEMMA InTheWay ==
  ASSUME IInv, NEW rank \in [Lock -> Nat], ListInv(rank), IdsLast, Worked, Awakes,
         NEW t \in Thread, pc[t] \in Waiting, NEW n, n = loc[t].new, NEW k \in Lock, Rec(k) = Rec(n), k # n,
         lk[k].state # "OBSOLETE", ~(lk[k].id > lk[n].id)
  PROVE  Waits(n)
<1>1. n \in Lock /\ Listed(n) /\ lk[n].id # MaxId
  BY AskedIs
<1>2. IdInv(rank, n) /\ IdInv(rank, k) /\ OrderInv(rank, n, k) /\ Types
  BY <1>1 DEF ListInv, IInv
<1>3. lk[n].id = rank[n]
  BY <1>1, <1>2 DEF IdInv
<1>4. Listed(k) /\ rank[k] < rank[n]
  BY <1>1, <1>2, <1>3, NotBehind
<1>5. lk[k].id # MaxId
  BY <1>1, <1>2, <1>4 DEF OrderInv
<1>6. lk[k].id = rank[k]
  BY <1>2, <1>4, <1>5 DEF IdInv
<1>7. Before(k, n)
  BY <1>3, <1>4, <1>6 DEF Before
<1>8. Owner(k) \in Thread /\ (pc[Owner(k)] = "done" => loc[Owner(k)].i > 0)
  BY LockIs DEF Awakes, WaitInv
<1>9. k \in InHand(Owner(k))
  BY <1>4, <1>8, LiveInHand
<1> QED
  BY <1>7, <1>8, <1>9 DEF Waits

\* The locks that were collected are looked at, and the last one again once the thread may wait.
LEMMA CheckAwake ==
  ASSUME IInv, IInv', NEW rank \in [Lock -> Nat], Orderly(rank), IdsLast, Ordered, Ordered', Worked, Worked', Awakes,
         NEW t \in Thread, Check(t) \/ CheckId(t) \/ CheckMode(t)
  PROVE  Awakes'
<1>1. PICK p, x, n : p = pc'[t] /\ x = loc'[t] /\ n = loc[t].new
  OBVIOUS
<1>2. Others(t) /\ Still
  BY <1>1, LooksQuiet DEF Quiet
<1>3. /\ pc[t] \in Waiting /\ pc[t] # "asleep" /\ UNCHANGED <<lk, shared>>
      /\ pc[t] \in {"check", "check_id", "check_mode"}
  BY DEF Check, CheckId, CheckMode, Waiting
<1>4. /\ pc \in [Thread -> Place] /\ loc \in [Thread -> Locals] /\ loc[t] \in Locals /\ ListInv(rank)
      /\ CallAt(pc[t], loc[t]) /\ WaitInv(t)
  BY <1>3, WaitingIs DEF Orderly, Awakes
<1>5. t \notin waitSet /\ UNCHANGED <<head, deque, lk, waitSet>>
  BY <1>3, <1>4 DEF WaitInv, shared
<1>6. PICK k : k = loc[t].vec[loc[t].i] /\ k = Target(t)
  BY DEF Target
<1>7. \A j \in 1 .. Len(loc[t].vec) : Rec(loc[t].vec[j]) = Rec(n) /\ loc[t].vec[j] # n
  BY <1>1, <1>3, <1>4 DEF WaitInv, Examining
<1>8. loc[t].i \in 1 .. Len(loc[t].vec) /\ loc[t].vec \in Seq(Lock)
  BY <1>3, <1>4 DEF CallAt, Locals
<1>9. k \in Lock /\ Rec(k) = Rec(n) /\ k # n
  <2>1. k \in Lock
    <3>1. PICK i, v : i = loc[t].i /\ v = loc[t].vec
      OBVIOUS
    <3>2. i \in 1 .. Len(v) /\ v \in Seq(Lock) /\ k = v[i]
      BY <1>6, <1>8, <3>1
    <3>3. v[i] \in Lock
      BY <3>2
    <3> QED
      BY <3>2, <3>3
  <2>2. Rec(loc[t].vec[loc[t].i]) = Rec(n) /\ loc[t].vec[loc[t].i] # n
    BY <1>7, <1>8
  <2> QED
    BY <1>6, <2>1, <2>2
<1>10. CheckOn(t) => p \in {"grant", "check"} /\ x.new = n /\ x.vec = loc[t].vec
  BY <1>1, <1>4 DEF CheckOn, Goto, Locals
<1>11. Skip(t) => p \in {"grant", "check", "unwait"} /\ x.new = n /\ x.vec = loc[t].vec
  BY <1>1, <1>4, <1>10 DEF Skip, Goto
<1>12. /\ p \in {"grant", "check", "unwait", "wait", "check_mode", "check_id", "fill"} /\ x.new = n /\ x.vec = loc[t].vec
       /\ p = "fill" => lk[n].state = "WAIT" /\ (lk[n].signal \/ Waits(n))
       /\ p = "check_id" => x.i = loc[t].i /\ lk[k].state # "OBSOLETE"
  <2>1. CASE Check(t)
    <3>1. \/ Skip(t)
          \/ p = "check_id" /\ x = loc[t] /\ lk[k].state # "OBSOLETE"
      BY <1>1, <1>4, <1>6, <2>1 DEF Check, Released, Goto
    <3> QED
      BY <1>1, <1>11, <3>1
  <2>2. CASE CheckId(t)
    <3>1. CASE Behind(t, k)
      <4>1. Skip(t)
        BY <1>6, <2>2, <3>1 DEF CheckId
      <4> QED
        BY <1>11, <4>1
    <3>2. CASE ~Behind(t, k) /\ SecondLook(t)
      <4>1. p = "fill" /\ x.new = n /\ x.vec = loc[t].vec
        BY <1>1, <1>4, <1>6, <2>2, <3>2 DEF CheckId, Goto, Locals
      <4>2. pc[t] = "check_id"
        BY <2>2 DEF CheckId
      <4>3. lk[n].state = "WAIT" /\ (lk[n].signal \/ Waits(n))
        BY <1>1, <1>4, <1>6, <3>2, <4>2 DEF WaitInv, SecondLook
      <4> QED
        BY <4>1, <4>3
    <3>3. CASE ~Behind(t, k) /\ ~SecondLook(t)
      <4>1. p \in {"wait", "check_mode"} /\ x = loc[t]
        BY <1>1, <1>4, <1>6, <2>2, <3>3 DEF CheckId, Goto
      <4> QED
        BY <1>1, <4>1
    <3> QED
      BY <3>1, <3>2, <3>3
  <2>3. CASE CheckMode(t)
    <3>1. CheckOn(t) \/ (p = "wait" /\ x = loc[t])
      BY <1>1, <1>4, <2>3 DEF CheckMode, Goto
    <3> QED
      BY <1>1, <1>10, <3>1
  <2> QED
    BY <2>1, <2>2, <2>3
<1>13. p \in Blocked => p = "fill"
  BY <1>12 DEF Blocked, Probing
<1>14. p = "check_id" => Waits(n) \/ lk[k].id > lk[n].id
  BY <1>1, <1>3, <1>4, <1>9, <1>12, InTheWay
<1>15. p = "check_id" => x.vec[x.i] = k
  BY <1>6, <1>12
<1>16. p \in Waiting \cup {"grant"}
  BY <1>12 DEF Waiting
<1>17. p \in Blocked => lk'[n].state = "WAIT" /\ (lk[n].signal \/ Waits(n))
  BY <1>5, <1>12, <1>13
<1>18. p = "check_id" /\ lk'[n].state = "WAIT" => lk[n].signal \/ Waits(n) \/ lk[x.vec[x.i]].id > lk[n].id
  BY <1>14, <1>15
<1>19. p \in Examining => \A j \in 1 .. Len(x.vec) : Rec(x.vec[j]) = Rec(n) /\ x.vec[j] # n
  BY <1>7, <1>12
<1>20. x.new = n
  BY <1>12
<1> QED
  BY <1>1, <1>2, <1>3, <1>4, <1>5, <1>16, <1>17, <1>18, <1>19, <1>20, WaiterStep

\* The thread sets the state of its lock, and sleeps if it is not signalled.
LEMMA SleepAwake ==
  ASSUME IInv, IInv', NEW rank \in [Lock -> Nat], Orderly(rank), IdsLast, Ordered, Ordered', Worked, Worked', Awakes,
         NEW t \in Thread, Wait(t) \/ Unwait(t) \/ Sleep(t) \/ Awake(t)
  PROVE  Awakes'
<1>1. PICK p, x, n : p = pc'[t] /\ x = loc'[t] /\ n = loc[t].new
  OBVIOUS
<1>2. ListInv(rank)
  BY DEF Orderly
<1>3. Others(t) /\ Still
  BY <1>1, <1>2, StatesQuiet DEF Quiet
<1>4. pc[t] \in Waiting /\ pc[t] \in {"wait", "unwait", "sleep", "asleep"}
  BY DEF Wait, Unwait, Sleep, Awake, Waiting
<1>5. /\ pc \in [Thread -> Place] /\ loc \in [Thread -> Locals] /\ loc[t] \in Locals /\ lk \in [Lock -> Fields]
      /\ WaitInv(t)
  BY <1>4, WaitingIs DEF Awakes
<1>6. n \in Lock /\ Owner(n) = t
  BY <1>1, <1>2, <1>4, AskedIs
<1>7. /\ UNCHANGED <<head, deque>>
      /\ p \in {"check", "grant", "asleep"} /\ x.new = n /\ x.vec = loc[t].vec
      /\ p = "check" => pc[t] \in {"wait", "unwait"}
      /\ p = "asleep" => lk' = lk /\ waitSet' = waitSet \cup {t} /\ ~lk[n].signal /\ pc[t] = "sleep"
      /\ p # "asleep" => waitSet' = waitSet /\ (pc[t] = "asleep" => t \notin waitSet)
      /\ lk' = lk \/ \E s \in State : lk' = [lk EXCEPT ![n].state = s]
  <2>1. CASE Wait(t)
    <3>1. p = "check" /\ x = loc[t] /\ waitSet' = waitSet /\ pc[t] = "wait" /\ UNCHANGED <<head, deque>>
      BY <1>1, <1>5, <2>1 DEF Wait, Goto, shared
    <3>2. lk' = [lk EXCEPT ![n].state = "WAIT"] /\ "WAIT" \in State
      BY <1>1, <2>1 DEF Wait, State
    <3> QED
      BY <1>1, <3>1, <3>2
  <2>2. CASE Unwait(t)
    <3>1. CheckOn(t) /\ waitSet' = waitSet /\ pc[t] = "unwait" /\ UNCHANGED <<head, deque>>
      BY <2>2 DEF Unwait, shared
    <3>2. p \in {"grant", "check"} /\ x.new = n /\ x.vec = loc[t].vec
      BY <1>1, <1>5, <3>1 DEF CheckOn, Goto, Locals
    <3>3. lk' = [lk EXCEPT ![n].state = "ACTIVE"] /\ "ACTIVE" \in State
      BY <1>1, <2>2 DEF Unwait, State
    <3> QED
      BY <3>1, <3>2, <3>3
  <2>3. CASE Sleep(t)
    <3>1. pc[t] = "sleep" /\ x = loc[t] /\ UNCHANGED <<head, deque>>
      BY <1>1, <2>3 DEF Sleep
    <3>2. CASE lk[n].signal
      <4>1. p = "grant" /\ waitSet' = waitSet /\ lk' = [lk EXCEPT ![n].state = "ACTIVE"] /\ "ACTIVE" \in State
        BY <1>1, <1>5, <2>3, <3>2 DEF Sleep, Goto, State
      <4> QED
        BY <1>1, <3>1, <4>1
    <3>3. CASE ~lk[n].signal
      <4>1. p = "asleep" /\ waitSet' = waitSet \cup {t} /\ lk' = lk
        BY <1>1, <1>5, <2>3, <3>3 DEF Sleep, Goto
      <4> QED
        BY <1>1, <3>1, <3>3, <4>1
    <3> QED
      BY <3>2, <3>3
  <2>4. CASE Awake(t)
    <3>1. /\ pc[t] = "asleep" /\ t \notin waitSet /\ x = loc[t] /\ waitSet' = waitSet /\ p = "grant"
          /\ UNCHANGED <<head, deque>>
      BY <1>1, <1>5, <2>4 DEF Awake, Goto, shared
    <3>2. lk' = [lk EXCEPT ![n].state = "ACTIVE"] /\ "ACTIVE" \in State
      BY <1>1, <2>4 DEF Awake, State
    <3> QED
      BY <1>1, <3>1, <3>2
  <2> QED
    BY <2>1, <2>2, <2>3, <2>4
<1>8. \A l \in Lock : lk'[l].signal = lk[l].signal /\ (l # n => lk'[l].state = lk[l].state)
  BY <1>5, <1>6, <1>7 DEF Fields
<1>9. \A l \in Lock : lk'[l].signal = lk[l].signal /\ (Owner(l) # t => lk'[l].state = lk[l].state)
  BY <1>6, <1>8
<1>10. \A u \in Thread \ {t} : u \in waitSet' => u \in waitSet
  BY <1>7
<1>11. t \in waitSet' => p = "asleep" /\ ~lk[n].signal
  <2>1. t \in waitSet => pc[t] = "asleep"
    BY <1>5 DEF WaitInv
  <2> QED
    BY <1>7, <2>1
<1>12. p \in Blocked => lk'[n].state = "WAIT" /\ (lk[n].signal \/ Waits(n))
  <2>1. p \in Blocked => p = "asleep"
    BY <1>7 DEF Blocked, Probing
  <2>2. pc[t] = "sleep" => lk[n].state = "WAIT" /\ (lk[n].signal \/ Waits(n))
    BY <1>1, <1>5 DEF WaitInv, Blocked
  <2> QED
    BY <1>7, <2>1, <2>2
<1>13. p \in Examining => \A j \in 1 .. Len(x.vec) : Rec(x.vec[j]) = Rec(n) /\ x.vec[j] # n
  <2>1. p \in Examining => pc[t] \in Examining
    BY <1>7 DEF Examining
  <2>2. pc[t] \in Examining => \A j \in 1 .. Len(loc[t].vec) : Rec(loc[t].vec[j]) = Rec(n) /\ loc[t].vec[j] # n
    BY <1>1, <1>5 DEF WaitInv
  <2> QED
    BY <1>7, <2>1, <2>2
<1>14. p \in Waiting \cup {"grant"} /\ p # "check_id" /\ x.new = n /\ UNCHANGED <<head, deque>>
  BY <1>7 DEF Waiting
<1> QED
  BY <1>1, <1>2, <1>3, <1>4, <1>9, <1>10, <1>11, <1>12, <1>13, <1>14, WaiterStep

\* A step of a thread that does not wait before it or after it, nor moves a head or signals.
LEMMA QuickStep ==
  ASSUME IInv, IInv', NEW rank, ListInv(rank), IdsLast, Ordered, Ordered', Worked, Worked', Awakes,
         NEW t \in Thread, Heeds(t), head' = head, waitSet' = waitSet,
         \A l \in Lock : lk'[l].signal => lk[l].signal,
         NEW p, NEW x, p = pc'[t], x = loc'[t],
         pc[t] \notin Fronting \cup {"asleep", "done"}, p \notin Waiting \/ p = "head",
         p \notin {"done", "wake_head", "wake_next", "wake_other"},
         Locks(t) \subseteq Locks(t)',
         p \in Freeing => x.i = 1 \/ (pc[t] \in Freeing /\ x.i = loc[t].i /\ deque' = deque)
  PROVE  Awakes'
<1>1. Calm(t)
  BY DEF Calm
<1>2. InHand(t) \subseteq InHand(t)'
  BY HandGrows
<1>3. t \notin waitSet'
  BY DEF Awakes, WaitInv
<1>4. WaitInv(t)'
  BY <1>3, NotWaiting
<1>5. WakeInv(t)'
  BY NotWaking
<1> QED
  BY <1>1, <1>2, <1>4, <1>5, PlainStep

\* The lock is prepared, and joins its list without its id.
LEMMA JoinsAwake ==
  ASSUME IInv, IInv', NEW rank \in [Lock -> Nat], Orderly(rank), IdsLast, Ordered, Ordered', Worked, Worked', Awakes,
         NEW t \in Thread, RenewNext(t) \/ Swap(t) \/ Link(t) \/ PassId(t) \/ SetConflict(t)
  PROVE  Awakes'
<1>1. PICK p, x, n : p = pc'[t] /\ x = loc'[t] /\ n = loc[t].new
  OBVIOUS
<1>2. Others(t) /\ Still /\ Stays(t, p, x)
  BY <1>1, JoinsQuiet DEF Quiet
<1>3. /\ pc \in [Thread -> Place] /\ lk \in [Lock -> Fields] /\ ListInv(rank)
  BY DEF IInv, Types, Orderly
<1>4. p \in {"mode", "first", "link", "await_id", "conflict", "head"} /\ pc[t] \in {"renew_next", "swap", "link", "pass_id", "conflict"}
  BY <1>1, <1>3 DEF RenewNext, Swap, Link, PassId, SetConflict, Goto
<1>5. head' = head /\ waitSet' = waitSet
  BY DEF RenewNext, Swap, Link, PassId, SetConflict, shared
<1>6. /\ \A l \in Lock : lk'[l].state = lk[l].state /\ (lk'[l].signal => lk[l].signal)
      /\ \A l \in Lock : Listed(l) /\ lk[l].signal => lk'[l].signal
  <2>1. CASE RenewNext(t)
    <3>1. pc[t] = "renew_next" /\ pc[t] \in Renewing
      BY <2>1 DEF RenewNext, Renewing
    <3>2. n \in Lock /\ Owner(n) = t
      BY <1>1, <3>1 DEF IInv, LockInv
    <3>3. ~Listed(n)
      BY <1>1, <3>1, <3>2 DEF Listed, Out, Preparing
    <3>4. lk' = [lk EXCEPT ![n].next = NoLock, ![n].headPass = FALSE, ![n].signal = FALSE]
      BY <1>1, <2>1 DEF RenewNext
    <3>5. \A l \in Lock : l # n => lk'[l] = lk[l]
      BY <1>3, <3>4
    <3>6. lk'[n].state = lk[n].state /\ lk'[n].signal = FALSE
      BY <1>3, <3>2, <3>4 DEF Fields
    <3> QED
      BY <3>3, <3>5, <3>6
  <2>2. CASE Swap(t) \/ SetConflict(t)
    <3>1. lk' = lk
      BY <2>2 DEF Swap, SetConflict
    <3> QED
      BY <3>1
  <2>3. CASE Link(t) \/ PassId(t)
    <3>1. PICK k, f : lk' = [lk EXCEPT ![k] = f] /\ f.state = lk[k].state /\ f.signal = lk[k].signal
      <4>1. PICK k : k = loc[t].prev
        OBVIOUS
      <4>2. k \in Lock
        <5>1. pc[t] \in Linking
          BY <2>3 DEF Link, PassId, Linking
        <5> QED
          BY <4>1, <5>1 DEF IInv, CallInv, CallAt
      <4>3. lk' = [lk EXCEPT ![k] = [@ EXCEPT !.next = n]] \/ lk' = [lk EXCEPT ![k] = [@ EXCEPT !.idPass = TRUE]]
        BY <1>1, <2>3, <4>1 DEF Link, PassId
      <4>4. lk[k] \in Fields
        BY <1>3, <4>2
      <4> QED
        BY <4>3, <4>4 DEF Fields
    <3> QED
      BY <1>3, <3>1
  <2> QED
    BY <2>1, <2>2, <2>3
<1>7. Heeds(t)
  BY <1>2, <1>6, StillHeeds
<1>8. Locks(t)' = Locks(t) /\ p # "done" /\ p \notin Freeing
  BY <1>2, <1>4 DEF Stays, Locks, Freeing, HoldingMutex
<1>9. pc[t] \notin Fronting \cup {"asleep", "done"} /\ (p \notin Waiting \/ p = "head")
      /\ p \notin {"done", "wake_head", "wake_next", "wake_other"}
  BY <1>4 DEF Fronting, Waiting
<1>10. \A l \in Lock : lk'[l].signal => lk[l].signal
  BY <1>6
<1> QED
  BY <1>1, <1>3, <1>5, <1>7, <1>8, <1>9, <1>10, QuickStep

\* A step of t that changes one lock, its own.
LEMMA OneHeeds ==
  ASSUME lk \in [Lock -> Fields], NEW t \in Thread, Others(t), NEW n,
         \A l \in Lock : l # n => lk'[l] = lk[l],
         n \in Lock =>
           /\ Owner(n) = t
           /\ Listed(n) /\ lk[n].signal => lk'[n].signal
           /\ Listed(n) /\ lk[n].state = "OBSOLETE" => lk'[n].state = "OBSOLETE"
           /\ n \in Locks(t) /\ lk[n].id # MaxId => lk'[n].id = lk[n].id,
         n \in Lock => \A m \in Lock :
           m \in Locks(Owner(m)) /\ lk[m].id # MaxId /\ Rec(n) = Rec(m) /\ m # n /\ lk[n].id > lk[m].id
             => lk'[n].id > lk[m].id
  PROVE  Heeds(t)
<1>1. \A l \in Lock :
        /\ Listed(l) /\ lk[l].signal => lk'[l].signal
        /\ Listed(l) /\ lk[l].state = "OBSOLETE" => lk'[l].state = "OBSOLETE"
        /\ Owner(l) # t => lk'[l].state = lk[l].state
        /\ l \in Locks(Owner(l)) /\ lk[l].id # MaxId => lk'[l].id = lk[l].id
  OBVIOUS
<1>2. ASSUME NEW m \in Lock, NEW k \in Lock,
             m \in Locks(Owner(m)), lk[m].id # MaxId, Rec(k) = Rec(m), lk[k].id > lk[m].id
      PROVE  lk'[k].id > lk'[m].id
  <2>1. lk'[m].id = lk[m].id
    BY <1>1, <1>2
  <2>2. CASE k # n
    BY <1>2, <2>1, <2>2
  <2>3. CASE k = n /\ m # n
    BY <1>2, <2>1, <2>3
  <2>4. CASE k = n /\ m = n
    <3>1. lk[m].id \in Nat
      BY DEF Fields
    <3> QED
      BY <1>2, <2>4, <3>1
  <2> QED
    BY <2>2, <2>3, <2>4
<1> QED
  BY <1>1, <1>2 DEF Heeds

\* A lock without an id looks recycled to those who wait.
LEMMA MaxBehind ==
  ASSUME lk \in [Lock -> Fields], IdsLast, NEW m \in Lock, lk[m].id # MaxId
  PROVE  MaxId > lk[m].id
<1>1. lk[m].id \in Nat /\ MaxId \in Nat /\ lk[m].id + 1 < MaxId
  BY LockIs DEF Fields, IdsLast
<1> QED
  BY <1>1

\* A lock for the next request is chosen and prepared.
LEMMA PrepareAwake ==
  ASSUME IInv, IInv', NEW rank \in [Lock -> Nat], Orderly(rank), IdsLast, Ordered, Ordered', Worked, Worked', Awakes,
         NEW t \in Thread, Pick(t) \/ RenewState(t) \/ SetMode(t)
  PROVE  Awakes'
<1>1. PICK p, x : p = pc'[t] /\ x = loc'[t]
  OBVIOUS
<1>2. LockInv(t) /\ ListInv(rank) /\ DequeInv(t)
  BY DEF IInv, Orderly, ListInv
<1>3. pc \in [Thread -> Place] /\ loc \in [Thread -> Locals] /\ lk \in [Lock -> Fields] /\ deque \in [Thread -> Seq(Lock)]
  BY DEF IInv, Types
<1>4. CASE Pick(t)
  <2>1. PICK n : n = <<t, Wanted(t).rec, loc[t].i>>
    OBVIOUS
  <2>2. /\ pc[t] = "pick" /\ p \in {"pick", "mode", "renew_state"} /\ Others(t) /\ UNCHANGED <<deque, head, waitSet>>
        /\ lk' = lk \/ (lk[n].state = "OBSOLETE" /\ lk' = [lk EXCEPT ![n].id = MaxId, ![n].idPass = FALSE])
    BY <1>1, <1>3, <1>4, <2>1 DEF Pick, Create, Recycle, Recyclable, Goto, Others
  <2>3. \A l \in Lock : l # n => lk'[l] = lk[l]
    BY <1>3, <2>2
  <2>4. n \in Lock =>
          /\ Owner(n) = t /\ lk'[n].signal = lk[n].signal /\ lk'[n].state = lk[n].state
          /\ lk'[n] = lk[n] \/ (lk[n].state = "OBSOLETE" /\ lk'[n].id = MaxId)
    <3> SUFFICES ASSUME n \in Lock
                 PROVE  /\ Owner(n) = t /\ lk'[n].signal = lk[n].signal /\ lk'[n].state = lk[n].state
                        /\ lk'[n] = lk[n] \/ (lk[n].state = "OBSOLETE" /\ lk'[n].id = MaxId)
      OBVIOUS
    <3>1. Owner(n) = t /\ lk[n] \in Fields
      BY <1>3, <2>1 DEF Owner
    <3>2. lk'[n] = lk[n] \/ (lk[n].state = "OBSOLETE" /\ lk'[n] = [lk[n] EXCEPT !.id = MaxId, !.idPass = FALSE])
      BY <1>3, <2>2
    <3> QED
      BY <3>1, <3>2 DEF Fields
  <2>5. n \in Locks(t) => lk[n].state # "OBSOLETE"
    BY <1>2, <2>2 DEF DequeInv, Freeing, HoldingMutex
  <2>6. n \in Lock => \A m \in Lock :
           m \in Locks(Owner(m)) /\ lk[m].id # MaxId /\ Rec(n) = Rec(m) /\ m # n /\ lk[n].id > lk[m].id
             => lk'[n].id > lk[m].id
    BY <1>3, <2>4, MaxBehind
  <2>7. Heeds(t)
    BY <1>3, <2>2, <2>3, <2>4, <2>5, <2>6, OneHeeds
  <2>8. \A l \in Lock : lk'[l].signal => lk[l].signal
    BY <2>3, <2>4
  <2>9. Locks(t)' = Locks(t)
    BY <2>2 DEF Locks
  <2>10. p \notin Waiting /\ p \notin Freeing /\ pc[t] \notin Fronting \cup {"asleep", "done"}
         /\ p \notin {"done", "wake_head", "wake_next", "wake_other"}
    BY <2>2 DEF Waiting, Freeing, HoldingMutex, Fronting
  <2>11. head' = head /\ waitSet' = waitSet
    BY <2>2
  <2> QED
    BY <1>1, <1>2, <2>7, <2>8, <2>9, <2>10, <2>11, QuickStep
<1>5. CASE RenewState(t) \/ SetMode(t)
  <2>1. PICK n : n = loc[t].new
    OBVIOUS
  <2>2. /\ pc[t] \in {"renew_state", "mode"} /\ p \in {"renew_next", "swap"} /\ Others(t) /\ head' = head /\ waitSet' = waitSet
        /\ \/ lk' = [lk EXCEPT ![n].state = "ACTIVE"]
           \/ lk' = [lk EXCEPT ![n].mode = Wanted(t).mode]
        /\ deque'[t] = deque[t] \/ deque'[t] = Append(deque[t], n)
    BY <1>1, <1>3, <1>5, <2>1 DEF RenewState, SetMode, Goto, Others, shared
  <2>3. pc[t] \in Preparing /\ pc[t] \in Renewing
    BY <2>2 DEF Preparing, Renewing
  <2>4. n \in Lock /\ Owner(n) = t
    BY <1>2, <2>1, <2>3 DEF LockInv
  <2>5. ~Listed(n)
    BY <2>1, <2>3, <2>4 DEF Listed, Out
  <2>6. \A l \in Lock : l # n => lk'[l] = lk[l]
    BY <1>3, <2>2
  <2>7. lk'[n].id = lk[n].id /\ lk'[n].signal = lk[n].signal
    <3>1. lk[n] \in Fields /\ (lk'[n] = [lk[n] EXCEPT !.state = "ACTIVE"] \/ lk'[n] = [lk[n] EXCEPT !.mode = Wanted(t).mode])
      BY <1>3, <2>2, <2>4
    <3> QED
      BY <3>1 DEF Fields
  <2>8. Others(t)
    BY <2>2
  <2>9. Heeds(t)
    BY <1>3, <2>4, <2>5, <2>6, <2>7, <2>8, OneHeeds
  <2>10. Locks(t) \subseteq Locks(t)'
    <3>1. PICK d, s : d = deque'[t] /\ s = deque[t]
      OBVIOUS
    <3>2. s \in Seq(Lock) /\ (d = s \/ d = Append(s, n))
      BY <1>3, <2>2, <3>1
    <3>3. Locks(t)' = {d[k] : k \in 1 .. Len(d)} /\ Locks(t) = {s[k] : k \in 1 .. Len(s)}
      BY <3>1 DEF Locks
    <3>4. \A k \in 1 .. Len(s) : k \in 1 .. Len(d) /\ d[k] = s[k]
      BY <2>4, <3>2
    <3> QED
      BY <3>3, <3>4
  <2>11. \A l \in Lock : lk'[l].signal => lk[l].signal
    BY <2>6, <2>7
  <2>12. p \notin Waiting /\ p \notin Freeing /\ pc[t] \notin Fronting \cup {"asleep", "done"}
         /\ p \notin {"done", "wake_head", "wake_next", "wake_other"}
    BY <2>2 DEF Waiting, Freeing, HoldingMutex, Fronting
  <2>13. head' = head /\ waitSet' = waitSet
    BY <2>2
  <2> QED
    BY <1>1, <1>2, <2>9, <2>10, <2>11, <2>12, <2>13, QuickStep
<1> QED
  BY <1>4, <1>5

\* AcquireLock returns, and ReleaseLock begins.
LEMMA ReturnAwake ==
  ASSUME IInv, IInv', NEW rank \in [Lock -> Nat], Orderly(rank), IdsLast, Ordered, Ordered', Worked, Worked', Awakes,
         NEW t \in Thread, GiveUp(t) \/ Grant(t) \/ LockHead(t)
  PROVE  Awakes'
<1>1. PICK p, x : p = pc'[t] /\ x = loc'[t]
  OBVIOUS
<1>2. ListInv(rank)
  BY DEF Orderly
<1>3. /\ pc \in [Thread -> Place] /\ loc \in [Thread -> Locals] /\ conflict \in [Thread -> Node]
      /\ loc[t] \in Locals
  BY DEF IInv, Types
<1>4. /\ Others(t) /\ UNCHANGED <<lk, head, waitSet, deque, saved>>
      /\ pc[t] \in {"give_up", "grant", "head_mutex"} /\ p \in {"release", "pick", "front"}
  BY <1>1, <1>3 DEF GiveUp, Grant, LockHead, Goto, Others
<1>5. x.i = 1 \/ (pc[t] = "head_mutex" /\ x.i = loc[t].i)
  BY <1>1, <1>3 DEF GiveUp, Grant, LockHead, NoLocals, Locals
<1>6. Still
  BY <1>4 DEF Still, Idle
<1>7. Heeds(t)
  BY <1>4, <1>6, StillHeeds
<1>8. Locks(t)' = Locks(t)
  BY <1>4 DEF Locks
<1>9. p \in Freeing => x.i = 1 \/ (pc[t] \in Freeing /\ x.i = loc[t].i /\ deque' = deque)
  BY <1>4, <1>5 DEF Freeing
<1>10. p \notin Waiting /\ pc[t] \notin Fronting \cup {"asleep", "done"}
       /\ p \notin {"done", "wake_head", "wake_next", "wake_other"}
  BY <1>4 DEF Waiting, Fronting
<1>11. head' = head /\ waitSet' = waitSet /\ lk' = lk
  BY <1>4
<1> QED
  BY <1>1, <1>2, <1>7, <1>8, <1>9, <1>10, <1>11, QuickStep

\* A lock is released, but its owner has yet to move the head.
LEMMA MarkAwake ==
  ASSUME IInv, IInv', NEW rank \in [Lock -> Nat], Orderly(rank), IdsLast, Ordered, Ordered', Worked, Worked', Awakes,
         NEW t \in Thread, Deadlock(t) \/ MarkObsolete(t)
  PROVE  Awakes'
<1>1. Types /\ LockInv(t) /\ ProgramInv(t) /\ DequeInv(t) /\ ListInv(rank)
  BY DEF IInv, Orderly, ListInv
<1>2. pc \in [Thread -> Place] /\ loc \in [Thread -> Locals] /\ lk \in [Lock -> Fields] /\ deque \in [Thread -> Seq(Lock)]
  BY <1>1 DEF Types
<1>3. PICK p, x, n : p = pc'[t] /\ x = loc'[t] /\ n = IF pc[t] = "deadlock" THEN loc[t].new ELSE Releases(t)
  OBVIOUS
<1>4. /\ pc[t] \in {"deadlock", "release"} /\ p \in {"give_up", "head_mutex"} /\ Others(t) /\ UNCHANGED <<deque, head, waitSet>>
      /\ lk' = [lk EXCEPT ![n].state = "OBSOLETE"] /\ (p = "head_mutex" <=> pc[t] = "release") /\ x = loc[t]
  BY <1>2, <1>3 DEF Deadlock, MarkObsolete, Goto, Others, shared
<1>5. n \in Lock /\ Owner(n) = t
  <2>1. CASE pc[t] = "deadlock"
    <3>1. pc[t] \in Joined
      BY <2>1 DEF Joined, Waiting
    <3> QED
      BY <1>1, <1>3, <2>1, <3>1 DEF LockInv
  <2>2. CASE pc[t] = "release"
    <3>1. pc[t] \in Freeing /\ loc[t].i \in 1 .. Len(deque[t])
      BY <1>1, <2>2 DEF ProgramInv, Freeing
    <3>2. n \in Locks(t) /\ n \in Lock
      BY <1>2, <1>3, <2>2, <3>1 DEF Releases, Locks
    <3> QED
      BY <1>1, <3>2 DEF DequeInv
  <2> QED
    BY <1>4, <2>1, <2>2
<1>6. \A l \in Lock : l # n => lk'[l] = lk[l]
  BY <1>2, <1>4
<1>7. lk'[n].state = "OBSOLETE" /\ lk'[n].id = lk[n].id /\ lk'[n].signal = lk[n].signal
  <2>1. lk'[n] = [lk[n] EXCEPT !.state = "OBSOLETE"] /\ lk[n] \in Fields
    BY <1>2, <1>4, <1>5
  <2> QED
    BY <2>1 DEF Fields
<1>8. Heeds(t)
  BY <1>2, <1>4, <1>5, <1>6, <1>7, OneHeeds
<1>9. Locks(t)' = Locks(t)
  BY <1>4 DEF Locks
<1>10. \A l \in Lock : lk'[l].signal => lk[l].signal
  BY <1>6, <1>7
<1>11. p \in Freeing => pc[t] \in Freeing /\ x.i = loc[t].i /\ deque' = deque
  BY <1>4 DEF Freeing, HoldingMutex
<1>12. p \notin Waiting /\ pc[t] \notin Fronting \cup {"asleep", "done"}
       /\ p \notin {"done", "wake_head", "wake_next", "wake_other"}
  BY <1>4 DEF Waiting, Fronting
<1>13. head' = head /\ waitSet' = waitSet
  BY <1>4
<1> QED
  BY <1>1, <1>3, <1>8, <1>9, <1>10, <1>11, <1>12, <1>13, QuickStep

\* A lock gets its id, behind all that wait.
LEMMA IdHeeds ==
  ASSUME IInv, NEW rank \in [Lock -> Nat], ListInv(rank), IdsLast, NEW t \in Thread, AwaitId(t) \/ FirstLock(t),
         NEW p, NEW x, NEW n, p = pc'[t], x = loc'[t], n = loc[t].new
  PROVE  /\ Heeds(t) /\ n \in Lock /\ Rec(n) \in Record /\ x = loc[t] /\ UNCHANGED <<deque, waitSet, saved>>
         /\ pc[t] \in {"await_id", "first"} /\ p \in {"pass_id", "conflict"}
         /\ \A l \in Lock : lk'[l].signal = lk[l].signal
         /\ pc[t] = "first" => lk'[n].id = 0 /\ head' = [head EXCEPT ![Rec(n)] = n]
         /\ pc[t] = "await_id" => head' = head
<1>1. Types /\ LockInv(t) /\ DequeInv(t)
  BY DEF IInv, ListInv
<1>2. pc \in [Thread -> Place] /\ loc \in [Thread -> Locals] /\ lk \in [Lock -> Fields]
  BY <1>1 DEF Types
<1>3. PICK k, i : k = loc[t].prev /\ i = IF pc[t] = "first" THEN 0 ELSE lk[k].id + 1
  OBVIOUS
<1>4. /\ pc[t] \in {"await_id", "first"} /\ p \in {"pass_id", "conflict"} /\ Others(t) /\ x = loc[t]
      /\ UNCHANGED <<deque, waitSet, saved>> /\ lk' = [lk EXCEPT ![n].id = i] /\ (pc[t] = "await_id" => lk[k].id # MaxId)
  BY <1>2, <1>3 DEF AwaitId, FirstLock, NextId, Goto, Others, shared
<1>5. /\ pc[t] = "first" => head' = [head EXCEPT ![Rec(n)] = n]
      /\ pc[t] = "await_id" => head' = head
  BY <1>4 DEF AwaitId, FirstLock, shared
<1>6. n \in Lock /\ Owner(n) = t /\ Listed(n) /\ Rec(n) \in Record
  <2>1. pc[t] \in Headless
    BY <1>4 DEF Headless
  <2>2. n \in Lock /\ Owner(n) = t /\ n \in Locks(t)
    BY <1>1, <2>1 DEF LockInv, DequeInv
  <2> QED
    BY <1>1, <1>4, <2>2, LockIs DEF DequeInv
<1>7. lk[n].id = MaxId
  <2>1. IdInv(rank, n)
    BY <1>6 DEF ListInv
  <2> QED
    BY <1>4, <1>6, <2>1 DEF IdInv
<1>8. i = rank[n] /\ i \in Nat
  <2>1. JoinAt(rank, pc[t], loc[t])
    BY DEF ListInv
  <2>2. CASE pc[t] = "first"
    BY <1>3, <2>1, <2>2 DEF JoinAt
  <2>3. CASE pc[t] = "await_id"
    <3>1. k \in Lock
      BY <1>3, <2>3, PassIs DEF Linking
    <3>2. Listed(k) /\ rank[n] = rank[k] + 1
      BY <1>3, <2>1, <2>3 DEF JoinAt, Linking
    <3>3. lk[k].id = rank[k]
      BY <1>4, <2>3, <3>1, <3>2 DEF ListInv, IdInv
    <3> QED
      BY <1>3, <2>3, <3>1, <3>2, <3>3
  <2> QED
    BY <1>4, <2>2, <2>3
<1>9. \A l \in Lock : l # n => lk'[l] = lk[l]
  BY <1>2, <1>4
<1>10. lk'[n].id = i /\ lk'[n].state = lk[n].state /\ lk'[n].signal = lk[n].signal
  <2>1. lk'[n] = [lk[n] EXCEPT !.id = i] /\ lk[n] \in Fields
    BY <1>2, <1>4, <1>6
  <2> QED
    BY <2>1 DEF Fields
<1>11. ASSUME NEW m \in Lock, lk[m].id # MaxId, Rec(n) = Rec(m), m # n
       PROVE  lk'[n].id > lk[m].id
  <2>1. IdInv(rank, m) /\ OrderInv(rank, m, n)
    BY <1>6 DEF ListInv
  <2>2. Listed(m) /\ lk[m].id = rank[m]
    BY <1>11, <2>1 DEF IdInv
  <2>3. rank[m] # rank[n] /\ ~(rank[n] < rank[m])
    BY <1>6, <1>7, <1>11, <2>1, <2>2 DEF OrderInv
  <2>4. rank[m] \in Nat /\ rank[n] \in Nat
    BY <1>6
  <2> QED
    BY <1>8, <1>10, <2>2, <2>3, <2>4
<1>12. Heeds(t)
  BY <1>2, <1>4, <1>6, <1>7, <1>9, <1>10, <1>11, OneHeeds
<1>13. pc[t] = "first" => lk'[n].id = 0
  BY <1>3, <1>10
<1>14. \A l \in Lock : lk'[l].signal = lk[l].signal
  BY <1>9, <1>10
<1> QED
  BY <1>4, <1>5, <1>6, <1>12, <1>13, <1>14

\* A lock gets its id, and the head with it if it is the first one.
LEMMA JoinAwake ==
  ASSUME IInv, IInv', NEW rank \in [Lock -> Nat], Orderly(rank), IdsLast, Ordered, Ordered', Worked, Worked', Awakes,
         NEW t \in Thread, AwaitId(t) \/ FirstLock(t)
  PROVE  Awakes'
<1>1. PICK p, x, n : p = pc'[t] /\ x = loc'[t] /\ n = loc[t].new
  OBVIOUS
<1>2. ListInv(rank)
  BY DEF Orderly
<1>3. /\ Heeds(t) /\ n \in Lock /\ Rec(n) \in Record /\ x = loc[t] /\ UNCHANGED <<deque, waitSet, saved>>
      /\ pc[t] \in {"await_id", "first"} /\ p \in {"pass_id", "conflict"}
      /\ \A l \in Lock : lk'[l].signal = lk[l].signal
      /\ pc[t] = "first" => lk'[n].id = 0 /\ head' = [head EXCEPT ![Rec(n)] = n]
      /\ pc[t] = "await_id" => head' = head
  BY <1>1, <1>2, IdHeeds
<1>4. /\ p \notin Waiting /\ p \notin Freeing /\ pc[t] \notin Fronting \cup {"asleep", "done"}
      /\ p \notin {"done", "wake_head", "wake_next", "wake_other"}
  BY <1>3 DEF Waiting, Freeing, HoldingMutex, Fronting
<1>5. Locks(t)' = Locks(t)
  BY <1>3 DEF Locks
<1>6. CASE pc[t] = "await_id"
  BY <1>1, <1>2, <1>3, <1>4, <1>5, <1>6, QuickStep
<1>7. CASE pc[t] = "first"
  <2>1. head \in [Record -> Node] /\ head[Rec(n)] = NoLock
    BY <1>1, <1>7 DEF IInv, Types, FirstInv
  <2>2. \A r \in Record : head'[r] = IF r = Rec(n) THEN n ELSE head[r]
    BY <1>3, <1>7, <2>1
  <2>3. \A u \in Thread \ {t} : pc[u] \in HoldingMutex => head'[Rec(Releases(u))] = head[Rec(Releases(u))]
    <3>1. ASSUME NEW u \in Thread \ {t}, pc[u] \in HoldingMutex PROVE head'[Rec(Releases(u))] = head[Rec(Releases(u))]
      <4>1. head[Rec(Releases(u))] # NoLock /\ Rec(Releases(u)) \in Record
        BY <3>1, HoldingIs, LockIs
      <4> QED
        BY <2>1, <2>2, <4>1
    <3> QED
      BY <3>1
  <2>4. \A r \in Record : FrontInv(r)'
    <3>1. FrontInv(Rec(n))'
      <4>1. lk'[head'[Rec(n)]].id = 0
        BY <1>3, <1>7, <2>2
      <4> QED
        BY <4>1 DEF FrontInv
    <3>2. ASSUME NEW r \in Record, r # Rec(n) PROVE FrontInv(r)'
      <4>1. head'[r] = head[r]
        BY <2>2, <3>2
      <4> QED
        BY <1>2, <1>3, <1>4, <4>1, FrontSame
    <3> QED
      BY <3>1, <3>2
  <2>5. InHand(t) \subseteq InHand(t)'
    BY <1>1, <1>4, <1>5, HandGrows
  <2>6. t \notin waitSet'
    BY <1>3, <1>4 DEF Awakes, WaitInv
  <2>7. WaitInv(t)'
    BY <1>1, <1>4, <2>6, NotWaiting
  <2>8. WakeInv(t)'
    BY <1>1, <1>4, NotWaking
  <2>9. Sleepers(t)
    <3>1. Calm(t)
      BY <1>3 DEF Calm
    <3> QED
      BY <1>2, <3>1, CalmSleeps
  <2> QED
    BY <1>2, <1>3, <2>3, <2>4, <2>5, <2>7, <2>8, <2>9, GrowStep
<1> QED
  BY <1>3, <1>6, <1>7

\* A thread that moves a head signals to the lock it stands on, or to none.
LEMMA MoverHeeds ==
  ASSUME IInv, NEW rank, ListInv(rank), Awakes, NEW t \in Thread, NEW p, NEW x, NEW k,
         p = pc'[t], x = loc'[t], k = loc[t].target,
         Front(t) \/ Advance(t) \/ PassHead(t) \/ NewFront(t) \/ WakeHead(t) \/ WakeNext(t) \/ WakeOther(t)
  PROVE  /\ Heeds(t) /\ Sleepers(t) /\ pc[t] \in HoldingMutex /\ t \notin waitSet'
         /\ \A l \in Lock : lk[l].signal => lk'[l].signal
         /\ pc[t] \in {"wake_head", "wake_other"} => lk'[k].signal
         /\ Unlock(t) \/ (p \in HoldingMutex /\ x.i = loc[t].i /\ deque' = deque)
<1>1. Types /\ CallInv(t)
  BY DEF IInv
<1>2. pc \in [Thread -> Place] /\ loc \in [Thread -> Locals] /\ lk \in [Lock -> Fields] /\ waitSet \subseteq Thread
  BY <1>1 DEF Types
<1>3. pc[t] \in HoldingMutex /\ conflict' = conflict
  BY DEF Front, Advance, PassHead, NewFront, WakeHead, WakeNext, WakeOther, HoldingMutex, shared
<1>4. Quiet(t, p, x) \/ (Unlock(t) /\ Still)
  BY ReleasesQuiet
<1>5. Others(t) /\ Still
  BY <1>3, <1>4, UnlockOthers DEF Quiet
<1>6. pc[t] # "asleep" /\ t \notin waitSet
  BY <1>3 DEF Awakes, WaitInv, HoldingMutex
<1>7. Unlock(t) \/ (p \in HoldingMutex /\ x.i = loc[t].i /\ deque' = deque)
  <2>1. CASE Front(t) \/ Advance(t) \/ WakeNext(t)
    <3>1. CASE Front(t)
      BY <1>2, <3>1 DEF Front, Hold, Goto, HoldingMutex, Locals
    <3>2. CASE Advance(t)
      BY <1>2, <3>2 DEF Advance, Hold, Goto, HoldingMutex, Locals
    <3>3. CASE WakeNext(t)
      BY <1>2, <3>3 DEF WakeNext, Hold, Goto, HoldingMutex, Locals
    <3> QED
      BY <2>1, <3>1, <3>2, <3>3
  <2>2. CASE PassHead(t) \/ NewFront(t)
    BY <1>2, <2>2 DEF PassHead, NewFront, Goto, shared, HoldingMutex
  <2>3. CASE WakeHead(t) \/ WakeOther(t)
    BY <1>2, <2>3 DEF WakeHead, WakeOther, Hold, Goto, HoldingMutex
  <2> QED
    BY <2>1, <2>2, <2>3
<1>8. CASE WakeHead(t) \/ WakeOther(t)
  <2>1. k \in Lock /\ Wake(k)
    BY <1>1, <1>3, <1>8 DEF CallInv, CallAt, WakeHead, WakeOther
  <2>2. lk' = [lk EXCEPT ![k].signal = TRUE]
    BY <2>1 DEF Wake
  <2>3. lk'[k] = [lk[k] EXCEPT !.signal = TRUE] /\ lk[k] \in Fields
    BY <1>2, <2>1, <2>2
  <2>4. lk'[k].signal /\ lk'[k].state = lk[k].state
    BY <2>3 DEF Fields
  <2>5. \A l \in Lock : l # k => lk'[l] = lk[l]
    BY <1>2, <2>2
  <2>6. Heeds(t)
    BY <1>5, <2>4, <2>5, StillHeeds
  <2>7. Sleepers(t)
    <3>1. ASSUME NEW u \in Thread \ {t}, u \in waitSet' PROVE u \in waitSet /\ ~lk'[loc[u].new].signal
      <4>1. u \in waitSet /\ (lk[k].state = "WAIT" => u # Owner(k))
        BY <2>1, <3>1 DEF Wake
      <4>2. pc[u] = "asleep" /\ ~lk[loc[u].new].signal /\ lk[loc[u].new].state = "WAIT"
        BY <4>1 DEF Awakes, WaitInv, Blocked
      <4>3. loc[u].new \in Lock /\ Owner(loc[u].new) = u
        BY <4>2, AskedIs DEF Waiting
      <4>4. loc[u].new # k
        BY <4>1, <4>2, <4>3
      <4> QED
        BY <2>5, <4>1, <4>2, <4>3, <4>4
    <3> QED
      BY <3>1 DEF Sleepers
  <2>8. t \notin waitSet'
    BY <1>6, <2>1 DEF Wake
  <2>9. \A l \in Lock : lk[l].signal => lk'[l].signal
    BY <2>4, <2>5
  <2> QED
    BY <1>3, <1>7, <2>4, <2>6, <2>7, <2>8, <2>9
<1>9. CASE Front(t) \/ Advance(t) \/ PassHead(t) \/ NewFront(t) \/ WakeNext(t)
  <2>1. waitSet' = waitSet /\ pc[t] \notin {"wake_head", "wake_other"}
    BY <1>9 DEF Front, Advance, PassHead, NewFront, WakeNext, shared
  <2>2. \A l \in Lock : lk'[l].state = lk[l].state /\ lk'[l].signal = lk[l].signal
    <3>1. CASE PassHead(t)
      <4>1. PICK q : q = loc[t].prev
        OBVIOUS
      <4>2. lk' = [lk EXCEPT ![q].headPass = TRUE]
        BY <3>1, <4>1 DEF PassHead
      <4>3. \A l \in Lock : lk'[l] = IF l = q THEN [lk[l] EXCEPT !.headPass = TRUE] ELSE lk[l]
        BY <1>2, <4>2
      <4>4. \A l \in Lock : lk[l] \in Fields
        BY <1>2
      <4> QED
        BY <4>3, <4>4 DEF Fields
    <3>2. CASE ~PassHead(t)
      BY <1>9, <3>2 DEF Front, Advance, NewFront, WakeNext
    <3> QED
      BY <3>1, <3>2
  <2>3. Heeds(t)
    BY <1>5, <2>2, StillHeeds
  <2>4. Calm(t)
    BY <2>1, <2>2 DEF Calm
  <2>5. Sleepers(t)
    BY <2>4, CalmSleeps
  <2> QED
    BY <1>3, <1>6, <1>7, <2>1, <2>2, <2>3, <2>5
<1> QED
  BY <1>8, <1>9

\* A thread that keeps the mutex knows the head it moves, and that others have a signal.
LEMMA HoldStep ==
  ASSUME IInv, IInv', NEW rank, ListInv(rank), IdsLast, Ordered, Ordered', Worked, Worked', Awakes,
         NEW t \in Thread, Heeds(t), Sleepers(t), t \notin waitSet', pc[t] \in HoldingMutex,
         NEW p, NEW x, NEW g, NEW r, p = pc'[t], x = loc'[t], g = Releases(t), r = Rec(g),
         p \in HoldingMutex, x.i = loc[t].i, deque' = deque,
         \A q \in Record \ {r} : head'[q] = head[q],
         p \in {"wake_head", "wake_next", "wake_other"} =>
           head'[r] \in InHand(Owner(head'[r])) /\ head'[r] # g /\ Owner(head'[r]) \in Thread,
         p \in {"wake_next", "wake_other"} => lk'[head'[r]].signal,
         \A q \in Record : FrontInv(q)'
  PROVE  Awakes'
<1>1. Others(t)
  BY DEF Heeds
<1>2. Locks(t)' = Locks(t)
  BY DEF Locks
<1>3. pc[t] \in Freeing /\ pc[t] # "done" /\ p # "done"
  BY DEF Freeing, HoldingMutex
<1>4. InHand(t) \subseteq InHand(t)'
  BY <1>2, <1>3, HandGrows
<1>5. \A v \in Thread : InHand(v) \subseteq InHand(v)'
  <2>1. ASSUME NEW v \in Thread, v # t PROVE InHand(v)' = InHand(v)
    <3>1. pc'[v] = pc[v] /\ loc'[v] = loc[v] /\ deque'[v] = deque[v]
      BY <1>1, <2>1 DEF Others
    <3> QED
      BY <3>1 DEF InHand, Locks
  <2> QED
    BY <1>4, <2>1
<1>6. WaitInv(t)'
  <2>1. p \notin Waiting
    BY DEF Waiting, HoldingMutex
  <2> QED
    BY <1>3, <2>1, NotWaiting
<1>7. WakeInv(t)'
  <2>1. Releases(t)' = g
    BY DEF Releases
  <2>2. PICK h : h = head'[r]
    OBVIOUS
  <2>3. p \in {"wake_head", "wake_next", "wake_other"} => h \in InHand(Owner(h))' /\ h # g
    BY <1>5, <2>2
  <2>4. p \in {"wake_next", "wake_other"} => lk'[h].signal
    BY <2>2
  <2> QED
    BY <2>1, <2>2, <2>3, <2>4 DEF WakeInv
<1>8. ASSUME NEW u \in Thread \ {t}, pc[u] \in HoldingMutex
      PROVE  head'[Rec(Releases(u))] = head[Rec(Releases(u))]
  <2>1. Rec(Releases(u)) \in Record /\ mutex[Rec(Releases(u))] = u /\ mutex[r] = t
    BY <1>8, HoldingIs
  <2> QED
    BY <1>8, <2>1
<1> QED
  BY <1>4, <1>6, <1>7, <1>8, GrowStep

\* The lock that is being released is OBSOLETE, and its record has a head.
LEMMA GoneIs ==
  ASSUME IInv, NEW rank, ListInv(rank), Worked, NEW t \in Thread, pc[t] \in HoldingMutex,
         NEW g, NEW r, NEW h, g = Releases(t), r = Rec(g), h = head[r]
  PROVE  /\ g \in Lock /\ r \in Record /\ mutex[r] = t /\ lk[g].state = "OBSOLETE"
         /\ h \in Lock /\ HasHead(r) /\ Listed(h) /\ Rec(h) = r /\ Owner(h) \in Thread
         /\ loc[t].i \in 1 .. Len(deque[t]) /\ g = deque[t][loc[t].i]
<1>1. g \in Lock /\ r \in Record /\ mutex[r] = t /\ h \in Lock /\ loc[t].i \in 1 .. Len(deque[t])
  BY HoldingIs
<1>2. g = deque[t][loc[t].i]
  BY DEF Releases
<1>3. lk[g].state = "OBSOLETE"
  <2>1. WorkInv(t) /\ pc[t] \in Freeing /\ pc[t] # "release"
    BY DEF Worked, Freeing, HoldingMutex
  <2> QED
    BY <1>1, <1>2, <2>1 DEF WorkInv
<1>4. HasHead(r) /\ Owner(h) \in Thread
  BY <1>1, LockIs DEF HasHead
<1>5. Listed(h) /\ Rec(h) = r
  BY <1>1, <1>4 DEF ListInv, EndsInv
<1> QED
  BY <1>1, <1>2, <1>3, <1>4, <1>5

\* The head moves to the next lock, or its lock is still OBSOLETE or about to be signalled.
LEMMA AdvanceHolds ==
  ASSUME IInv, IInv', NEW rank \in [Lock -> Nat], Orderly(rank), IdsLast, Ordered, Ordered', Worked, Worked', Awakes,
         NEW t \in Thread, Front(t) \/ Advance(t) \/ PassHead(t), ~Unlock(t)
  PROVE  Awakes'
<1>1. PICK p, x, k, g, r : p = pc'[t] /\ x = loc'[t] /\ k = loc[t].target /\ g = Releases(t) /\ r = Rec(g)
  OBVIOUS
<1>2. ListInv(rank)
  BY DEF Orderly
<1>3. /\ Heeds(t) /\ Sleepers(t) /\ pc[t] \in HoldingMutex /\ t \notin waitSet'
      /\ p \in HoldingMutex /\ x.i = loc[t].i /\ deque' = deque
  BY <1>1, <1>2, MoverHeeds
<1>4. pc \in [Thread -> Place] /\ loc \in [Thread -> Locals] /\ head \in [Record -> Node] /\ r \in Record
  BY <1>1, <1>2, <1>3, GoneIs DEF IInv, Types
<1>5. CASE Front(t)
  <2>1. p = "advance" /\ head' = head /\ pc[t] = "front"
    BY <1>1, <1>4, <1>5 DEF Front, Hold, Goto
  <2>2. \A q \in Record : FrontInv(q)'
    BY <1>2, <1>3, <2>1, FrontSame DEF Fronting
  <2> QED
    BY <1>1, <1>2, <1>3, <2>1, <2>2, HoldStep
<1>6. CASE Advance(t)
  <2>1. PICK l : l = lk[k].next
    OBVIOUS
  <2>2. /\ p = "pass_head" /\ pc[t] = "advance" /\ head' = [head EXCEPT ![r] = l] /\ x.target = l
    BY <1>1, <1>4, <1>6, <2>1 DEF Advance, Goto, Locals
  <2>3. \A q \in Record : head'[q] = IF q = r THEN l ELSE head[q]
    BY <1>4, <2>2
  <2>4. FrontInv(r)'
    <3>1. p \in Fronting /\ x.target = head'[r]
      BY <1>4, <2>2, <2>3 DEF Fronting
    <3> QED
      BY <1>1, <3>1 DEF FrontInv
  <2>5. ASSUME NEW q \in Record, q # r PROVE FrontInv(q)'
    <3>1. head'[q] = head[q] /\ pc[t] \notin Fronting
      BY <2>2, <2>3, <2>5 DEF Fronting
    <3> QED
      BY <1>2, <1>3, <3>1, FrontSame
  <2>6. \A q \in Record : FrontInv(q)'
    BY <2>4, <2>5
  <2>7. (\A q \in Record \ {r} : head'[q] = head[q]) /\ p \notin {"wake_head", "wake_next", "wake_other"}
    BY <2>2, <2>3
  <2> QED
    BY <1>1, <1>2, <1>3, <2>6, <2>7, HoldStep
<1>7. CASE PassHead(t)
  <2>1. p = "new_front" /\ head' = head /\ x = loc[t]
    BY <1>1, <1>4, <1>7 DEF PassHead, Goto, shared
  <2>2. ASSUME NEW q \in Record PROVE FrontInv(q)'
    <3>1. CASE head[q] = NoLock
      BY <2>1, <3>1 DEF FrontInv, HasHead
    <3>2. CASE head[q] # NoLock
      BY <1>1, <1>2, <1>3, <2>1, <3>2, FrontKept DEF Fronting
    <3> QED
      BY <3>1, <3>2
  <2> QED
    BY <1>1, <1>2, <1>3, <2>1, <2>2, HoldStep
<1> QED
  BY <1>5, <1>6, <1>7

\* The thread that has moved the head looks at its new lock, and signals.
LEMMA WakeHolds ==
  ASSUME IInv, IInv', NEW rank \in [Lock -> Nat], Orderly(rank), IdsLast, Ordered, Ordered', Worked, Worked', Awakes,
         NEW t \in Thread, NewFront(t) \/ WakeHead(t) \/ WakeNext(t) \/ WakeOther(t), ~Unlock(t)
  PROVE  Awakes'
<1>1. PICK p, x, k, g, r, h : p = pc'[t] /\ x = loc'[t] /\ k = loc[t].target /\ g = Releases(t) /\ r = Rec(g) /\ h = head[r]
  OBVIOUS
<1>2. ListInv(rank)
  BY DEF Orderly
<1>3. /\ Heeds(t) /\ Sleepers(t) /\ pc[t] \in HoldingMutex /\ t \notin waitSet'
      /\ p \in HoldingMutex /\ x.i = loc[t].i /\ deque' = deque
      /\ lk[h].signal /\ h \in Lock => lk'[h].signal
      /\ pc[t] \in {"wake_head", "wake_other"} => lk'[k].signal
  BY <1>1, <1>2, MoverHeeds
<1>4. /\ pc \in [Thread -> Place] /\ h \in Lock /\ Listed(h) /\ Owner(h) \in Thread /\ r \in Record
      /\ lk[g].state = "OBSOLETE" /\ HasHead(r)
  <2>1. pc \in [Thread -> Place]
    BY DEF IInv, Types
  <2>2. /\ h \in Lock /\ Listed(h) /\ Owner(h) \in Thread /\ r \in Record
        /\ lk[g].state = "OBSOLETE" /\ HasHead(r)
    BY <1>1, <1>2, <1>3, GoneIs
  <2> QED
    BY <2>1, <2>2
<1>5. head' = head
  BY DEF NewFront, WakeHead, WakeNext, WakeOther, shared
<1>6. pc[t] \in {"new_front", "wake_head"} => k = h
  BY <1>1, HoldingIs DEF HoldingMutex
<1>7. /\ p \in {"advance", "wake_head", "wake_next", "wake_other"}
      /\ p = "advance" => lk'[h].state = "OBSOLETE" /\ pc[t] = "new_front"
      /\ p = "wake_head" => pc[t] = "new_front" /\ x = loc[t] /\ lk[h].state # "OBSOLETE"
      /\ p \in {"wake_next", "wake_other"} => pc[t] \in {"wake_head", "wake_next", "wake_other"}
  <2>1. CASE NewFront(t)
    <3>1. lk' = lk /\ x = loc[t] /\ pc[t] = "new_front" /\ p = IF lk[k].state = "OBSOLETE" THEN "advance" ELSE "wake_head"
      BY <1>1, <1>4, <2>1 DEF NewFront, Goto
    <3> QED
      BY <1>6, <3>1
  <2>2. CASE WakeHead(t)
    BY <1>1, <1>4, <2>2 DEF WakeHead, Hold, Goto
  <2>3. CASE WakeNext(t)
    BY <1>1, <1>4, <2>3 DEF WakeNext, Goto
  <2>4. CASE WakeOther(t)
    BY <1>1, <1>4, <2>4 DEF WakeOther, Hold, Goto
  <2> QED
    BY <2>1, <2>2, <2>3, <2>4
<1>8. p \in {"wake_head", "wake_next", "wake_other"} => h \in InHand(Owner(h)) /\ h # g
  <2>1. CASE p = "wake_head"
    <3>1. pc[Owner(h)] = "done" => loc[Owner(h)].i > 0
      BY <1>4 DEF Awakes, WaitInv
    <3>2. h \in InHand(Owner(h))
      BY <1>2, <1>4, <1>7, <2>1, <3>1, LiveInHand
    <3> QED
      BY <1>4, <1>7, <2>1, <3>2
  <2>2. CASE p \in {"wake_next", "wake_other"}
    BY <1>1, <1>7, <2>2 DEF Awakes, WakeInv
  <2> QED
    BY <1>7, <2>1, <2>2
<1>9. p \in {"wake_next", "wake_other"} => lk'[h].signal
  <2>1. pc[t] \in {"wake_next", "wake_other"} => lk[h].signal
    BY <1>1 DEF Awakes, WakeInv
  <2> QED
    BY <1>3, <1>4, <1>6, <1>7, <2>1
<1>10. ASSUME NEW q \in Record PROVE FrontInv(q)'
  <2>1. CASE head[q] = NoLock
    BY <1>5, <2>1 DEF FrontInv, HasHead
  <2>2. CASE head[q] # NoLock
    <3>1. PICK b : b = head[q]
      OBVIOUS
    <3>2. pc[t] \in Fronting => k = h
      BY <1>6, <1>7 DEF Fronting
    <3>3. pc[t] \in Fronting /\ k = b =>
            (p \in Fronting /\ x.target = b) \/ lk'[b].signal \/ lk'[b].state = "OBSOLETE"
      <4> SUFFICES ASSUME pc[t] \in Fronting, k = b, b = h
                   PROVE  (p \in Fronting /\ x.target = b) \/ lk'[b].signal \/ lk'[b].state = "OBSOLETE"
        BY <3>2
      <4>1. p = "wake_head" => p \in Fronting /\ x.target = b
        BY <1>1, <1>7 DEF Fronting
      <4> QED
        BY <1>7, <1>9, <4>1
    <3>4. head'[q] = b /\ b # NoLock
      BY <1>5, <2>2, <3>1
    <3> QED
      BY <1>1, <1>2, <1>3, <3>1, <3>3, <3>4, FrontKept
  <2> QED
    BY <2>1, <2>2
<1>11. \A q \in Record \ {r} : head'[q] = head[q]
  BY <1>5
<1>12. head'[r] = h
  BY <1>1, <1>5
<1>13. p \in {"wake_head", "wake_next", "wake_other"} =>
         head'[r] \in InHand(Owner(head'[r])) /\ head'[r] # g /\ Owner(head'[r]) \in Thread
  BY <1>4, <1>8, <1>12
<1>14. p \in {"wake_next", "wake_other"} => lk'[head'[r]].signal
  BY <1>9, <1>12
<1> QED
  BY <1>1, <1>2, <1>3, <1>10, <1>11, <1>13, <1>14, HoldStep

\* The release of the lock g is over: the thread has it in hand no longer.
LEMMA UnlockHands ==
  ASSUME IInv, IInv', Ordered, Ordered', Worked, Worked', Awakes, NEW t \in Thread, pc[t] \in HoldingMutex, Unlock(t),
         NEW p, NEW x, NEW g, p = pc'[t], x = loc'[t], g = Releases(t)
  PROVE  /\ p \in {"release", "pick", "done"} /\ x.i > 0
         /\ \A m \in InHand(t) : m = g \/ m \in InHand(t)'
<1>1. /\ pc \in [Thread -> Place] /\ loc \in [Thread -> Locals] /\ deque \in [Thread -> Seq(Lock)] /\ ProgramInv(t)
  BY DEF IInv, Types
<1>2. PICK i, s : i = loc[t].i /\ s = deque[t]
  OBVIOUS
<1>3. pc[t] \in Freeing /\ pc[t] # "done" /\ i \in 1 .. Len(s) /\ Len(s) \in Nat /\ g = s[i]
  BY <1>1, <1>2 DEF Freeing, HoldingMutex, ProgramInv, Releases
<1>4. InHand(t) = {s[n] : n \in i .. Len(s)}
  <2>1. Handy
    BY HandsAre
  <2> QED
    BY <1>2, <1>3, <2>1 DEF Handy
<1>5. CASE i < Len(s)
  <2>1. p = "release" /\ x.i = i + 1 /\ deque'[t] = s
    BY <1>1, <1>2, <1>5 DEF Unlock, Goto, NoLocals
  <2>2. Handy'
    <3>1. (IInv /\ Ordered /\ Worked => Handy)'
      BY HandsAre, PTL
    <3> QED
      BY <3>1
  <2>3. p \in Freeing /\ p # "done"
    BY <2>1 DEF Freeing
  <2>4. InHand(t)' = {s[n] : n \in (i + 1) .. Len(s)}
    BY <2>1, <2>2, <2>3 DEF Handy
  <2>5. ASSUME NEW m \in InHand(t) PROVE m = g \/ m \in InHand(t)'
    <3>1. PICK n \in i .. Len(s) : m = s[n]
      BY <1>4, <2>5
    <3>2. CASE n = i
      BY <1>3, <3>1, <3>2
    <3>3. CASE n # i
      <4>1. n \in (i + 1) .. Len(s)
        BY <1>3, <3>1, <3>3
      <4> QED
        BY <2>4, <3>1, <4>1
    <3> QED
      BY <3>2, <3>3
  <2>6. x.i > 0
    BY <1>3, <2>1
  <2> QED
    BY <2>1, <2>5, <2>6
<1>6. CASE ~(i < Len(s))
  <2>1. p \in {"done", "pick"} /\ x = NoLocals
    BY <1>1, <1>2, <1>6 DEF Unlock, Goto
  <2>2. i = Len(s) /\ i .. Len(s) = {i}
    BY <1>3, <1>6
  <2>3. \A m \in InHand(t) : m = g
    BY <1>3, <1>4, <2>2
  <2>4. x.i = 1
    BY <2>1 DEF NoLocals
  <2> QED
    BY <2>1, <2>3, <2>4
<1> QED
  BY <1>5, <1>6

\* Who waits for the lock g that is no longer in hand has another one to wait for, or a signal.
Handover(t, g) ==
  \A u \in Thread \ {t} : pc[u] \in Waiting /\ Before(g, loc[u].new) =>
    \/ lk'[loc[u].new].signal
    \/ \E m \in Lock : m \in InHand(Owner(m)) /\ m # g /\ Before(m, loc[u].new)

LEMMA UnlockStep ==
  ASSUME IInv, IInv', NEW rank, ListInv(rank), IdsLast, Ordered, Ordered', Worked, Worked', Awakes,
         NEW t \in Thread, Heeds(t), Sleepers(t), t \notin waitSet', pc[t] \in HoldingMutex, Unlock(t),
         NEW g, g = Releases(t), Handover(t, g), head' = head,
         pc[t] \in Fronting => lk'[loc[t].target].signal
  PROVE  Awakes'
<1>1. PICK p, x : p = pc'[t] /\ x = loc'[t]
  OBVIOUS
<1>2. p \in {"release", "pick", "done"} /\ x.i > 0 /\ \A m \in InHand(t) : m = g \/ m \in InHand(t)'
  BY <1>1, UnlockHands
<1>3. ASSUME NEW v \in Thread, NEW m \in InHand(v) PROVE m \in InHand(v)' \/ (m = g /\ v = t)
  <2>1. CASE v = t
    BY <1>2, <1>3, <2>1
  <2>2. CASE v # t
    <3>1. pc'[v] = pc[v] /\ loc'[v] = loc[v] /\ deque'[v] = deque[v]
      BY <2>2 DEF Heeds, Others
    <3>2. InHand(v)' = InHand(v)
      BY <3>1 DEF InHand, Locks
    <3> QED
      BY <1>3, <3>2
  <2> QED
    BY <2>1, <2>2
<1>4. HandsKept(t)
  BY <1>3 DEF HandsKept
<1>5. ASSUME NEW u \in Thread \ {t}, pc[u] \in Waiting, Waits(loc[u].new)
      PROVE  lk'[loc[u].new].signal \/ Waits(loc[u].new)'
  <2>1. PICK n : n = loc[u].new
    OBVIOUS
  <2>2. n \in Lock /\ Owner(n) = u /\ n \in Locks(u) /\ lk[n].id # MaxId
    BY <1>5, <2>1, AskedIs
  <2>3. ASSUME NEW v \in Thread, NEW m \in InHand(v), Before(m, n), m # g PROVE Waits(n)'
    <3>1. m \in InHand(v)'
      BY <1>3, <2>3
    <3>2. n \in Locks(Owner(n))
      BY <2>2
    <3> QED
      BY <2>2, <2>3, <3>1, <3>2, WaitsKept
  <2>4. PICK v \in Thread : \E m \in InHand(v) : Before(m, n)
    BY <1>5, <2>1 DEF Waits
  <2>5. PICK m \in InHand(v) : Before(m, n)
    BY <2>4
  <2>6. m = g => lk'[n].signal \/ Waits(n)'
    <3> SUFFICES ASSUME m = g, ~lk'[n].signal PROVE Waits(n)'
      OBVIOUS
    <3>1. PICK q \in Lock : q \in InHand(Owner(q)) /\ q # g /\ Before(q, n)
      BY <1>5, <2>1, <2>5 DEF Handover
    <3>2. Owner(q) \in Thread
      BY LockIs
    <3> QED
      BY <2>3, <3>1, <3>2
  <2>7. lk'[n].signal \/ Waits(n)'
    BY <2>3, <2>4, <2>5, <2>6
  <2>8. loc'[u].new = n
    BY <1>5, <2>1 DEF Heeds, Others
  <2> QED
    BY <2>1, <2>7, <2>8 DEF Waits
<1>6. ASSUME NEW r \in Record PROVE FrontInv(r)'
  <2>1. CASE head[r] = NoLock
    BY <2>1 DEF FrontInv, HasHead
  <2>2. CASE head[r] # NoLock
    BY <2>2, FrontKept
  <2> QED
    BY <2>1, <2>2
<1>7. WaitInv(t)'
  <2>1. p \notin Blocked /\ p # "check_id" /\ p \notin Examining
    BY <1>2 DEF Blocked, Probing, Examining
  <2> QED
    BY <1>1, <1>2, <2>1 DEF WaitInv
<1>8. WakeInv(t)'
  <2>1. p \notin {"wake_head", "wake_next", "wake_other"}
    BY <1>2
  <2> QED
    BY <1>1, <2>1, NotWaking
<1>9. \A u \in Thread \ {t} : u \in waitSet' => u \in waitSet /\ ~lk'[loc[u].new].signal
  BY DEF Sleepers
<1>10. \A u \in Thread \ {t} : pc[u] \in Waiting /\ Waits(loc[u].new) => lk'[loc[u].new].signal \/ Waits(loc[u].new)'
  BY <1>5
<1>11. \A u \in Thread \ {t} : pc[u] \in HoldingMutex => head'[Rec(Releases(u))] = head[Rec(Releases(u))]
  OBVIOUS
<1> QED
  BY <1>4, <1>6, <1>7, <1>8, <1>9, <1>10, <1>11, AwakesStep

\* A set of numbers has a least one.
LEMMA Least ==
  ASSUME NEW S \in SUBSET Nat, S # {}
  PROVE  \E n \in S : \A m \in S : n <= m
<1> DEFINE R == OpToRel(<, Nat)
<1>1. IsWellFoundedOn(R, Nat)
  BY NatLessThanWellFounded
<1>2. ASSUME NEW m \in Nat, NEW n \in Nat, m < n PROVE <<m, n>> \in R
  BY <1>2 DEF OpToRel
<1> HIDE DEF R
<1>3. PICK n \in S : \A m \in S : <<m, n>> \notin R
  BY <1>1, WFMin
<1>4. ASSUME NEW m \in S PROVE n <= m
  <2>1. m \in Nat /\ n \in Nat
    OBVIOUS
  <2>2. ~(m < n)
    BY <1>2, <1>3, <2>1
  <2> QED BY <2>1, <2>2
<1> QED BY <1>4

\* The head is in a hand: who waits behind it waits for it.
LEMMA HeadHandover ==
  ASSUME IInv, NEW rank \in [Lock -> Nat], ListInv(rank), Worked, NEW t \in Thread, pc[t] \in HoldingMutex,
         NEW g, NEW r, NEW h, g = Releases(t), r = Rec(g), h = head[r], h \in InHand(Owner(h)), h # g,
         \A u \in Thread \ {t} : pc[u] \in Waiting /\ Before(g, h) /\ loc[u].new = h => lk'[h].signal
  PROVE  Handover(t, g)
<1> SUFFICES ASSUME NEW u \in Thread \ {t}, pc[u] \in Waiting, NEW n, n = loc[u].new, Before(g, n)
             PROVE  lk'[n].signal \/ \E m \in Lock : m \in InHand(Owner(m)) /\ m # g /\ Before(m, n)
  BY DEF Handover
<1>1. n \in Lock /\ Listed(n) /\ lk[n].state # "OBSOLETE" /\ lk[n].id # MaxId
  BY AskedIs
<1>2. h \in Lock /\ h # NoLock
  BY GoneIs DEF HasHead
<1>3. h = head[Rec(n)]
  BY DEF Before
<1>4. n # h => Before(h, n)
  BY <1>1, <1>2, <1>3, HeadFirst
<1>5. CASE n = h
  BY <1>5
<1>6. CASE n # h
  BY <1>2, <1>4, <1>6
<1> QED
  BY <1>5, <1>6

\* The head is released and no lock is linked to it: nobody waits.
LEMMA NobodyWaits ==
  ASSUME IInv, NEW rank \in [Lock -> Nat], ListInv(rank), NEW u \in Thread, pc[u] \in Waiting,
         NEW n, NEW h, n = loc[u].new, h = head[Rec(n)], h \in Lock, lk[h].state = "OBSOLETE", lk[h].next = NoLock
  PROVE  FALSE
<1>1. n \in Lock /\ Listed(n) /\ lk[n].state # "OBSOLETE" /\ lk[n].id # MaxId
  BY AskedIs
<1>2. PICK r \in Record : r = Rec(n)
  BY <1>1, LockIs
<1>3. h # NoLock /\ HasHead(r)
  BY <1>2, LockIs DEF HasHead
<1>4. Rec(h) = r /\ Listed(h) /\ rank[h] <= rank[n] /\ n # h
  BY <1>1, <1>2, <1>3, HeadFirst
<1>5. rank[h] \in Nat /\ rank[n] \in Nat /\ rank[n] # rank[h]
  BY <1>1, <1>2, <1>4 DEF ListInv, OrderInv
<1> DEFINE Past(k) == \E y \in Lock : Listed(y) /\ Rec(y) = r /\ rank[y] = k
           S == {k \in Nat : k > rank[h] /\ Past(k)}
<1>6. S \in SUBSET Nat /\ rank[n] \in S
  BY <1>1, <1>2, <1>4, <1>5
<1>7. PICK k \in S : \A j \in S : k <= j
  BY <1>6, Least
<1>8. PICK y \in Lock : Listed(y) /\ Rec(y) = r /\ rank[y] = k
  BY <1>7
<1>9. k \in Nat /\ k > rank[h] /\ k <= rank[n]
  BY <1>6, <1>7
<1>10. LinkInv(rank, y)
  BY <1>8 DEF ListInv
<1>11. rank[y] > 0 /\ rank[head[Rec(y)]] < rank[y]
  BY <1>2, <1>5, <1>8, <1>9
<1>12. PICK m \in Lock :
         /\ Listed(m) /\ Rec(m) = Rec(y) /\ rank[m] + 1 = rank[y]
         /\ \/ lk[m].next = y
            \/ pc[Owner(y)] = "link" /\ loc[Owner(y)].new = y /\ loc[Owner(y)].prev = m
  BY <1>8, <1>10, <1>11 DEF LinkInv
<1>13. rank[m] = rank[h]
  <2>1. rank[m] \in Nat /\ rank[m] < k
    BY <1>8, <1>9, <1>12
  <2>2. rank[m] > rank[h] => rank[m] \in S
    BY <1>8, <1>12, <2>1
  <2>3. ~(rank[m] > rank[h])
    BY <1>7, <1>9, <2>1, <2>2
  <2> QED
    BY <1>5, <1>8, <1>9, <1>12, <2>1, <2>3
<1>14. m = h
  BY <1>4, <1>8, <1>12, <1>13 DEF ListInv, OrderInv
<1>15. CASE lk[m].next = y
  BY <1>8, <1>14, <1>15, LockIs
<1>16. CASE pc[Owner(y)] = "link" /\ loc[Owner(y)].new = y
  <2>1. lk[y].id = MaxId
    BY <1>8, <1>16 DEF ListInv, IdInv
  <2>2. y # n
    BY <1>1, <2>1
  <2>3. rank[y] < rank[n]
    BY <1>1, <1>2, <1>5, <1>8, <1>9, <2>2 DEF ListInv, OrderInv
  <2> QED
    BY <1>1, <1>2, <1>8, <2>1, <2>3 DEF ListInv, OrderInv
<1> QED
  BY <1>12, <1>15, <1>16

\* The end of a release: who waited for its lock can wait for the head, or has a signal.
LEMMA UnlockAwake ==
  ASSUME IInv, IInv', NEW rank \in [Lock -> Nat], Orderly(rank), IdsLast, Ordered, Ordered', Worked, Worked', Awakes,
         NEW t \in Thread, Unlock(t),
         Front(t) \/ Advance(t) \/ PassHead(t) \/ NewFront(t) \/ WakeHead(t) \/ WakeNext(t) \/ WakeOther(t)
  PROVE  Awakes'
<1>1. PICK p, k, g, r, h : p = pc'[t] /\ k = loc[t].target /\ g = Releases(t) /\ r = Rec(g) /\ h = head[r]
  OBVIOUS
<1>2. ListInv(rank)
  BY DEF Orderly
<1>3. /\ Heeds(t) /\ Sleepers(t) /\ pc[t] \in HoldingMutex /\ t \notin waitSet'
      /\ h \in Lock /\ lk[h].signal => lk'[h].signal
      /\ pc[t] \in {"wake_head", "wake_other"} => lk'[k].signal
  BY <1>1, <1>2, MoverHeeds
<1>4. /\ pc \in [Thread -> Place] /\ lk \in [Lock -> Fields] /\ g \in Lock /\ h \in Lock /\ Rec(h) = r /\ Listed(h)
      /\ Owner(h) \in Thread /\ r \in Record /\ lk[g].state = "OBSOLETE" /\ HasHead(r) /\ mutex[r] = t
  BY <1>1, <1>2, <1>3, GoneIs DEF IInv, Types
<1>5. p \in {"release", "pick", "done"}
  BY <1>1, <1>4 DEF Unlock, Goto
<1>6. pc[t] \in {"front", "advance", "new_front", "wake_head"} => k = h
  BY <1>1, <1>3, HoldingIs
<1>7. CASE Front(t)
  <2>1. lk' = lk /\ head' = head /\ pc[t] = "front" /\ lk[h].state # "OBSOLETE"
    BY <1>1, <1>4, <1>5, <1>6, <1>7 DEF Front, Hold, Goto
  <2>2. h \in InHand(Owner(h)) /\ h # g
    <3>1. pc[Owner(h)] = "done" => loc[Owner(h)].i > 0
      BY <1>4 DEF Awakes, WaitInv
    <3> QED
      BY <1>2, <1>4, <2>1, <3>1, LiveInHand
  <2>3. Before(g, h) => lk[h].signal
    <3> SUFFICES ASSUME Before(g, h) PROVE lk[h].signal
      OBVIOUS
    <3>1. lk[h].id # 0
      <4>1. lk[g].id \in Nat /\ lk[h].id \in Nat /\ lk[g].id < lk[h].id
        BY <1>4 DEF Before, Fields
      <4> QED
        BY <4>1
    <3>2. ASSUME NEW v \in Thread, pc[v] \in Fronting, loc[v].target = h PROVE FALSE
      <4>1. pc[v] \in HoldingMutex /\ pc[v] \in {"pass_head", "new_front", "wake_head"}
        BY <3>2 DEF Fronting, HoldingMutex
      <4>2. PICK q : q = Rec(Releases(v))
        OBVIOUS
      <4>3. q \in Record /\ mutex[q] = v /\ head[q] = h
        BY <3>2, <4>1, <4>2, HoldingIs
      <4>4. Rec(h) = q
        BY <1>2, <1>4, <4>3, LockIs DEF ListInv, EndsInv, HasHead
      <4>5. v = t
        BY <1>4, <4>3, <4>4
      <4> QED
        BY <2>1, <3>2, <4>5 DEF Fronting
    <3> QED
      BY <1>1, <1>4, <2>1, <3>1, <3>2 DEF Awakes, FrontInv
  <2>4. Handover(t, g)
    BY <1>1, <1>2, <1>3, <2>1, <2>2, <2>3, HeadHandover
  <2>5. pc[t] \notin Fronting
    BY <2>1 DEF Fronting
  <2> QED
    BY <1>1, <1>2, <1>3, <2>1, <2>4, <2>5, UnlockStep
<1>8. CASE Advance(t)
  <2>1. pc[t] = "advance" /\ head' = head /\ lk[h].next = NoLock
    BY <1>1, <1>4, <1>5, <1>6, <1>8 DEF Advance, Goto
  <2>2. lk[h].state = "OBSOLETE"
    BY <1>1, <1>2, <1>6, <2>1 DEF ListInv, HeadAt
  <2>3. Handover(t, g)
    <3>1. ASSUME NEW u \in Thread, pc[u] \in Waiting, Before(g, loc[u].new) PROVE FALSE
      <4>1. h = head[Rec(loc[u].new)]
        BY <1>1, <3>1 DEF Before
      <4> QED
        BY <1>2, <1>4, <2>1, <2>2, <3>1, <4>1, NobodyWaits
    <3> QED
      BY <3>1 DEF Handover
  <2>4. pc[t] \notin Fronting
    BY <2>1 DEF Fronting
  <2> QED
    BY <1>1, <1>2, <1>3, <2>1, <2>3, <2>4, UnlockStep
<1>9. CASE WakeHead(t) \/ WakeNext(t)
  <2>1. pc[t] \in {"wake_head", "wake_next"} /\ head' = head
    BY <1>9 DEF WakeHead, WakeNext
  <2>2. h \in InHand(Owner(h)) /\ h # g /\ (pc[t] = "wake_next" => lk[h].signal)
    BY <1>1, <2>1 DEF Awakes, WakeInv
  <2>3. lk'[h].signal
    BY <1>3, <1>4, <1>6, <2>1, <2>2
  <2>4. Handover(t, g)
    BY <1>1, <1>2, <1>3, <2>2, <2>3, HeadHandover
  <2>5. pc[t] \in Fronting => lk'[loc[t].target].signal
    BY <1>1, <1>3, <2>1 DEF Fronting
  <2> QED
    BY <1>1, <1>2, <1>3, <2>1, <2>4, <2>5, UnlockStep
<1>10. CASE PassHead(t) \/ NewFront(t) \/ WakeOther(t)
  <2>1. p \in HoldingMutex
    BY <1>1, <1>4, <1>10 DEF PassHead, NewFront, WakeOther, Hold, Goto, HoldingMutex
  <2> QED
    BY <1>5, <2>1 DEF HoldingMutex
<1> QED
  BY <1>7, <1>8, <1>9, <1>10

LEMMA StutterAwake ==
  ASSUME Awakes, UNCHANGED vars
  PROVE  Awakes'
<1>1. UNCHANGED <<lk, head, waitSet, deque, pc, loc>>
  BY DEF vars
<1>2. \A u \in Thread : InHand(u)' = InHand(u) /\ Target(u)' = Target(u) /\ Releases(u)' = Releases(u)
  BY <1>1 DEF InHand, Locks, Target, Releases
<1>3. \A l \in Lock \cup {NoLock} : Waits(l)' <=> Waits(l)
  BY <1>1, <1>2 DEF Waits, Before
<1>4. \A u \in Thread : (Waits(loc[u].new)' <=> Waits(loc[u].new))
                        /\ (SecondLook(u)' <=> SecondLook(u)) /\ (Behind(u, Target(u))' <=> Behind(u, Target(u)))
  BY <1>1, <1>2 DEF Waits, Before, SecondLook, Behind
<1>5. ASSUME NEW u \in Thread PROVE WaitInv(u)'
  BY <1>1, <1>4 DEF Awakes, WaitInv
<1>6. ASSUME NEW u \in Thread PROVE WakeInv(u)'
  <2>1. PICK h : h = head[Rec(Releases(u))]
    OBVIOUS
  <2>2. InHand(Owner(h))' = InHand(Owner(h))
    BY <1>1 DEF InHand, Locks
  <2> QED
    BY <1>1, <1>2, <2>1, <2>2 DEF Awakes, WakeInv
<1>7. ASSUME NEW r \in Record PROVE FrontInv(r)'
  BY <1>1 DEF Awakes, FrontInv, HasHead
<1> QED
  BY <1>5, <1>6, <1>7 DEF Awakes

LEMMA StepAwake ==
  ASSUME IInv, IInv', IdsLast, Ordered, Ordered', Worked, Worked', Awakes, NEW t \in Thread, Step(t)
  PROVE  Awakes'
<1>1. PICK rank \in [Lock -> Nat] : Orderly(rank)
  BY DEF Ordered
<1>2. CASE Acquiring(t)
  <2>1. CASE Pick(t) \/ RenewState(t) \/ SetMode(t)
    BY <1>1, <2>1, PrepareAwake
  <2>2. CASE RenewNext(t) \/ Swap(t) \/ Link(t) \/ PassId(t) \/ SetConflict(t)
    BY <1>1, <2>2, JoinsAwake
  <2>3. CASE AwaitId(t) \/ FirstLock(t)
    BY <1>1, <2>3, JoinAwake
  <2>4. CASE FromHead(t) \/ Collect(t) \/ CollectNext(t)
    BY <1>1, <2>4, CollectAwake
  <2>5. CASE Check(t) \/ CheckId(t) \/ CheckMode(t)
    BY <1>1, <2>5, CheckAwake
  <2>6. CASE Wait(t) \/ Unwait(t) \/ Sleep(t) \/ Awake(t)
    BY <1>1, <2>6, SleepAwake
  <2>7. CASE Deadlock(t)
    BY <1>1, <2>7, MarkAwake
  <2>8. CASE GiveUp(t) \/ Grant(t)
    BY <1>1, <2>8, ReturnAwake
  <2> QED
    BY <1>2, <2>1, <2>2, <2>3, <2>4, <2>5, <2>6, <2>7, <2>8 DEF Acquiring
<1>3. CASE Searching(t)
  BY <1>1, <1>3, SearchingAwake DEF Orderly
<1>4. CASE Releasing(t)
  <2>1. CASE MarkObsolete(t)
    BY <1>1, <2>1, MarkAwake
  <2>2. CASE LockHead(t)
    BY <1>1, <2>2, ReturnAwake
  <2>3. CASE Front(t) \/ Advance(t) \/ PassHead(t)
    BY <1>1, <2>3, AdvanceHolds, UnlockAwake
  <2>4. CASE NewFront(t) \/ WakeHead(t) \/ WakeNext(t) \/ WakeOther(t)
    BY <1>1, <2>4, WakeHolds, UnlockAwake
  <2> QED
    BY <1>4, <2>1, <2>2, <2>3, <2>4 DEF Releasing
<1> QED
  BY <1>2, <1>3, <1>4 DEF Step

LEMMA NextAwakes ==
  IInv /\ IInv' /\ IdsLast /\ Ordered /\ Ordered' /\ Worked /\ Worked' /\ Awakes /\ [Next]_vars => Awakes'
<1>1. SUFFICES ASSUME IInv, IInv', IdsLast, Ordered, Ordered', Worked, Worked', Awakes, [Next]_vars PROVE Awakes'
  OBVIOUS
<1>2. CASE \E t \in Thread : Step(t)
  BY <1>1, <1>2, StepAwake
<1>3. CASE UNCHANGED vars
  BY <1>1, <1>3, StutterAwake
<1> QED
  BY <1>1, <1>2, <1>3 DEF Next, Done

LEMMA InitAwakes == Init => Awakes
<1> SUFFICES ASSUME Init PROVE Awakes
  OBVIOUS
<1>1. \A t \in Thread : pc[t] \in {"pick", "done"} /\ loc[t].i = 1 /\ t \notin waitSet
  BY DEF Init, NoLocals
<1>2. ASSUME NEW t \in Thread PROVE WaitInv(t) /\ WakeInv(t)
  BY <1>1 DEF WaitInv, WakeInv, Blocked, Probing, Examining
<1>3. ASSUME NEW r \in Record PROVE FrontInv(r)
  BY DEF Init, FrontInv, HasHead
<1> QED
  BY <1>2, <1>3 DEF Awakes

LEMMA AwakesWake == IInv /\ Awakes => NoLostWakeup
<1> SUFFICES ASSUME IInv, Awakes, NEW t \in waitSet PROVE Waits(loc[t].new)
  BY DEF NoLostWakeup, Waits
<1>1. t \in Thread
  BY DEF IInv, Types
<1>2. pc[t] = "asleep" /\ ~lk[loc[t].new].signal
  BY <1>1 DEF Awakes, WaitInv
<1>3. lk[loc[t].new].signal \/ Waits(loc[t].new)
  BY <1>1, <1>2 DEF Awakes, WaitInv, Blocked
<1> QED
  BY <1>2, <1>3

\* While no list uses up its ids, no wakeup is lost: before the lock of a sleeping thread is one
\* whose release is not over, and that release hands the signal on.
THEOREM NoWakeupIsLost == Spec /\ []IdsLast => []NoLostWakeup
<1>1. Init => Worked /\ Awakes
  BY InitWorked, InitAwakes
<1>2. IInv /\ Ordered /\ Worked /\ [Next]_vars => Worked'
  BY NextWorked
<1>3. IInv /\ IInv' /\ IdsLast /\ Ordered /\ Ordered' /\ Worked /\ Worked' /\ Awakes /\ [Next]_vars => Awakes'
  BY NextAwakes
<1>4. IInv /\ Awakes => NoLostWakeup
  BY AwakesWake
<1> QED
  BY <1>1, <1>2, <1>3, <1>4, OrderedAlways, PTL DEF Spec

-----------------------------------------------------------------------------
(* What is reachable from the heads *)

\* The locks of r from the head on, up to one that the next lock is not linked to yet.
Chain(rank, r) ==
  {l \in Lock :
     /\ Listed(l) /\ Rec(l) = r /\ rank[head[r]] <= rank[l]
     /\ \A x \in Lock : Listed(x) /\ Rec(x) = r /\ rank[head[r]] <= rank[x] /\ rank[x] < rank[l]
          => lk[x].next # NoLock}

\* One lock of each rank from the head on, each linked to the next.
LEMMA ChainIs ==
  ASSUME IInv, NEW rank \in [Lock -> Nat], ListInv(rank), NEW r \in Record, NEW h, h = head[r], h # NoLock
  PROVE  /\ h \in Chain(rank, r)
         /\ \A l \in Chain(rank, r) : rank[h] <= rank[l] /\ (rank[l] = rank[h] => l = h)
         /\ \A l \in Chain(rank, r) : lk[l].next # NoLock =>
              lk[l].next \in Chain(rank, r) /\ rank[lk[l].next] = rank[l] + 1
         /\ \A m \in Chain(rank, r) : rank[m] > rank[h] =>
              \E l \in Chain(rank, r) : rank[l] + 1 = rank[m] /\ lk[l].next = m
<1>1. h \in Lock /\ HasHead(r) /\ lk \in [Lock -> Fields]
  BY DEF IInv, Types, Node, HasHead
<1>2. Rec(h) = r /\ Listed(h)
  BY <1>1 DEF ListInv, EndsInv
<1>3. ASSUME NEW l \in Lock, NEW m \in Lock, Listed(l), Listed(m), Rec(l) = r, Rec(m) = r, rank[l] = rank[m]
      PROVE  l = m
  BY <1>3 DEF ListInv, OrderInv
<1>4. \A l \in Chain(rank, r) : l \in Lock /\ Listed(l) /\ Rec(l) = r /\ rank[h] <= rank[l] /\ rank[l] \in Nat
  BY DEF Chain
<1>5. rank[h] \in Nat
  BY <1>1
<1>6. h \in Chain(rank, r)
  BY <1>1, <1>2, <1>5 DEF Chain
<1>7. ASSUME NEW l \in Lock, Listed(l), Rec(l) = r, rank[h] <= rank[l], lk[l].next # NoLock
      PROVE  LET m == lk[l].next IN m \in Lock /\ Listed(m) /\ Rec(m) = r /\ rank[m] = rank[l] + 1
  <2>1. LinkInv(rank, l) /\ ~Overtaken(rank, l) /\ lk[l].next \in Lock
    BY <1>1, <1>5, <1>7 DEF ListInv, Overtaken, Fields
  <2> QED
    BY <1>7, <2>1 DEF LinkInv
<1>8. ASSUME NEW l \in Chain(rank, r), lk[l].next # NoLock
      PROVE  lk[l].next \in Chain(rank, r) /\ rank[lk[l].next] = rank[l] + 1
  <2>1. PICK m : m = lk[l].next
    OBVIOUS
  <2>2. m \in Lock /\ Listed(m) /\ Rec(m) = r /\ rank[m] = rank[l] + 1
    BY <1>4, <1>7, <1>8, <2>1
  <2>3. ASSUME NEW x \in Lock, Listed(x), Rec(x) = r, rank[h] <= rank[x], rank[x] < rank[m]
        PROVE  lk[x].next # NoLock
    <3>1. CASE rank[x] < rank[l]
      BY <2>3, <3>1 DEF Chain
    <3>2. CASE rank[x] = rank[l]
      BY <1>3, <1>4, <1>8, <2>3, <3>2
    <3>3. rank[x] \in Nat /\ rank[l] \in Nat /\ rank[x] < rank[l] + 1
      BY <1>4, <2>2, <2>3
    <3> QED
      BY <3>1, <3>2, <3>3
  <2>4. rank[h] <= rank[m]
    BY <1>4, <1>5, <2>2
  <2> QED
    BY <2>1, <2>2, <2>3, <2>4 DEF Chain
<1>9. ASSUME NEW m \in Chain(rank, r), rank[m] > rank[h]
      PROVE  \E l \in Chain(rank, r) : rank[l] + 1 = rank[m] /\ lk[l].next = m
  <2>1. LinkInv(rank, m) /\ Listed(m) /\ Rec(m) = r /\ rank[m] > 0
    BY <1>4, <1>5, <1>9 DEF ListInv
  <2>2. PICK l \in Lock : Listed(l) /\ Rec(l) = r /\ rank[l] + 1 = rank[m]
    BY <1>9, <2>1 DEF LinkInv
  <2>3. rank[h] <= rank[l] /\ rank[l] < rank[m] /\ rank[l] \in Nat /\ rank[m] \in Nat
    BY <1>4, <1>5, <1>9, <2>2
  <2>4. lk[l].next # NoLock
    BY <2>2, <2>3 DEF Chain
  <2>5. lk[l].next = m
    BY <1>3, <1>4, <1>7, <2>1, <2>2, <2>3, <2>4
  <2>6. ASSUME NEW x \in Lock, Listed(x), Rec(x) = r, rank[h] <= rank[x], rank[x] < rank[l]
        PROVE  lk[x].next # NoLock
    <3>1. rank[x] < rank[m]
      BY <2>3, <2>6
    <3> QED
      BY <2>6, <3>1 DEF Chain
  <2> QED
    BY <2>2, <2>3, <2>5, <2>6 DEF Chain
<1> QED
  BY <1>3, <1>4, <1>1, <1>2, <1>6, <1>8, <1>9

\* The locks before a live one have their places, one each, and are linked.
LEMMA LiveInChain ==
  ASSUME IInv, NEW rank \in [Lock -> Nat], ListInv(rank), NEW l \in Lock, Live(l)
  PROVE  /\ HasHead(Rec(l)) /\ l \in Chain(rank, Rec(l))
         /\ \A k \in rank[head[Rec(l)]] .. rank[l] : \E x \in Lock : rank[x] = k
<1>1. PICK r, h : r = Rec(l) /\ h = head[r]
  OBVIOUS
<1>2. PICK t : t = Owner(l)
  OBVIOUS
<1>3. l \in Locks(t) /\ lk[l].state # "OBSOLETE" /\ lk[l].id # MaxId
  BY <1>2 DEF Live
<1>4. t \in Thread /\ r \in Record
  BY <1>1, <1>2, LockIs
<1>5. Listed(l)
  <2>1. ~Listed(l) => lk[l].id = MaxId
    BY DEF ListInv, IdInv
  <2> QED
    BY <1>3, <2>1
<1>6. HasHead(r)
  BY <1>1, <1>3, <1>5 DEF ListInv, IdInv
<1>7. h \in Lock /\ Rec(h) = r /\ Listed(h) /\ rank[h] <= rank[l]
  BY <1>1, <1>3, <1>5, <1>6, HeadFirst DEF HasHead
<1>8. rank[h] \in Nat /\ rank[l] \in Nat
  BY <1>7
<1> DEFINE InList(y) == y \in Lock /\ Listed(y) /\ Rec(y) = r
\* A lock between the head and l has one before it that is linked to it.
<1>9. ASSUME NEW y, InList(y), rank[h] < rank[y], rank[y] <= rank[l]
      PROVE  \E m : InList(m) /\ rank[m] + 1 = rank[y] /\ lk[m].next = y
  <2>1. LinkInv(rank, y) /\ rank[y] \in Nat /\ rank[y] > 0
    BY <1>8, <1>9 DEF ListInv
  <2>2. PICK m \in Lock :
          /\ Listed(m) /\ Rec(m) = r /\ rank[m] + 1 = rank[y]
          /\ lk[m].next = y \/ (pc[Owner(y)] = "link" /\ loc[Owner(y)].new = y)
    BY <1>1, <1>9, <2>1 DEF LinkInv
  <2>3. lk[y].id # MaxId
    <3>1. CASE y = l
      BY <1>3, <3>1
    <3>2. CASE y # l
      <4>1. rank[y] # rank[l]
        BY <1>1, <1>5, <1>9, <3>2 DEF ListInv, OrderInv
      <4>2. rank[y] < rank[l]
        BY <1>8, <1>9, <2>1, <4>1
      <4> QED
        BY <1>1, <1>3, <1>5, <1>9, <4>2 DEF ListInv, OrderInv
    <3> QED
      BY <3>1, <3>2
  <2>4. ~(pc[Owner(y)] = "link" /\ loc[Owner(y)].new = y)
    BY <1>9, <2>3 DEF ListInv, IdInv
  <2> QED
    BY <2>2, <2>4
\* So there is one of each rank.
<1> DEFINE S(k) == \E y : InList(y) /\ rank[y] = k
<1>10. ASSUME NEW k \in rank[h] .. rank[l] PROVE S(k)
  <2> DEFINE Q == {j \in Nat : k <= j /\ j <= rank[l] /\ S(j)}
  <2>1. k \in Nat /\ rank[h] <= k /\ k <= rank[l]
    BY <1>8
  <2>2. S(rank[l])
    BY <1>1, <1>5
  <2>3. Q \in SUBSET Nat /\ rank[l] \in Q
    BY <1>8, <2>1, <2>2
  <2>4. PICK j \in Q : \A i \in Q : j <= i
    BY <2>3, Least
  <2>5. j \in Nat /\ k <= j /\ j <= rank[l] /\ S(j)
    BY <2>4
  <2>6. CASE j = k
    BY <2>5, <2>6
  <2>7. CASE j # k
    <3>1. PICK y : InList(y) /\ rank[y] = j
      BY <2>5
    <3>2. rank[h] < rank[y] /\ rank[y] <= rank[l]
      BY <1>8, <2>1, <2>5, <2>7, <3>1
    <3>3. PICK m : InList(m) /\ rank[m] + 1 = rank[y]
      BY <1>9, <3>1, <3>2
    <3>4. rank[m] \in Nat /\ rank[m] + 1 = j
      BY <3>1, <3>3
    <3>5. k <= rank[m] /\ rank[m] <= rank[l]
      BY <1>8, <2>1, <2>5, <2>7, <3>4
    <3>6. rank[m] \in Q
      BY <3>3, <3>4, <3>5
    <3> QED
      BY <2>4, <3>4, <3>6
  <2> QED
    BY <2>6, <2>7
<1>11. ASSUME NEW x \in Lock, Listed(x), Rec(x) = r, rank[h] <= rank[x], rank[x] < rank[l]
       PROVE  lk[x].next # NoLock
  <2>1. rank[x] \in Nat
    OBVIOUS
  <2>2. rank[x] + 1 \in rank[h] .. rank[l]
    BY <1>8, <1>11, <2>1
  <2>3. PICK y : InList(y) /\ rank[y] = rank[x] + 1
    BY <1>10, <2>2
  <2>4. rank[h] < rank[y] /\ rank[y] <= rank[l]
    BY <1>8, <1>11, <2>1, <2>3
  <2>5. PICK m : InList(m) /\ rank[m] + 1 = rank[y] /\ lk[m].next = y
    BY <1>9, <2>3, <2>4
  <2>6. rank[m] = rank[x]
    BY <2>1, <2>3, <2>5
  <2>7. m = x
    BY <1>11, <2>5, <2>6 DEF ListInv, OrderInv
  <2> QED
    BY <2>3, <2>5, <2>7, LockIs
<1>12. l \in Chain(rank, r)
  BY <1>1, <1>5, <1>7, <1>11 DEF Chain
<1>13. \A k \in rank[h] .. rank[l] : \E x \in Lock : rank[x] = k
  BY <1>10
<1> QED
  BY <1>1, <1>6, <1>12, <1>13

\* There are as many locks.
LEMMA LocksCount ==
  ASSUME IsFiniteSet(Record)
  PROVE  /\ Cardinality(Lock) \in Nat
         /\ \A rank \in [Lock -> Nat] : \A a, b \in Nat :
              a <= b /\ (\A k \in a .. b : \E x \in Lock : rank[x] = k) => b <= a + Cardinality(Lock)
<1>1. IsFiniteSet(Lock)
  <2> DEFINE P == (Thread \X Record) \X (1 .. MaxLocks)
             f == [y \in P |-> <<y[1][1], y[1][2], y[2]>>]
  <2>1. IsFiniteSet(P)
    <3>1. IsFiniteSet(Thread \X Record)
      BY ThreadAssumption, FS_Product
    <3>2. IsFiniteSet(1 .. MaxLocks)
      BY BoundAssumption, FS_Interval
    <3> QED
      BY <3>1, <3>2, FS_Product
  <2>2. f \in [P -> Lock]
    BY DEF Lock
  <2>3. ASSUME NEW l \in Lock PROVE \E y \in P : f[y] = l
    <3>1. PICK t \in Thread, r \in Record, i \in 1 .. MaxLocks : l = <<t, r, i>>
      BY DEF Lock
    <3>2. <<<<t, r>>, i>> \in P
      OBVIOUS
    <3>3. f[<<<<t, r>>, i>>] = l
      BY <3>1, <3>2
    <3> QED
      BY <3>2, <3>3
  <2> HIDE DEF f, P
  <2>4. f \in Surjection(P, Lock)
    BY <2>2, <2>3 DEF Surjection
  <2> QED
    BY <2>1, <2>4, FS_Surjection
<1>2. Cardinality(Lock) \in Nat
  BY <1>1, FS_CardinalityType
<1>3. ASSUME NEW rank \in [Lock -> Nat], NEW a \in Nat, NEW b \in Nat, a <= b,
             \A k \in a .. b : \E x \in Lock : rank[x] = k
      PROVE  b <= a + Cardinality(Lock)
  <2> DEFINE g == [k \in a .. b |-> CHOOSE x \in Lock : rank[x] = k]
  <2>1. \A k \in a .. b : g[k] \in Lock /\ rank[g[k]] = k
    BY <1>3
  <2>2. g \in [a .. b -> Lock]
    BY <2>1
  <2> HIDE DEF g
  <2>3. g \in Injection(a .. b, Lock)
    BY <2>1, <2>2 DEF Injection, IsInjective
  <2>4. Cardinality(a .. b) <= Cardinality(Lock)
    BY <1>1, <2>3, FS_Injection
  <2>5. Cardinality(a .. b) = b - a + 1
    BY <1>3, FS_Interval
  <2> QED
    BY <1>2, <2>4, <2>5
<1> QED
  BY <1>2, <1>3

\* What the search of Reach has after n rounds.
Walked(rank, r, n) ==
  IF head[r] = NoLock THEN {NoLock}
  ELSE {l \in Chain(rank, r) : rank[l] <= rank[head[r]] + n}
         \cup {x \in {NoLock} : \E l \in Chain(rank, r) : lk[l].next = x /\ rank[l] < rank[head[r]] + n}

\* One round more.
More(S) == S \cup {lk[l].next : l \in S \ {NoLock}}

LEMMA WalkedStep ==
  ASSUME IInv, NEW rank \in [Lock -> Nat], ListInv(rank), NEW r \in Record
  PROVE  /\ Walked(rank, r, 0) = {head[r]}
         /\ \A n \in Nat : Walked(rank, r, n + 1) = More(Walked(rank, r, n))
<1>1. PICK h : h = head[r]
  OBVIOUS
<1>2. CASE h = NoLock
  BY <1>1, <1>2 DEF Walked, More
<1>3. CASE h # NoLock
  <2> DEFINE C == Chain(rank, r)
             Ends(n) == \E l \in C : lk[l].next = NoLock /\ rank[l] < rank[h] + n
  <2>1. /\ h \in C
        /\ \A l \in C : rank[h] <= rank[l] /\ (rank[l] = rank[h] => l = h)
        /\ \A l \in C : lk[l].next # NoLock => lk[l].next \in C /\ rank[lk[l].next] = rank[l] + 1
        /\ \A m \in C : rank[m] > rank[h] => \E l \in C : rank[l] + 1 = rank[m] /\ lk[l].next = m
    BY <1>1, <1>3, ChainIs
  <2>2. \A l \in C : l \in Lock /\ l # NoLock /\ rank[l] \in Nat
    BY LockIs DEF Chain
  <2>3. \A n : \A x : x \in Walked(rank, r, n) <=> (x \in C /\ rank[x] <= rank[h] + n) \/ (x = NoLock /\ Ends(n))
    BY <1>1, <1>3 DEF Walked
  <2> HIDE DEF C
  <2>4. Walked(rank, r, 0) = {h}
    <3>1. ~Ends(0)
      BY <2>1, <2>2
    <3>2. \A x : x \in Walked(rank, r, 0) <=> x = h
      BY <2>1, <2>2, <2>3, <3>1
    <3> QED
      BY <3>2
  <2>5. ASSUME NEW n \in Nat, NEW x, x \in Walked(rank, r, n + 1) PROVE x \in More(Walked(rank, r, n))
    <3>1. CASE x \in C /\ rank[x] <= rank[h] + (n + 1)
      <4>1. CASE rank[x] <= rank[h] + n
        BY <2>3, <3>1, <4>1 DEF More
      <4>2. CASE rank[x] > rank[h] + n
        <5>1. rank[x] > rank[h]
          BY <2>1, <2>2, <3>1, <4>2
        <5>2. PICK l \in C : rank[l] + 1 = rank[x] /\ lk[l].next = x
          BY <2>1, <3>1, <5>1
        <5>3. rank[l] <= rank[h] + n
          BY <2>1, <2>2, <3>1, <5>2
        <5> QED
          BY <2>2, <2>3, <5>2, <5>3 DEF More
      <4> QED
        BY <2>1, <2>2, <3>1, <4>1, <4>2
    <3>2. CASE x = NoLock /\ Ends(n + 1)
      <4>1. PICK l \in C : lk[l].next = NoLock /\ rank[l] < rank[h] + (n + 1)
        BY <3>2
      <4>2. rank[l] <= rank[h] + n
        BY <2>1, <2>2, <4>1
      <4> QED
        BY <2>2, <2>3, <3>2, <4>1, <4>2 DEF More
    <3> QED
      BY <2>3, <2>5, <3>1, <3>2
  <2>6. ASSUME NEW n \in Nat, NEW x, x \in More(Walked(rank, r, n)) PROVE x \in Walked(rank, r, n + 1)
    <3>1. CASE x \in C /\ rank[x] <= rank[h] + n
      <4>1. rank[x] <= rank[h] + (n + 1)
        BY <2>1, <2>2, <3>1
      <4> QED
        BY <2>3, <3>1, <4>1
    <3>2. CASE x = NoLock /\ Ends(n)
      <4>1. Ends(n + 1)
        BY <2>1, <2>2, <3>2
      <4> QED
        BY <2>3, <3>2, <4>1
    <3>3. ASSUME NEW l \in C, rank[l] <= rank[h] + n, x = lk[l].next PROVE x \in Walked(rank, r, n + 1)
      <4>1. rank[l] < rank[h] + (n + 1) /\ rank[l] + 1 <= rank[h] + (n + 1)
        BY <2>1, <2>2, <3>3
      <4>2. CASE x = NoLock
        BY <2>3, <3>3, <4>1, <4>2
      <4>3. CASE x # NoLock
        BY <2>1, <2>3, <3>3, <4>1, <4>3
      <4> QED
        BY <4>2, <4>3
    <3>4. x \in Walked(rank, r, n) \/ \E l \in Walked(rank, r, n) : l # NoLock /\ x = lk[l].next
      BY <2>6 DEF More
    <3> QED
      BY <2>3, <3>1, <3>2, <3>3, <3>4
  <2> QED
    BY <1>1, <2>4, <2>5, <2>6
<1> QED
  BY <1>2, <1>3

\* The function of Reach.
Rounds(r) ==
  CHOOSE reach : reach =
    [n \in 0 .. Cardinality(Lock) |->
       IF n = 0 THEN {head[r]}
       ELSE LET before == reach[n - 1]
            IN  before \cup {lk[l].next : l \in before \ {NoLock}}]

LEMMA ReachIs ==
  ASSUME IInv, NEW rank \in [Lock -> Nat], ListInv(rank), NEW r \in Record, Cardinality(Lock) \in Nat
  PROVE  Reach(r) = Walked(rank, r, Cardinality(Lock)) \ {NoLock}
<1> DEFINE D == 0 .. Cardinality(Lock)
           G(f) == [n \in D |-> IF n = 0 THEN {head[r]} ELSE More(f[n - 1])]
           fix == [n \in D |-> Walked(rank, r, n)]
           reach == CHOOSE f : f = G(f)
<1>1. \A n \in D : n # 0 => n - 1 \in D /\ n - 1 \in Nat /\ (n - 1) + 1 = n
  OBVIOUS
<1>2. ASSUME NEW n \in D PROVE fix[n] = IF n = 0 THEN {head[r]} ELSE More(fix[n - 1])
  <2>1. CASE n = 0
    BY <2>1, WalkedStep
  <2>2. CASE n # 0
    <3>1. Walked(rank, r, (n - 1) + 1) = More(Walked(rank, r, n - 1))
      BY <1>1, <2>2, WalkedStep
    <3>2. fix[n] = Walked(rank, r, n) /\ fix[n - 1] = Walked(rank, r, n - 1)
      BY <1>1, <2>2
    <3> QED
      BY <1>1, <2>2, <3>1, <3>2
  <2> QED
    BY <2>1, <2>2
<1>3. fix = [n \in D |-> fix[n]]
  OBVIOUS
<1>4. \A n \in D : fix[n] = Walked(rank, r, n)
  OBVIOUS
<1> HIDE DEF fix
<1>5. fix = G(fix)
  BY <1>2, <1>3
<1>6. reach = G(reach)
  BY <1>5
<1>7. Rounds(r) = reach
  BY DEF Rounds, More
<1> HIDE DEF reach
<1>8. \A n \in D : reach[n] = IF n = 0 THEN {head[r]} ELSE More(reach[n - 1])
  BY <1>6
<1>9. ASSUME NEW n \in D PROVE reach[n] = fix[n]
  <2> DEFINE S == {k \in Nat : k \in D /\ reach[k] # fix[k]}
  <2>1. CASE S = {}
    BY <2>1
  <2>2. CASE S # {}
    <3>1. S \in SUBSET Nat
      OBVIOUS
    <3>2. PICK k \in S : \A j \in S : k <= j
      BY <2>2, <3>1, Least
    <3>3. k \in Nat /\ k \in D /\ reach[k] # fix[k]
      BY <3>2
    <3>4. k # 0
      BY <1>2, <1>8, <3>3
    <3>5. k - 1 \in D /\ k - 1 \in Nat /\ ~(k <= k - 1)
      BY <1>1, <3>3, <3>4
    <3>6. reach[k - 1] = fix[k - 1]
      BY <3>2, <3>5
    <3> QED
      BY <1>2, <1>8, <3>3, <3>4, <3>6
  <2> QED
    BY <2>1, <2>2
<1>10. Cardinality(Lock) \in D
  OBVIOUS
<1>11. Reach(r) = Rounds(r)[Cardinality(Lock)] \ {NoLock}
  BY DEF Reach, Rounds
<1> QED
  BY <1>4, <1>7, <1>9, <1>10, <1>11

\* In order, what is reachable is linked in the order of the ids, in use and not missing.
LEMMA OrderedIntact ==
  ASSUME IsFiniteSet(Record), IInv, Ordered
  PROVE  ListIntact
<1>1. PICK rank \in [Lock -> Nat] : ListInv(rank)
  BY DEF Ordered, Orderly
<1>2. Cardinality(Lock) \in Nat
  BY LocksCount
<1>3. ASSUME NEW r \in Record, NEW l \in Reach(r)
      PROVE  /\ lk[l].next # NoLock /\ lk[lk[l].next].id # MaxId =>
                  lk[lk[l].next].id = lk[l].id + 1 /\ Rec(lk[l].next) = r
             /\ ~(pc[Owner(l)] \in Renewing /\ loc[Owner(l)].new = l)
  <2>1. l \in Walked(rank, r, Cardinality(Lock)) /\ l # NoLock
    BY <1>1, <1>2, <1>3, ReachIs
  <2>2. head[r] # NoLock /\ l \in Chain(rank, r)
    BY <2>1 DEF Walked
  <2>3. l \in Lock /\ Listed(l) /\ Rec(l) = r
    BY <2>2 DEF Chain
  <2>4. ~(pc[Owner(l)] \in Renewing /\ loc[Owner(l)].new = l)
    BY <2>3 DEF Listed, Out, Preparing
  <2>5. PICK m : m = lk[l].next
    OBVIOUS
  <2>6. ASSUME m # NoLock, lk[m].id # MaxId
        PROVE  lk[m].id = lk[l].id + 1 /\ Rec(m) = r
    <3>1. m \in Chain(rank, r) /\ rank[m] = rank[l] + 1
      BY <1>1, <2>2, <2>5, <2>6, ChainIs
    <3>2. m \in Lock /\ Listed(m) /\ Rec(m) = r
      BY <3>1 DEF Chain
    <3>3. rank[l] < rank[m]
      BY <2>3, <3>1
    <3>4. lk[l].id # MaxId
      BY <1>1, <2>3, <2>6, <3>2, <3>3 DEF ListInv, OrderInv
    <3>5. lk[m].id = rank[m] /\ lk[l].id = rank[l]
      BY <1>1, <2>3, <2>6, <3>2, <3>4 DEF ListInv, IdInv
    <3> QED
      BY <3>1, <3>2, <3>5
  <2> QED
    BY <2>4, <2>5, <2>6
<1>4. ASSUME NEW l \in Lock, Live(l) PROVE l \in Reach(Rec(l))
  <2>1. PICK r, h : r = Rec(l) /\ h = head[r]
    OBVIOUS
  <2>2. /\ HasHead(r) /\ l \in Chain(rank, r)
        /\ \A k \in rank[h] .. rank[l] : \E x \in Lock : rank[x] = k
    BY <1>1, <1>4, <2>1, LiveInChain
  <2>3. r \in Record /\ h # NoLock /\ h \in Lock
    BY <2>1, <2>2, LockIs DEF HasHead, IInv, Types, Node
  <2>4. rank[h] \in Nat /\ rank[l] \in Nat /\ rank[h] <= rank[l]
    BY <2>1, <2>2, <2>3 DEF Chain
  <2>5. rank[l] <= rank[h] + Cardinality(Lock)
    BY <2>2, <2>4, LocksCount
  <2>6. l \in Walked(rank, r, Cardinality(Lock)) /\ l # NoLock
    BY <2>1, <2>2, <2>3, <2>5, LockIs DEF Walked
  <2> QED
    BY <1>1, <1>2, <2>1, <2>3, <2>6, ReachIs
<1> QED
  BY <1>3, <1>4 DEF ListIntact

\* While no list uses up its ids, the links from the head of a record on go through its locks in
\* the order of their ids; no lock in use is missing, and none of them is being used again.
THEOREM ListsStayIntact ==
  ASSUME IsFiniteSet(Record)
  PROVE  Spec /\ []IdsLast => []ListIntact
<1>1. IInv /\ Ordered => ListIntact
  BY OrderedIntact
<1> QED
  BY <1>1, OrderedAlways, PTL

-----------------------------------------------------------------------------
(* Deadlocks of two threads *)

\* Two threads wait for each other.
Mutual(t, u) == t # u /\ pc[t] \in Waiting /\ pc[u] \in Waiting /\ SleepsBehind(t, u) /\ SleepsBehind(u, t)

\* A lock of u that is not released.
Stood(u, l) == Owner(l) = u /\ lk[l].state # "OBSOLETE"

\* A search with the locals x has still to look at u: it has a lock of u in its queue, or among
\* the first k collected ones.
Due(u, x, k) ==
  /\ u \notin x.passed
  /\ \/ \E n \in 1 .. Len(x.queue) : Stood(u, x.queue[n])
     \/ \E j \in 1 .. Len(x.vec) : j <= k /\ Stood(u, x.vec[j])

\* The search of t looks at u, at place p with the locals x, and has not come past the lock of t
\* that u waits for.
Near(t, u, p, x) ==
  /\ x.who = u /\ p \notin {"walk_again", "walk_head"}
  /\ p # "probe" => x.conf = loc[u].new
  /\ p \notin {"probe", "probe_id"} => x.cid = lk[x.conf].id
  /\ p \in {"walk", "walk_next", "walk_id"} =>
       /\ x.target \in Lock /\ Listed(x.target) /\ Rec(x.target) = Rec(x.conf)
       /\ lk[head[Rec(x.conf)]].id <= lk[x.target].id
       /\ \E m \in Locks(t) : /\ Live(m) /\ Before(m, x.conf) /\ lk[x.target].id <= lk[m].id
                              /\ p = "walk_next" => x.target # m

\* At place p with the locals x, thread t will find out that u waits for it.
Sight(t, u, p, x) ==
  /\ p \notin {"sleep", "asleep"}
  /\ p = "check_id" => lk[x.vec[x.i]].state # "OBSOLETE"
  /\ p = "fill" => Due(u, x, x.i)
  /\ p = "pop" => Due(u, x, 0)
  /\ p \in Probing => (x.who # u /\ Due(u, x, 0)) \/ Near(t, u, p, x)

\* Who waits has said so, and a search begins with nobody passed.
AskInv(t) ==
  /\ pc[t] \in Waiting => conflict[t] = loc[t].new
  /\ pc[t] \notin {"pop"} \cup Probing => loc[t].passed = {}

Asked == \A t \in Thread : AskInv(t)

\* Of two threads that wait for each other, one will find it out.
Watched == \A t, u \in Thread : Mutual(t, u) => Sight(t, u, pc[t], loc[t]) \/ Sight(u, t, pc[u], loc[u])

\* A step of a thread that waits for its lock.
Looks(t) == \/ Searching(t) \/ FromHead(t) \/ Collect(t) \/ CollectNext(t)
            \/ Check(t) \/ CheckId(t) \/ CheckMode(t)
            \/ Wait(t) \/ Unwait(t) \/ Sleep(t) \/ Awake(t)

LEMMA LooksStill ==
  ASSUME IInv, NEW rank, ListInv(rank), NEW t \in Thread, Looks(t)
  PROVE  /\ Others(t) /\ Still /\ pc[t] \in Waiting /\ UNCHANGED <<head, deque>>
         /\ loc'[t].new = loc[t].new /\ conflict' = conflict
<1>1. PICK p, x : p = pc'[t] /\ x = loc'[t]
  OBVIOUS
<1>2. Types
  BY DEF IInv
<1>3. pc \in [Thread -> Place] /\ loc \in [Thread -> Locals]
  BY <1>2 DEF Types
<1>4. Quiet(t, p, x)
  BY <1>1, LooksQuiet, StatesQuiet DEF Looks
<1>5. pc[t] \in Waiting /\ UNCHANGED <<head, deque, conflict>> /\ loc'[t].new = loc[t].new
  <2>1. CASE Searching(t)
    BY <2>1, SearchingMoves DEF shared, Seeking, Probing, Waiting
  <2>2. CASE FromHead(t) \/ Collect(t) \/ CollectNext(t)
    BY <1>3, <2>2 DEF FromHead, Collect, CollectNext, CollectAt, Goto, shared, Locals, Waiting
  <2>3. CASE Check(t) \/ CheckId(t) \/ CheckMode(t)
    BY <1>3, <2>3 DEF Check, CheckId, CheckMode, Skip, CheckOn, Goto, shared, Locals, Waiting
  <2>4. CASE Wait(t) \/ Unwait(t)
    BY <1>3, <2>4 DEF Wait, Unwait, CheckOn, Goto, shared, Locals, Waiting
  <2>5. CASE Sleep(t) \/ Awake(t)
    BY <1>3, <2>5 DEF Sleep, Awake, Goto, shared, Waiting
  <2> QED
    BY <2>1, <2>2, <2>3, <2>4, <2>5 DEF Looks
<1> QED
  BY <1>4, <1>5 DEF Quiet

LEMMA WaitingMoves ==
  ASSUME IInv, NEW t \in Thread, Step(t), pc'[t] \in Waiting
  PROVE  Looks(t) \/ SetConflict(t)
<1>1. Types
  BY DEF IInv
<1>2. pc \in [Thread -> Place] /\ loc \in [Thread -> Locals]
  BY <1>1 DEF Types
<1>3. ASSUME Pick(t) \/ RenewState(t) \/ RenewNext(t) \/ SetMode(t) PROVE FALSE
  BY <1>2, <1>3 DEF Pick, Create, Recycle, RenewState, RenewNext, SetMode, Goto, Waiting
<1>4. ASSUME Swap(t) \/ Link(t) \/ AwaitId(t) \/ PassId(t) \/ FirstLock(t) PROVE FALSE
  BY <1>2, <1>4 DEF Swap, Link, AwaitId, PassId, FirstLock, Goto, Waiting
<1>5. ASSUME Deadlock(t) \/ GiveUp(t) \/ Grant(t) PROVE FALSE
  BY <1>2, <1>5 DEF Deadlock, GiveUp, Grant, Goto, Waiting
<1>6. ASSUME MarkObsolete(t) \/ LockHead(t) \/ PassHead(t) \/ NewFront(t) \/ WakeOther(t) PROVE FALSE
  BY <1>2, <1>6 DEF MarkObsolete, LockHead, PassHead, NewFront, WakeOther, Hold, Goto, Waiting
<1>7. ASSUME Front(t) \/ Advance(t) \/ WakeHead(t) \/ WakeNext(t) PROVE FALSE
  BY <1>2, <1>7 DEF Front, Advance, WakeHead, WakeNext, Unlock, Hold, Goto, Waiting
<1> QED
  BY <1>3, <1>4, <1>5, <1>6, <1>7 DEF Step, Acquiring, Releasing, Looks


\* What a step does to a search that is over, or has not begun.
LEMMA AskStep ==
  ASSUME IInv, NEW rank, ListInv(rank), NEW t \in Thread, Step(t), AskInv(t)
  PROVE  AskInv(t)'
<1>1. Types /\ LockInv(t) /\ CallInv(t)
  BY DEF IInv
<1>2. /\ pc \in [Thread -> Place] /\ loc \in [Thread -> Locals] /\ conflict \in [Thread -> Node]
      /\ lk \in [Lock -> Fields]
  BY <1>1 DEF Types
<1>3. NoLocals.passed = {} /\ \A v : [NoLocals EXCEPT !.i = v].passed = {} /\ [NoLocals EXCEPT !.new = v].passed = {}
  BY DEF NoLocals
<1>4. pc'[t] \in Waiting => conflict'[t] = loc'[t].new
  <2>1. SUFFICES ASSUME pc'[t] \in Waiting PROVE conflict'[t] = loc'[t].new
    OBVIOUS
  <2>2. CASE SetConflict(t)
    BY <1>2, <2>2 DEF SetConflict
  <2>3. CASE Looks(t)
    <3>1. pc[t] \in Waiting /\ conflict' = conflict /\ loc'[t].new = loc[t].new
      BY <2>3, LooksStill
    <3> QED
      BY <3>1 DEF AskInv
  <2> QED
    BY <2>1, <2>2, <2>3, WaitingMoves
<1>5. pc'[t] \notin {"pop"} \cup Probing => loc'[t].passed = {}
  <2> DEFINE Same == pc[t] \notin {"pop"} \cup Probing /\ loc'[t].passed = loc[t].passed
             Over == loc'[t].passed = {}
  <2> USE <1>2, <1>3 DEF Probing, Goto, Locals, shared
  <2>1. ASSUME Pick(t) \/ RenewState(t) \/ RenewNext(t) \/ SetMode(t) PROVE Same
    <3>1. CASE Pick(t)
      BY <3>1 DEF Pick, Create, Recycle
    <3>2. CASE RenewState(t) \/ RenewNext(t) \/ SetMode(t)
      BY <3>2 DEF RenewState, RenewNext, SetMode
    <3> QED
      BY <2>1, <3>1, <3>2
  <2>2. ASSUME Swap(t) \/ Link(t) \/ AwaitId(t) \/ PassId(t) \/ FirstLock(t) \/ SetConflict(t) PROVE Same
    BY <2>2 DEF Swap, Link, AwaitId, PassId, FirstLock, SetConflict
  <2>3. ASSUME FromHead(t) \/ Collect(t) \/ CollectNext(t) PROVE Same
    BY <2>3 DEF FromHead, Collect, CollectNext, CollectAt
  <2>4. ASSUME Check(t) \/ CheckId(t) \/ CheckMode(t) \/ Wait(t) \/ Unwait(t) PROVE Same
    BY <2>4 DEF Check, CheckId, CheckMode, Skip, CheckOn, Wait, Unwait
  <2>5. ASSUME Deadlock(t) \/ GiveUp(t) \/ Sleep(t) \/ Awake(t) \/ Grant(t) PROVE Same \/ Over
    BY <2>5 DEF Deadlock, GiveUp, Sleep, Awake, Grant
  <2>6. ASSUME Fill(t) \/ Pop(t) \/ NoDeadlock(t) PROVE Same \/ Over \/ pc'[t] \in {"pop"} \cup Probing
    <3>1. CASE Fill(t)
      BY <3>1 DEF Fill
    <3>2. CASE Pop(t)
      BY <3>2 DEF Pop
    <3>3. CASE NoDeadlock(t)
      BY <3>3 DEF NoDeadlock
    <3> QED
      BY <2>6, <3>1, <3>2, <3>3
  <2>7. ASSUME Probe(t) \/ ProbeId(t) \/ ProbeHead(t) PROVE Same \/ Over \/ pc'[t] \in {"pop"} \cup Probing
    BY <2>7 DEF Probe, ProbeId, ProbeHead, WalkAt, Passed
  <2>8. ASSUME Walk(t) PROVE Same \/ Over \/ pc'[t] \in {"pop"} \cup Probing
    BY <2>8 DEF Walk, Passed
  <2>9. ASSUME WalkNext(t) \/ WalkId(t) \/ WalkAgain(t) \/ WalkHead(t) PROVE Same \/ Over \/ pc'[t] \in {"pop"} \cup Probing
    BY <2>9 DEF WalkNext, WalkId, WalkAgain, WalkHead, WalkAt, Passed
  <2>10. ASSUME MarkObsolete(t) \/ LockHead(t) \/ PassHead(t) \/ NewFront(t) \/ WakeOther(t) PROVE Same
    BY <2>10 DEF MarkObsolete, LockHead, PassHead, NewFront, WakeOther, Hold, shared
  <2>11. ASSUME Unlock(t) PROVE Over
    BY <2>11 DEF Unlock
  <2>12. ASSUME Front(t) \/ Advance(t) PROVE Same \/ Over
    <3>1. CASE Unlock(t)
      BY <2>11, <3>1
    <3>2. CASE ~Unlock(t)
      BY <2>12, <3>2 DEF Front, Advance, Hold
    <3> QED
      BY <3>1, <3>2
  <2>13. ASSUME WakeHead(t) \/ WakeNext(t) PROVE Same \/ Over
    <3>1. CASE Unlock(t)
      BY <2>11, <3>1
    <3>2. CASE ~Unlock(t)
      BY <2>13, <3>2 DEF WakeHead, WakeNext, Hold
    <3> QED
      BY <3>1, <3>2
  <2>14. Same \/ Over \/ pc'[t] \in {"pop"} \cup Probing
    BY <2>1, <2>2, <2>3, <2>4, <2>5, <2>6, <2>7, <2>8, <2>9, <2>10, <2>12, <2>13
    DEF Step, Acquiring, Searching, Releasing
  <2> QED
    BY <2>14 DEF AskInv
<1> QED
  BY <1>4, <1>5 DEF AskInv

LEMMA StepOthers ==
  ASSUME IInv, NEW t \in Thread, Step(t)
  PROVE  Others(t)
<1>1. Types
  BY DEF IInv
<1>2. /\ pc \in [Thread -> Place] /\ loc \in [Thread -> Locals] /\ conflict \in [Thread -> Node]
      /\ deque \in [Thread -> Seq(Lock)] /\ trx \in [Thread -> Nat \ {0}]
  BY <1>1 DEF Types
<1> USE <1>2 DEF Others, Goto, shared
<1>3. CASE Pick(t) \/ RenewState(t) \/ RenewNext(t) \/ SetMode(t)
  BY <1>3 DEF Pick, Create, Recycle, RenewState, RenewNext, SetMode
<1>4. CASE Swap(t) \/ Link(t) \/ AwaitId(t) \/ PassId(t) \/ FirstLock(t) \/ SetConflict(t)
  BY <1>4 DEF Swap, Link, AwaitId, PassId, FirstLock, SetConflict
<1>5. CASE FromHead(t) \/ Collect(t) \/ CollectNext(t)
  BY <1>5 DEF FromHead, Collect, CollectNext, CollectAt
<1>6. CASE Check(t) \/ CheckId(t) \/ CheckMode(t) \/ Wait(t) \/ Unwait(t)
  BY <1>6 DEF Check, CheckId, CheckMode, Skip, CheckOn, Wait, Unwait
<1>7. CASE Deadlock(t) \/ GiveUp(t) \/ Sleep(t) \/ Awake(t) \/ Grant(t)
  BY <1>7 DEF Deadlock, GiveUp, Sleep, Awake, Grant
<1>8. CASE Searching(t)
  BY <1>8, SearchingMoves
<1>9. CASE MarkObsolete(t) \/ LockHead(t) \/ PassHead(t) \/ NewFront(t) \/ WakeOther(t)
  BY <1>9 DEF MarkObsolete, LockHead, PassHead, NewFront, WakeOther, Hold
<1>10. CASE Front(t) \/ Advance(t) \/ WakeHead(t) \/ WakeNext(t)
  BY <1>10 DEF Front, Advance, WakeHead, WakeNext, Unlock, Hold
<1> QED
  BY <1>3, <1>4, <1>5, <1>6, <1>7, <1>8, <1>9, <1>10 DEF Step, Acquiring, Releasing

LEMMA NextAsked == IInv /\ Ordered /\ Asked /\ [Next]_vars => Asked'
<1>1. SUFFICES ASSUME IInv, NEW rank, ListInv(rank), Asked, [Next]_vars PROVE Asked'
  BY DEF Ordered, Orderly
<1>2. ASSUME NEW t \in Thread, Step(t) PROVE Asked'
  <2>1. Others(t) /\ AskInv(t)'
    BY <1>1, <1>2, StepOthers, AskStep DEF Asked
  <2>2. ASSUME NEW u \in Thread, u # t PROVE AskInv(u)'
    BY <1>1, <2>1, <2>2 DEF Asked, AskInv, Others
  <2> QED
    BY <2>1, <2>2 DEF Asked
<1>3. CASE UNCHANGED vars
  BY <1>1, <1>3 DEF vars, Asked, AskInv
<1> QED
  BY <1>1, <1>2, <1>3 DEF Next, Done


\* What the step of a thread that waits leaves of the locks.
LEMMA LooksKeep ==
  ASSUME IInv, NEW rank, ListInv(rank), NEW w \in Thread, Looks(w), pc'[w] \in Waiting
  PROVE  /\ \A l \in Lock : Live(l)' <=> Live(l)
         /\ \A l \in Lock : Listed(l) => Listed(l)'
         /\ \A t \in Thread : Locks(t)' = Locks(t) /\ loc'[t].new = loc[t].new
         /\ \A t \in Thread : pc'[t] \in Waiting <=> pc[t] \in Waiting
<1>1. /\ Others(w) /\ Still /\ pc[w] \in Waiting /\ UNCHANGED <<head, deque>>
      /\ loc'[w].new = loc[w].new
  BY LooksStill
<1>2. \A t \in Thread : Locks(t)' = Locks(t) /\ loc'[t].new = loc[t].new
  BY <1>1 DEF Locks, Others
<1>3. \A t \in Thread : pc'[t] \in Waiting <=> pc[t] \in Waiting
  BY <1>1 DEF Others
<1>4. \A l \in Lock : Live(l)' <=> Live(l)
  BY <1>1, <1>2, LockIs DEF Live, Still, Idle
<1>5. ASSUME NEW l \in Lock, Listed(l) PROVE Listed(l)'
  <2>1. PICK o : o = Owner(l) /\ o \in Thread
    BY LockIs
  <2>2. pc'[w] \notin Preparing
    BY DEF Waiting, Preparing, Renewing
  <2>3. Created(l)'
    BY <1>1, <1>5 DEF Listed, Created, Still, Idle
  <2>4. ~Out(l)'
    <3>1. CASE o = w
      BY <2>1, <2>2, <3>1 DEF Out
    <3>2. CASE o # w
      BY <1>1, <1>5, <2>1, <3>2 DEF Out, Listed, Others
    <3> QED
      BY <3>1, <3>2
  <2> QED
    BY <2>3, <2>4 DEF Listed
<1> QED
  BY <1>2, <1>3, <1>4, <1>5

LEMMA MutualKept ==
  ASSUME IInv, NEW rank, ListInv(rank), NEW w \in Thread, Looks(w), pc'[w] \in Waiting,
         NEW t \in Thread, NEW u \in Thread, Mutual(t, u)'
  PROVE  Mutual(t, u)
<1>1. /\ \A l \in Lock : Live(l)' <=> Live(l)
      /\ \A v \in Thread : Locks(v)' = Locks(v) /\ loc'[v].new = loc[v].new
      /\ \A v \in Thread : pc'[v] \in Waiting <=> pc[v] \in Waiting
  BY LooksKeep
<1>2. Types /\ Still
  BY LooksStill DEF IInv
<1>3. \A v \in Thread : Locks(v) \subseteq Lock
  BY <1>2, LocksIs
<1>4. t # u /\ pc[t] \in Waiting /\ pc[u] \in Waiting
  BY <1>1 DEF Mutual
<1>5. loc[t].new \in Lock /\ loc[u].new \in Lock
  BY <1>4, WaitingIs
<1>6. \A l, m \in Lock : Before(l, m)' <=> Before(l, m)
  BY <1>2 DEF Before, Still
<1>7. SleepsBehind(t, u)
  <2>1. PICK m \in Locks(u)' : Live(m)' /\ (Before(m, loc[t].new))'
    BY DEF Mutual, SleepsBehind
  <2>2. m \in Locks(u) /\ m \in Lock
    BY <1>1, <1>3, <2>1
  <2>3. Live(m)
    BY <1>1, <2>1, <2>2
  <2>4. Before(m, loc[t].new)
    BY <1>1, <1>2, <1>5, <2>1, <2>2 DEF Before, Still
  <2> QED
    BY <2>2, <2>3, <2>4 DEF SleepsBehind
<1>8. SleepsBehind(u, t)
  <2>1. PICK m \in Locks(t)' : Live(m)' /\ (Before(m, loc[u].new))'
    BY DEF Mutual, SleepsBehind
  <2>2. m \in Locks(t) /\ m \in Lock
    BY <1>1, <1>3, <2>1
  <2>3. Live(m)
    BY <1>1, <2>1, <2>2
  <2>4. Before(m, loc[u].new)
    BY <1>1, <1>2, <1>5, <2>1, <2>2 DEF Before, Still
  <2> QED
    BY <2>2, <2>3, <2>4 DEF SleepsBehind
<1> QED
  BY <1>4, <1>7, <1>8 DEF Mutual

\* What a thread will find out it finds out after such a step too.
LEMMA SightKept ==
  ASSUME IInv, NEW rank, ListInv(rank), NEW w \in Thread, Looks(w), pc'[w] \in Waiting,
         NEW t \in Thread, NEW u \in Thread, pc[u] \in Waiting, NEW p, NEW x \in Locals,
         p = "check_id" => x.i \in 1 .. Len(x.vec), Sight(t, u, p, x)
  PROVE  Sight(t, u, p, x)'
<1>1. /\ \A l \in Lock : Live(l)' <=> Live(l)
      /\ \A l \in Lock : Listed(l) => Listed(l)'
      /\ \A v \in Thread : Locks(v)' = Locks(v) /\ loc'[v].new = loc[v].new
  BY LooksKeep
<1>2. Types /\ Still /\ head' = head /\ lk \in [Lock -> Fields] /\ loc[u].new \in Lock
      /\ head[Rec(loc[u].new)] \in Lock
  BY LooksStill, WaitingIs DEF IInv, Types
<1>3. Locks(t) \subseteq Lock
  BY <1>2, LocksIs
<1>4. /\ x.vec \in Seq(Lock) /\ x.queue \in Seq(Lock)
  BY DEF Locals
<1>5. ASSUME NEW k \in Nat, Due(u, x, k) PROVE Due(u, x, k)'
  <2>1. \A l \in Lock : Stood(u, l)' <=> Stood(u, l)
    BY <1>2 DEF Stood, Still, Idle
  <2>2. \A n \in 1 .. Len(x.queue) : x.queue[n] \in Lock
    BY <1>4
  <2>3. \A n \in 1 .. Len(x.vec) : x.vec[n] \in Lock
    BY <1>4
  <2> QED
    BY <1>5, <2>1, <2>2, <2>3 DEF Due
<1>6. p = "check_id" => lk'[x.vec[x.i]].state # "OBSOLETE"
  <2>1. SUFFICES ASSUME p = "check_id" PROVE lk'[x.vec[x.i]].state # "OBSOLETE"
    OBVIOUS
  <2>2. x.i \in 1 .. Len(x.vec)
    BY <2>1
  <2>3. x.vec[x.i] \in Lock
    BY <1>4, <2>2
  <2> QED
    BY <1>2, <2>1, <2>3 DEF Sight, Still, Idle
<1>7. ASSUME p \in Probing, Near(t, u, p, x) PROVE Near(t, u, p, x)'
  <2>1. p # "probe" => x.conf \in Lock /\ x.conf = loc[u].new
    BY <1>2, <1>7 DEF Near
  <2>2. p \notin {"probe", "probe_id"} => x.cid = lk'[x.conf].id
    BY <1>2, <1>7, <2>1 DEF Near, Still
  <2>3. ASSUME p \in {"walk", "walk_next", "walk_id"}
        PROVE  /\ x.target \in Lock /\ Listed(x.target)' /\ Rec(x.target) = Rec(x.conf)
               /\ lk'[head'[Rec(x.conf)]].id <= lk'[x.target].id
               /\ \E m \in Locks(t)' : /\ Live(m)' /\ Before(m, x.conf)' /\ lk'[x.target].id <= lk'[m].id
                                       /\ p = "walk_next" => x.target # m
    <3>1. /\ x.target \in Lock /\ Listed(x.target) /\ Rec(x.target) = Rec(x.conf)
          /\ lk[head[Rec(x.conf)]].id <= lk[x.target].id
      BY <1>7, <2>3 DEF Near
    <3>2. PICK m \in Locks(t) : /\ Live(m) /\ Before(m, x.conf) /\ lk[x.target].id <= lk[m].id
                                /\ p = "walk_next" => x.target # m
      BY <1>7, <2>3 DEF Near
    <3>3. m \in Lock /\ head[Rec(x.conf)] \in Lock /\ x.conf \in Lock
      BY <1>2, <1>3, <2>1, <2>3, <3>2
    <3>4. \A l \in Lock : lk'[l].id = lk[l].id
      BY <1>2 DEF Still
    <3>5. Before(m, x.conf)'
      BY <3>2, <3>3, <3>4 DEF Before
    <3> QED
      BY <1>1, <1>2, <3>1, <3>2, <3>3, <3>4, <3>5
  <2>4. p # "probe" => x.conf = loc'[u].new
    BY <1>1, <2>1
  <2> QED
    BY <1>7, <2>2, <2>3, <2>4 DEF Near
<1>8. x.i \in Nat /\ 0 \in Nat
  BY DEF Locals
<1> QED
  BY <1>5, <1>6, <1>7, <1>8 DEF Sight


\* Of two threads, who stands in the way of t is the other one.
LEMMA OtherStands ==
  ASSUME IInv, NEW rank \in [Lock -> Nat], ListInv(rank), IdsLast, Worked, Awakes,
         \A a, b, c \in Thread : a = b \/ b = c \/ a = c,
         NEW t \in Thread, NEW u \in Thread, t # u, pc[t] \in Waiting, NEW n, n = loc[t].new,
         NEW k \in Lock, Rec(k) = Rec(n), k # n, lk[k].state # "OBSOLETE", ~(lk[k].id > lk[n].id)
  PROVE  Owner(k) = u
<1>1. n \in Lock /\ Listed(n) /\ lk[n].id # MaxId /\ Owner(n) = t /\ n \in Locks(t)
  BY AskedIs
<1>2. IdInv(rank, n) /\ Types
  BY <1>1 DEF ListInv, IInv
<1>3. lk[n].id = rank[n]
  BY <1>1, <1>2 DEF IdInv
<1>4. Listed(k)
  BY <1>1, <1>2, <1>3, NotBehind
<1>5. Owner(k) \in Thread /\ (pc[Owner(k)] = "done" => loc[Owner(k)].i > 0)
  BY LockIs DEF Awakes, WaitInv
<1>6. k \in Locks(Owner(k))
  BY <1>4, <1>5, LiveInHand
<1>7. Owner(k) # t
  BY <1>1, <1>6, OneEach DEF Worked
<1> QED
  BY <1>5, <1>7

\* The search of t comes to u, when t has seen that u is in its way.
LEMMA CheckSight ==
  ASSUME IInv, NEW rank \in [Lock -> Nat], ListInv(rank), IdsLast, Worked, Awakes, Asked,
         \A a, b, c \in Thread : a = b \/ b = c \/ a = c,
         NEW t \in Thread, NEW u \in Thread, Mutual(t, u), Sight(t, u, pc[t], loc[t]),
         NEW p, NEW x, p = pc'[t], x = loc'[t], p \in Waiting,
         Check(t) \/ CheckId(t) \/ CheckMode(t)
  PROVE  Sight(t, u, p, x)
<1>1. t # u /\ pc[t] \in Waiting /\ pc[t] \in {"check", "check_id", "check_mode"}
  BY DEF Mutual, Check, CheckId, CheckMode
<1>2. /\ pc \in [Thread -> Place] /\ loc \in [Thread -> Locals] /\ loc[t] \in Locals
      /\ CallAt(pc[t], loc[t]) /\ WaitInv(t) /\ AskInv(t)
  BY <1>1, WaitingIs DEF Awakes, Asked
<1>3. loc[t].vec \in Seq(Lock) /\ loc[t].i \in 1 .. Len(loc[t].vec) /\ Target(t) \in Lock
  BY <1>1, <1>2 DEF CallAt, Locals, Target
<1>4. CASE Check(t)
  <2>1. p \in {"unwait", "check"} \/ (p = "check_id" /\ x = loc[t] /\ lk[Target(t)].state # "OBSOLETE")
    BY <1>2, <1>4 DEF Check, Skip, CheckOn, Released, Goto, Waiting
  <2>2. p = "check_id" => lk[x.vec[x.i]].state # "OBSOLETE"
    BY <2>1 DEF Target
  <2> QED
    BY <2>1, <2>2 DEF Sight, Probing
<1>5. CASE CheckMode(t)
  <2>1. p \in {"wait", "check"}
    BY <1>2, <1>5 DEF CheckMode, CheckOn, Goto, Waiting
  <2> QED
    BY <2>1 DEF Sight, Probing
<1>6. CASE CheckId(t)
  <2>1. \/ p \in {"unwait", "check", "wait", "check_mode"}
        \/ /\ p = "fill" /\ ~Behind(t, Target(t)) /\ pc[t] = "check_id"
           /\ x = [loc[t] EXCEPT !.i = Len(loc[t].vec)]
    BY <1>2, <1>6 DEF CheckId, Skip, CheckOn, Goto, Waiting
  <2>2. CASE p = "fill"
    <3>1. /\ ~Behind(t, Target(t)) /\ pc[t] = "check_id" /\ x = [loc[t] EXCEPT !.i = Len(loc[t].vec)]
      BY <2>1, <2>2
    <3>2. lk[Target(t)].state # "OBSOLETE"
      BY <3>1 DEF Sight, Target
    <3>3. Rec(Target(t)) = Rec(loc[t].new) /\ Target(t) # loc[t].new
      BY <1>2, <1>3, <3>1 DEF WaitInv, Examining, Target
    <3>4. Owner(Target(t)) = u
      BY <1>1, <1>3, <3>1, <3>2, <3>3, OtherStands DEF Behind
    <3>5. Stood(u, loc[t].vec[loc[t].i])
      BY <3>2, <3>4 DEF Stood, Target
    <3>6. x.vec = loc[t].vec /\ x.i = Len(loc[t].vec) /\ x.passed = loc[t].passed
      BY <1>2, <3>1 DEF Locals
    <3>7. u \notin x.passed
      BY <1>2, <3>1, <3>6 DEF AskInv, Probing
    <3>8. \E j \in 1 .. Len(x.vec) : j <= x.i /\ Stood(u, x.vec[j])
      BY <1>3, <3>5, <3>6
    <3>9. Due(u, x, x.i)
      BY <3>7, <3>8 DEF Due
    <3> QED
      BY <2>2, <3>9 DEF Sight, Probing
  <2> QED
    BY <2>1, <2>2 DEF Sight, Probing
<1> QED
  BY <1>4, <1>5, <1>6

\* The queue keeps what the search has still to look at.
LEMMA FillSight ==
  ASSUME IInv, NEW t \in Thread, NEW u \in Thread, pc[t] \in Waiting, Sight(t, u, pc[t], loc[t]),
         NEW p, NEW x, p = pc'[t], x = loc'[t], Fill(t) \/ Pop(t) \/ NoDeadlock(t)
  PROVE  Sight(t, u, p, x)
<1>1. /\ pc \in [Thread -> Place] /\ loc \in [Thread -> Locals] /\ loc[t] \in Locals /\ CallAt(pc[t], loc[t])
  BY WaitingIs
<1>2. PICK y : y = loc[t]
  OBVIOUS
<1>3. y \in Locals /\ y.vec \in Seq(Lock) /\ y.queue \in Seq(Lock)
  BY <1>1, <1>2 DEF Locals
<1>4. CASE Fill(t)
  <2>1. pc[t] = "fill" /\ y.i \in 1 .. Len(y.vec) /\ Due(u, y, y.i)
    BY <1>1, <1>2, <1>4 DEF Fill, Sight, CallAt
  <2>2. /\ x = [y EXCEPT !.i = @ - 1, !.queue = IF lk[y.vec[y.i]].state = "OBSOLETE"
                                                  THEN @ ELSE Append(@, y.vec[y.i])]
        /\ p = IF y.i = 1 THEN "pop" ELSE "fill"
    BY <1>1, <1>2, <1>4 DEF Fill, Goto, Target
  <2>3. x.i = y.i - 1 /\ x.passed = y.passed /\ x.vec = y.vec
        /\ x.queue = IF lk[y.vec[y.i]].state = "OBSOLETE" THEN y.queue ELSE Append(y.queue, y.vec[y.i])
    BY <1>3, <2>2 DEF Locals
  <2>4. u \notin x.passed
    BY <2>1, <2>3 DEF Due
  <2>5. CASE \E n \in 1 .. Len(y.queue) : Stood(u, y.queue[n])
    <3>1. \E n \in 1 .. Len(x.queue) : Stood(u, x.queue[n])
      BY <1>3, <2>1, <2>3, <2>5
    <3> QED
      BY <2>2, <2>4, <3>1 DEF Sight, Due, Probing
  <2>6. CASE \E j \in 1 .. Len(y.vec) : j <= y.i /\ Stood(u, y.vec[j])
    <3>1. PICK j \in 1 .. Len(y.vec) : j <= y.i /\ Stood(u, y.vec[j])
      BY <2>6
    <3>2. CASE j = y.i
      <4>1. x.queue = Append(y.queue, y.vec[j])
        BY <2>3, <3>1, <3>2 DEF Stood
      <4>2. \E n \in 1 .. Len(x.queue) : x.queue[n] = y.vec[j]
        BY <1>3, <2>1, <3>2, <4>1
      <4>3. \E n \in 1 .. Len(x.queue) : Stood(u, x.queue[n])
        BY <3>1, <4>2
      <4> QED
        BY <2>2, <2>4, <4>3 DEF Sight, Due, Probing
    <3>3. CASE j # y.i
      <4>1. j <= x.i /\ y.i # 1
        BY <2>1, <2>3, <3>1, <3>3
      <4>2. Due(u, x, x.i)
        BY <2>3, <2>4, <3>1, <4>1 DEF Due
      <4> QED
        BY <2>2, <4>1, <4>2 DEF Sight, Probing
    <3> QED
      BY <3>2, <3>3
  <2> QED
    BY <2>1, <2>5, <2>6 DEF Due
<1>5. ASSUME pc[t] = "pop" PROVE u \notin y.passed /\ \E n \in 1 .. Len(y.queue) : Stood(u, y.queue[n])
  BY <1>2, <1>5 DEF Sight, Due
<1>6. CASE Pop(t)
  <2>1. PICK l : l = y.queue[1]
    OBVIOUS
  <2>2. pc[t] = "pop" /\ u \notin y.passed /\ y.queue # << >>
    BY <1>2, <1>5, <1>6 DEF Pop
  <2>3. PICK n \in 1 .. Len(y.queue) : Stood(u, y.queue[n])
    BY <1>5, <2>2
  <2>4. \/ /\ Owner(l) \in y.passed \/ lk[l].state = "OBSOLETE"
           /\ x = [y EXCEPT !.queue = Tail(@)] /\ p = "pop"
        \/ /\ x = [y EXCEPT !.queue = Tail(@), !.who = Owner(l)] /\ p = "probe"
    BY <1>1, <1>2, <1>6, <2>1, <2>2 DEF Pop, Goto
  <2>5. x.queue = Tail(y.queue) /\ x.passed = y.passed /\ (p = "probe" => x.who = Owner(l))
    BY <1>3, <2>4 DEF Locals
  <2>6. CASE Owner(l) = u /\ p = "probe"
    BY <2>5, <2>6 DEF Sight, Near, Probing
  <2>7. CASE ~(Owner(l) = u /\ p = "probe")
    <3>1. n # 1
      BY <2>1, <2>2, <2>3, <2>4, <2>7 DEF Stood
    <3>2. n - 1 \in 1 .. Len(x.queue) /\ x.queue[n - 1] = y.queue[n]
      BY <1>3, <2>2, <2>3, <2>5, <3>1
    <3>3. Due(u, x, 0)
      BY <2>2, <2>3, <2>5, <3>2 DEF Due
    <3>4. p = "probe" => x.who # u
      BY <2>5, <2>7
    <3> QED
      BY <2>4, <3>3, <3>4 DEF Sight, Probing
  <2> QED
    BY <2>6, <2>7
<1>7. CASE NoDeadlock(t)
  <2>1. pc[t] = "pop" /\ y.queue = << >>
    BY <1>2, <1>7 DEF NoDeadlock
  <2> QED
    BY <1>5, <2>1
<1> QED
  BY <1>4, <1>6, <1>7


\* A search with the locals y that looks at a thread goes on, with its queue, is done with that
\* thread, or has found a deadlock.
Goes(y, p, x) ==
  \/ p = "deadlock"
  \/ /\ p \in Probing
     /\ x.queue = y.queue /\ x.passed = y.passed /\ x.who = y.who
  \/ /\ p = "pop" /\ x.passed = y.passed \cup {y.who}
     /\ \E more \in Seq(Lock) : x.queue = y.queue \o more

LEMMA ProbingMoves ==
  ASSUME IInv, NEW t \in Thread, NEW y, NEW x, NEW p, y = loc[t], x = loc'[t], p = pc'[t],
         pc[t] \in Probing, Searching(t)
  PROVE  Goes(y, p, x)
<1>1. /\ pc \in [Thread -> Place] /\ loc \in [Thread -> Locals] /\ y \in Locals
  BY DEF IInv, Types
<1>2. ASSUME NEW more \in Seq(Lock), Passed(t, more)
      PROVE  p = "pop" /\ x.passed = y.passed \cup {y.who} /\ x.queue = y.queue \o more
  BY <1>1, <1>2 DEF Passed, Goto, Locals
<1>3. << >> \in Seq(Lock) /\ y.tmp \in Seq(Lock)
  BY <1>1 DEF Locals
<1>4. ASSUME NEW more \in Seq(Lock), Passed(t, more) PROVE Goes(y, p, x)
  BY <1>2, <1>4 DEF Goes
<1>5. ASSUME ~Passed(t, << >>), ~Passed(t, y.tmp) PROVE Goes(y, p, x)
  <2> USE <1>1, <1>3, <1>5 DEF Goto, Locals, Probing, Goes
  <2>1. CASE Fill(t) \/ Pop(t) \/ NoDeadlock(t)
    BY <2>1 DEF Fill, Pop, NoDeadlock
  <2>2. CASE Probe(t) \/ ProbeId(t)
    BY <2>2 DEF Probe, ProbeId
  <2>3. CASE ProbeHead(t)
    BY <2>3 DEF ProbeHead, WalkAt
  <2>4. CASE Walk(t)
    BY <2>4 DEF Walk
  <2>5. CASE WalkNext(t) \/ WalkAgain(t)
    BY <2>5 DEF WalkNext, WalkAgain
  <2>6. CASE WalkId(t)
    BY <2>6 DEF WalkId, WalkAt
  <2>7. CASE WalkHead(t)
    BY <2>7 DEF WalkHead, WalkAt
  <2> QED
    BY <2>1, <2>2, <2>3, <2>4, <2>5, <2>6, <2>7 DEF Searching
<1> QED
  BY <1>3, <1>4, <1>5

\* A search that looks at another thread, and has still to look at u.
LEMMA DueSight ==
  ASSUME IInv, NEW t \in Thread, NEW u \in Thread, pc[t] \in Probing, loc[t].who # u, Due(u, loc[t], 0),
         NEW p, NEW x, p = pc'[t], x = loc'[t], Searching(t)
  PROVE  Sight(t, u, p, x)
<1>1. PICK y : y = loc[t]
  OBVIOUS
<1>2. y \in Locals
  BY <1>1 DEF IInv, Types
<1>3. y.queue \in Seq(Lock) /\ y.vec \in Seq(Lock)
  BY <1>2 DEF Locals
<1>4. u \notin y.passed /\ y.who # u
  BY <1>1 DEF Due
<1>5. PICK n \in 1 .. Len(y.queue) : Stood(u, y.queue[n])
  BY <1>1, <1>3 DEF Due
<1>6. CASE p = "deadlock"
  BY <1>6 DEF Sight, Probing
<1>7. CASE p \in Probing /\ x.queue = y.queue /\ x.passed = y.passed /\ x.who = y.who
  <2>1. Due(u, x, 0)
    BY <1>4, <1>5, <1>7 DEF Due
  <2> QED
    BY <1>4, <1>7, <2>1 DEF Sight, Probing
<1>8. CASE /\ p = "pop" /\ x.passed = y.passed \cup {y.who}
           /\ \E more \in Seq(Lock) : x.queue = y.queue \o more
  <2>1. PICK more \in Seq(Lock) : x.queue = y.queue \o more
    BY <1>8
  <2>2. n \in 1 .. Len(x.queue) /\ x.queue[n] = y.queue[n]
    BY <1>3, <1>5, <2>1
  <2>3. Due(u, x, 0)
    BY <1>4, <1>5, <1>8, <2>2 DEF Due
  <2> QED
    BY <1>8, <2>3 DEF Sight, Probing
<1>9. Goes(y, p, x)
  BY <1>1, ProbingMoves
<1> QED
  BY <1>6, <1>7, <1>8, <1>9 DEF Goes

\* A search on the way from the head to a live lock goes on to the next lock.
LEMMA WalksOn ==
  ASSUME IInv, NEW rank \in [Lock -> Nat], ListInv(rank), IdsLast, NEW m \in Lock, Live(m),
         NEW l \in Lock, Listed(l), Rec(l) = Rec(m), lk[head[Rec(m)]].id <= lk[l].id, lk[l].id <= lk[m].id, l # m
  PROVE  LET y == lk[l].next IN
         /\ y \in Lock /\ Listed(y) /\ Rec(y) = Rec(m)
         /\ lk[head[Rec(m)]].id <= lk[y].id /\ lk[y].id <= lk[m].id
<1>1. PICK r, h : r = Rec(m) /\ h = head[r]
  OBVIOUS
<1>2. HasHead(r) /\ m \in Chain(rank, r) /\ r \in Record
  BY <1>1, LiveInChain, LockIs
<1>3. Listed(m) /\ lk[m].state # "OBSOLETE" /\ lk[m].id # MaxId
  BY <1>2 DEF Chain, Live
<1>4. /\ h \in Lock /\ Rec(h) = r /\ Listed(h) /\ lk[h].id = rank[h] /\ lk[m].id = rank[m]
      /\ rank[h] <= rank[m]
  BY <1>1, <1>2, <1>3, HeadFirst DEF HasHead
<1>5. rank[h] \in Nat /\ rank[l] \in Nat /\ rank[m] \in Nat /\ lk \in [Lock -> Fields]
  BY <1>4 DEF IInv, Types
<1>6. lk[l].id = rank[l]
  <2>1. IdInv(rank, l)
    BY DEF ListInv
  <2>2. lk[l].id \in {MaxId, rank[l]}
    BY <2>1 DEF IdInv
  <2>3. lk[l].id # MaxId
    <3>1. lk[m].id + 1 < MaxId
      BY <1>3 DEF IdsLast
    <3> QED
      BY <1>4, <1>5, <3>1, LockIs
  <2> QED
    BY <2>2, <2>3
<1>7. rank[h] <= rank[l] /\ rank[l] <= rank[m]
  BY <1>1, <1>4, <1>6
<1>8. rank[l] # rank[m]
  <2>1. OrderInv(rank, l, m)
    BY DEF ListInv
  <2> QED
    BY <1>3, <2>1 DEF OrderInv
<1>9. rank[l] < rank[m]
  BY <1>5, <1>7, <1>8
<1>10. l \in Chain(rank, r)
  <2>1. ASSUME NEW x \in Lock, Listed(x), Rec(x) = r, rank[head[r]] <= rank[x], rank[x] < rank[l]
        PROVE  lk[x].next # NoLock
    <3>1. rank[x] < rank[m]
      BY <1>5, <1>7, <2>1
    <3> QED
      BY <1>2, <2>1, <3>1 DEF Chain
  <2> QED
    BY <1>1, <1>7, <2>1 DEF Chain
<1>11. PICK y : y = lk[l].next
  OBVIOUS
<1>12. y # NoLock
  BY <1>1, <1>2, <1>7, <1>9, <1>11 DEF Chain
<1>13. y \in Chain(rank, r) /\ rank[y] = rank[l] + 1
  BY <1>1, <1>2, <1>4, <1>10, <1>11, <1>12, ChainIs DEF HasHead
<1>14. y \in Lock /\ Listed(y) /\ Rec(y) = r /\ rank[h] <= rank[y] /\ rank[y] <= rank[m]
  BY <1>1, <1>5, <1>9, <1>13 DEF Chain
<1>15. lk[y].id = rank[y]
  <2>1. IdInv(rank, y) /\ OrderInv(rank, m, y)
    BY <1>14 DEF ListInv
  <2>2. CASE rank[y] = rank[m]
    BY <1>1, <1>3, <1>4, <1>14, <2>1, <2>2 DEF OrderInv
  <2>3. CASE rank[y] # rank[m]
    <3>1. rank[y] < rank[m]
      BY <1>5, <1>14, <2>3
    <3>2. lk[y].id # MaxId
      BY <1>1, <1>3, <1>14, <2>1, <3>1 DEF OrderInv
    <3> QED
      BY <1>14, <2>1, <3>2 DEF IdInv
  <2> QED
    BY <2>2, <2>3
<1> QED
  BY <1>1, <1>4, <1>11, <1>14, <1>15


\* A search that looks at u, which waits for t, finds the lock of t before the one u asks for.
LEMMA NearSight ==
  ASSUME IInv, NEW rank \in [Lock -> Nat], ListInv(rank), IdsLast, Asked,
         NEW t \in Thread, NEW u \in Thread, Mutual(t, u), pc[t] \in Probing, Near(t, u, pc[t], loc[t]),
         NEW p, NEW x, p = pc'[t], x = loc'[t], Searching(t)
  PROVE  Sight(t, u, p, x)
<1>1. PICK y, n : y = loc[t] /\ n = loc[u].new
  OBVIOUS
<1>2. pc[t] \in Waiting /\ pc[u] \in Waiting /\ SleepsBehind(u, t)
  BY DEF Mutual
<1>3. /\ pc \in [Thread -> Place] /\ loc \in [Thread -> Locals] /\ y \in Locals /\ lk \in [Lock -> Fields]
      /\ Locks(t) \subseteq Lock
  BY <1>1, <1>2, WaitingIs, LocksIs
<1>4. n \in Lock /\ lk[n].id \in Nat /\ conflict[u] = n /\ n # NoLock
  BY <1>1, <1>2, <1>3, AskedIs, LockIs DEF Asked, AskInv, Fields
<1>5. /\ y.who = u /\ pc[t] \notin {"walk_again", "walk_head"}
      /\ pc[t] # "probe" => y.conf = n
      /\ pc[t] \notin {"probe", "probe_id"} => y.cid = lk[n].id
  BY <1>1 DEF Near
<1>6. ASSUME NEW l \in Lock, Before(l, n), Live(l), l \in Locks(t)
      PROVE  Rec(l) = Rec(n) /\ lk[l].id < lk[n].id /\ lk[l].id \in Nat /\ OwnLock(t, l)
  <2>1. DequeInv(t)
    BY DEF ListInv
  <2> QED
    BY <1>3, <1>6, <2>1 DEF Before, Fields, DequeInv, OwnLock, Live
<1>7. CASE Probe(t)
  <2>1. pc[t] = "probe" /\ p = "probe_id" /\ x = [y EXCEPT !.conf = n]
    BY <1>1, <1>3, <1>4, <1>5, <1>7 DEF Probe, Goto
  <2>2. x.who = u /\ x.conf = n
    BY <1>3, <1>5, <2>1 DEF Locals
  <2> QED
    BY <1>1, <2>1, <2>2 DEF Sight, Near
<1>8. CASE ProbeId(t)
  <2>1. pc[t] = "probe_id" /\ p = "probe_head" /\ x = [y EXCEPT !.cid = lk[n].id]
    BY <1>1, <1>3, <1>5, <1>8 DEF ProbeId, Goto
  <2>2. x.who = u /\ x.conf = n /\ x.cid = lk[n].id
    BY <1>3, <1>5, <2>1 DEF Locals
  <2> QED
    BY <1>1, <2>1, <2>2 DEF Sight, Near
<1>9. CASE ProbeHead(t)
  <2>1. PICK h : h = head[Rec(n)]
    OBVIOUS
  <2>2. pc[t] = "probe_head" /\ y.conf = n /\ y.cid = lk[n].id
    BY <1>5, <1>9 DEF ProbeHead
  <2>3. PICK m \in Locks(t) : Live(m) /\ Before(m, n)
    BY <1>1, <1>2 DEF SleepsBehind
  <2>4. m \in Lock /\ Rec(m) = Rec(n) /\ lk[m].id < lk[n].id /\ lk[m].id \in Nat
    BY <1>3, <1>6, <2>3
  <2>5. Listed(m) /\ HasHead(Rec(m)) /\ lk[m].state # "OBSOLETE" /\ lk[m].id # MaxId
    BY <2>3, <2>4, LiveInChain DEF Chain, Live
  <2>6. h \in Lock /\ Rec(h) = Rec(n) /\ Listed(h) /\ lk[h].id <= lk[m].id
    BY <2>1, <2>4, <2>5, HeadFirst DEF HasHead
  <2>7. h # n
    BY <1>4, <2>4, <2>6
  <2>8. p = "walk" /\ x = [y EXCEPT !.target = h, !.tmp = << >>]
    BY <1>1, <1>3, <1>9, <2>1, <2>2, <2>7 DEF ProbeHead, WalkAt, Goto
  <2>9. x.who = u /\ x.conf = n /\ x.cid = lk[n].id /\ x.target = h
    BY <1>3, <1>5, <2>2, <2>8 DEF Locals
  <2>10. lk[h].id <= lk[h].id
    BY <1>3, <2>6 DEF Fields
  <2> QED
    BY <1>1, <2>1, <2>3, <2>6, <2>8, <2>9, <2>10 DEF Sight, Near
<1>10. ASSUME pc[t] \in {"walk", "walk_next", "walk_id"}
       PROVE  /\ y.target \in Lock /\ Listed(y.target) /\ Rec(y.target) = Rec(n)
              /\ y.conf = n /\ y.cid = lk[n].id
              /\ lk[head[Rec(n)]].id <= lk[y.target].id
              /\ \E m \in Locks(t) : /\ Live(m) /\ Before(m, n) /\ lk[y.target].id <= lk[m].id
                                     /\ pc[t] = "walk_next" => y.target # m
  BY <1>1, <1>5, <1>10 DEF Near
<1>11. CASE Walk(t)
  <2>1. pc[t] = "walk"
    BY <1>11 DEF Walk
  <2>2. ~GoneOn(t)
    BY <1>1, <1>4, <1>5, <1>10, <2>1 DEF GoneOn
  <2>3. p = "deadlock" \/
        (p = "walk_next" /\ x = [y EXCEPT !.tmp = Append(@, y.target)] /\ ~OwnLock(t, y.target))
    BY <1>1, <1>3, <1>11, <2>2 DEF Walk, Goto
  <2>4. CASE p = "deadlock"
    BY <2>4 DEF Sight, Probing
  <2>5. CASE p = "walk_next" /\ x = [y EXCEPT !.tmp = Append(@, y.target)] /\ ~OwnLock(t, y.target)
    <3>1. x.who = u /\ x.conf = n /\ x.cid = lk[n].id /\ x.target = y.target
      BY <1>3, <1>5, <1>10, <2>1, <2>5 DEF Locals
    <3>2. PICK m \in Locks(t) : Live(m) /\ Before(m, n) /\ lk[y.target].id <= lk[m].id
      BY <1>10, <2>1
    <3>3. y.target # m
      BY <1>3, <1>6, <2>5, <3>2
    <3> QED
      BY <1>1, <1>10, <2>1, <2>5, <3>1, <3>2, <3>3 DEF Sight, Near
  <2> QED
    BY <2>3, <2>4, <2>5
<1>12. CASE WalkNext(t)
  <2>1. pc[t] = "walk_next"
    BY <1>12 DEF WalkNext
  <2>2. PICK m \in Locks(t) : Live(m) /\ Before(m, n) /\ lk[y.target].id <= lk[m].id /\ y.target # m
    BY <1>10, <2>1
  <2>3. m \in Lock /\ Rec(m) = Rec(n)
    BY <1>3, <1>6, <2>2
  <2>4. PICK l : l = lk[y.target].next
    OBVIOUS
  <2>5. l \in Lock /\ Listed(l) /\ Rec(l) = Rec(n) /\ lk[head[Rec(n)]].id <= lk[l].id /\ lk[l].id <= lk[m].id
    BY <1>10, <2>1, <2>2, <2>3, <2>4, WalksOn
  <2>6. p = "walk_id" /\ x = [y EXCEPT !.target = l, !.tmp = @]
    BY <1>1, <1>3, <1>12, <2>4, <2>5, LockIs DEF WalkNext, Goto
  <2>7. x.who = u /\ x.conf = n /\ x.cid = lk[n].id /\ x.target = l
    BY <1>3, <1>5, <1>10, <2>1, <2>6 DEF Locals
  <2> QED
    BY <1>1, <2>2, <2>5, <2>6, <2>7 DEF Sight, Near
<1>13. CASE WalkId(t)
  <2>1. pc[t] = "walk_id"
    BY <1>13 DEF WalkId
  <2>2. PICK m \in Locks(t) : Live(m) /\ Before(m, n) /\ lk[y.target].id <= lk[m].id
    BY <1>10, <2>1
  <2>3. lk[m].id < lk[n].id /\ lk[m].id \in Nat /\ lk[y.target].id \in Nat
    BY <1>3, <1>6, <1>10, <2>1, <2>2 DEF Fields
  <2>4. ~(lk[y.target].id > y.cid) /\ y.target # n
    BY <1>4, <1>10, <2>1, <2>2, <2>3
  <2>5. p = "walk" /\ x = [y EXCEPT !.target = y.target, !.tmp = y.tmp]
    BY <1>1, <1>3, <1>10, <1>13, <2>1, <2>4 DEF WalkId, WalkAt, Goto
  <2>6. x.who = u /\ x.conf = n /\ x.cid = lk[n].id /\ x.target = y.target
    BY <1>3, <1>5, <1>10, <2>1, <2>5 DEF Locals
  <2> QED
    BY <1>1, <1>10, <2>1, <2>2, <2>5, <2>6 DEF Sight, Near
<1>14. ~(Fill(t) \/ Pop(t) \/ NoDeadlock(t) \/ WalkAgain(t) \/ WalkHead(t))
  BY <1>5 DEF Probing, Fill, Pop, NoDeadlock, WalkAgain, WalkHead
<1> QED
  BY <1>7, <1>8, <1>9, <1>11, <1>12, <1>13, <1>14 DEF Searching


LEMMA LooksSight ==
  ASSUME IInv, NEW rank \in [Lock -> Nat], ListInv(rank), IdsLast, Worked, Awakes, Asked,
         \A a, b, c \in Thread : a = b \/ b = c \/ a = c,
         NEW t \in Thread, NEW u \in Thread, Mutual(t, u), Sight(t, u, pc[t], loc[t]),
         NEW p, NEW x, p = pc'[t], x = loc'[t], p \in Waiting, Looks(t)
  PROVE  Sight(t, u, p, x)
<1>1. pc[t] \in Waiting
  BY DEF Mutual
<1>2. /\ pc \in [Thread -> Place] /\ loc \in [Thread -> Locals]
  BY <1>1, WaitingIs
<1>3. CASE Fill(t) \/ Pop(t) \/ NoDeadlock(t)
  BY <1>1, <1>3, FillSight
<1>4. CASE Searching(t) /\ pc[t] \in Probing
  <2>1. (loc[t].who # u /\ Due(u, loc[t], 0)) \/ Near(t, u, pc[t], loc[t])
    BY <1>4 DEF Sight
  <2>2. CASE loc[t].who # u /\ Due(u, loc[t], 0)
    BY <1>4, <2>2, DueSight
  <2>3. CASE Near(t, u, pc[t], loc[t])
    BY <1>4, <2>3, NearSight
  <2> QED
    BY <2>1, <2>2, <2>3
<1>5. CASE FromHead(t) \/ Collect(t) \/ CollectNext(t)
  <2>1. p \in {"head", "collect", "next", "check"}
    BY <1>2, <1>5 DEF FromHead, Collect, CollectNext, CollectAt, Goto, Waiting
  <2> QED
    BY <2>1 DEF Sight, Probing
<1>6. CASE Check(t) \/ CheckId(t) \/ CheckMode(t)
  BY <1>6, CheckSight
<1>7. CASE Wait(t) \/ Unwait(t)
  <2>1. p = "check"
    BY <1>2, <1>7 DEF Wait, Unwait, CheckOn, Goto, Waiting
  <2> QED
    BY <2>1 DEF Sight, Probing
<1>8. CASE Sleep(t) \/ Awake(t)
  BY <1>8 DEF Sleep, Awake, Sight
<1>9. Searching(t) => pc[t] \in Probing \/ Fill(t) \/ Pop(t) \/ NoDeadlock(t)
  BY DEF Searching, Probing, Probe, ProbeId, ProbeHead, Walk, WalkNext, WalkId, WalkAgain, WalkHead
<1> QED
  BY <1>3, <1>4, <1>5, <1>6, <1>7, <1>8, <1>9 DEF Looks

\* A step of one of two threads that wait for each other: of t, or of u.
LEMMA StepWatched ==
  ASSUME IInv, IInv', Ordered, IdsLast, Worked, Awakes, Asked, Watched,
         \A a, b, c \in Thread : a = b \/ b = c \/ a = c,
         NEW t \in Thread, NEW u \in Thread, Step(t), Mutual(t, u)'
  PROVE  Sight(t, u, pc[t], loc[t])' \/ Sight(u, t, pc[u], loc[u])'
<1>1. PICK rank \in [Lock -> Nat] : ListInv(rank)
  BY DEF Ordered, Orderly
<1>2. PICK p, x, q, y : p = pc'[t] /\ x = loc'[t] /\ q = pc[u] /\ y = loc[u]
  OBVIOUS
<1>3. t # u /\ p \in Waiting
  BY <1>2 DEF Mutual
<1>4. pc'[u] = q /\ loc'[u] = y
  BY <1>2, <1>3, StepOthers DEF Others
<1>5. CASE SetConflict(t)
  <2>1. p = "head"
    BY <1>2, <1>5 DEF SetConflict, Goto, IInv, Types
  <2>2. Sight(t, u, p, x)'
    BY <2>1 DEF Sight, Probing
  <2> QED
    BY <1>2, <2>2 DEF Sight
<1>6. CASE Looks(t)
  <2>1. Mutual(t, u)
    BY <1>1, <1>2, <1>3, <1>6, MutualKept
  <2>2. pc[t] \in Waiting /\ pc[u] \in Waiting
    BY <2>1 DEF Mutual
  <2>3. CASE Sight(t, u, pc[t], loc[t])
    <3>1. Sight(t, u, p, x)
      BY <1>1, <1>2, <1>3, <1>6, <2>1, <2>3, LooksSight
    <3>2. x \in Locals /\ (p = "check_id" => x.i \in 1 .. Len(x.vec))
      <4>1. Types' /\ CallInv(t)'
        BY DEF IInv
      <4> QED
        BY <1>2, <4>1 DEF Types, CallInv, CallAt
    <3>3. Sight(t, u, p, x)'
      BY <1>1, <1>2, <1>3, <1>6, <2>2, <3>1, <3>2, SightKept
    <3> QED
      BY <1>2, <3>3
  <2>4. CASE Sight(u, t, pc[u], loc[u])
    <3>1. Sight(u, t, q, y)
      BY <1>2, <2>4
    <3>2. y \in Locals /\ (q = "check_id" => y.i \in 1 .. Len(y.vec))
      BY <1>2 DEF IInv, CallInv, CallAt, Types
    <3>3. Sight(u, t, q, y)'
      BY <1>1, <1>2, <1>3, <1>6, <2>2, <3>1, <3>2, SightKept
    <3> QED
      BY <1>4, <3>3
  <2> QED
    BY <2>1, <2>3, <2>4 DEF Watched
<1> QED
  BY <1>2, <1>3, <1>5, <1>6, WaitingMoves


LEMMA NextWatched ==
  ASSUME \A a, b, c \in Thread : a = b \/ b = c \/ a = c
  PROVE  IInv /\ IInv' /\ Ordered /\ IdsLast /\ Worked /\ Awakes /\ Asked /\ Watched /\ [Next]_vars => Watched'
<1>1. SUFFICES ASSUME IInv, IInv', Ordered, IdsLast, Worked, Awakes, Asked, Watched, [Next]_vars PROVE Watched'
  OBVIOUS
<1>2. ASSUME NEW w \in Thread, Step(w), NEW t \in Thread, NEW u \in Thread, Mutual(t, u)'
      PROVE  Sight(t, u, pc[t], loc[t])' \/ Sight(u, t, pc[u], loc[u])'
  <2>1. t # u /\ Mutual(u, t)'
    BY <1>2 DEF Mutual
  <2>2. w = t \/ w = u
    BY <2>1
  <2>3. CASE w = t
    BY <1>1, <1>2, <2>3, StepWatched
  <2>4. CASE w = u
    BY <1>1, <1>2, <2>1, <2>4, StepWatched
  <2> QED
    BY <2>2, <2>3, <2>4
<1>3. CASE \E w \in Thread : Step(w)
  BY <1>2, <1>3 DEF Watched
<1>4. CASE UNCHANGED vars
  <2>1. UNCHANGED <<lk, head, saved, deque, pc, loc>>
    BY <1>4 DEF vars
  <2>2. ASSUME NEW t PROVE Locks(t)' = Locks(t)
    BY <2>1 DEF Locks
  <2>3. ASSUME NEW l, NEW m
        PROVE  /\ Live(l)' = Live(l) /\ Before(l, m)' = Before(l, m)
               /\ Listed(l)' = Listed(l) /\ Stood(l, m)' = Stood(l, m)
    BY <2>1, <2>2 DEF Live, Before, Listed, Created, Out, Stood
  <2>4. ASSUME NEW t, NEW u PROVE Mutual(t, u)' = Mutual(t, u)
    BY <2>1, <2>2, <2>3 DEF Mutual, SleepsBehind
  <2>5. ASSUME NEW t, NEW u, NEW p, NEW x PROVE Sight(t, u, p, x)' <=> Sight(t, u, p, x)
    <3>1. \A k : Due(u, x, k)' <=> Due(u, x, k)
      BY <2>3 DEF Due
    <3>2. Near(t, u, p, x)' <=> Near(t, u, p, x)
      BY <2>1, <2>2, <2>3 DEF Near
    <3> QED
      BY <2>1, <3>1, <3>2 DEF Sight
  <2>6. ASSUME NEW t \in Thread, NEW u \in Thread, Mutual(t, u)'
        PROVE  Sight(t, u, pc[t], loc[t])' \/ Sight(u, t, pc[u], loc[u])'
    <3>1. PICK p, x, q, y : p = pc[t] /\ x = loc[t] /\ q = pc[u] /\ y = loc[u]
      OBVIOUS
    <3>2. Sight(t, u, p, x) \/ Sight(u, t, q, y)
      BY <1>1, <2>4, <2>6, <3>1 DEF Watched
    <3>3. Sight(t, u, p, x)' \/ Sight(u, t, q, y)'
      BY <2>5, <3>2
    <3> QED
      BY <2>1, <3>1, <3>3
  <2> QED
    BY <2>6 DEF Watched
<1> QED
  BY <1>1, <1>3, <1>4 DEF Next, Done

LEMMA InitWatched == Init => Asked /\ Watched
<1>1. SUFFICES ASSUME Init PROVE Asked /\ Watched
  OBVIOUS
<1>2. \A t \in Thread : pc[t] \in {"pick", "done"} /\ loc[t].passed = {}
  BY <1>1 DEF Init, NoLocals
<1>3. \A t \in Thread : pc[t] \notin Waiting
  BY <1>2 DEF Waiting
<1> QED
  BY <1>2, <1>3 DEF Asked, AskInv, Watched, Mutual

\* Two threads that sleep have not found out anything, and nobody waits for itself.
LEMMA WatchedFinds ==
  ASSUME \A a, b, c \in Thread : a = b \/ b = c \/ a = c
  PROVE  IInv /\ Ordered /\ Worked /\ Awakes /\ Watched => NoMissedDeadlock
<1>1. SUFFICES ASSUME IInv, Ordered, Worked, Awakes, Watched, NEW D \in SUBSET waitSet, D # {},
                      \A t \in D : \E u \in D : SleepsBehind(t, u)
               PROVE  FALSE
  BY DEF NoMissedDeadlock
<1>2. PICK rank \in [Lock -> Nat] : ListInv(rank)
  BY <1>1 DEF Ordered, Orderly
<1>3. \A t \in D : t \in Thread /\ pc[t] = "asleep" /\ pc[t] \in Waiting
  BY <1>1 DEF IInv, Types, Awakes, WaitInv, Waiting
<1>4. ASSUME NEW t \in D PROVE ~SleepsBehind(t, t)
  <2>1. SUFFICES ASSUME NEW m \in Locks(t), Before(m, loc[t].new) PROVE FALSE
    BY DEF SleepsBehind
  <2>2. t \in Thread /\ pc[t] \in Waiting /\ WorkInv(t)
    BY <1>1, <1>3 DEF Worked
  <2>3. loc[t].new \in Lock /\ loc[t].new \in Locks(t) /\ lk \in [Lock -> Fields]
    BY <1>1, <1>2, <2>2, AskedIs, WaitingIs
  <2>4. m = loc[t].new
    BY <1>1, <2>1, <2>2, <2>3, OneEach DEF Before
  <2>5. lk[m].id < lk[m].id /\ lk[m].id \in Nat
    BY <2>1, <2>3, <2>4 DEF Before, Fields
  <2> QED
    BY <2>5
<1>5. PICK t \in D : TRUE
  BY <1>1
<1>6. PICK u \in D : SleepsBehind(t, u)
  BY <1>1
<1>7. PICK v \in D : SleepsBehind(u, v)
  BY <1>1
<1>8. u # t /\ v # u
  BY <1>4, <1>6, <1>7
<1>9. v = t
  BY <1>3, <1>8
<1>10. Mutual(t, u)
  BY <1>3, <1>6, <1>7, <1>8, <1>9 DEF Mutual
<1> QED
  BY <1>1, <1>3, <1>10 DEF Watched, Sight

LEMMA TwoThreads ==
  ASSUME Cardinality(Thread) <= 2
  PROVE  \A a, b, c \in Thread : a = b \/ b = c \/ a = c
<1>1. SUFFICES ASSUME NEW a \in Thread, NEW b \in Thread, NEW c \in Thread, a # b, b # c, a # c PROVE FALSE
  OBVIOUS
<1>2. IsFiniteSet({a}) /\ Cardinality({a}) = 1
  BY FS_Singleton
<1>3. IsFiniteSet({a} \cup {b}) /\ Cardinality({a} \cup {b}) = 2
  BY <1>1, <1>2, FS_AddElement
<1>4. Cardinality(({a} \cup {b}) \cup {c}) = 3
  <2>1. c \notin {a} \cup {b}
    BY <1>1
  <2> QED
    BY <1>3, <2>1, FS_AddElement
<1>5. ({a} \cup {b}) \cup {c} \in SUBSET Thread
  OBVIOUS
<1>6. Cardinality(({a} \cup {b}) \cup {c}) <= Cardinality(Thread)
  BY <1>5, ThreadAssumption, FS_Subset
<1>7. Cardinality(Thread) \in Nat
  BY ThreadAssumption, FS_CardinalityType
<1> QED
  BY <1>4, <1>6, <1>7

\* With two threads, and while no list uses up its ids, no deadlock is missed: of two transactions
\* that wait for each other one finds it out before it sleeps. More threads can miss one.
THEOREM NoDeadlockIsMissed ==
  ASSUME Cardinality(Thread) <= 2
  PROVE  Spec /\ []IdsLast => []NoMissedDeadlock
<1>1. Init => Worked /\ Awakes /\ Asked /\ Watched
  BY InitWorked, InitAwakes, InitWatched
<1>2. IInv /\ Ordered /\ Worked /\ [Next]_vars => Worked'
  BY NextWorked
<1>3. IInv /\ IInv' /\ IdsLast /\ Ordered /\ Ordered' /\ Worked /\ Worked' /\ Awakes /\ [Next]_vars => Awakes'
  BY NextAwakes
<1>4. IInv /\ Ordered /\ Asked /\ [Next]_vars => Asked'
  BY NextAsked
<1>5. IInv /\ IInv' /\ Ordered /\ IdsLast /\ Worked /\ Awakes /\ Asked /\ Watched /\ [Next]_vars => Watched'
  BY TwoThreads, NextWatched
<1>6. IInv /\ Ordered /\ Worked /\ Awakes /\ Watched => NoMissedDeadlock
  BY TwoThreads, WatchedFinds
<1> QED
  BY <1>1, <1>2, <1>3, <1>4, <1>5, <1>6, OrderedAlways, PTL DEF Spec
=============================================================================
