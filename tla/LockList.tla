------------------------------ MODULE LockList ------------------------------
(***************************************************************************)
(* The lock-free lock table of project3: LockManager::AcquireLock,         *)
(* IsDeadlock and ReleaseLock on linked lists of lock_t, as the            *)
(* transactions of TrxManager call them.                                   *)
(*                                                                         *)
(* Every record has a list of locks from head to tail. A lock joins it by  *)
(* swapping itself into the tail, and gets an id one above that of the     *)
(* lock before it. A released lock is only marked OBSOLETE; releasing      *)
(* threads move the head over OBSOLETE locks and wake the locks that come  *)
(* to the front, and the owner of a lock the head has passed uses it again *)
(* for a new request. Searching threads take no mutex: they may stand on a *)
(* lock that is recycled under them and notice it by its id or its next.   *)
(*                                                                         *)
(* A step makes at most one access to memory that another thread may       *)
(* write or read at the same time, together with thread-local work. The    *)
(* critical sections of a transaction's mutex touch nothing that is        *)
(* accessed outside them except the state of a lock, which they access     *)
(* once, so each is one step. The mutex of a head is held across steps.    *)
(***************************************************************************)
EXTENDS LockTable

CONSTANTS MaxId,    \* 0xffffffffffffffff, the id of a lock that has none yet
          NoThread  \* nobody holds the mutex

ASSUME NoThreadAssumption == NoThread \notin Thread /\ MaxId \in Nat \ {0}

VARIABLES lk,        \* the fields of every lock
          head,      \* LockTableNode::head of each record
          tail,      \* LockTableNode::tail of each record
          mutex,     \* LockTableNode::head_mutex: the thread that holds it
          conflict,  \* TrxNode::conflict_lock of each thread
          waitSet,   \* the threads inside trx->cond.wait()
          saved,     \* the sizes of thread_local_lock_saved_vector
          deque,     \* TrxNode::trx_lock_deque
          trx,       \* the transaction each thread runs
          pc,        \* where each thread is
          loc        \* the local variables of each thread's call

vars == <<lk, head, tail, mutex, conflict, waitSet, saved, deque, trx, pc, loc>>

\* What a step leaves alone that only moves on, reads, or writes a lock.
shared == <<head, tail, mutex, conflict, waitSet, saved, deque, trx>>

FreshLock == [mode |-> "SHARED", id |-> MaxId, next |-> NoLock, state |-> "ACTIVE",
              idPass |-> FALSE, headPass |-> FALSE, signal |-> FALSE]

\* The locals: new_lock, prev_tail (prev in ReleaseLock), target, i,
\* waiting_lock_vector, and IsDeadlock's wait_lock_queue, pass_id_set,
\* trx (who), local_conflict_lock, local_lock_id_on_record and tmp_wait_lock_vector.
NoLocals == [new |-> NoLock, prev |-> NoLock, target |-> NoLock, i |-> 1, vec |-> << >>,
             queue |-> << >>, passed |-> {}, who |-> NoThread, conf |-> NoLock, cid |-> 0,
             tmp |-> << >>]

Program(t) == Programs[t][trx[t]]

\* The request the thread works on: the next one its transaction has no lock for.
Wanted(t) == Program(t)[Len(deque[t]) + 1]

-----------------------------------------------------------------------------
Init ==
  /\ lk = [l \in Lock |-> FreshLock]
  /\ head = [r \in Record |-> NoLock]
  /\ tail = [r \in Record |-> NoLock]
  /\ mutex = [r \in Record |-> NoThread]
  /\ conflict = [t \in Thread |-> NoLock]
  /\ waitSet = {}
  /\ saved = [t \in Thread |-> [r \in Record |-> 0]]
  /\ deque = [t \in Thread |-> << >>]
  /\ trx = [t \in Thread |-> 1]
  /\ pc = [t \in Thread |-> IF Programs[t] = << >> THEN "done" ELSE "pick"]
  /\ loc = [t \in Thread |-> NoLocals]

Goto(t, place) == pc' = [pc EXCEPT ![t] = place]

-----------------------------------------------------------------------------
(* AcquireLock: a lock object for the request *)

\* new lock_t(...): one more lock in the thread's vector for the record.
Create(t) ==
  LET r == Wanted(t).rec IN
  /\ saved[t][r] < MaxLocks
  /\ saved' = [saved EXCEPT ![t][r] = @ + 1]
  /\ loc' = [loc EXCEPT ![t].new = <<t, r, saved[t][r] + 1>>]
  /\ Goto(t, "mode")
  /\ UNCHANGED lk

\* The first stores of a recycled lock: its id, then id_pass_flag, which only
\* its owner reads from now on.
Recycle(t, l) ==
  /\ lk' = [lk EXCEPT ![l].id = MaxId, ![l].idPass = FALSE]
  /\ loc' = [loc EXCEPT ![t].new = l]
  /\ Goto(t, "renew_state")
  /\ UNCHANGED saved

\* Mutant of Recyclable: the id has been taken over, but the head may be on the lock.
RecyclableAtHead(l) == lk[l].state = "OBSOLETE" /\ lk[l].idPass

\* Mutant of Recyclable: the next lock may still be waiting for the id.
RecyclableEarly(l) == lk[l].state = "OBSOLETE" /\ lk[l].headPass

\* The three conditions of Lock.hpp.
Recyclable(l) == lk[l].state = "OBSOLETE" /\ lk[l].idPass /\ lk[l].headPass

\* One iteration of the search for a recyclable lock, and what follows it.
Pick(t) ==
  LET r == Wanted(t).rec
      l == <<t, r, loc[t].i>>
  IN
  /\ pc[t] = "pick"
  /\ \/ loc[t].i > saved[t][r] /\ Create(t)
     \/ loc[t].i <= saved[t][r] /\ Recyclable(l) /\ Recycle(t, l)
     \/ /\ loc[t].i <= saved[t][r] /\ ~Recyclable(l)
        /\ loc' = [loc EXCEPT ![t].i = @ + 1]
        /\ UNCHANGED <<lk, saved, pc>>
  /\ UNCHANGED <<head, tail, mutex, conflict, waitSet, deque, trx>>

RenewState(t) ==
  /\ pc[t] = "renew_state"
  /\ lk' = [lk EXCEPT ![loc[t].new].state = "ACTIVE"]
  /\ Goto(t, "renew_next")
  /\ UNCHANGED <<shared, loc>>

\* Mutant of RenewNext: signal_flag is left over from the last use.
RenewKeepsSignal(t) ==
  /\ pc[t] = "renew_next"
  /\ lk' = [lk EXCEPT ![loc[t].new].next = NoLock, ![loc[t].new].headPass = FALSE]
  /\ Goto(t, "mode")
  /\ UNCHANGED <<shared, loc>>

\* next, and the flags that nobody reads before the lock is in the list again.
RenewNext(t) ==
  /\ pc[t] = "renew_next"
  /\ lk' = [lk EXCEPT ![loc[t].new].next = NoLock,
                      ![loc[t].new].headPass = FALSE,
                      ![loc[t].new].signal = FALSE]
  /\ Goto(t, "mode")
  /\ UNCHANGED <<shared, loc>>

SetMode(t) ==
  /\ pc[t] = "mode"
  /\ lk' = [lk EXCEPT ![loc[t].new].mode = Wanted(t).mode]
  /\ deque' = [deque EXCEPT ![t] = Append(@, loc[t].new)]
  /\ Goto(t, "swap")
  /\ UNCHANGED <<head, tail, mutex, conflict, waitSet, saved, trx, loc>>

-----------------------------------------------------------------------------
(* AcquireLock: joining the list *)

Swap(t) ==
  LET r == Rec(loc[t].new) IN
  /\ pc[t] = "swap"
  /\ tail' = [tail EXCEPT ![r] = loc[t].new]
  /\ loc' = [loc EXCEPT ![t].prev = tail[r]]
  /\ Goto(t, IF tail[r] = NoLock THEN "first" ELSE "link")
  /\ UNCHANGED <<lk, head, mutex, conflict, waitSet, saved, deque, trx>>

Link(t) ==
  /\ pc[t] = "link"
  /\ lk' = [lk EXCEPT ![loc[t].prev].next = loc[t].new]
  /\ Goto(t, "await_id")
  /\ UNCHANGED <<shared, loc>>

\* Mutant of NextId: the ids go down.
LowerId(id) == id - 1

NextId(id) == id + 1

\* Waits for the id of the lock before it and for the head, and takes its id.
AwaitId(t) ==
  /\ pc[t] = "await_id"
  /\ lk[loc[t].prev].id # MaxId
  /\ head[Rec(loc[t].new)] # NoLock
  /\ lk' = [lk EXCEPT ![loc[t].new].id = NextId(lk[loc[t].prev].id)]
  /\ Goto(t, "pass_id")
  /\ UNCHANGED <<shared, loc>>

PassId(t) ==
  /\ pc[t] = "pass_id"
  /\ lk' = [lk EXCEPT ![loc[t].prev].idPass = TRUE]
  /\ Goto(t, "conflict")
  /\ UNCHANGED <<shared, loc>>

\* The first lock of the record: its id, then the head. Nobody sees one without
\* waiting for the other.
FirstLock(t) ==
  /\ pc[t] = "first"
  /\ lk' = [lk EXCEPT ![loc[t].new].id = 0]
  /\ head' = [head EXCEPT ![Rec(loc[t].new)] = loc[t].new]
  /\ Goto(t, "conflict")
  /\ UNCHANGED <<tail, mutex, conflict, waitSet, saved, deque, trx, loc>>

SetConflict(t) ==
  /\ pc[t] = "conflict"
  /\ conflict' = [conflict EXCEPT ![t] = loc[t].new]
  /\ Goto(t, "head")
  /\ UNCHANGED <<lk, head, tail, mutex, waitSet, saved, deque, trx, loc>>

-----------------------------------------------------------------------------
(* AcquireLock: the locks before the new one *)

\* The search stands on l: it is over, or it goes on with l. The check below
\* runs through the collected locks from the last one; without any, it is over.
CollectAt(t, l, vec) ==
  /\ loc' = [loc EXCEPT ![t].target = l, ![t].vec = vec, ![t].i = Len(vec)]
  /\ Goto(t, IF l # loc[t].new THEN "collect" ELSE IF vec = << >> THEN "grant" ELSE "check")

\* The search begins, or begins again, at the head.
FromHead(t) ==
  /\ pc[t] = "head"
  /\ CollectAt(t, head[Rec(loc[t].new)], << >>)
  /\ UNCHANGED <<lk, shared>>

\* A lock whose id is above the new one's has been recycled.
Behind(t, l) == lk[l].id > lk[loc[t].new].id

Collect(t) ==
  /\ pc[t] = "collect"
  /\ IF Behind(t, loc[t].target)
       THEN Goto(t, "head") /\ UNCHANGED loc
       ELSE /\ loc' = [loc EXCEPT ![t].vec = Append(@, loc[t].target)]
            /\ Goto(t, "next")
  /\ UNCHANGED <<lk, shared>>

\* A lock without a successor has been recycled too.
CollectNext(t) ==
  LET l == lk[loc[t].target].next IN
  /\ pc[t] = "next"
  /\ IF l = NoLock THEN Goto(t, "head") /\ UNCHANGED loc
                   ELSE CollectAt(t, l, loc[t].vec)
  /\ UNCHANGED <<lk, shared>>

-----------------------------------------------------------------------------
(* AcquireLock: compatibility with the locks before it *)

Target(t) == loc[t].vec[loc[t].i]

\* On to the lock before the one that was checked.
CheckOn(t) ==
  /\ loc' = [loc EXCEPT ![t].i = @ - 1]
  /\ Goto(t, IF loc[t].i = 1 THEN "grant" ELSE "check")

\* A lock is looked at twice: the new lock is WAIT the second time.
SecondLook(t) == lk[loc[t].new].state = "WAIT"

\* There is no need to wait for the lock.
Skip(t) == IF SecondLook(t) THEN Goto(t, "unwait") /\ UNCHANGED loc ELSE CheckOn(t)

\* Mutant of Released: a lock that waits itself is no obstacle.
NotActive(l) == lk[l].state # "ACTIVE"

Released(l) == lk[l].state = "OBSOLETE"

Check(t) ==
  /\ pc[t] = "check"
  /\ IF Released(Target(t)) THEN Skip(t)
                            ELSE Goto(t, "check_id") /\ UNCHANGED loc
  /\ UNCHANGED <<lk, shared>>

CheckId(t) ==
  /\ pc[t] = "check_id"
  /\ \/ Behind(t, Target(t)) /\ Skip(t)
     \/ /\ ~Behind(t, Target(t)) /\ SecondLook(t)
        /\ loc' = [loc EXCEPT ![t].i = Len(loc[t].vec)]
        /\ Goto(t, "fill")
     \/ /\ ~Behind(t, Target(t)) /\ ~SecondLook(t)
        /\ Goto(t, IF lk[loc[t].new].mode = "EXCLUSIVE" THEN "wait" ELSE "check_mode")
        /\ UNCHANGED loc
  /\ UNCHANGED <<lk, shared>>

CheckMode(t) ==
  /\ pc[t] = "check_mode"
  /\ IF lk[Target(t)].mode = "EXCLUSIVE" THEN Goto(t, "wait") /\ UNCHANGED loc
                                         ELSE CheckOn(t)
  /\ UNCHANGED <<lk, shared>>

\* The locks are incompatible: WAIT, and look at the other lock again.
Wait(t) ==
  /\ pc[t] = "wait"
  /\ lk' = [lk EXCEPT ![loc[t].new].state = "WAIT"]
  /\ Goto(t, "check")
  /\ UNCHANGED <<shared, loc>>

Unwait(t) ==
  /\ pc[t] = "unwait"
  /\ lk' = [lk EXCEPT ![loc[t].new].state = "ACTIVE"]
  /\ CheckOn(t)
  /\ UNCHANGED shared

-----------------------------------------------------------------------------
(* IsDeadlock *)

\* The search begins with the owners of the locks the new lock may wait for.
Fill(t) ==
  /\ pc[t] = "fill"
  /\ loc' = [loc EXCEPT ![t].i = @ - 1,
                        ![t].queue = IF lk[Target(t)].state = "OBSOLETE"
                                       THEN @ ELSE Append(@, Target(t))]
  /\ Goto(t, IF loc[t].i = 1 THEN "pop" ELSE "fill")
  /\ UNCHANGED <<lk, shared>>

Pop(t) ==
  LET l == loc[t].queue[1] IN
  /\ pc[t] = "pop" /\ loc[t].queue # << >>
  /\ IF Owner(l) \in loc[t].passed \/ lk[l].state = "OBSOLETE"
       THEN /\ loc' = [loc EXCEPT ![t].queue = Tail(@)]
            /\ UNCHANGED pc
       ELSE /\ loc' = [loc EXCEPT ![t].queue = Tail(@), ![t].who = Owner(l)]
            /\ Goto(t, "probe")
  /\ UNCHANGED <<lk, shared>>

\* There are no waiting locks left: no deadlock.
NoDeadlock(t) ==
  /\ pc[t] = "pop" /\ loc[t].queue = << >>
  /\ loc' = [loc EXCEPT ![t] = [NoLocals EXCEPT !.new = loc[t].new]]
  /\ Goto(t, "sleep")
  /\ UNCHANGED <<lk, shared>>

\* Mutant of Passed: only the transactions the new lock waits for are looked at,
\* not those that they wait for.
PassedAlone(t, more) ==
  /\ loc' = [loc EXCEPT ![t].passed = @ \cup {loc[t].who},
                        ![t].who = NoThread, ![t].target = NoLock,
                        ![t].conf = NoLock, ![t].cid = 0, ![t].tmp = << >>]
  /\ Goto(t, "pop")

\* The thread is done with a transaction; more are the locks that one waits for.
Passed(t, more) ==
  /\ loc' = [loc EXCEPT ![t].queue = @ \o more,
                        ![t].passed = @ \cup {loc[t].who},
                        ![t].who = NoThread, ![t].target = NoLock,
                        ![t].conf = NoLock, ![t].cid = 0, ![t].tmp = << >>]
  /\ Goto(t, "pop")

Probe(t) ==
  /\ pc[t] = "probe"
  /\ IF conflict[loc[t].who] = NoLock
       THEN Passed(t, << >>)
       ELSE /\ loc' = [loc EXCEPT ![t].conf = conflict[loc[t].who]]
            /\ Goto(t, "probe_id")
  /\ UNCHANGED <<lk, shared>>

ProbeId(t) ==
  /\ pc[t] = "probe_id"
  /\ loc' = [loc EXCEPT ![t].cid = lk[loc[t].conf].id]
  /\ Goto(t, "probe_head")
  /\ UNCHANGED <<lk, shared>>

\* The walk along the list of the conflict lock stands on l.
WalkAt(t, l, tmp) ==
  IF l = loc[t].conf
    THEN Passed(t, tmp)
    ELSE /\ loc' = [loc EXCEPT ![t].target = l, ![t].tmp = tmp]
         /\ Goto(t, "walk")

ProbeHead(t) ==
  /\ pc[t] = "probe_head"
  /\ WalkAt(t, head[Rec(loc[t].conf)], << >>)
  /\ UNCHANGED <<lk, shared>>

\* The transaction has gone on since its conflict lock was read. The two reads
\* are one step: the id of a conflict lock changes only after conflict_lock.
GoneOn(t) == \/ conflict[loc[t].who] # loc[t].conf
             \/ lk[loc[t].conf].id # loc[t].cid

\* Mutant of OwnLock: a lock that was granted does not count.
OwnWaitingLock(t, l) == Owner(l) = t /\ lk[l].state = "WAIT"

\* The transaction waits behind a lock of this thread.
OwnLock(t, l) == Owner(l) = t /\ lk[l].state # "OBSOLETE"

Walk(t) ==
  /\ pc[t] = "walk"
  /\ \/ GoneOn(t) /\ Passed(t, << >>)
     \/ /\ ~GoneOn(t) /\ OwnLock(t, loc[t].target)
        /\ Goto(t, "deadlock")
        /\ loc' = [loc EXCEPT ![t] = [NoLocals EXCEPT !.new = loc[t].new]]
     \/ /\ ~GoneOn(t) /\ ~OwnLock(t, loc[t].target)
        /\ Goto(t, "walk_next")
        /\ loc' = [loc EXCEPT ![t].tmp = Append(@, loc[t].target)]
  /\ UNCHANGED <<lk, shared>>

WalkNext(t) ==
  LET l == lk[loc[t].target].next IN
  /\ pc[t] = "walk_next"
  /\ loc' = [loc EXCEPT ![t].target = l, ![t].tmp = IF l = NoLock THEN << >> ELSE @]
  /\ Goto(t, IF l = NoLock THEN "walk_again" ELSE "walk_id")
  /\ UNCHANGED <<lk, shared>>

\* A lock that is logically behind the conflict lock has been recycled.
WalkId(t) ==
  /\ pc[t] = "walk_id"
  /\ IF lk[loc[t].target].id > loc[t].cid
       THEN /\ loc' = [loc EXCEPT ![t].target = NoLock, ![t].tmp = << >>]
            /\ Goto(t, "walk_again")
       ELSE WalkAt(t, loc[t].target, loc[t].tmp)
  /\ UNCHANGED <<lk, shared>>

\* Back to the head: two reads, of the head and of its id.
WalkAgain(t) ==
  /\ pc[t] = "walk_again"
  /\ loc' = [loc EXCEPT ![t].target = head[Rec(loc[t].conf)]]
  /\ Goto(t, "walk_head")
  /\ UNCHANGED <<lk, shared>>

\* The head has moved up to the conflict lock: there is nothing to wait for.
PastConflict(t) == lk[loc[t].target].id >= loc[t].cid

WalkHead(t) ==
  /\ pc[t] = "walk_head"
  /\ IF PastConflict(t) THEN Passed(t, << >>)
                        ELSE WalkAt(t, loc[t].target, << >>)
  /\ UNCHANGED <<lk, shared>>

-----------------------------------------------------------------------------
(* AcquireLock: the end *)

\* A deadlock: AcquireLock returns nullptr and the transaction aborts.
Deadlock(t) ==
  /\ pc[t] = "deadlock"
  /\ lk' = [lk EXCEPT ![loc[t].new].state = "OBSOLETE"]
  /\ Goto(t, "give_up")
  /\ UNCHANGED <<shared, loc>>

GiveUp(t) ==
  /\ pc[t] = "give_up"
  /\ conflict' = [conflict EXCEPT ![t] = NoLock]
  /\ loc' = [loc EXCEPT ![t] = NoLocals]
  /\ Goto(t, "release")
  /\ UNCHANGED <<lk, head, tail, mutex, waitSet, saved, deque, trx>>

\* Mutant of Sleep: without a look at signal_flag.
SleepAnyway(t) ==
  /\ pc[t] = "sleep"
  /\ waitSet' = waitSet \cup {t}
  /\ Goto(t, "asleep")
  /\ UNCHANGED <<lk, head, tail, mutex, conflict, saved, deque, trx, loc>>

\* Under trx->mutex: sleep, unless a signal has come already.
Sleep(t) ==
  /\ pc[t] = "sleep"
  /\ IF lk[loc[t].new].signal
       THEN /\ lk' = [lk EXCEPT ![loc[t].new].state = "ACTIVE"]
            /\ Goto(t, "grant")
            /\ UNCHANGED waitSet
       ELSE /\ waitSet' = waitSet \cup {t}
            /\ Goto(t, "asleep")
            /\ UNCHANGED lk
  /\ UNCHANGED <<head, tail, mutex, conflict, saved, deque, trx, loc>>

\* cond.wait() has returned; signal_flag is not looked at again.
Awake(t) ==
  /\ pc[t] = "asleep" /\ t \notin waitSet
  /\ lk' = [lk EXCEPT ![loc[t].new].state = "ACTIVE"]
  /\ Goto(t, "grant")
  /\ UNCHANGED <<shared, loc>>

\* AcquireLock returns the lock: the next request, or Commit().
Grant(t) ==
  /\ pc[t] = "grant"
  /\ conflict' = [conflict EXCEPT ![t] = NoLock]
  /\ loc' = [loc EXCEPT ![t] = NoLocals]
  /\ Goto(t, IF Len(deque[t]) = Len(Program(t)) THEN "release" ELSE "pick")
  /\ UNCHANGED <<lk, head, tail, mutex, waitSet, saved, deque, trx>>

-----------------------------------------------------------------------------
(* ReleaseLock, for each lock of the transaction in turn: Commit() and Abort() *)

Releases(t) == deque[t][loc[t].i]

MarkObsolete(t) ==
  /\ pc[t] = "release"
  /\ lk' = [lk EXCEPT ![Releases(t)].state = "OBSOLETE"]
  /\ Goto(t, "head_mutex")
  /\ UNCHANGED <<shared, loc>>

LockHead(t) ==
  LET r == Rec(Releases(t)) IN
  /\ pc[t] = "head_mutex"
  /\ mutex[r] = NoThread
  /\ mutex' = [mutex EXCEPT ![r] = t]
  /\ loc' = [loc EXCEPT ![t].target = head[r]]
  /\ Goto(t, "front")
  /\ UNCHANGED <<lk, head, tail, conflict, waitSet, saved, deque, trx>>

\* ReleaseLock returns: the next lock, or the next transaction.
Unlock(t) ==
  /\ mutex' = [mutex EXCEPT ![Rec(Releases(t))] = NoThread]
  /\ IF loc[t].i < Len(deque[t])
       THEN /\ loc' = [loc EXCEPT ![t] = [NoLocals EXCEPT !.i = loc[t].i + 1]]
            /\ Goto(t, "release")
            /\ UNCHANGED <<deque, trx>>
       ELSE /\ loc' = [loc EXCEPT ![t] = NoLocals]
            /\ deque' = [deque EXCEPT ![t] = << >>]
            /\ trx' = [trx EXCEPT ![t] = @ + 1]
            /\ Goto(t, IF trx[t] = Len(Programs[t]) THEN "done" ELSE "pick")

\* The thread keeps the mutex and goes on.
Hold(t, place) ==
  /\ Goto(t, place)
  /\ UNCHANGED <<mutex, deque, trx, loc>>

\* The head stays while its lock is in use.
Front(t) ==
  /\ pc[t] = "front"
  /\ IF lk[loc[t].target].state = "OBSOLETE" THEN Hold(t, "advance") ELSE Unlock(t)
  /\ UNCHANGED <<lk, head, tail, conflict, waitSet, saved>>

\* The head moves on, but stays on the last lock, OBSOLETE or not. A next that
\* was set stays as it is: the head has not passed the lock yet.
Advance(t) ==
  LET l == lk[loc[t].target].next IN
  /\ pc[t] = "advance"
  /\ IF l = NoLock
       THEN Unlock(t) /\ UNCHANGED head
       ELSE /\ head' = [head EXCEPT ![Rec(Releases(t))] = l]
            /\ loc' = [loc EXCEPT ![t].prev = loc[t].target, ![t].target = l]
            /\ Goto(t, "pass_head")
            /\ UNCHANGED <<mutex, deque, trx>>
  /\ UNCHANGED <<lk, tail, conflict, waitSet, saved>>

PassHead(t) ==
  /\ pc[t] = "pass_head"
  /\ lk' = [lk EXCEPT ![loc[t].prev].headPass = TRUE]
  /\ Goto(t, "new_front")
  /\ UNCHANGED <<shared, loc>>

NewFront(t) ==
  /\ pc[t] = "new_front"
  /\ Goto(t, IF lk[loc[t].target].state = "OBSOLETE" THEN "advance" ELSE "wake_head")
  /\ UNCHANGED <<lk, shared, loc>>

\* Mutant of Wake: notify_one() without signal_flag.
NotifyOnly(l) ==
  /\ waitSet' = IF lk[l].state = "WAIT" THEN waitSet \ {Owner(l)} ELSE waitSet
  /\ UNCHANGED lk

\* Under the mutex of the lock's owner: notify_one() if it waits, and signal_flag.
Wake(l) ==
  /\ lk' = [lk EXCEPT ![l].signal = TRUE]
  /\ waitSet' = IF lk[l].state = "WAIT" THEN waitSet \ {Owner(l)} ELSE waitSet

WakeHead(t) ==
  /\ pc[t] = "wake_head"
  /\ Wake(loc[t].target)
  /\ IF lk[loc[t].target].mode = "SHARED" THEN Hold(t, "wake_next") ELSE Unlock(t)
  /\ UNCHANGED <<head, tail, conflict, saved>>

\* Behind a SHARED head: the SHARED locks up to the first EXCLUSIVE one in use.
WakeNext(t) ==
  LET l == lk[loc[t].target].next IN
  /\ pc[t] = "wake_next"
  /\ IF l = NoLock \/ (lk[l].state # "OBSOLETE" /\ lk[l].mode = "EXCLUSIVE")
       THEN Unlock(t)
       ELSE /\ loc' = [loc EXCEPT ![t].target = l]
            /\ Goto(t, IF lk[l].state = "OBSOLETE" THEN "wake_next" ELSE "wake_other")
            /\ UNCHANGED <<mutex, deque, trx>>
  /\ UNCHANGED <<lk, head, tail, conflict, waitSet, saved>>

WakeOther(t) ==
  /\ pc[t] = "wake_other"
  /\ Wake(loc[t].target)
  /\ Hold(t, "wake_next")
  /\ UNCHANGED <<head, tail, conflict, saved>>

-----------------------------------------------------------------------------
Acquiring(t) == \/ Pick(t) \/ RenewState(t) \/ RenewNext(t) \/ SetMode(t)
                \/ Swap(t) \/ Link(t) \/ AwaitId(t) \/ PassId(t)
                \/ FirstLock(t) \/ SetConflict(t)
                \/ FromHead(t) \/ Collect(t) \/ CollectNext(t)
                \/ Check(t) \/ CheckId(t) \/ CheckMode(t)
                \/ Wait(t) \/ Unwait(t)
                \/ Deadlock(t) \/ GiveUp(t) \/ Sleep(t) \/ Awake(t) \/ Grant(t)

Searching(t) == \/ Fill(t) \/ Pop(t) \/ NoDeadlock(t)
                \/ Probe(t) \/ ProbeId(t) \/ ProbeHead(t)
                \/ Walk(t) \/ WalkNext(t) \/ WalkId(t)
                \/ WalkAgain(t) \/ WalkHead(t)

Releasing(t) == \/ MarkObsolete(t) \/ LockHead(t) \/ Front(t) \/ Advance(t)
                \/ PassHead(t) \/ NewFront(t)
                \/ WakeHead(t) \/ WakeNext(t) \/ WakeOther(t)

Step(t) == Acquiring(t) \/ Searching(t) \/ Releasing(t)

\* Every thread has run its transactions.
Done == (\A t \in Thread : pc[t] = "done") /\ UNCHANGED vars

Next == (\E t \in Thread : Step(t)) \/ Done

Spec == Init /\ [][Next]_vars

\* The operating system schedules every thread.
FairSpec == Spec /\ \A t \in Thread : WF_vars(Step(t))

\* std::condition_variable lets wait() return without a notification.
SpuriousWakeup(t) ==
  /\ t \in waitSet
  /\ waitSet' = waitSet \ {t}
  /\ UNCHANGED <<lk, head, tail, mutex, conflict, saved, deque, trx, pc, loc>>

SpuriousSpec == Init /\ [][Next \/ \E t \in Thread : SpuriousWakeup(t)]_vars

-----------------------------------------------------------------------------
Locals == [new : Lock \cup {NoLock}, prev : Lock \cup {NoLock}, target : Lock \cup {NoLock},
           i : Nat, vec : Seq(Lock), queue : Seq(Lock), passed : SUBSET Thread,
           who : Thread \cup {NoThread}, conf : Lock \cup {NoLock}, cid : Nat, tmp : Seq(Lock)]

Fields == [mode : Mode, id : Nat, next : Lock \cup {NoLock}, state : State,
           idPass : BOOLEAN, headPass : BOOLEAN, signal : BOOLEAN]

Renewing == {"renew_state", "renew_next", "mode"}

Joining == {"swap", "link", "await_id", "pass_id", "first", "conflict"}

Waiting == {"head", "collect", "next", "check", "check_id", "check_mode", "wait", "unwait",
            "fill", "pop", "probe", "probe_id", "probe_head", "walk", "walk_next", "walk_id",
            "walk_again", "walk_head", "deadlock", "sleep", "asleep"}

HoldingMutex == {"front", "advance", "pass_head", "new_front", "wake_head", "wake_next",
                 "wake_other"}

Place == {"pick", "grant", "give_up", "release", "head_mutex", "done"}
           \cup Renewing \cup Joining \cup Waiting \cup HoldingMutex

TypeOK ==
  /\ lk \in [Lock -> Fields]
  /\ head \in [Record -> Lock \cup {NoLock}]
  /\ tail \in [Record -> Lock \cup {NoLock}]
  /\ mutex \in [Record -> Thread \cup {NoThread}]
  /\ conflict \in [Thread -> Lock \cup {NoLock}]
  /\ waitSet \subseteq Thread
  /\ saved \in [Thread -> [Record -> 0 .. MaxLocks]]
  /\ deque \in [Thread -> Seq(Lock)]
  /\ trx \in [Thread -> Nat]
  /\ pc \in [Thread -> Place]
  /\ loc \in [Thread -> Locals]

Locks(t) == {deque[t][n] : n \in 1 .. Len(deque[t])}

\* A lock that is in a list and not released: granted, or waiting to be.
Live(l) == l \in Locks(Owner(l)) /\ lk[l].state # "OBSOLETE" /\ lk[l].id # MaxId

Before(m, l) == Rec(m) = Rec(l) /\ lk[m].id < lk[l].id

Compatible(m, l) == lk[m].mode = "SHARED" /\ lk[l].mode = "SHARED"

\* The locks AcquireLock has granted to the thread (or is about to return).
Held(t) == {l \in Locks(t) : lk[l].state # "OBSOLETE" /\ (l = loc[t].new => pc[t] = "grant")}

\* Two transactions never hold incompatible locks on one record: what two-phase
\* locking takes from AcquireLock and ReleaseLock.
MutualExclusion ==
  \A t, u \in Thread : t # u =>
    \A l \in Held(t), m \in Held(u) : Rec(l) = Rec(m) => Compatible(l, m)

\* Locks are granted in the order of their ids: no lock overtakes an earlier one
\* that is incompatible with it, granted or still waiting.
GrantedInOrder ==
  \A t \in Thread : \A l \in Held(t), m \in Lock :
    Live(m) /\ Before(m, l) => Compatible(m, l)

\* The locks the thread has not finished to release. While it releases them, i
\* is the place in the deque of the one ReleaseLock works on.
InHand(t) == IF loc[t].new = NoLock /\ pc[t] # "pick"
               THEN {deque[t][n] : n \in loc[t].i .. Len(deque[t])}
               ELSE Locks(t)

\* No wakeup is lost: a sleeping thread has a lock before its own whose owner
\* has not finished releasing it and has yet to move the head or to wake it.
NoLostWakeup ==
  \A t \in waitSet : \E u \in Thread : \E m \in InHand(u) : Before(m, loc[t].new)

\* The thread sleeps behind a lock of u.
SleepsBehind(t, u) == \E m \in Locks(u) : Live(m) /\ Before(m, loc[t].new)

\* IsDeadlock misses no deadlock: the sleeping threads never wait for each other
\* in a cycle, though no thread sees the whole table at one moment.
NoMissedDeadlock ==
  \A D \in SUBSET waitSet :
    D # {} => \E t \in D : \A u \in D : ~SleepsBehind(t, u)

\* The locks from the head of the list on.
Reach(r) ==
  LET reach[n \in 0 .. Cardinality(Lock)] ==
        IF n = 0 THEN {head[r]}
        ELSE LET before == reach[n - 1]
             IN  before \cup {lk[l].next : l \in before \ {NoLock}}
  IN  reach[Cardinality(Lock)] \ {NoLock}

\* From the head on, the links go through the locks of the record in the order
\* of their ids. No live lock is missing, and none of them is recycled.
ListIntact ==
  \A r \in Record :
    /\ \A l \in Reach(r) :
         LET m == lk[l].next IN
         /\ m # NoLock /\ lk[m].id # MaxId => lk[m].id = lk[l].id + 1 /\ Rec(m) = r
         /\ ~(pc[Owner(l)] \in Renewing /\ loc[Owner(l)].new = l)
    /\ \A l \in Lock : Live(l) /\ Rec(l) = r => l \in Reach(r)

\* The assertions of AcquireLock and ReleaseLock, each where it stands, and that
\* IsDeadlock never follows a head that is nullptr.
AssertionsHold ==
  \A t \in Thread :
    /\ pc[t] = "pass_id" => ~lk[loc[t].prev].idPass
    /\ pc[t] = "conflict" => conflict[t] = NoLock
    /\ pc[t] = "head" => head[Rec(loc[t].new)] # NoLock
    /\ pc[t] \in {"probe_head", "walk_again"} => head[Rec(loc[t].conf)] # NoLock
    /\ pc[t] = "front" => loc[t].target # NoLock
    /\ pc[t] = "wake_head" => loc[t].target = head[Rec(Releases(t))]

\* A request joins the line of its record when its lock
\* gets an id; it leaves it, refused or released, when its lock is OBSOLETE.
InLine(t, r) == {l \in Locks(t) : Rec(l) = r /\ lk[l].state # "OBSOLETE" /\ lk[l].id # MaxId}

LineMode ==
  [r \in Record |-> [t \in Thread |->
     IF InLine(t, r) = {} THEN "NONE" ELSE lk[CHOOSE l \in InLine(t, r) : TRUE].mode]]

LineAhead ==
  [r \in Record |-> [t \in Thread |->
     {u \in Thread : \E l \in InLine(t, r), m \in InLine(u, r) : Before(m, l)}]]

\* It is granted, or refused, when AcquireLock comes to an end.
LineAsks ==
  [t \in Thread |->
     IF pc[t] \in Waiting \cup {"pass_id", "conflict"} THEN Rec(loc[t].new) ELSE NoLock]

Service == INSTANCE LockService WITH
  NoRecord <- NoLock, mode <- LineMode, ahead <- LineAhead, asks <- LineAsks

\* AcquireLock and ReleaseLock without a mutex keep the promise of LockService,
\* though they search the list and look at states one access at a time.
ImplementsService == Service!Spec

\* Every transaction commits or aborts.
AllFinish == <>(\A t \in Thread : pc[t] = "done")
=============================================================================
