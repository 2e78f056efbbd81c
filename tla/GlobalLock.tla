----------------------------- MODULE GlobalLock -----------------------------
(***************************************************************************)
(* The lock table of project3 under one global mutex: the overloads of     *)
(* AcquireLock and ReleaseLock, and IsDeadlock2, as the transactions of    *)
(* RepeatTrx2 call them through TrxManager.                                *)
(*                                                                         *)
(* Every access to the table is made under the mutex, so a critical        *)
(* section is one step; cond.wait() ends one and begins another. The lists *)
(* are those of LockList without ids: a lock can be used again as soon as  *)
(* it is OBSOLETE and the head has passed it.                              *)
(***************************************************************************)
EXTENDS LockTable

VARIABLES lk,        \* the fields of every lock
          head,      \* LockTableNode::head of each record
          tail,      \* LockTableNode::tail of each record
          conflict,  \* TrxNode::conflict_lock of each thread
          waitSet,   \* the threads inside trx->cond.wait()
          saved,     \* the sizes of thread_local_lock_saved_vector
          deque,     \* TrxNode::trx_lock_deque
          trx,       \* the transaction each thread runs
          released,  \* how many of its locks Commit() or Abort() has released
          pc         \* where each thread is

vars == <<lk, head, tail, conflict, waitSet, saved, deque, trx, released, pc>>

FreshLock == [mode |-> "SHARED", next |-> NoLock, state |-> "ACTIVE",
              headPass |-> FALSE, signal |-> FALSE]

Program(t) == Programs[t][trx[t]]

\* The request the thread works on: the next one its transaction has no lock for.
Wanted(t) == Program(t)[Len(deque[t]) + 1]

Init ==
  /\ lk = [l \in Lock |-> FreshLock]
  /\ head = [r \in Record |-> NoLock]
  /\ tail = [r \in Record |-> NoLock]
  /\ conflict = [t \in Thread |-> NoLock]
  /\ waitSet = {}
  /\ saved = [t \in Thread |-> [r \in Record |-> 0]]
  /\ deque = [t \in Thread |-> << >>]
  /\ trx = [t \in Thread |-> 1]
  /\ released = [t \in Thread |-> 0]
  /\ pc = [t \in Thread |-> IF Programs[t] = << >> THEN "done" ELSE "acquire"]

Goto(t, place) == pc' = [pc EXCEPT ![t] = place]

\* The locks from l up to the end of the list, or to the lock last.
From(fields, l, last) ==
  LET walk[m \in Lock \cup {NoLock}] ==
        IF m \in {last, NoLock} THEN {} ELSE {m} \cup walk[fields[m].next]
  IN  walk[l]

-----------------------------------------------------------------------------
(* AcquireLock *)

Recyclable(l) == lk[l].state = "OBSOLETE" /\ lk[l].headPass

\* The first lock of the thread's vector that can be recycled, or a new one.
NewLock(t, r) ==
  LET own == {i \in 1 .. saved[t][r] : Recyclable(<<t, r, i>>)}
  IN  IF own = {} THEN <<t, r, saved[t][r] + 1>>
                  ELSE <<t, r, CHOOSE i \in own : \A j \in own : i <= j>>

\* The head and the fields once the new lock stands at the end of the list.
NewFront(l) == IF tail[Rec(l)] = NoLock THEN [head EXCEPT ![Rec(l)] = l] ELSE head

Linked(t, l) ==
  LET r == Rec(l)
      fields == [lk EXCEPT ![l] = [FreshLock EXCEPT !.mode = Wanted(t).mode]]
  IN  IF tail[r] = NoLock THEN fields ELSE [fields EXCEPT ![tail[r]].next = l]

\* The lock is inserted before the list is searched.
Insert(l) ==
  LET t == Owner(l)  r == Rec(l) IN
  /\ saved' = [saved EXCEPT ![t][r] = IF l[3] > @ THEN l[3] ELSE @]
  /\ deque' = [deque EXCEPT ![t] = Append(@, l)]
  /\ head' = NewFront(l)
  /\ tail' = [tail EXCEPT ![r] = l]

InUse(fields, l) == fields[l].state # "OBSOLETE"

\* Mutant of Incompatible: only an EXCLUSIVE lock before a SHARED one counts.
IncompatibleOnce(m, n) == m = "SHARED" /\ n = "EXCLUSIVE"

Incompatible(m, n) == m = "EXCLUSIVE" \/ n = "EXCLUSIVE"

\* The owners of the locks in use before the lock c.
WaitsBehind(fields, front, c) ==
  {Owner(m) : m \in {n \in From(fields, front[Rec(c)], c) : InUse(fields, n)}}

\* Mutant of IsDeadlock2: the conflict locks are followed once.
IsNearDeadlock(t, fields, front, l) ==
  \E u \in WaitsBehind(fields, front, l) :
    conflict[u] # NoLock /\ t \in WaitsBehind(fields, front, conflict[u])

\* From the owners of the locks before l, along their conflict locks: is there a
\* lock of the thread itself?
IsDeadlock2(t, fields, front, l) ==
  LET next(S) == S \cup UNION {WaitsBehind(fields, front, conflict[u]) :
                                 u \in {v \in S : conflict[v] # NoLock}}
      reach[n \in 0 .. Cardinality(Thread)] ==
        IF n = 0 THEN WaitsBehind(fields, front, l) ELSE next(reach[n - 1])
  IN  t \in reach[Cardinality(Thread)]

\* AcquireLock returns the lock: the next request, or Commit().
Granted(t, held) == Goto(t, IF held = Len(Program(t)) THEN "release" ELSE "acquire")

\* All of AcquireLock that is not the wait.
AcquireLock(t) ==
  LET l == NewLock(t, Wanted(t).rec)
      fields == Linked(t, l)
      front == NewFront(l)
      mustWait == \E m \in From(fields, front[Rec(l)], l) :
                    InUse(fields, m) /\ Incompatible(fields[l].mode, fields[m].mode)
  IN
  /\ pc[t] = "acquire" /\ l \in Lock
  /\ Insert(l)
  /\ \/ /\ ~mustWait
        /\ lk' = fields
        /\ Granted(t, Len(deque[t]) + 1)
        /\ UNCHANGED <<conflict, waitSet>>
     \/ /\ mustWait /\ ~IsDeadlock2(t, fields, front, l)
        /\ lk' = [fields EXCEPT ![l].state = "WAIT"]
        /\ conflict' = [conflict EXCEPT ![t] = l]
        /\ waitSet' = waitSet \cup {t}
        /\ Goto(t, "asleep")
     \/ /\ mustWait /\ IsDeadlock2(t, fields, front, l)
        /\ lk' = [fields EXCEPT ![l].state = "OBSOLETE"]
        /\ Goto(t, "release")
        /\ UNCHANGED <<conflict, waitSet>>
  /\ UNCHANGED <<trx, released>>

\* cond.wait() has returned and holds the mutex again.
Awake(t) ==
  /\ pc[t] = "asleep" /\ t \notin waitSet
  /\ lk' = [lk EXCEPT ![conflict[t]].state = "ACTIVE"]
  /\ conflict' = [conflict EXCEPT ![t] = NoLock]
  /\ Granted(t, Len(deque[t]))
  /\ UNCHANGED <<head, tail, waitSet, saved, deque, trx, released>>

-----------------------------------------------------------------------------
(* ReleaseLock, for each lock of the transaction in turn: Commit() and Abort() *)

\* The head moves over locks that are not in use, but stays on the last one.
NewHead(fields, r) ==
  LET move[m \in Lock] ==
        IF InUse(fields, m) \/ fields[m].next = NoLock THEN m ELSE move[fields[m].next]
  IN  move[head[r]]

\* Mutant of Woken: the new head only.
WokenHead(fields, h) == {h}

\* The new head, and behind a SHARED one the locks in use up to an EXCLUSIVE one.
Woken(fields, h) ==
  LET behind[m \in Lock \cup {NoLock}] ==
        IF m = NoLock \/ (InUse(fields, m) /\ fields[m].mode = "EXCLUSIVE") THEN {}
        ELSE {n \in {m} : InUse(fields, n)} \cup behind[fields[m].next]
  IN  {h} \cup (IF fields[h].mode = "SHARED" THEN behind[fields[h].next] ELSE {})

\* Mutant of Flagged: head_pass_flag of the lock the head moves to.
FlaggedTarget(fields, passed, woken) ==
  [l \in Lock |-> [fields[l] EXCEPT !.headPass = @ \/ \E m \in passed : fields[m].next = l,
                                    !.signal = @ \/ l \in woken]]

Flagged(fields, passed, woken) ==
  [l \in Lock |-> [fields[l] EXCEPT !.headPass = @ \/ l \in passed,
                                    !.signal = @ \/ l \in woken]]

\* Mutant of Released: the place in the deque is left over.
ReleasedLeftOver(t) ==
  IF released[t] + 1 < Len(deque[t])
    THEN /\ released' = [released EXCEPT ![t] = @ + 1]
         /\ UNCHANGED <<deque, trx, pc>>
    ELSE /\ deque' = [deque EXCEPT ![t] = << >>]
         /\ trx' = [trx EXCEPT ![t] = @ + 1]
         /\ Goto(t, IF trx[t] = Len(Programs[t]) THEN "done" ELSE "acquire")
         /\ UNCHANGED released

\* The next lock, or the next transaction.
Released(t) ==
  IF released[t] + 1 < Len(deque[t])
    THEN /\ released' = [released EXCEPT ![t] = @ + 1]
         /\ UNCHANGED <<deque, trx, pc>>
    ELSE /\ released' = [released EXCEPT ![t] = 0]
         /\ deque' = [deque EXCEPT ![t] = << >>]
         /\ trx' = [trx EXCEPT ![t] = @ + 1]
         /\ Goto(t, IF trx[t] = Len(Programs[t]) THEN "done" ELSE "acquire")

ReleaseLock(t) ==
  LET l == deque[t][released[t] + 1]
      r == Rec(l)
      fields == [lk EXCEPT ![l].state = "OBSOLETE"]
      h == NewHead(fields, r)
      woken == IF h = head[r] \/ ~InUse(fields, h) THEN {} ELSE Woken(fields, h)
  IN
  /\ pc[t] = "release"
  /\ lk' = Flagged(fields, From(fields, head[r], h), woken)
  /\ head' = [head EXCEPT ![r] = h]
  /\ waitSet' = waitSet \ {Owner(m) : m \in {n \in woken : lk[n].state = "WAIT"}}
  /\ Released(t)
  /\ UNCHANGED <<tail, conflict, saved>>

-----------------------------------------------------------------------------
Step(t) == AcquireLock(t) \/ Awake(t) \/ ReleaseLock(t)

\* Every thread has run its transactions.
Done == (\A t \in Thread : pc[t] = "done") /\ UNCHANGED vars

Next == (\E t \in Thread : Step(t)) \/ Done

Spec == Init /\ [][Next]_vars

-----------------------------------------------------------------------------
Fields == [mode : Mode, next : Lock \cup {NoLock}, state : State,
           headPass : BOOLEAN, signal : BOOLEAN]

\* At most the deque of the transaction is released.
TypeOK ==
  /\ lk \in [Lock -> Fields]
  /\ head \in [Record -> Lock \cup {NoLock}]
  /\ tail \in [Record -> Lock \cup {NoLock}]
  /\ conflict \in [Thread -> Lock \cup {NoLock}]
  /\ waitSet \subseteq Thread
  /\ saved \in [Thread -> [Record -> 0 .. MaxLocks]]
  /\ deque \in [Thread -> Seq(Lock)]
  /\ trx \in [Thread -> Nat]
  /\ pc \in [Thread -> {"acquire", "asleep", "release", "done"}]
  /\ \A t \in Thread : pc[t] = "release" => released[t] \in 0 .. Len(deque[t]) - 1

Chain(r) == From(lk, head[r], NoLock)

\* The locks of a running transaction that are granted, or wait to be.
Live(t) == {l \in {deque[t][n] : n \in 1 .. Len(deque[t])} : InUse(lk, l)}

Before(l) == {m \in From(lk, head[Rec(l)], l) : InUse(lk, m)}

\* A lock stays reachable from the head until it is released, and the tail until
\* it has a successor; what a thread uses again nobody reaches any more. Among
\* the assertions this is target != nullptr, in AcquireLock's and IsDeadlock2's
\* search for a lock and in ReleaseLock.
ListIntact ==
  /\ \A t \in Thread : \A l \in Live(t) : l \in Chain(Rec(l))
  /\ \A r \in Record : \A l \in Chain(r) : Rec(l) = r /\ ~lk[l].headPass
  /\ \A r \in Record : tail[r] # NoLock => tail[r] \in Chain(r) /\ lk[tail[r]].next = NoLock

\* No wakeup is lost: a thread sleeps only behind a lock in use that is
\* incompatible with its own.
NoLostWakeup ==
  \A t \in waitSet :
    LET l == conflict[t] IN
    \E m \in Before(l) : Incompatible(lk[l].mode, lk[m].mode)

\* IsDeadlock2 misses no deadlock: the threads never sleep behind each other in
\* a cycle.
NoMissedDeadlock ==
  \A D \in SUBSET waitSet :
    D # {} => \E t \in D : \A u \in D : \A m \in Before(conflict[t]) : Owner(m) # u

\* A request is in the line while its lock is in use;
\* a refused one comes and goes in one step.
Locks(t, r) == {l \in Live(t) : Rec(l) = r}

LineMode ==
  [r \in Record |-> [t \in Thread |->
     IF Locks(t, r) = {} THEN "NONE" ELSE lk[CHOOSE l \in Locks(t, r) : TRUE].mode]]

LineAhead ==
  [r \in Record |-> [t \in Thread |-> {Owner(m) : m \in UNION {Before(l) : l \in Locks(t, r)}}]]

LineAsks == [t \in Thread |-> IF conflict[t] = NoLock THEN NoLock ELSE Rec(conflict[t])]

Service == INSTANCE LockService WITH
  NoRecord <- NoLock, mode <- LineMode, ahead <- LineAhead, asks <- LineAsks

\* AcquireLock, IsDeadlock2 and ReleaseLock under the global mutex keep the promise
\* of LockService: grants in the order of arrival, over compatible requests only.
ImplementsService == Service!Spec
=============================================================================
