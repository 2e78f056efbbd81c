-------------------------------- MODULE Trx --------------------------------
(***************************************************************************)
(* The transactions of project3: RepeatTrx and the TrxManager over a lock  *)
(* table that keeps the promise of LockService.                            *)
(*                                                                         *)
(* A transaction reads record i, adds i + 1 to j and subtracts i from k,   *)
(* under two-phase locking. Commit() draws a commit id while it holds all  *)
(* locks, then notes the values and releases lock by lock, and at last     *)
(* writes a line to the file of its thread. A transaction that is refused  *)
(* a lock, or draws an id beyond the last one, takes its changes back.     *)
(*                                                                         *)
(* The values of the records are read and written without a mutex: what    *)
(* makes each access one step is the lock, which LockService guards.       *)
(***************************************************************************)
EXTENDS Naturals, Sequences, FiniteSets

CONSTANTS Thread, Record, NoRecord,
          Last,    \* last_global_execution_order
          Words,   \* the number of values of an int64_t
          Initial  \* the value of every record at the start, 100

ASSUME TrxAssumption ==
  /\ IsFiniteSet(Thread) /\ NoRecord \notin Record
  /\ Last \in Nat /\ Words \in Nat \ {0} /\ Initial \in 0 .. Words - 1

\* The values of an int64_t, a negative one as its two's complement; they wrap.
Word == 0 .. Words - 1

Add(a, b) == IF a + b < Words THEN a + b ELSE a + b - Words

Neg(a) == IF a = 0 THEN 0 ELSE Words - a

Subtract(a, b) == Add(a, Neg(b))

One == IF Words = 1 THEN 0 ELSE 1

VARIABLES mode, ahead, asks,  \* the lock table
          value,         \* LockTableNode::record_value of each record
          threadNumber,  \* the number the next thread gets
          number,        \* TrxNode::thread_number; 0 before the first Begin()
          count,         \* global_execution_count
          picks,         \* the records i, j, k of each thread's transaction
          size,          \* the size of trx_lock_deque: the locks asked for
          found,         \* record_i
          pos,           \* the lock that Abort() or Commit() works on
          id,            \* commit_id; 0 in a transaction that has not drawn it
          queue,         \* record_value_queue
          file,          \* the lines of thread#.txt
          pc,            \* where each thread is
          serial         \* history: the records after each commit, by commit id

table == <<mode, ahead, asks>>
files == <<threadNumber, number, file>>
local == <<picks, size, found, pos, id, queue>>
vars == <<table, value, files, count, local, pc, serial>>

Locks == INSTANCE LockService

Picks == {p \in [1 .. 3 -> Record] : \A m, n \in 1 .. 3 : p[m] = p[n] => m = n}

\* i, j and k between two transactions.
NoPicks == [n \in 1 .. 3 |-> NoRecord]

Mode(n) == IF n = 1 THEN "SHARED" ELSE "EXCLUSIVE"

\* The second argument of Update(), which it keeps in lock->diff.
Diff(n, read) == IF n = 2 THEN Add(read, One) ELSE Neg(read)

\* The records once a transaction is through: what IsCorrect does with a line.
Apply(records, p) ==
  [records EXCEPT ![p[2]] = Add(@, Diff(2, records[p[1]])),
                  ![p[3]] = Add(@, Diff(3, records[p[1]]))]

\* The records as the commits so far leave them.
Committed == IF serial = << >> THEN [r \in Record |-> Initial] ELSE serial[Len(serial)]

Init ==
  /\ Locks!Init
  /\ value = [r \in Record |-> Initial]
  /\ threadNumber = 1
  /\ number = [t \in Thread |-> 0]
  /\ count = 0
  /\ picks = [t \in Thread |-> NoPicks]
  /\ size = [t \in Thread |-> 0]
  /\ found = [t \in Thread |-> 0]
  /\ pos = [t \in Thread |-> 1]
  /\ id = [t \in Thread |-> 0]
  /\ queue = [t \in Thread |-> << >>]
  /\ file = [n \in 1 .. Cardinality(Thread) |-> << >>]
  /\ pc = [t \in Thread |-> "begin"]
  /\ serial = << >>

Goto(t, place) == pc' = [pc EXCEPT ![t] = place]

-----------------------------------------------------------------------------
\* Mutant of Begin: every Begin() takes a thread number.
BeginNumbered(t) ==
  /\ pc[t] = "begin"
  /\ \E p \in Picks : picks' = [picks EXCEPT ![t] = p]
  /\ number' = [number EXCEPT ![t] = threadNumber]
  /\ threadNumber' = threadNumber + 1
  /\ size' = [size EXCEPT ![t] = 0]
  /\ Goto(t, "ask")
  /\ UNCHANGED <<table, value, count, found, pos, id, queue, file, serial>>

\* A new transaction. The first Begin() of a thread makes its TrxNode.
Begin(t) ==
  /\ pc[t] = "begin"
  /\ \E p \in Picks : picks' = [picks EXCEPT ![t] = p]
  /\ IF number[t] = 0
       THEN /\ number' = [number EXCEPT ![t] = threadNumber]
            /\ threadNumber' = threadNumber + 1
       ELSE UNCHANGED <<number, threadNumber>>
  /\ size' = [size EXCEPT ![t] = 0]
  /\ Goto(t, "ask")
  /\ UNCHANGED <<table, value, count, found, pos, id, queue, file, serial>>

\* Find() and Update() call AcquireLock, which puts the lock into the deque.
Ask(t) ==
  /\ pc[t] = "ask"
  /\ Locks!Request(t, picks[t][size[t] + 1], Mode(size[t] + 1))
  /\ size' = [size EXCEPT ![t] = @ + 1]
  /\ Goto(t, "wait")
  /\ UNCHANGED <<value, files, count, picks, found, pos, id, queue, serial>>

\* Mutant of Granted: the record is accessed without waiting for the lock.
GrantedAtOnce(t) ==
  /\ pc[t] = "wait"
  /\ asks' = [asks EXCEPT ![t] = NoRecord]
  /\ Goto(t, "access")
  /\ UNCHANGED <<mode, ahead, value, files, count, local, serial>>

Granted(t) ==
  /\ pc[t] = "wait"
  /\ Locks!Grant(t)
  /\ Goto(t, "access")
  /\ UNCHANGED <<value, files, count, local, serial>>

\* MUST_ABORTED: RepeatTrx calls Abort().
Refused(t) ==
  /\ pc[t] = "wait"
  /\ Locks!Refuse(t)
  /\ Goto(t, "undo")
  /\ UNCHANGED <<value, files, count, local, serial>>

\* The rest of Find() or Update().
Access(t) ==
  LET n == size[t]  r == picks[t][n] IN
  /\ pc[t] = "access"
  /\ IF n = 1
       THEN found' = [found EXCEPT ![t] = value[r]] /\ UNCHANGED value
       ELSE value' = [value EXCEPT ![r] = Add(@, Diff(n, found[t]))] /\ UNCHANGED found
  /\ Goto(t, IF n = 3 THEN "draw" ELSE "ask")
  /\ UNCHANGED <<table, files, count, picks, size, pos, id, queue, serial>>

\* Mutant of Beyond: one commit is missing.
BeyondEarly(n) == n >= Last

Beyond(n) == n > Last

\* Commit() opens the file and gets its commit id.
Draw(t) ==
  /\ pc[t] = "draw"
  /\ count' = count + 1
  /\ id' = [id EXCEPT ![t] = count + 1]
  /\ IF Beyond(count + 1)
       THEN Goto(t, "undo") /\ UNCHANGED serial
       ELSE /\ Goto(t, "log")
            /\ serial' = Append(serial, Apply(Committed, picks[t]))
  /\ UNCHANGED <<table, value, files, picks, size, found, pos, queue>>

\* The lock is still in use: it was granted, and is not released yet.
InUse(t, n) == t \in Locks!Holders(picks[t][n])

\* Mutant of Undo: the diff is added once more.
UndoAgain(t) ==
  LET r == picks[t][pos[t]] IN
  /\ pc[t] = "undo"
  /\ value' = IF Mode(pos[t]) = "EXCLUSIVE" /\ InUse(t, pos[t])
                THEN [value EXCEPT ![r] = Add(@, Diff(pos[t], found[t]))] ELSE value
  /\ Goto(t, "release")
  /\ UNCHANGED <<table, files, count, local, serial>>

\* Abort(), and Commit() beyond the last id: the rollback of one lock.
Undo(t) ==
  LET r == picks[t][pos[t]] IN
  /\ pc[t] = "undo"
  /\ value' = IF Mode(pos[t]) = "EXCLUSIVE" /\ InUse(t, pos[t])
                THEN [value EXCEPT ![r] = Subtract(@, Diff(pos[t], found[t]))] ELSE value
  /\ Goto(t, "release")
  /\ UNCHANGED <<table, files, count, local, serial>>

\* Commit(): the value that goes into the log.
Log(t) ==
  /\ pc[t] = "log"
  /\ queue' = [queue EXCEPT ![t] = Append(@, value[picks[t][pos[t]]])]
  /\ Goto(t, "release")
  /\ UNCHANGED <<table, value, files, count, picks, size, found, pos, id, serial>>

Commits(t) == id[t] # 0 /\ ~Beyond(id[t])

\* ReleaseLock of one lock, the refused one included, and the next lock or what
\* comes after the last one.
Release(t) ==
  LET r == picks[t][pos[t]] IN
  /\ pc[t] = "release"
  /\ \/ InUse(t, pos[t]) /\ Locks!Release(t, r)
     \/ ~InUse(t, pos[t]) /\ UNCHANGED table
  /\ IF pos[t] < size[t]
       THEN /\ pos' = [pos EXCEPT ![t] = @ + 1]
            /\ Goto(t, IF Commits(t) THEN "log" ELSE "undo")
            /\ UNCHANGED <<found, picks, id>>
       ELSE /\ pos' = [pos EXCEPT ![t] = 1]
            /\ found' = [found EXCEPT ![t] = 0]
            /\ picks' = [picks EXCEPT ![t] = IF Commits(t) THEN @ ELSE NoPicks]
            /\ id' = [id EXCEPT ![t] = IF Commits(t) THEN @ ELSE 0]
            /\ Goto(t, IF Commits(t) THEN "publish" ELSE IF id[t] = 0 THEN "begin" ELSE "done")
  /\ UNCHANGED <<value, files, count, size, queue, serial>>

\* Mutant of Publish: the values of the records when the line is written.
PublishCurrent(t) ==
  /\ pc[t] = "publish"
  /\ file' = [file EXCEPT ![number[t]] =
                Append(@, [id |-> id[t], recs |-> picks[t],
                           vals |-> [n \in 1 .. 3 |-> value[picks[t][n]]]])]
  /\ id' = [id EXCEPT ![t] = 0]
  /\ picks' = [picks EXCEPT ![t] = NoPicks]
  /\ queue' = [queue EXCEPT ![t] = << >>]
  /\ Goto(t, "begin")
  /\ UNCHANGED <<table, value, threadNumber, number, count, size, found, pos, serial>>

\* [commit_id] [record_ids] [record_values]
Publish(t) ==
  /\ pc[t] = "publish"
  /\ file' = [file EXCEPT ![number[t]] =
                Append(@, [id |-> id[t], recs |-> picks[t], vals |-> queue[t]])]
  /\ id' = [id EXCEPT ![t] = 0]
  /\ picks' = [picks EXCEPT ![t] = NoPicks]
  /\ queue' = [queue EXCEPT ![t] = << >>]
  /\ Goto(t, "begin")
  /\ UNCHANGED <<table, value, threadNumber, number, count, size, found, pos, serial>>

-----------------------------------------------------------------------------
Step(t) == \/ Begin(t) \/ Ask(t) \/ Granted(t) \/ Refused(t) \/ Access(t)
           \/ Draw(t) \/ Undo(t) \/ Log(t) \/ Release(t) \/ Publish(t)

\* The last id is given away, and every thread has drawn one beyond it.
Done == (\A t \in Thread : pc[t] = "done") /\ UNCHANGED vars

Next == (\E t \in Thread : Step(t)) \/ Done

Spec == Init /\ [][Next]_vars

-----------------------------------------------------------------------------
Line == [id : 1 .. Last, recs : Picks, vals : Seq(Word)]

\* Every thread gets a number of its own, at most one id is drawn by each thread
\* beyond the last, and a line of a log has an id up to that.
TypeOK ==
  /\ Locks!TypeOK
  /\ value \in [Record -> Word]
  /\ threadNumber \in 1 .. Cardinality(Thread) + 1
  /\ number \in [Thread -> 0 .. Cardinality(Thread)]
  /\ count \in 0 .. Last + Cardinality(Thread)
  /\ picks \in [Thread -> Picks \cup {NoPicks}]
  /\ size \in [Thread -> 0 .. 3]
  /\ found \in [Thread -> Word]
  /\ pos \in [Thread -> 1 .. 3]
  /\ id \in [Thread -> 0 .. Last + Cardinality(Thread)]
  /\ queue \in [Thread -> Seq(Word)]
  /\ file \in [1 .. Cardinality(Thread) -> Seq(Line)]
  /\ pc \in [Thread -> {"begin", "ask", "wait", "access", "draw", "undo", "log", "release",
                        "publish", "done"}]
  /\ serial \in Seq([Record -> Word])

\* The thread has read or changed the record of its n-th lock, and has not taken
\* that back.
Accessed(t, n) ==
  /\ pc[t] \notin {"begin", "done"}
  /\ n < size[t] \/ (n = size[t] /\ pc[t] # "access")
  /\ InUse(t, n)
  /\ ~(pc[t] = "release" /\ ~Commits(t) /\ n = pos[t])

\* What a transaction has read is still the committed value when it commits or
\* aborts: nobody reads a change that may be taken back, or reads too early.
ReadsCommitted ==
  \A t \in Thread : Accessed(t, 1) => found[t] = Committed[picks[t][1]]

\* The changes of an uncommitted transaction to the record.
Pending(t, r) == \E n \in 2 .. 3 : Accessed(t, n) /\ ~Commits(t) /\ picks[t][n] = r

\* A record has the value the commits leave it with, in the order of their ids,
\* but for the change of one transaction that has not committed.
ValuesSerial ==
  \A r \in Record :
    \/ value[r] = Committed[r] /\ ~\E t \in Thread : Pending(t, r)
    \/ \E t \in Thread : \E n \in 2 .. 3 :
         /\ Pending(t, r) /\ picks[t][n] = r
         /\ value[r] = Add(Committed[r], Diff(n, found[t]))
         /\ \A u \in Thread \ {t} : ~Pending(u, r)

\* Every line of a log has the values of its records after the commit with its
\* id, although others commit before it is written.
LinesSerial ==
  \A n \in DOMAIN file : \A x \in DOMAIN file[n] :
    LET line == file[n][x] IN
    line.id \in DOMAIN serial /\ line.vals = [m \in 1 .. 3 |-> serial[line.id][line.recs[m]]]
=============================================================================
