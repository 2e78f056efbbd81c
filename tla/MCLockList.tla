----------------------------- MODULE MCLockList -----------------------------
(* LockList for TLC. *)
EXTENDS LockList

S(r) == [rec |-> r, mode |-> "SHARED"]
X(r) == [rec |-> r, mode |-> "EXCLUSIVE"]

\* Two threads, two records, three transactions each: the threads lock the records
\* in opposite orders, and use their locks again.
PairThread == 1 .. 2
PairRecord == {"a", "b"}
PairPrograms ==
  [t \in PairThread |->
     IF t = 1 THEN <<<<S("a"), X("b")>>, <<X("a"), S("b")>>, <<S("a")>>>>
              ELSE <<<<S("b"), X("a")>>, <<X("b"), X("a")>>, <<X("b")>>>>]

\* Two threads that lock two records in opposite orders, and a third one that
\* stands in the line of the first.
TripleThread == 1 .. 3
TriplePrograms ==
  [t \in TripleThread |-> CASE t = 1 -> <<<<S("a"), X("b")>>>>
                             [] t = 2 -> <<<<X("b"), X("a")>>>>
                             [] t = 3 -> <<<<S("a")>>>>]

\* Three threads, three records: they can wait for each other in a circle, and two
\* of them for a SHARED lock behind the EXCLUSIVE one of the third.
RingThread == 1 .. 3
RingRecord == {"a", "b", "c"}
RingPrograms ==
  [t \in RingThread |-> CASE t = 1 -> <<<<X("a"), X("b")>>>>
                          [] t = 2 -> <<<<X("b"), X("c"), S("a")>>>>
                          [] t = 3 -> <<<<X("c"), S("a")>>>>]

\* Three threads on one record.
QueueThread == 1 .. 3
QueueRecord == {"a"}
QueuePrograms == [t \in QueueThread |-> IF t = 3 THEN <<<<S("a")>>>> ELSE <<<<X("a")>>>>]

\* Four threads. Thread 1 has a lock on a and wants b, thread 2 has b and wants
\* a. Threads 3 and 4 have the locks before that of thread 1 on a; they release
\* them and come back.
CircleThread == 1 .. 4
CircleRecord == {"a", "b"}
CirclePrograms ==
  [t \in CircleThread |-> CASE t = 1 -> <<<<S("a"), X("b")>>>>
                            [] t = 2 -> <<<<X("b"), X("a")>>>>
                            [] OTHER -> <<<<S("a")>>, <<S("a")>>>>]

\* A state on the way: the threads have got their first locks, in the order
\* 4, 3, 1 on a, and thread 2 has joined the list of a behind them, found no
\* deadlock (nobody else waits) and fallen asleep. Nothing is released yet.
CircleInit ==
  LET first == [t \in CircleThread |-> <<t, IF t = 2 THEN "b" ELSE "a", 1>>]
      last  == <<2, "a", 1>>
      InList(id, next) == [FreshLock EXCEPT !.id = id, !.next = next, !.idPass = TRUE]
  IN
  /\ lk = [l \in Lock |->
             CASE l = first[4] -> InList(0, first[3])
               [] l = first[3] -> InList(1, first[1])
               [] l = first[1] -> InList(2, last)
               [] l = last -> [FreshLock EXCEPT !.id = 3, !.mode = "EXCLUSIVE", !.state = "WAIT"]
               [] l = first[2] -> [FreshLock EXCEPT !.id = 0, !.mode = "EXCLUSIVE"]
               [] OTHER -> FreshLock]
  /\ head = [r \in Record |-> IF r = "a" THEN first[4] ELSE first[2]]
  /\ tail = [r \in Record |-> IF r = "a" THEN last ELSE first[2]]
  /\ mutex = [r \in Record |-> NoThread]
  /\ conflict = [t \in Thread |-> IF t = 2 THEN last ELSE NoLock]
  /\ waitSet = {2}
  /\ saved = [t \in Thread |-> [r \in Record |-> IF r = "a" \/ t = 2 THEN 1 ELSE 0]]
  /\ deque = [t \in Thread |-> IF t = 2 THEN <<first[2], last>> ELSE <<first[t]>>]
  /\ trx = [t \in Thread |-> 1]
  /\ pc = [t \in Thread |-> CASE t = 1 -> "pick" [] t = 2 -> "asleep" [] OTHER -> "release"]
  /\ loc = [t \in Thread |-> IF t = 2 THEN [NoLocals EXCEPT !.new = last] ELSE NoLocals]

CircleSpec == CircleInit /\ [][Next]_vars
=============================================================================
