----------------------------- MODULE LockTable -----------------------------
(***************************************************************************)
(* What both lock tables of project3 are made of: lock objects, and        *)
(* threads that run transactions, each a sequence of lock requests.        *)
(***************************************************************************)
EXTENDS Naturals, Sequences, FiniteSets

CONSTANTS Thread,    \* the threads; each runs one transaction at a time
          Record,    \* the records
          Programs,  \* the transactions of each thread, one after the other
          MaxLocks,  \* bound: the locks a thread creates for one record
          NoLock     \* nullptr

Mode == {"SHARED", "EXCLUSIVE"}

State == {"ACTIVE", "WAIT", "OBSOLETE"}

\* Find() and Update(): the record and the mode of the lock they need.
Request == [rec : Record, mode : Mode]

ASSUME ThreadAssumption == IsFiniteSet(Thread)

\* A transaction locks a record once, as RepeatTrx does.
ASSUME ProgramAssumption ==
  /\ Programs \in [Thread -> Seq(Seq(Request))]
  /\ \A t \in Thread : \A x \in 1 .. Len(Programs[t]) :
       LET p == Programs[t][x] IN
       /\ p # << >>
       /\ \A m, n \in 1 .. Len(p) : p[m].rec = p[n].rec => m = n

ASSUME BoundAssumption == MaxLocks \in Nat

\* A lock is named by the thread that created it, its record, and its place in
\* that thread's vector for the record. These three never change.
Lock == Thread \X Record \X (1 .. MaxLocks)

ASSUME NoLockAssumption == NoLock \notin Lock /\ NoLock \notin Record

Owner(l) == l[1]

Rec(l) == l[2]
=============================================================================
