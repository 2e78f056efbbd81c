---------------------------- MODULE LockService ----------------------------
(***************************************************************************)
(* What a lock table of project3 promises the transactions, whichever way  *)
(* it keeps its lists: the contract of AcquireLock and ReleaseLock.        *)
(*                                                                         *)
(* The requests for a record stand in a line. A request is granted once    *)
(* everyone who was in the line before it is compatible with it, granted   *)
(* or still waiting; it may be refused (a deadlock) while it waits. Who    *)
(* was before whom never changes, but requests leave from anywhere.        *)
(***************************************************************************)
EXTENDS Naturals

CONSTANTS Thread, Record,
          NoRecord  \* the thread does not wait for a record

Mode == {"SHARED", "EXCLUSIVE"}

VARIABLES mode,   \* the mode of each thread's request in the line of each record
          ahead,  \* those who joined the line before it, and are still there
          asks    \* the record for which a thread is waiting

vars == <<mode, ahead, asks>>

Line(r) == LET modes == mode[r] IN {t \in Thread : modes[t] # "NONE"}

\* Modes, lines and waits have their types, and a thread waits only for a
\* record in whose line it stands.
TypeOK ==
  /\ mode \in [Record -> [Thread -> Mode \cup {"NONE"}]]
  /\ ahead \in [Record -> [Thread -> SUBSET Thread]]
  /\ asks \in [Thread -> Record \cup {NoRecord}]
  /\ \A t \in Thread : asks[t] # NoRecord => t \in Line(asks[t])

Holders(r) == {t \in Line(r) : asks[t] # r}

Init ==
  /\ mode = [r \in Record |-> [t \in Thread |-> "NONE"]]
  /\ ahead = [r \in Record |-> [t \in Thread |-> {}]]
  /\ asks = [t \in Thread |-> NoRecord]

Compatible(m, n) == m = "SHARED" /\ n = "SHARED"

\* Nobody before the thread stands in the way of a lock with mode m.
Free(before, r, m) == LET modes == mode[r] IN \A u \in before : Compatible(modes[u], m)

Join(t, r, m) ==
  /\ asks[t] = NoRecord /\ t \notin Line(r)
  /\ mode' = [mode EXCEPT ![r][t] = m]
  /\ ahead' = [ahead EXCEPT ![r][t] = Line(r)]

Leave(t, r) ==
  /\ mode' = [mode EXCEPT ![r][t] = "NONE"]
  /\ ahead' = [ahead EXCEPT ![r] = [u \in Thread |-> IF u = t THEN {} ELSE @[u] \ {t}]]

\* AcquireLock begins.
Request(t, r, m) == Join(t, r, m) /\ asks' = [asks EXCEPT ![t] = r]

\* AcquireLock returns a lock, in the same step or in a later one.
Take(t, r, m) ==
  /\ Free(Line(r), r, m)
  /\ Join(t, r, m)
  /\ UNCHANGED asks

Grant(t) ==
  LET r == asks[t] IN
  /\ r # NoRecord
  /\ Free(ahead[r][t], r, mode[r][t])
  /\ asks' = [asks EXCEPT ![t] = NoRecord]
  /\ UNCHANGED <<mode, ahead>>

\* AcquireLock returns nullptr.
Refuse(t) ==
  /\ asks[t] # NoRecord
  /\ Leave(t, asks[t])
  /\ asks' = [asks EXCEPT ![t] = NoRecord]

\* ReleaseLock.
Release(t, r) ==
  /\ t \in Holders(r)
  /\ Leave(t, r)
  /\ UNCHANGED asks

Next ==
  \E t \in Thread :
    \/ Grant(t)
    \/ Refuse(t)
    \/ \E r \in Record : \/ Release(t, r)
                         \/ \E m \in Mode : Request(t, r, m) \/ Take(t, r, m)

Spec == Init /\ [][Next]_vars

-----------------------------------------------------------------------------
\* Two transactions never hold incompatible locks on one record.
MutualExclusion ==
  \A r \in Record : \A t, u \in Holders(r) :
    t # u => Compatible(mode[r][t], mode[r][u])

\* Who is in the line stands before or behind each other who is, and a lock that
\* is held has only compatible ones before it.
InOrder ==
  \A r \in Record :
    /\ \A t \in Thread : ahead[r][t] \subseteq Line(r) \ {t}
    /\ \A t, u \in Line(r) : t # u => (t \in ahead[r][u] \/ u \in ahead[r][t])
    /\ \A t \in Holders(r) : Free(ahead[r][t], r, mode[r][t])

IInv == TypeOK /\ InOrder
=============================================================================
