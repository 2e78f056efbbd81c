-------------------------- MODULE LockList_proofs --------------------------
(***************************************************************************)
(* Proofs about LockList: the types, that no assertion of AcquireLock and  *)
(* ReleaseLock can fail, that locks are granted in the order of their      *)
(* lists, and that they exclude each other.                                *)
(*                                                                         *)
(* IInv says what each thread knows at its place (ProgramInv, LockInv,     *)
(* CallInv, HeadInv), and two things of all of them: one thread puts the   *)
(* first lock into a list (FirstInv), and the id of a lock is taken over   *)
(* by one thread, the one that swapped it out of the tail (PassInv). What  *)
(* a thread knows of itself outlives the steps of the others, because a    *)
(* list keeps a head and no lock is destroyed (OthersKept); a step that    *)
(* leaves the lists alone has only its own place to show (QuietStep).      *)
(*                                                                         *)
(* Ordered says how the locks lie in the lists: there is a rank, the id    *)
(* that a lock has or will get, for which ListInv holds of the links, the  *)
(* ends and what the head has passed, and OrderlyInv of the searches for   *)
(* the locks before one's own and of what was granted or signalled. A step *)
(* keeps the rank, but for the swap, which gives the new lock the next one *)
(* of its list. Gentle is what any step leaves to the other threads.       *)
(***************************************************************************)
EXTENDS LockList, TLAPS

Node == Lock \cup {NoLock}

HasHead(r) == head[r] # NoLock

\* The lock is in its thread's vector.
Created(l) == l[3] <= saved[Owner(l)][Rec(l)]

\* The places of ReleaseLock, and those of a call that has joined a list.
Freeing == {"release", "head_mutex"} \cup HoldingMutex

Joined == {"pass_id", "conflict"} \cup Waiting \cup {"grant", "give_up"}

\* The places before the lock knows that the list has a head.
Headless == {"swap", "link", "await_id", "first"}

\* The places that know the lock before the new one.
Linking == {"link", "await_id", "pass_id"}

Probing == {"probe", "probe_id", "probe_head", "walk", "walk_next", "walk_id", "walk_again", "walk_head"}

Types ==
  /\ lk \in [Lock -> Fields]
  /\ head \in [Record -> Node] /\ tail \in [Record -> Node]
  /\ mutex \in [Record -> Thread \cup {NoThread}]
  /\ conflict \in [Thread -> Node]
  /\ waitSet \subseteq Thread
  /\ saved \in [Thread -> [Record -> 0 .. MaxLocks]]
  /\ deque \in [Thread -> Seq(Lock)]
  /\ trx \in [Thread -> Nat \ {0}]
  /\ pc \in [Thread -> Place]
  /\ loc \in [Thread -> Locals]

\* How far the thread is in its transactions.
ProgramInv(t) ==
  /\ pc[t] # "done" => trx[t] <= Len(Programs[t]) /\ Len(deque[t]) <= Len(Program(t))
  /\ pc[t] \in {"pick"} \cup Renewing => Len(deque[t]) < Len(Program(t))
  /\ pc[t] \in Headless \cup Joined => Len(deque[t]) > 0
  /\ pc[t] \in Freeing => loc[t].i \in 1 .. Len(deque[t])

\* Its locks, and the lists they are in.
LockInv(t) ==
  /\ \A n \in 1 .. Len(deque[t]) :
       LET l == deque[t][n] IN
       HasHead(Rec(l)) \/ (pc[t] \in Headless /\ l = loc[t].new)
  /\ pc[t] \in Renewing \cup Headless \cup Joined =>
       /\ loc[t].new \in Lock /\ Owner(loc[t].new) = t /\ Created(loc[t].new)
  /\ pc[t] \in Joined => HasHead(Rec(loc[t].new))
  /\ conflict[t] # NoLock => pc[t] \in Waiting \cup {"grant", "give_up"} /\ HasHead(Rec(conflict[t]))

\* Where a call stands at place p with the locals m.
CallAt(p, m) ==
  /\ p = "pick" => m.i > 0
  /\ p \in Linking \cup {"pass_head"} => m.prev \in Lock
  /\ p \in {"collect", "next", "walk", "walk_next", "walk_id", "walk_head"} \cup HoldingMutex =>
       m.target \in Lock
  /\ p \in {"check", "check_id", "check_mode", "wait", "unwait", "fill"} =>
       m.i \in 1 .. Len(m.vec)
  /\ p \in Probing => m.who \in Thread
  /\ p \in Probing \ {"probe"} => m.conf \in Lock /\ HasHead(Rec(m.conf))

CallInv(t) == CallAt(pc[t], loc[t])

\* The thread may move the head of its record, and stands on it until it is done with waking it.
HeadInv(t) ==
  /\ pc[t] \in HoldingMutex => mutex[Rec(Releases(t))] = t
  /\ pc[t] \in {"front", "advance", "pass_head", "new_front", "wake_head"} =>
       loc[t].target = head[Rec(Releases(t))]

\* The first lock of a list: the tail is set, and the head is not.
FirstInv ==
  /\ \A r \in Record : tail[r] = NoLock => head[r] = NoLock
  /\ \A t \in Thread : pc[t] = "first" =>
       tail[Rec(loc[t].new)] # NoLock /\ head[Rec(loc[t].new)] = NoLock
  /\ \A t, u \in Thread : pc[t] = "first" /\ pc[u] = "first" /\ Rec(loc[t].new) = Rec(loc[u].new) => t = u

\* The id of a lock is taken over once: by the one thread that has it for the lock before its
\* own, or by who will come behind the tail.
PassInv ==
  /\ \A r \in Record : tail[r] # NoLock =>
       Rec(tail[r]) = r /\ Created(tail[r]) /\ ~lk[tail[r]].idPass
  /\ \A t \in Thread : pc[t] \in Linking =>
       /\ Rec(loc[t].prev) = Rec(loc[t].new) /\ Created(loc[t].prev)
       /\ ~lk[loc[t].prev].idPass /\ loc[t].prev # tail[Rec(loc[t].new)]
  /\ \A t, u \in Thread : pc[t] \in Linking /\ pc[u] \in Linking /\ loc[t].prev = loc[u].prev => t = u
  /\ \A t \in Thread : pc[t] \in Renewing \cup {"swap"} =>
       /\ ~lk[loc[t].new].idPass /\ loc[t].new # tail[Rec(loc[t].new)]
       /\ \A u \in Thread : pc[u] \in Linking => loc[u].prev # loc[t].new
  /\ \A l \in Lock : ~Created(l) => ~lk[l].idPass

IInv == /\ Types /\ FirstInv /\ PassInv
        /\ \A t \in Thread : ProgramInv(t) /\ LockInv(t) /\ CallInv(t) /\ HeadInv(t)

LEMMA LockIs ==
  /\ NoLock \notin Lock
  /\ \A l \in Lock : Owner(l) \in Thread /\ Rec(l) \in Record /\ l = <<Owner(l), Rec(l), l[3]>>
  /\ NoThread \notin Thread /\ MaxId \in Nat /\ MaxLocks \in Nat
BY NoLockAssumption, NoThreadAssumption, BoundAssumption DEF Lock, Owner, Rec

LEMMA ProgramIs ==
  \A t \in Thread :
    /\ Programs[t] \in Seq(Seq(Request))
    /\ \A x \in 1 .. Len(Programs[t]) : Programs[t][x] \in Seq(Request) /\ Len(Programs[t][x]) > 0
<1> SUFFICES ASSUME NEW t \in Thread
             PROVE  /\ Programs[t] \in Seq(Seq(Request))
                    /\ \A x \in 1 .. Len(Programs[t]) : Programs[t][x] \in Seq(Request) /\ Len(Programs[t][x]) > 0
  OBVIOUS
<1>1. Programs[t] \in Seq(Seq(Request))
  BY ProgramAssumption
<1>2. ASSUME NEW x \in 1 .. Len(Programs[t])
      PROVE  Programs[t][x] \in Seq(Request) /\ Len(Programs[t][x]) > 0
  <2>1. Programs[t][x] \in Seq(Request)
    BY <1>1
  <2>2. Programs[t][x] # << >>
    BY ProgramAssumption
  <2> QED
    BY <2>1, <2>2
<1> QED
  BY <1>1, <1>2

LEMMA InitInv == Init => IInv
<1> SUFFICES ASSUME Init PROVE IInv
  OBVIOUS
<1>1. NoLocals \in Locals
  BY LockIs DEF NoLocals, Locals, Node
<1>2. FreshLock \in Fields
  BY LockIs DEF FreshLock, Fields, Mode, State
<1>3. \A t \in Thread : pc[t] \in {"pick", "done"} /\ pc[t] = (IF Programs[t] = << >> THEN "done" ELSE "pick")
  BY DEF Init
<1>4. Types
  <2>1. pc \in [Thread -> Place]
    BY DEF Init, Place
  <2>2. loc \in [Thread -> Locals] /\ lk \in [Lock -> Fields]
    BY <1>1, <1>2 DEF Init
  <2>3. saved \in [Thread -> [Record -> 0 .. MaxLocks]]
    BY LockIs DEF Init
  <2>4. deque \in [Thread -> Seq(Lock)]
    BY DEF Init
  <2> QED
    BY <2>1, <2>2, <2>3, <2>4 DEF Init, Types, Node
<1>5. FirstInv
  BY <1>3 DEF Init, FirstInv
<1>6. PassInv
  <2>1. \A l \in Lock : ~lk[l].idPass
    BY DEF Init, FreshLock
  <2>2. \A r \in Record : tail[r] = NoLock
    BY DEF Init
  <2> QED
    BY <1>3, <2>1, <2>2 DEF PassInv, Linking, Renewing
<1>7. ASSUME NEW t \in Thread
      PROVE  ProgramInv(t) /\ LockInv(t) /\ CallInv(t) /\ HeadInv(t)
  <2>1. deque[t] = << >> /\ trx[t] = 1 /\ loc[t] = NoLocals /\ conflict[t] = NoLock
    BY DEF Init
  <2>2. pc[t] = "pick" => 1 \in 1 .. Len(Programs[t])
    BY <1>3, ProgramIs
  <2>3. ProgramInv(t)
    <3>1. pc[t] = "pick" => 1 <= Len(Programs[t]) /\ Len(Program(t)) > 0
      <4> SUFFICES ASSUME pc[t] = "pick" PROVE 1 <= Len(Programs[t]) /\ Len(Program(t)) > 0
        OBVIOUS
      <4>1. Len(Programs[t]) \in Nat /\ 1 \in 1 .. Len(Programs[t])
        BY <2>2, ProgramIs
      <4>2. Len(Programs[t][1]) > 0
        BY <4>1, ProgramIs
      <4> QED
        BY <2>1, <4>1, <4>2 DEF Program
    <3>2. Len(deque[t]) = 0
      BY <2>1
    <3>3. pc[t] \notin Renewing /\ pc[t] \notin Headless \cup Joined /\ pc[t] \notin Freeing
      BY <1>3 DEF Freeing, Headless, Joined, Renewing, Waiting, HoldingMutex
    <3>4. Program(t) \in Seq(Request) \/ pc[t] = "done"
      BY <1>3, <2>1, <2>2, ProgramIs DEF Program
    <3> QED
      BY <1>3, <2>1, <3>1, <3>2, <3>3, <3>4 DEF ProgramInv
  <2>4. LockInv(t)
    BY <1>3, <2>1 DEF LockInv, Freeing, Headless, Joined, Renewing, Waiting, HoldingMutex
  <2>5. CallInv(t)
    BY <1>3, <2>1 DEF CallInv, CallAt, NoLocals, Linking, HoldingMutex, Probing
  <2>6. HeadInv(t)
    BY <1>3 DEF HeadInv, HoldingMutex
  <2> QED
    BY <2>3, <2>4, <2>5, <2>6
<1> QED
  BY <1>4, <1>5, <1>6, <1>7 DEF IInv

\* What the step of thread t leaves alone of the other threads.
Others(t) ==
  \A u \in Thread \ {t} :
    /\ pc'[u] = pc[u] /\ loc'[u] = loc[u] /\ deque'[u] = deque[u]
    /\ trx'[u] = trx[u] /\ conflict'[u] = conflict[u]

\* A list that has a head keeps one, and no lock is destroyed.
Grows ==
  /\ \A r \in Record : head[r] # NoLock => head'[r] # NoLock
  /\ \A u \in Thread, r \in Record : saved'[u][r] >= saved[u][r] /\ saved'[u][r] \in Nat

LEMMA GrowsIs ==
  ASSUME Types, \A r \in Record : head[r] # NoLock => head'[r] # NoLock, saved' = saved
  PROVE  Grows
<1>1. \A u \in Thread, r \in Record : saved[u][r] \in Nat
  BY LockIs DEF Types
<1>2. \A u \in Thread, r \in Record : saved'[u][r] >= saved[u][r] /\ saved'[u][r] \in Nat
  BY <1>1
<1> QED
  BY <1>2 DEF Grows

LEMMA CreatedGrows ==
  ASSUME Types, Grows, NEW l \in Lock, Created(l)
  PROVE  Created(l)'
<1>1. Owner(l) \in Thread /\ Rec(l) \in Record /\ l[3] \in Nat
  BY LockIs DEF Lock
<1>2. saved[Owner(l)][Rec(l)] \in Nat
  BY <1>1, LockIs DEF Types
<1> QED
  BY <1>1, <1>2 DEF Grows, Created

LEMMA OthersKept ==
  ASSUME IInv, NEW t \in Thread, Others(t), Grows, NEW u \in Thread, u # t
  PROVE  ProgramInv(u)' /\ LockInv(u)' /\ CallInv(u)'
<1>1. /\ pc'[u] = pc[u] /\ loc'[u] = loc[u] /\ deque'[u] = deque[u]
      /\ trx'[u] = trx[u] /\ conflict'[u] = conflict[u]
  BY DEF Others
<1>2. ProgramInv(u) /\ LockInv(u) /\ CallInv(u) /\ Types
  BY DEF IInv
<1>3. deque[u] \in Seq(Lock) /\ conflict[u] \in Node
  BY <1>2 DEF Types
<1>4. \A r \in Record : HasHead(r) => head'[r] # NoLock
  BY DEF Grows, HasHead
<1>5. ProgramInv(u)'
  BY <1>1, <1>2 DEF ProgramInv, Program
<1>6. LockInv(u)'
  <2>1. ASSUME NEW n \in 1 .. Len(deque'[u])
        PROVE  head'[Rec(deque'[u][n])] # NoLock \/ (pc'[u] \in Headless /\ deque'[u][n] = loc'[u].new)
    <3>1. deque[u][n] \in Lock /\ n \in 1 .. Len(deque[u])
      BY <1>1, <1>3
    <3> QED
      BY <1>1, <1>2, <1>4, <3>1, LockIs DEF LockInv
  <2>2. pc'[u] \in Renewing \cup Headless \cup Joined =>
          loc'[u].new \in Lock /\ Owner(loc'[u].new) = u /\ Created(loc[u].new)'
    BY <1>1, <1>2, CreatedGrows DEF LockInv
  <2>3. pc'[u] \in Joined => head'[Rec(loc'[u].new)] # NoLock
    BY <1>1, <1>2, <1>4, LockIs DEF LockInv
  <2>4. conflict'[u] # NoLock => pc'[u] \in Waiting \cup {"grant", "give_up"} /\ head'[Rec(conflict'[u])] # NoLock
    BY <1>1, <1>2, <1>3, <1>4, LockIs DEF LockInv, Node
  <2> QED
    BY <2>1, <2>2, <2>3, <2>4 DEF LockInv, HasHead
<1>7. CallInv(u)'
  BY <1>1, <1>2, <1>4, LockIs DEF CallInv, CallAt, HasHead
<1> QED
  BY <1>5, <1>6, <1>7

\* A step of t that does not make it the one who puts the first lock into a list.
LEMMA FirstKept ==
  ASSUME FirstInv, NEW t \in Thread, Others(t), head' = head, tail' = tail,
         pc'[t] = "first" => pc[t] = "first" /\ loc'[t].new = loc[t].new
  PROVE  FirstInv'
<1>1. \A u \in Thread : pc'[u] = "first" => pc[u] = "first" /\ loc'[u].new = loc[u].new
  BY DEF Others
<1> QED
  BY <1>1 DEF FirstInv

\* A step of t that neither joins a list nor begins with another lock.
LEMMA PassKept ==
  ASSUME PassInv, NEW t \in Thread, Others(t), tail' = tail, saved' = saved,
         \A l \in Lock : lk'[l].idPass = lk[l].idPass, Types, \A u \in Thread : CallInv(u) /\ LockInv(u),
         pc'[t] \in Linking => pc[t] \in Linking /\ loc'[t].prev = loc[t].prev /\ loc'[t].new = loc[t].new,
         pc'[t] \in Renewing \cup {"swap"} => pc[t] \in Renewing \cup {"swap"} /\ loc'[t].new = loc[t].new
  PROVE  PassInv'
<1>1. \A u \in Thread : pc'[u] \in Linking => pc[u] \in Linking /\ loc'[u].prev = loc[u].prev /\ loc'[u].new = loc[u].new
  BY DEF Others
<1>2. \A u \in Thread : pc'[u] \in Renewing \cup {"swap"} => pc[u] \in Renewing \cup {"swap"} /\ loc'[u].new = loc[u].new
  BY DEF Others
<1>3. \A l : Created(l)' <=> Created(l)
  BY DEF Created
<1>4. \A u \in Thread : pc[u] \in Linking => loc[u].prev \in Lock
  BY DEF CallInv, CallAt
<1>5. \A u \in Thread : pc[u] \in Renewing \cup {"swap"} => loc[u].new \in Lock
  BY DEF LockInv, Headless
<1>6. \A r \in Record : tail[r] # NoLock => tail[r] \in Lock
  BY DEF Types, Node
<1>7. \A r \in Record : tail'[r] # NoLock =>
        Rec(tail'[r]) = r /\ Created(tail[r])' /\ ~lk'[tail'[r]].idPass
  BY <1>3, <1>6 DEF PassInv
<1>8. \A u \in Thread : pc'[u] \in Linking =>
       /\ Rec(loc'[u].prev) = Rec(loc'[u].new) /\ Created(loc[u].prev)'
       /\ ~lk'[loc'[u].prev].idPass /\ loc'[u].prev # tail'[Rec(loc'[u].new)]
  <2> SUFFICES ASSUME NEW u \in Thread, pc'[u] \in Linking
               PROVE  /\ Rec(loc'[u].prev) = Rec(loc'[u].new) /\ Created(loc[u].prev)'
                      /\ ~lk'[loc'[u].prev].idPass /\ loc'[u].prev # tail'[Rec(loc'[u].new)]
    OBVIOUS
  <2>1. /\ Rec(loc[u].prev) = Rec(loc[u].new) /\ Created(loc[u].prev)
        /\ ~lk[loc[u].prev].idPass /\ loc[u].prev # tail[Rec(loc[u].new)]
    BY <1>1 DEF PassInv
  <2>2. Created(loc[u].prev)'
    BY <1>1, <2>1 DEF Created
  <2> QED
    BY <1>1, <1>4, <2>1, <2>2
<1>9. \A u, v \in Thread : pc'[u] \in Linking /\ pc'[v] \in Linking /\ loc'[u].prev = loc'[v].prev => u = v
  BY <1>1 DEF PassInv
<1>10. \A u \in Thread : pc'[u] \in Renewing \cup {"swap"} =>
       /\ ~lk'[loc'[u].new].idPass /\ loc'[u].new # tail'[Rec(loc'[u].new)]
       /\ \A v \in Thread : pc'[v] \in Linking => loc'[v].prev # loc'[u].new
  BY <1>1, <1>2, <1>5 DEF PassInv
<1>11. \A l \in Lock : ~Created(l)' => ~lk'[l].idPass
  BY <1>3 DEF PassInv
<1> QED
  BY <1>7, <1>8, <1>9, <1>10, <1>11 DEF PassInv

LEMMA HeadKept ==
  ASSUME IInv, NEW t \in Thread, Others(t), head' = head,
         \A r \in Record : mutex[r] \notin {t, NoThread} => mutex'[r] = mutex[r],
         NEW u \in Thread, u # t
  PROVE  HeadInv(u)'
<1>1. HeadInv(u) /\ ProgramInv(u) /\ Types
  BY DEF IInv
<1>2. pc'[u] = pc[u] /\ loc'[u] = loc[u] /\ deque'[u] = deque[u]
  BY DEF Others
<1>3. pc[u] \in HoldingMutex => Releases(u) \in Lock
  BY <1>1 DEF ProgramInv, Freeing, Releases, Types
<1>4. pc[u] \in HoldingMutex => Rec(Releases(u)) \in Record /\ mutex[Rec(Releases(u))] = u /\ u # NoThread
  BY <1>1, <1>3, LockIs DEF HeadInv
<1> QED
  BY <1>1, <1>2, <1>4 DEF HeadInv, Releases

\* A step of t that leaves the lists and the mutexes alone. What is left to show is t itself.
LEMMA QuietStep ==
  ASSUME IInv, NEW t \in Thread, NEW m \in Locals, NEW p \in Place,
         pc' = [pc EXCEPT ![t] = p], loc' = [loc EXCEPT ![t] = m],
         lk' \in [Lock -> Fields], \A l \in Lock : lk'[l].idPass = lk[l].idPass,
         waitSet' \subseteq Thread, UNCHANGED <<head, tail, saved>>,
         conflict' \in [Thread -> Node], deque' \in [Thread -> Seq(Lock)], trx' \in [Thread -> Nat \ {0}],
         \A u \in Thread \ {t} : conflict'[u] = conflict[u] /\ deque'[u] = deque[u] /\ trx'[u] = trx[u],
         mutex' \in [Record -> Thread \cup {NoThread}],
         \A r \in Record : mutex[r] \notin {t, NoThread} => mutex'[r] = mutex[r],
         p \in Linking => pc[t] \in Linking /\ m.prev = loc[t].prev /\ m.new = loc[t].new,
         p \in Renewing \cup {"swap"} => pc[t] \in Renewing \cup {"swap"} /\ m.new = loc[t].new,
         p # "first",
         ProgramInv(t)', LockInv(t)', CallAt(p, m), HeadInv(t)'
  PROVE  IInv'
<1>1. Types /\ FirstInv /\ PassInv /\ \A u \in Thread : ProgramInv(u) /\ LockInv(u) /\ CallInv(u) /\ HeadInv(u)
  BY DEF IInv
<1>2. pc \in [Thread -> Place] /\ loc \in [Thread -> Locals]
  BY <1>1 DEF Types
<1>3. pc'[t] = p /\ loc'[t] = m /\ pc' \in [Thread -> Place] /\ loc' \in [Thread -> Locals]
  BY <1>2
<1>4. Others(t)
  BY <1>2 DEF Others
<1>5. Grows
  BY <1>1, GrowsIs
<1>6. Types'
  BY <1>1, <1>3 DEF Types
<1>7. FirstInv'
  BY <1>1, <1>3, <1>4, FirstKept
<1>8. PassInv'
  BY <1>1, <1>3, <1>4, PassKept
<1>9. CallInv(t)'
  BY <1>3 DEF CallInv, CallAt, HasHead
<1>10. ASSUME NEW u \in Thread, u # t
       PROVE  ProgramInv(u)' /\ LockInv(u)' /\ CallInv(u)' /\ HeadInv(u)'
  BY <1>1, <1>4, <1>5, <1>10, OthersKept, HeadKept
<1> QED
  BY <1>6, <1>7, <1>8, <1>9, <1>10 DEF IInv

\* A step of a thread that looks at the locks before its own or searches for a deadlock.
LEMMA WaitingStep ==
  ASSUME IInv, NEW t \in Thread, NEW m \in Locals, NEW p \in Waiting \cup {"grant", "give_up"},
         pc[t] \in Waiting,
         pc' = [pc EXCEPT ![t] = p], loc' = [loc EXCEPT ![t] = m], m.new = loc[t].new,
         lk' \in [Lock -> Fields], \A l \in Lock : lk'[l].idPass = lk[l].idPass,
         waitSet' \subseteq Thread,
         UNCHANGED <<head, tail, mutex, conflict, saved, deque, trx>>,
         CallAt(p, m)
  PROVE  IInv'
<1>1. Types /\ ProgramInv(t) /\ LockInv(t)
  BY DEF IInv
<1>2. /\ pc \in [Thread -> Place] /\ loc \in [Thread -> Locals] /\ conflict \in [Thread -> Node]
      /\ deque \in [Thread -> Seq(Lock)] /\ trx \in [Thread -> Nat \ {0}]
      /\ mutex \in [Record -> Thread \cup {NoThread}]
  BY <1>1 DEF Types
<1>3. pc'[t] = p /\ loc'[t] = m
  BY <1>2
<1>4. /\ p \in Place /\ p \notin Linking /\ p \notin Renewing \cup {"swap"} /\ p # "first"
      /\ p \notin HoldingMutex /\ p # "done" /\ p # "pick" /\ p \notin Renewing \cup Headless /\ p \notin Freeing
      /\ p \in Joined
  BY DEF Place, Linking, Renewing, HoldingMutex, Headless, Freeing, Joined, Waiting
<1>5. pc[t] # "done" /\ pc[t] \in Joined /\ pc[t] \notin Headless
  BY DEF Headless, Joined, Waiting
<1>6. ProgramInv(t)'
  BY <1>1, <1>3, <1>4, <1>5 DEF ProgramInv, Program
<1>7. LockInv(t)'
  BY <1>1, <1>3, <1>4, <1>5 DEF LockInv, HasHead, Created
<1>8. HeadInv(t)'
  BY <1>3, <1>4 DEF HeadInv, HoldingMutex
<1> QED
  BY <1>2, <1>4, <1>6, <1>7, <1>8, QuietStep

LEMMA StateSet ==
  ASSUME lk \in [Lock -> Fields], NEW l \in Lock, NEW s \in State, lk' = [lk EXCEPT ![l].state = s]
  PROVE  lk' \in [Lock -> Fields] /\ \A k \in Lock : lk'[k].idPass = lk[k].idPass
<1>1. lk' = [lk EXCEPT ![l] = [lk[l] EXCEPT !.state = s]]
  OBVIOUS
<1>2. [lk[l] EXCEPT !.state = s] \in Fields /\ [lk[l] EXCEPT !.state = s].idPass = lk[l].idPass
  BY DEF Fields
<1> QED
  BY <1>1, <1>2

\* What a thread knows of itself in a call that waits.
LEMMA WaitingIs ==
  ASSUME IInv, NEW t \in Thread, pc[t] \in Waiting
  PROVE  /\ Types /\ CallAt(pc[t], loc[t])
         /\ pc \in [Thread -> Place] /\ loc \in [Thread -> Locals] /\ loc[t] \in Locals
         /\ lk \in [Lock -> Fields] /\ waitSet \subseteq Thread
         /\ loc[t].new \in Lock /\ Owner(loc[t].new) = t /\ Rec(loc[t].new) \in Record
         /\ head[Rec(loc[t].new)] \in Lock
<1>1. Types /\ CallInv(t) /\ LockInv(t)
  BY DEF IInv
<1>2. pc[t] \in Joined
  BY DEF Joined
<1>3. loc[t].new \in Lock /\ Owner(loc[t].new) = t /\ HasHead(Rec(loc[t].new))
  BY <1>1, <1>2 DEF LockInv
<1>4. head[Rec(loc[t].new)] \in Lock
  BY <1>1, <1>3, LockIs DEF Types, Node, HasHead
<1> QED
  BY <1>1, <1>3, <1>4, LockIs DEF Types, CallInv

\* Where a call may stand without knowing anything.
Free == {"grant", "give_up", "head", "pop", "deadlock", "sleep", "asleep"}

LEMMA FreeIs == \A p \in Free : \A m : CallAt(p, m) /\ p \in Waiting \cup {"grant", "give_up"}
BY DEF Free, CallAt, Linking, HoldingMutex, Probing, Waiting

\* The search for the locks before the new one.
LEMMA CollectAtInv ==
  ASSUME IInv, NEW t \in Thread, pc[t] \in Waiting, NEW l \in Lock, NEW vec \in Seq(Lock),
         CollectAt(t, l, vec), UNCHANGED <<lk, shared>>
  PROVE  IInv'
<1> DEFINE m == [loc[t] EXCEPT !.target = l, !.vec = vec, !.i = Len(vec)]
           p == IF l # loc[t].new THEN "collect" ELSE IF vec = << >> THEN "grant" ELSE "check"
<1>1. loc[t] \in Locals /\ Types
  BY WaitingIs
<1>2. m \in Locals /\ m.new = loc[t].new /\ m.target = l /\ m.vec = vec /\ m.i = Len(vec)
  <2>1. Len(vec) \in Nat /\ l \in Lock \cup {NoLock}
    OBVIOUS
  <2> DEFINE n == Len(vec)
  <2> HIDE DEF n
  <2>2. n \in Nat
    BY <2>1 DEF n
  <2>3. m = [loc[t] EXCEPT !.target = l, !.vec = vec, !.i = n]
    BY DEF n
  <2>4. m \in Locals /\ m.new = loc[t].new /\ m.target = l /\ m.vec = vec /\ m.i = n
    BY <1>1, <2>1, <2>2, <2>3 DEF Locals
  <2> QED
    BY <2>4 DEF n
<1>3. loc' = [loc EXCEPT ![t] = m] /\ pc' = [pc EXCEPT ![t] = p]
  BY DEF CollectAt, Goto
<1>4. vec # << >> => Len(vec) \in 1 .. Len(vec)
  OBVIOUS
<1>5. p \in Waiting \cup {"grant", "give_up"}
  BY DEF Waiting
<1>6. CallAt(p, m)
  BY <1>2, <1>4 DEF CallAt, Linking, HoldingMutex, Probing
<1> HIDE DEF m, p
<1> QED
  BY <1>1, <1>2, <1>3, <1>5, <1>6, WaitingStep DEF shared, Types

LEMMA CollectInv ==
  ASSUME IInv, NEW t \in Thread, FromHead(t) \/ Collect(t) \/ CollectNext(t)
  PROVE  IInv'
<1>1. pc[t] \in Waiting
  BY DEF FromHead, Collect, CollectNext, Waiting
<1>2. /\ Types /\ CallAt(pc[t], loc[t]) /\ loc \in [Thread -> Locals] /\ loc[t] \in Locals
      /\ lk \in [Lock -> Fields] /\ waitSet \subseteq Thread /\ head[Rec(loc[t].new)] \in Lock
  BY <1>1, WaitingIs
<1>3. loc[t].vec \in Seq(Lock)
  BY <1>2 DEF Locals
<1>4. CASE FromHead(t)
  <2>1. << >> \in Seq(Lock)
    OBVIOUS
  <2>2. CollectAt(t, head[Rec(loc[t].new)], << >>) /\ UNCHANGED <<lk, shared>>
    BY <1>4 DEF FromHead
  <2> QED
    BY <1>1, <1>2, <2>1, <2>2, CollectAtInv
<1>5. ASSUME pc'= [pc EXCEPT ![t] = "head"], UNCHANGED <<loc, lk, shared>>
      PROVE  IInv'
  <2>1. loc' = [loc EXCEPT ![t] = loc[t]]
    BY <1>2, <1>5
  <2>2. CallAt("head", loc[t]) /\ "head" \in Waiting \cup {"grant", "give_up"}
    BY FreeIs DEF Free
  <2> QED
    BY <1>1, <1>2, <1>5, <2>1, <2>2, WaitingStep DEF shared
<1>6. CASE Collect(t)
  <2>1. pc[t] = "collect" /\ UNCHANGED <<lk, shared>>
    BY <1>6 DEF Collect
  <2>2. loc[t].target \in Lock
    BY <1>2, <2>1 DEF CallAt
  <2>3. CASE Behind(t, loc[t].target)
    BY <1>5, <1>6, <2>1, <2>3 DEF Collect, Goto
  <2>4. CASE ~Behind(t, loc[t].target)
    <3> DEFINE m == [loc[t] EXCEPT !.vec = Append(@, loc[t].target)]
    <3>1. Append(loc[t].vec, loc[t].target) \in Seq(Lock)
      BY <1>3, <2>2
    <3>2. m \in Locals /\ m.new = loc[t].new /\ m.target = loc[t].target
      BY <1>2, <3>1 DEF Locals
    <3>3. loc' = [loc EXCEPT ![t] = m] /\ pc' = [pc EXCEPT ![t] = "next"]
      BY <1>6, <2>4 DEF Collect, Goto
    <3>4. CallAt("next", m) /\ "next" \in Waiting
      BY <2>2, <3>2 DEF CallAt, Linking, HoldingMutex, Probing, Waiting
    <3> HIDE DEF m
    <3> QED
      BY <1>1, <1>2, <2>1, <3>2, <3>3, <3>4, WaitingStep DEF shared
  <2> QED
    BY <2>3, <2>4
<1>7. CASE CollectNext(t)
  <2>1. pc[t] = "next" /\ UNCHANGED <<lk, shared>>
    BY <1>7 DEF CollectNext
  <2>2. loc[t].target \in Lock
    BY <1>2, <2>1 DEF CallAt
  <2>3. CASE lk[loc[t].target].next = NoLock
    BY <1>5, <1>7, <2>1, <2>3 DEF CollectNext, Goto
  <2>4. CASE lk[loc[t].target].next # NoLock
    <3>1. lk[loc[t].target].next \in Lock
      BY <1>2, <2>2, <2>4 DEF Fields
    <3> QED
      BY <1>1, <1>3, <1>7, <2>1, <2>4, <3>1, CollectAtInv DEF CollectNext
  <2> QED
    BY <2>3, <2>4
<1> QED
  BY <1>4, <1>6, <1>7

\* A step of a waiting call that leaves its locals alone.
LEMMA StayInv ==
  ASSUME IInv, NEW t \in Thread, pc[t] \in Waiting, NEW p \in Waiting \cup {"grant", "give_up"},
         Goto(t, p), loc' = loc,
         lk' \in [Lock -> Fields], \A l \in Lock : lk'[l].idPass = lk[l].idPass,
         waitSet' \subseteq Thread, UNCHANGED <<head, tail, mutex, conflict, saved, deque, trx>>,
         CallAt(p, loc[t])
  PROVE  IInv'
<1>1. loc \in [Thread -> Locals] /\ loc[t] \in Locals
  BY WaitingIs
<1>2. loc' = [loc EXCEPT ![t] = loc[t]]
  BY <1>1
<1> QED
  BY <1>1, <1>2, WaitingStep DEF Goto

LEMMA CheckOnInv ==
  ASSUME IInv, NEW t \in Thread, pc[t] \in {"check", "check_id", "check_mode", "unwait"}, CheckOn(t),
         lk' \in [Lock -> Fields], \A l \in Lock : lk'[l].idPass = lk[l].idPass, UNCHANGED shared
  PROVE  IInv'
<1> DEFINE m == [loc[t] EXCEPT !.i = @ - 1]
           p == IF loc[t].i = 1 THEN "grant" ELSE "check"
<1>1. pc[t] \in Waiting
  BY DEF Waiting
<1>2. loc[t] \in Locals /\ waitSet \subseteq Thread /\ CallAt(pc[t], loc[t])
  BY <1>1, WaitingIs
<1>3. loc[t].i \in 1 .. Len(loc[t].vec) /\ loc[t].vec \in Seq(Lock)
  BY <1>2 DEF CallAt, Locals
<1>4. loc[t].i - 1 \in Nat
  BY <1>3
<1>5. m \in Locals /\ m.new = loc[t].new /\ m.vec = loc[t].vec /\ m.i = loc[t].i - 1
  BY <1>2, <1>4 DEF Locals
<1>6. loc' = [loc EXCEPT ![t] = m] /\ pc' = [pc EXCEPT ![t] = p]
  BY DEF CheckOn, Goto
<1>7. p \in Waiting \cup {"grant"}
  BY DEF Waiting
<1>8. loc[t].i # 1 => loc[t].i - 1 \in 1 .. Len(loc[t].vec)
  BY <1>3
<1>9. CallAt(p, m)
  BY <1>5, <1>8 DEF CallAt, Linking, HoldingMutex, Probing
<1> HIDE DEF m, p
<1> QED
  BY <1>1, <1>2, <1>5, <1>6, <1>7, <1>9, WaitingStep DEF shared

\* The locks before the new one, from the last one to the first.
LEMMA CheckInv ==
  ASSUME IInv, NEW t \in Thread,
         Check(t) \/ CheckId(t) \/ CheckMode(t) \/ Wait(t) \/ Unwait(t)
  PROVE  IInv'
<1>1. pc[t] \in {"check", "check_id", "check_mode", "wait", "unwait"} /\ pc[t] \in Waiting
  BY DEF Check, CheckId, CheckMode, Wait, Unwait, Waiting
<1>2. /\ loc[t] \in Locals /\ waitSet \subseteq Thread /\ CallAt(pc[t], loc[t]) /\ loc[t].new \in Lock
      /\ lk \in [Lock -> Fields]
  BY <1>1, WaitingIs
<1>3. loc[t].i \in 1 .. Len(loc[t].vec) /\ loc[t].vec \in Seq(Lock)
  BY <1>1, <1>2 DEF CallAt, Locals
<1>4. \A p \in {"check", "check_id", "check_mode", "wait", "unwait"} :
        CallAt(p, loc[t]) /\ p \in Waiting \cup {"grant", "give_up"}
  BY <1>3 DEF CallAt, Linking, HoldingMutex, Probing, Waiting
<1>5. ASSUME NEW p \in {"check", "check_id", "check_mode", "wait", "unwait"}, Goto(t, p), UNCHANGED loc,
             UNCHANGED <<lk, shared>>
      PROVE  IInv'
  BY <1>1, <1>2, <1>4, <1>5, StayInv DEF shared
<1>6. ASSUME pc[t] # "wait", CheckOn(t), UNCHANGED <<lk, shared>>
      PROVE  IInv'
  BY <1>1, <1>2, <1>6, CheckOnInv
<1>7. CASE Check(t)
  <2>1. pc[t] # "wait" /\ UNCHANGED <<lk, shared>>
    BY <1>7 DEF Check
  <2> QED
    BY <1>5, <1>6, <1>7, <2>1 DEF Check, Skip
<1>8. CASE CheckId(t)
  <2>1. pc[t] # "wait" /\ UNCHANGED <<lk, shared>>
    BY <1>8 DEF CheckId
  <2>2. CASE Behind(t, Target(t)) /\ Skip(t)
    BY <1>5, <1>6, <2>1, <2>2 DEF Skip
  <2>3. CASE Goto(t, "fill") /\ loc' = [loc EXCEPT ![t].i = Len(loc[t].vec)]
    <3> DEFINE n == Len(loc[t].vec)
               m == [loc[t] EXCEPT !.i = n]
    <3>1. n \in 1 .. Len(loc[t].vec) /\ n \in Nat
      BY <1>3
    <3> HIDE DEF n
    <3>2. m \in Locals /\ m.new = loc[t].new /\ m.vec = loc[t].vec /\ m.i = n
      BY <1>2, <3>1 DEF Locals
    <3>3. loc' = [loc EXCEPT ![t] = m] /\ pc' = [pc EXCEPT ![t] = "fill"]
      BY <2>3 DEF Goto, n
    <3>4. CallAt("fill", m) /\ "fill" \in Waiting
      BY <3>1, <3>2 DEF CallAt, Linking, HoldingMutex, Probing, Waiting
    <3> HIDE DEF m
    <3> QED
      BY <1>1, <1>2, <2>1, <3>2, <3>3, <3>4, WaitingStep DEF shared
  <2>4. CASE /\ Goto(t, IF lk[loc[t].new].mode = "EXCLUSIVE" THEN "wait" ELSE "check_mode")
             /\ UNCHANGED loc
    BY <1>5, <2>1, <2>4
  <2> QED
    BY <1>8, <2>2, <2>3, <2>4 DEF CheckId
<1>9. CASE CheckMode(t)
  <2>1. pc[t] # "wait" /\ UNCHANGED <<lk, shared>>
    BY <1>9 DEF CheckMode
  <2> QED
    BY <1>5, <1>6, <1>9, <2>1 DEF CheckMode
<1>10. CASE Wait(t)
  <2>1. lk' \in [Lock -> Fields] /\ \A l \in Lock : lk'[l].idPass = lk[l].idPass
    BY <1>2, <1>10, StateSet DEF Wait, State
  <2> QED
    BY <1>1, <1>2, <1>4, <1>10, <2>1, StayInv DEF Wait, shared
<1>11. CASE Unwait(t)
  <2>1. lk' \in [Lock -> Fields] /\ \A l \in Lock : lk'[l].idPass = lk[l].idPass
    BY <1>2, <1>11, StateSet DEF Unwait, State
  <2> QED
    BY <1>1, <1>11, <2>1, CheckOnInv DEF Unwait
<1> QED
  BY <1>7, <1>8, <1>9, <1>10, <1>11

LEMMA WakesInv ==
  ASSUME IInv, NEW t \in Thread, Deadlock(t) \/ Sleep(t) \/ Awake(t)
  PROVE  IInv'
<1>1. pc[t] \in Waiting
  BY DEF Deadlock, Sleep, Awake, Waiting
<1>2. lk \in [Lock -> Fields] /\ waitSet \subseteq Thread /\ loc[t].new \in Lock
  BY <1>1, WaitingIs
<1>3. ASSUME NEW s \in State, lk' = [lk EXCEPT ![loc[t].new].state = s]
      PROVE  lk' \in [Lock -> Fields] /\ \A l \in Lock : lk'[l].idPass = lk[l].idPass
  BY <1>2, <1>3, StateSet
<1>4. \A p \in {"give_up", "grant", "asleep"} : CallAt(p, loc[t]) /\ p \in Waiting \cup {"grant", "give_up"}
  BY FreeIs DEF Free
<1>5. CASE Deadlock(t)
  <2>1. lk' \in [Lock -> Fields] /\ \A l \in Lock : lk'[l].idPass = lk[l].idPass
    BY <1>3, <1>5 DEF Deadlock, State
  <2> QED
    BY <1>1, <1>2, <1>4, <1>5, <2>1, StayInv DEF Deadlock, shared
<1>6. CASE Sleep(t)
  <2>1. lk' \in [Lock -> Fields] /\ \A l \in Lock : lk'[l].idPass = lk[l].idPass
    BY <1>2, <1>3, <1>6 DEF Sleep, State
  <2>2. waitSet' \subseteq Thread
    BY <1>2, <1>6 DEF Sleep
  <2>3. PICK p \in {"grant", "asleep"} : Goto(t, p)
    BY <1>6 DEF Sleep
  <2> QED
    BY <1>1, <1>4, <1>6, <2>1, <2>2, <2>3, StayInv DEF Sleep
<1>7. CASE Awake(t)
  <2>1. lk' \in [Lock -> Fields] /\ \A l \in Lock : lk'[l].idPass = lk[l].idPass
    BY <1>3, <1>7 DEF Awake, State
  <2> QED
    BY <1>1, <1>2, <1>4, <1>7, <2>1, StayInv DEF Awake, shared
<1> QED
  BY <1>5, <1>6, <1>7

\* IsDeadlock only reads.
LEMMA SearchStep ==
  ASSUME IInv, NEW t \in Thread, pc[t] \in Waiting, NEW p \in Waiting, Goto(t, p),
         NEW m \in Locals, m.new = loc[t].new, loc' = [loc EXCEPT ![t] = m],
         CallAt(p, m), UNCHANGED <<lk, shared>>
  PROVE  IInv'
<1>1. lk \in [Lock -> Fields] /\ waitSet \subseteq Thread
  BY WaitingIs
<1> QED
  BY <1>1, WaitingStep DEF shared, Goto

LEMMA FillInv ==
  ASSUME IInv, NEW t \in Thread, Fill(t)
  PROVE  IInv'
<1>1. pc[t] = "fill" /\ pc[t] \in Waiting
  BY DEF Fill, Waiting
<1>2. loc[t] \in Locals /\ CallAt(pc[t], loc[t])
  BY <1>1, WaitingIs
<1>3. loc[t].i \in 1 .. Len(loc[t].vec) /\ loc[t].vec \in Seq(Lock) /\ loc[t].queue \in Seq(Lock)
  BY <1>1, <1>2 DEF CallAt, Locals
<1>4. Target(t) \in Lock /\ loc[t].i - 1 \in Nat
  BY <1>3 DEF Target
<1> DEFINE q == IF lk[Target(t)].state = "OBSOLETE" THEN loc[t].queue ELSE Append(loc[t].queue, Target(t))
           m == [loc[t] EXCEPT !.i = @ - 1, !.queue = q]
           p == IF loc[t].i = 1 THEN "pop" ELSE "fill"
<1>5. q \in Seq(Lock)
  BY <1>3, <1>4
<1>6. loc' = [loc EXCEPT ![t] = m] /\ Goto(t, p)
  BY DEF Fill
<1> HIDE DEF q
<1>7. m \in Locals /\ m.new = loc[t].new /\ m.i = loc[t].i - 1 /\ m.vec = loc[t].vec
  BY <1>2, <1>4, <1>5 DEF Locals
<1>8. loc[t].i # 1 => loc[t].i - 1 \in 1 .. Len(loc[t].vec)
  BY <1>3
<1>9. CallAt(p, m) /\ p \in Waiting
  BY <1>7, <1>8 DEF CallAt, Linking, HoldingMutex, Probing, Waiting
<1> HIDE DEF m, p
<1>10. UNCHANGED <<lk, shared>>
  BY DEF Fill
<1> QED
  BY <1>1, <1>6, <1>7, <1>9, <1>10, SearchStep

LEMMA PopInv ==
  ASSUME IInv, NEW t \in Thread, Pop(t)
  PROVE  IInv'
<1>1. pc[t] = "pop" /\ pc[t] \in Waiting /\ loc[t].queue # << >> /\ UNCHANGED <<lk, shared>>
  BY DEF Pop, Waiting
<1>2. loc[t] \in Locals /\ pc \in [Thread -> Place]
  BY <1>1, WaitingIs
<1>3. loc[t].queue \in Seq(Lock)
  BY <1>2 DEF Locals
<1> DEFINE q == Tail(loc[t].queue)
           w == Owner(loc[t].queue[1])
<1>4. q \in Seq(Lock) /\ loc[t].queue[1] \in Lock
  BY <1>1, <1>3
<1>5. w \in Thread
  BY <1>4, LockIs
<1>6. CASE loc' = [loc EXCEPT ![t].queue = Tail(@)] /\ UNCHANGED pc
  <2> DEFINE m == [loc[t] EXCEPT !.queue = q]
  <2>1. loc' = [loc EXCEPT ![t] = m] /\ Goto(t, "pop")
    BY <1>1, <1>2, <1>6 DEF Goto
  <2> HIDE DEF q
  <2>2. m \in Locals /\ m.new = loc[t].new
    BY <1>2, <1>4 DEF Locals
  <2>3. CallAt("pop", m) /\ "pop" \in Waiting
    BY FreeIs DEF Free
  <2> HIDE DEF m
  <2> QED
    BY <1>1, <2>1, <2>2, <2>3, SearchStep
<1>7. CASE loc' = [loc EXCEPT ![t].queue = Tail(@), ![t].who = Owner(loc[t].queue[1])] /\ Goto(t, "probe")
  <2> DEFINE m == [loc[t] EXCEPT !.queue = q, !.who = w]
  <2>1. loc' = [loc EXCEPT ![t] = m]
    BY <1>7
  <2> HIDE DEF q, w
  <2>2. m \in Locals /\ m.new = loc[t].new /\ m.who = w
    BY <1>2, <1>4, <1>5 DEF Locals
  <2>3. CallAt("probe", m) /\ "probe" \in Waiting
    BY <1>5, <2>2 DEF CallAt, Linking, HoldingMutex, Probing, Waiting
  <2> HIDE DEF m
  <2> QED
    BY <1>1, <1>7, <2>1, <2>2, <2>3, SearchStep
<1> QED
  BY <1>6, <1>7 DEF Pop

\* The search is over: the thread keeps only its new lock.
LEMMA SearchOver ==
  ASSUME IInv, NEW t \in Thread, pc[t] \in Waiting, NEW p \in {"sleep", "deadlock"}, Goto(t, p),
         loc' = [loc EXCEPT ![t] = [NoLocals EXCEPT !.new = loc[t].new]], UNCHANGED <<lk, shared>>
  PROVE  IInv'
<1> DEFINE m == [NoLocals EXCEPT !.new = loc[t].new]
<1>1. loc[t].new \in Lock
  BY WaitingIs
<1>2. m \in Locals /\ m.new = loc[t].new
  <2>1. NoLocals \in Locals
    BY LockIs DEF NoLocals, Locals, Node
  <2> QED
    BY <1>1, <2>1 DEF Locals
<1>3. CallAt(p, m) /\ p \in Waiting
  BY FreeIs DEF Free, Waiting
<1> HIDE DEF m
<1> QED
  BY <1>2, <1>3, SearchStep DEF m

LEMMA NoDeadlockInv ==
  ASSUME IInv, NEW t \in Thread, NoDeadlock(t)
  PROVE  IInv'
<1>1. pc[t] \in Waiting
  BY DEF NoDeadlock, Waiting
<1> QED
  BY <1>1, SearchOver DEF NoDeadlock

\* The thread is done with a transaction of the queue.
LEMMA PassedStepInv ==
  ASSUME IInv, NEW t \in Thread, pc[t] \in Waiting, NEW more \in Seq(Lock), Passed(t, more),
         loc[t].who \in Thread, UNCHANGED <<lk, shared>>
  PROVE  IInv'
<1>1. loc[t] \in Locals
  BY WaitingIs
<1>2. loc[t].queue \in Seq(Lock) /\ loc[t].passed \in SUBSET Thread
  BY <1>1 DEF Locals
<1> DEFINE q == loc[t].queue \o more
           d == loc[t].passed \cup {loc[t].who}
           m == [loc[t] EXCEPT !.queue = q, !.passed = d, !.who = NoThread, !.target = NoLock,
                               !.conf = NoLock, !.cid = 0, !.tmp = << >>]
<1>3. q \in Seq(Lock) /\ d \in SUBSET Thread /\ << >> \in Seq(Lock) /\ 0 \in Nat
  BY <1>2
<1>4. loc' = [loc EXCEPT ![t] = m] /\ Goto(t, "pop")
  BY DEF Passed
<1> HIDE DEF q, d
<1>5. m \in Locals /\ m.new = loc[t].new
  BY <1>1, <1>3 DEF Locals
<1>6. CallAt("pop", m) /\ "pop" \in Waiting
  BY FreeIs DEF Free, Waiting
<1> HIDE DEF m
<1> QED
  BY <1>4, <1>5, <1>6, SearchStep

LEMMA WalkAtInv ==
  ASSUME IInv, NEW t \in Thread, pc[t] \in Probing \ {"probe"}, NEW l \in Lock, NEW tmp \in Seq(Lock),
         WalkAt(t, l, tmp), UNCHANGED <<lk, shared>>
  PROVE  IInv'
<1>1. pc[t] \in Waiting
  BY DEF Probing, Waiting
<1>2. loc[t] \in Locals /\ CallAt(pc[t], loc[t])
  BY <1>1, WaitingIs
<1>3. loc[t].who \in Thread /\ loc[t].conf \in Lock /\ HasHead(Rec(loc[t].conf))
  BY <1>2 DEF CallAt
<1>4. CASE Passed(t, tmp)
  BY <1>1, <1>3, <1>4, PassedStepInv
<1>5. CASE loc' = [loc EXCEPT ![t].target = l, ![t].tmp = tmp] /\ Goto(t, "walk")
  <2> DEFINE m == [loc[t] EXCEPT !.target = l, !.tmp = tmp]
  <2>1. loc' = [loc EXCEPT ![t] = m]
    BY <1>5
  <2>2. m \in Locals /\ m.new = loc[t].new /\ m.target = l /\ m.who = loc[t].who /\ m.conf = loc[t].conf
    BY <1>2 DEF Locals
  <2>3. CallAt("walk", m) /\ "walk" \in Waiting
    BY <1>3, <2>2 DEF CallAt, Linking, HoldingMutex, Probing, Waiting
  <2> HIDE DEF m
  <2> QED
    BY <1>1, <1>5, <2>1, <2>2, <2>3, SearchStep
<1> QED
  BY <1>4, <1>5 DEF WalkAt

\* What a thread knows that looks at another transaction.
LEMMA ProbingIs ==
  ASSUME IInv, NEW t \in Thread, pc[t] \in Probing
  PROVE  /\ pc[t] \in Waiting /\ loc[t] \in Locals /\ loc[t].who \in Thread
         /\ pc[t] # "probe" => /\ loc[t].conf \in Lock /\ HasHead(Rec(loc[t].conf))
                               /\ head[Rec(loc[t].conf)] \in Lock
         /\ pc[t] \in {"walk", "walk_next", "walk_id", "walk_head"} => loc[t].target \in Lock
         /\ lk \in [Lock -> Fields] /\ pc \in [Thread -> Place]
<1>1. pc[t] \in Waiting
  BY DEF Probing, Waiting
<1>2. loc[t] \in Locals /\ CallAt(pc[t], loc[t]) /\ Types
  BY <1>1, WaitingIs
<1>3. pc[t] # "probe" => loc[t].conf \in Lock /\ HasHead(Rec(loc[t].conf))
  BY <1>2 DEF CallAt
<1>4. pc[t] # "probe" => head[Rec(loc[t].conf)] \in Lock
  BY <1>2, <1>3, LockIs DEF Types, Node, HasHead
<1> QED
  BY <1>1, <1>2, <1>3, <1>4 DEF CallAt, Types

\* A step of the walk that sets some locals, but who, conf and new.
LEMMA ProbeOn ==
  ASSUME IInv, NEW t \in Thread, pc[t] \in Probing, NEW p \in Probing \ {"probe"}, Goto(t, p),
         NEW m \in Locals, loc' = [loc EXCEPT ![t] = m], m.new = loc[t].new, m.who = loc[t].who,
         m.conf \in Lock, HasHead(Rec(m.conf)),
         p \in {"walk", "walk_next", "walk_id", "walk_head"} => m.target \in Lock,
         UNCHANGED <<lk, shared>>
  PROVE  IInv'
<1>1. pc[t] \in Waiting /\ loc[t].who \in Thread
  BY ProbingIs
<1>2. p \in Waiting
  BY DEF Probing, Waiting
<1>3. CallAt(p, m)
  BY <1>1 DEF CallAt, Probing, Linking, HoldingMutex
<1> QED
  BY <1>1, <1>2, <1>3, SearchStep

LEMMA ProbeInv ==
  ASSUME IInv, NEW t \in Thread, Probe(t) \/ ProbeId(t) \/ ProbeHead(t)
  PROVE  IInv'
<1>1. pc[t] \in Probing /\ UNCHANGED <<lk, shared>>
  BY DEF Probe, ProbeId, ProbeHead, Probing
<1>2. /\ pc[t] \in Waiting /\ loc[t] \in Locals /\ loc[t].who \in Thread
      /\ pc[t] # "probe" => /\ loc[t].conf \in Lock /\ HasHead(Rec(loc[t].conf))
                            /\ head[Rec(loc[t].conf)] \in Lock
      /\ lk \in [Lock -> Fields]
  BY <1>1, ProbingIs
<1>3. << >> \in Seq(Lock)
  OBVIOUS
<1>4. CASE Probe(t)
  <2>1. CASE conflict[loc[t].who] = NoLock
    BY <1>1, <1>2, <1>3, <1>4, <2>1, PassedStepInv DEF Probe
  <2>2. CASE conflict[loc[t].who] # NoLock
    <3> DEFINE c == conflict[loc[t].who]
               m == [loc[t] EXCEPT !.conf = c]
    <3>1. c \in Lock /\ HasHead(Rec(c))
      BY <1>2, <2>2 DEF IInv, Types, LockInv, Node
    <3>2. loc' = [loc EXCEPT ![t] = m] /\ Goto(t, "probe_id")
      BY <1>4, <2>2 DEF Probe
    <3> HIDE DEF c
    <3>3. m \in Locals /\ m.new = loc[t].new /\ m.who = loc[t].who /\ m.conf = c
      BY <1>2, <3>1 DEF Locals
    <3> HIDE DEF m
    <3> QED
      <4>1. "probe_id" \in Probing \ {"probe"} /\ "probe_id" \notin {"walk", "walk_next", "walk_id", "walk_head"}
        BY DEF Probing
      <4> QED
        BY <1>1, <3>1, <3>2, <3>3, <4>1, ProbeOn
  <2> QED
    BY <2>1, <2>2
<1>5. CASE ProbeId(t)
  <2> DEFINE c == lk[loc[t].conf].id
             m == [loc[t] EXCEPT !.cid = c]
  <2>1. pc[t] = "probe_id"
    BY <1>5 DEF ProbeId
  <2>2. c \in Nat
    BY <1>2, <2>1 DEF Fields
  <2>3. loc' = [loc EXCEPT ![t] = m] /\ Goto(t, "probe_head")
    BY <1>5 DEF ProbeId
  <2> HIDE DEF c
  <2>4. m \in Locals /\ m.new = loc[t].new /\ m.who = loc[t].who /\ m.conf = loc[t].conf
    BY <1>2, <2>2 DEF Locals
  <2> HIDE DEF m
  <2> QED
    <3>1. "probe_head" \in Probing \ {"probe"} /\ "probe_head" \notin {"walk", "walk_next", "walk_id", "walk_head"}
      BY DEF Probing
    <3>2. pc[t] # "probe"
      BY <2>1
    <3> QED
      BY <1>1, <1>2, <2>3, <2>4, <3>1, <3>2, ProbeOn
<1>6. CASE ProbeHead(t)
  <2>1. pc[t] = "probe_head" /\ WalkAt(t, head[Rec(loc[t].conf)], << >>)
    BY <1>6 DEF ProbeHead
  <2>2. pc[t] \in Probing \ {"probe"}
    BY <2>1 DEF Probing
  <2> QED
    BY <1>1, <1>2, <1>3, <2>1, <2>2, WalkAtInv
<1> QED
  BY <1>4, <1>5, <1>6

LEMMA WalkInv ==
  ASSUME IInv, NEW t \in Thread, Walk(t) \/ WalkNext(t) \/ WalkId(t) \/ WalkAgain(t) \/ WalkHead(t)
  PROVE  IInv'
<1>1. pc[t] \in Probing \ {"probe"} /\ UNCHANGED <<lk, shared>>
  BY DEF Walk, WalkNext, WalkId, WalkAgain, WalkHead, Probing
<1>2. /\ pc[t] \in Waiting /\ loc[t] \in Locals /\ loc[t].who \in Thread
      /\ loc[t].conf \in Lock /\ HasHead(Rec(loc[t].conf)) /\ head[Rec(loc[t].conf)] \in Lock
      /\ pc[t] \in {"walk", "walk_next", "walk_id", "walk_head"} => loc[t].target \in Lock
      /\ lk \in [Lock -> Fields]
  BY <1>1, ProbingIs
<1>3. << >> \in Seq(Lock) /\ loc[t].tmp \in Seq(Lock)
  BY <1>2 DEF Locals
<1>4. ASSUME Passed(t, << >>) PROVE IInv'
  BY <1>1, <1>2, <1>3, <1>4, PassedStepInv
<1>5. ASSUME NEW l \in Lock \cup {NoLock}, NEW tmp \in Seq(Lock), NEW p \in Probing \ {"probe"},
             loc' = [loc EXCEPT ![t].target = l, ![t].tmp = tmp], Goto(t, p),
             p \in {"walk", "walk_next", "walk_id", "walk_head"} => l \in Lock
      PROVE  IInv'
  <2> DEFINE m == [loc[t] EXCEPT !.target = l, !.tmp = tmp]
  <2>1. loc' = [loc EXCEPT ![t] = m]
    BY <1>5
  <2>2. m \in Locals /\ m.new = loc[t].new /\ m.who = loc[t].who /\ m.conf = loc[t].conf /\ m.target = l
    BY <1>2 DEF Locals
  <2> HIDE DEF m
  <2> QED
    BY <1>1, <1>2, <1>5, <2>1, <2>2, ProbeOn
<1>6. CASE Walk(t)
  <2>1. pc[t] = "walk" /\ loc[t].target \in Lock
    BY <1>2, <1>6 DEF Walk
  <2>2. CASE Goto(t, "deadlock") /\ loc' = [loc EXCEPT ![t] = [NoLocals EXCEPT !.new = loc[t].new]]
    BY <1>1, <1>2, <2>2, SearchOver
  <2>3. CASE Goto(t, "walk_next") /\ loc' = [loc EXCEPT ![t].tmp = Append(@, loc[t].target)]
    <3> DEFINE s == Append(loc[t].tmp, loc[t].target)
               m == [loc[t] EXCEPT !.tmp = s]
    <3>1. s \in Seq(Lock)
      BY <1>3, <2>1
    <3>2. loc' = [loc EXCEPT ![t] = m]
      BY <2>3
    <3> HIDE DEF s
    <3>3. m \in Locals /\ m.new = loc[t].new /\ m.who = loc[t].who /\ m.conf = loc[t].conf /\ m.target = loc[t].target
      BY <1>2, <3>1 DEF Locals
    <3> HIDE DEF m
    <3> QED
      BY <1>1, <1>2, <2>1, <2>3, <3>2, <3>3, ProbeOn DEF Probing
  <2> QED
    BY <1>4, <1>6, <2>2, <2>3 DEF Walk
<1>7. CASE WalkNext(t)
  <2> DEFINE l == lk[loc[t].target].next
             s == IF l = NoLock THEN << >> ELSE loc[t].tmp
             p == IF l = NoLock THEN "walk_again" ELSE "walk_id"
  <2>1. l \in Lock \cup {NoLock}
    BY <1>2, <1>7 DEF WalkNext, Fields
  <2>2. loc' = [loc EXCEPT ![t].target = l, ![t].tmp = s] /\ Goto(t, p)
    BY <1>7 DEF WalkNext
  <2>3. s \in Seq(Lock)
    BY <1>3
  <2>4. p \in Probing \ {"probe"} /\ (p \in {"walk", "walk_next", "walk_id", "walk_head"} => l \in Lock)
    BY <2>1 DEF Probing
  <2> HIDE DEF l, s, p
  <2> QED
    BY <1>5, <2>1, <2>2, <2>3, <2>4
<1>8. CASE WalkId(t)
  <2>1. loc[t].target \in Lock /\ pc[t] = "walk_id"
    BY <1>2, <1>8 DEF WalkId
  <2>2. CASE lk[loc[t].target].id > loc[t].cid
    <3>1. loc' = [loc EXCEPT ![t].target = NoLock, ![t].tmp = << >>] /\ Goto(t, "walk_again")
      BY <1>8, <2>2 DEF WalkId
    <3> QED
      <4>1. "walk_again" \in Probing \ {"probe"} /\ "walk_again" \notin {"walk", "walk_next", "walk_id", "walk_head"}
        BY DEF Probing
      <4> QED
        BY <1>3, <1>5, <3>1, <4>1
  <2>3. CASE ~(lk[loc[t].target].id > loc[t].cid)
    BY <1>1, <1>3, <1>8, <2>1, <2>3, WalkAtInv DEF WalkId
  <2> QED
    BY <2>2, <2>3
<1>9. CASE WalkAgain(t)
  <2> DEFINE h == head[Rec(loc[t].conf)]
             m == [loc[t] EXCEPT !.target = h]
  <2>1. loc' = [loc EXCEPT ![t] = m] /\ Goto(t, "walk_head")
    BY <1>9 DEF WalkAgain
  <2>2. h \in Lock
    BY <1>2
  <2> HIDE DEF h
  <2>3. m \in Locals /\ m.new = loc[t].new /\ m.who = loc[t].who /\ m.conf = loc[t].conf /\ m.target = h
    BY <1>2, <2>2 DEF Locals
  <2> HIDE DEF m
  <2> QED
    BY <1>1, <1>2, <2>1, <2>2, <2>3, ProbeOn DEF Probing
<1>10. CASE WalkHead(t)
  <2>1. loc[t].target \in Lock
    BY <1>2, <1>10 DEF WalkHead
  <2>2. Passed(t, << >>) \/ WalkAt(t, loc[t].target, << >>)
    BY <1>10 DEF WalkHead
  <2> QED
    BY <1>1, <1>3, <1>4, <2>1, <2>2, WalkAtInv
<1> QED
  BY <1>6, <1>7, <1>8, <1>9, <1>10

\* What a thread knows of itself from the choice of a lock object on.
LEMMA CallIs ==
  ASSUME IInv, NEW t \in Thread
  PROVE  /\ Types /\ ProgramInv(t) /\ LockInv(t) /\ CallAt(pc[t], loc[t]) /\ HeadInv(t)
         /\ pc \in [Thread -> Place] /\ loc \in [Thread -> Locals] /\ loc[t] \in Locals
         /\ lk \in [Lock -> Fields] /\ waitSet \subseteq Thread
         /\ conflict \in [Thread -> Node] /\ deque \in [Thread -> Seq(Lock)] /\ trx \in [Thread -> Nat \ {0}]
         /\ mutex \in [Record -> Thread \cup {NoThread}]
         /\ pc[t] \in Renewing \cup Headless \cup Joined =>
              loc[t].new \in Lock /\ Owner(loc[t].new) = t /\ Rec(loc[t].new) \in Record
BY LockIs DEF IInv, Types, LockInv, CallInv

\* A step that leaves deque, trx and the locals alone, and has no mutex.
LEMMA OwnStep ==
  ASSUME IInv, NEW t \in Thread, NEW p \in Place, Goto(t, p), loc' = loc,
         lk' \in [Lock -> Fields], \A l \in Lock : lk'[l].idPass = lk[l].idPass,
         UNCHANGED <<head, tail, saved, waitSet, mutex, deque, trx>>, conflict' \in [Thread -> Node],
         \A u \in Thread \ {t} : conflict'[u] = conflict[u],
         p \in Linking => pc[t] \in Linking,
         p \in Renewing \cup {"swap"} => pc[t] \in Renewing \cup {"swap"},
         p # "first", p \notin HoldingMutex,
         ProgramInv(t)', LockInv(t)', CallAt(p, loc[t])
  PROVE  IInv'
<1>1. /\ Types /\ loc \in [Thread -> Locals] /\ loc[t] \in Locals /\ waitSet \subseteq Thread
      /\ deque \in [Thread -> Seq(Lock)] /\ trx \in [Thread -> Nat \ {0}] /\ pc \in [Thread -> Place]
      /\ mutex \in [Record -> Thread \cup {NoThread}]
  BY CallIs
<1>2. loc' = [loc EXCEPT ![t] = loc[t]] /\ pc' = [pc EXCEPT ![t] = p] /\ pc'[t] = p
  BY <1>1 DEF Goto
<1>3. HeadInv(t)'
  BY <1>2 DEF HeadInv, HoldingMutex
<1> QED
  BY <1>1, <1>2, <1>3, QuietStep

LEMMA RenewInv ==
  ASSUME IInv, NEW t \in Thread, RenewState(t) \/ RenewNext(t)
  PROVE  IInv'
<1>1. pc[t] \in {"renew_state", "renew_next"} /\ pc[t] \in Renewing /\ UNCHANGED <<shared, loc>>
  BY DEF RenewState, RenewNext, Renewing
<1>2. /\ ProgramInv(t) /\ LockInv(t) /\ pc \in [Thread -> Place] /\ lk \in [Lock -> Fields]
      /\ conflict \in [Thread -> Node] /\ loc[t].new \in Lock
  BY <1>1, CallIs
<1>3. PICK p \in {"renew_next", "mode"} : Goto(t, p)
  BY DEF RenewState, RenewNext
<1>4. lk' \in [Lock -> Fields] /\ \A l \in Lock : lk'[l].idPass = lk[l].idPass
  <2>1. CASE RenewState(t)
    BY <1>2, <2>1, StateSet DEF RenewState, State
  <2>2. CASE RenewNext(t)
    <3> DEFINE n == loc[t].new
               m == [lk[n] EXCEPT !.next = NoLock, !.headPass = FALSE, !.signal = FALSE]
    <3>1. lk' = [lk EXCEPT ![n] = m]
      BY <1>2, <2>2 DEF RenewNext
    <3>2. m \in Fields /\ m.idPass = lk[n].idPass
      BY <1>2 DEF Fields
    <3> QED
      BY <1>2, <3>1, <3>2
  <2> QED
    BY <2>1, <2>2
<1>5. /\ p \in Place /\ p \notin Linking /\ p # "first" /\ p \notin HoldingMutex /\ p \in Renewing
      /\ p \notin Headless \cup Joined /\ p \notin Freeing /\ p # "done" /\ p # "pick"
      /\ pc[t] # "done" /\ pc[t] \notin Headless /\ pc[t] \notin Waiting \cup {"grant", "give_up"}
  BY <1>1 DEF Place, Linking, HoldingMutex, Renewing, Headless, Joined, Freeing, Waiting
<1>6. pc'[t] = p
  BY <1>2, <1>3 DEF Goto
<1>7. ProgramInv(t)'
  BY <1>1, <1>2, <1>5, <1>6 DEF ProgramInv, Program, shared
<1>8. LockInv(t)'
  BY <1>1, <1>2, <1>5, <1>6 DEF LockInv, HasHead, Created, shared
<1>9. CallAt(p, loc[t])
  BY <1>3 DEF CallAt, Linking, HoldingMutex, Probing
<1> QED
  BY <1>1, <1>2, <1>3, <1>4, <1>5, <1>7, <1>8, <1>9, OwnStep DEF shared

LEMMA LinkStepInv ==
  ASSUME IInv, NEW t \in Thread, Link(t) \/ AwaitId(t) \/ SetConflict(t)
  PROVE  IInv'
<1>1. pc[t] \in {"link", "await_id", "conflict"} /\ UNCHANGED <<head, tail, saved, waitSet, mutex, deque, trx, loc>>
  BY DEF Link, AwaitId, SetConflict, shared
<1>2. pc[t] \in Headless \cup Joined /\ pc[t] # "done"
  BY <1>1 DEF Headless, Joined
<1>3. /\ ProgramInv(t) /\ LockInv(t) /\ pc \in [Thread -> Place] /\ lk \in [Lock -> Fields] /\ CallAt(pc[t], loc[t])
      /\ conflict \in [Thread -> Node] /\ loc[t].new \in Lock /\ Rec(loc[t].new) \in Record
      /\ deque[t] \in Seq(Lock)
  BY <1>2, CallIs
<1>4. conflict[t] = NoLock
  BY <1>1, <1>3 DEF LockInv, Waiting
<1>5. CASE Link(t)
  <2>1. pc[t] = "link" /\ loc[t].prev \in Lock
    BY <1>3, <1>5 DEF Link, CallAt, Linking
  <2>2. lk' \in [Lock -> Fields] /\ \A l \in Lock : lk'[l].idPass = lk[l].idPass
    <3> DEFINE n == loc[t].prev
               m == [lk[n] EXCEPT !.next = loc[t].new]
    <3>1. lk' = [lk EXCEPT ![n] = m]
      BY <1>5 DEF Link
    <3>2. m \in Fields /\ m.idPass = lk[n].idPass
      <4>1. lk[n] \in Fields /\ loc[t].new \in Lock
        BY <1>3, <2>1
      <4> QED
        BY <4>1 DEF Fields
    <3> QED
      BY <1>3, <2>1, <3>1, <3>2
  <2>3. pc'[t] = "await_id" /\ conflict' = conflict
    BY <1>3, <1>5 DEF Link, Goto, shared
  <2>4. ProgramInv(t)'
    BY <1>1, <1>2, <1>3, <2>3 DEF ProgramInv, Program, Freeing, HoldingMutex, Renewing
  <2>5. LockInv(t)'
    BY <1>1, <1>2, <1>3, <1>4, <2>1, <2>3 DEF LockInv, HasHead, Created, Headless, Joined, Waiting
  <2>6. CallAt("await_id", loc[t])
    BY <2>1 DEF CallAt, Linking, HoldingMutex, Probing
  <2>7. "await_id" \in Place \ (Renewing \cup {"swap"} \cup HoldingMutex) /\ pc[t] \in Linking
    BY <2>1 DEF Place, Joining, Renewing, HoldingMutex, Linking
  <2> QED
    BY <1>1, <1>3, <1>5, <2>2, <2>3, <2>4, <2>5, <2>6, <2>7, OwnStep DEF Link
<1>6. CASE AwaitId(t)
  <2>1. pc[t] = "await_id" /\ loc[t].prev \in Lock /\ HasHead(Rec(loc[t].new))
    BY <1>3, <1>6 DEF AwaitId, CallAt, Linking, HasHead
  <2>2. lk' \in [Lock -> Fields] /\ \A l \in Lock : lk'[l].idPass = lk[l].idPass
    <3> DEFINE n == loc[t].new
               i == NextId(lk[loc[t].prev].id)
               m == [lk[n] EXCEPT !.id = i]
    <3>1. lk' = [lk EXCEPT ![n] = m]
      BY <1>6 DEF AwaitId
    <3>2. i \in Nat
      BY <1>3, <2>1 DEF Fields, NextId
    <3> HIDE DEF i
    <3>3. m \in Fields /\ m.idPass = lk[n].idPass
      BY <1>3, <3>2 DEF Fields
    <3> QED
      BY <1>3, <3>1, <3>3
  <2>3. pc'[t] = "pass_id" /\ conflict' = conflict
    BY <1>3, <1>6 DEF AwaitId, Goto, shared
  <2>4. ProgramInv(t)'
    BY <1>1, <1>2, <1>3, <2>3 DEF ProgramInv, Program, Freeing, HoldingMutex, Renewing
  <2>5. LockInv(t)'
    BY <1>1, <1>2, <1>3, <1>4, <2>1, <2>3 DEF LockInv, HasHead, Created, Headless, Joined, Waiting
  <2>6. CallAt("pass_id", loc[t])
    BY <2>1 DEF CallAt, Linking, HoldingMutex, Probing
  <2>7. "pass_id" \in Place \ (Renewing \cup {"swap"} \cup HoldingMutex) /\ pc[t] \in Linking
    BY <2>1 DEF Place, Joining, Renewing, HoldingMutex, Linking
  <2> QED
    BY <1>1, <1>3, <1>6, <2>2, <2>3, <2>4, <2>5, <2>6, <2>7, OwnStep DEF AwaitId
<1>7. CASE SetConflict(t)
  <2>1. pc[t] = "conflict" /\ HasHead(Rec(loc[t].new)) /\ lk' = lk
    BY <1>3, <1>7 DEF SetConflict, LockInv, Joined
  <2>2. conflict' \in [Thread -> Node] /\ conflict'[t] = loc[t].new /\ \A u \in Thread \ {t} : conflict'[u] = conflict[u]
    BY <1>3, <1>7 DEF SetConflict, Node
  <2>3. pc'[t] = "head"
    BY <1>3, <1>7 DEF SetConflict, Goto
  <2>4. ProgramInv(t)'
    BY <1>1, <1>2, <1>3, <2>3 DEF ProgramInv, Program, Freeing, HoldingMutex, Renewing
  <2>5. LockInv(t)'
    BY <1>1, <1>2, <1>3, <2>1, <2>2, <2>3 DEF LockInv, HasHead, Created, Headless, Joined, Waiting
  <2>6. CallAt("head", loc[t])
    BY DEF CallAt, Linking, HoldingMutex, Probing
  <2>7. "head" \in Place \ (Renewing \cup {"swap"} \cup HoldingMutex \cup Linking)
    BY DEF Place, Waiting, Renewing, HoldingMutex, Linking
  <2> QED
    BY <1>1, <1>3, <1>7, <2>1, <2>2, <2>4, <2>5, <2>6, <2>7, OwnStep DEF SetConflict
<1> QED
  BY <1>5, <1>6, <1>7

LEMMA SetModeInv ==
  ASSUME IInv, NEW t \in Thread, SetMode(t)
  PROVE  IInv'
<1> DEFINE n == loc[t].new
           s == Append(deque[t], n)
<1>1. pc[t] = "mode" /\ UNCHANGED <<head, tail, mutex, conflict, waitSet, saved, trx, loc>>
  BY DEF SetMode
<1>2. pc[t] \in Renewing /\ pc[t] # "done" /\ pc[t] \notin Waiting \cup {"grant", "give_up"} /\ pc[t] \notin Headless
  BY <1>1 DEF Renewing, Waiting, Headless
<1>3. /\ Types /\ ProgramInv(t) /\ LockInv(t) /\ pc \in [Thread -> Place] /\ loc \in [Thread -> Locals]
      /\ lk \in [Lock -> Fields] /\ deque \in [Thread -> Seq(Lock)] /\ n \in Lock /\ loc[t] \in Locals
      /\ waitSet \subseteq Thread /\ conflict \in [Thread -> Node] /\ trx \in [Thread -> Nat \ {0}]
      /\ mutex \in [Record -> Thread \cup {NoThread}]
  BY <1>2, CallIs
<1>4. /\ trx[t] \in 1 .. Len(Programs[t]) /\ Len(deque[t]) < Len(Program(t))
      /\ Len(deque[t]) \in Nat /\ deque[t] \in Seq(Lock)
  BY <1>2, <1>3, ProgramIs DEF ProgramInv
<1>5. Program(t) \in Seq(Request)
  BY <1>4, ProgramIs DEF Program
<1>6. Wanted(t) \in Request
  BY <1>4, <1>5 DEF Wanted
<1>7. lk' \in [Lock -> Fields] /\ \A l \in Lock : lk'[l].idPass = lk[l].idPass
  <2> DEFINE w == Wanted(t).mode
             m == [lk[n] EXCEPT !.mode = w]
  <2>1. w \in Mode
    BY <1>6 DEF Request
  <2>2. lk' = [lk EXCEPT ![n] = m]
    BY DEF SetMode
  <2> HIDE DEF w
  <2>3. m \in Fields /\ m.idPass = lk[n].idPass
    <3>1. lk[n] \in Fields
      BY <1>3
    <3> HIDE DEF n
    <3> QED
      BY <2>1, <3>1 DEF Fields
  <2> QED
    BY <1>3, <2>2, <2>3
<1>8. deque' = [deque EXCEPT ![t] = s]
  BY DEF SetMode
<1>9. s \in Seq(Lock) /\ Len(s) = Len(deque[t]) + 1 /\ Len(s) <= Len(Program(t)) /\ Len(s) > 0
      /\ \A k \in 1 .. Len(s) : IF k \in 1 .. Len(deque[t]) THEN s[k] = deque[t][k] ELSE s[k] = n
  BY <1>3, <1>4, <1>5
<1> HIDE DEF s
<1>10. deque'[t] = s /\ deque' \in [Thread -> Seq(Lock)] /\ \A u \in Thread \ {t} : deque'[u] = deque[u]
  BY <1>3, <1>8, <1>9
<1>11. pc'[t] = "swap" /\ Goto(t, "swap")
  BY <1>3 DEF SetMode, Goto
<1>12. ProgramInv(t)'
  BY <1>1, <1>2, <1>3, <1>9, <1>10, <1>11 DEF ProgramInv, Program, Freeing, HoldingMutex, Renewing
<1>13. LockInv(t)'
  <2>1. \A k \in 1 .. Len(deque[t]) : head[Rec(deque[t][k])] # NoLock
    BY <1>2, <1>3 DEF LockInv, HasHead
  <2>2. \A k \in 1 .. Len(s) : head[Rec(s[k])] # NoLock \/ s[k] = n
    BY <1>9, <2>1
  <2>3. conflict[t] = NoLock
    BY <1>2, <1>3 DEF LockInv
  <2>4. n \in Lock /\ Owner(n) = t /\ Created(n)
    BY <1>2, <1>3 DEF LockInv
  <2> QED
    BY <1>1, <1>10, <1>11, <2>2, <2>3, <2>4 DEF LockInv, HasHead, Created, Headless, Joined, Waiting
<1>14. CallAt("swap", loc[t])
  BY DEF CallAt, Linking, HoldingMutex, Probing
<1>15. "swap" \in Place \ (Linking \cup HoldingMutex) /\ "mode" \in Renewing
  BY DEF Place, Joining, Linking, HoldingMutex, Renewing
<1>16. HeadInv(t)'
  BY <1>11 DEF HeadInv, HoldingMutex
<1>17. loc' = [loc EXCEPT ![t] = loc[t]] /\ pc' = [pc EXCEPT ![t] = "swap"]
  BY <1>1, <1>3, <1>11 DEF Goto
<1> HIDE DEF n
<1> QED
  BY <1>1, <1>2, <1>3, <1>7, <1>10, <1>12, <1>13, <1>14, <1>15, <1>16, <1>17, QuietStep

\* AcquireLock returns.
LEMMA GrantInv ==
  ASSUME IInv, NEW t \in Thread, Grant(t) \/ GiveUp(t)
  PROVE  IInv'
<1>1. pc[t] \in {"grant", "give_up"} /\ UNCHANGED <<lk, head, tail, mutex, waitSet, saved, deque, trx>>
  BY DEF Grant, GiveUp
<1>2. pc[t] \in Joined /\ pc[t] # "done" /\ pc[t] \notin Headless
  BY <1>1 DEF Joined, Headless
<1>3. /\ Types /\ ProgramInv(t) /\ LockInv(t) /\ pc \in [Thread -> Place] /\ loc \in [Thread -> Locals]
      /\ lk \in [Lock -> Fields] /\ deque \in [Thread -> Seq(Lock)]
      /\ waitSet \subseteq Thread /\ conflict \in [Thread -> Node] /\ trx \in [Thread -> Nat \ {0}]
      /\ mutex \in [Record -> Thread \cup {NoThread}]
  BY CallIs
<1>4. PICK p \in {"pick", "release"} : /\ Goto(t, p)
                                       /\ p = "pick" => Len(deque[t]) # Len(Program(t))
  BY DEF Grant, GiveUp
<1>5. conflict' = [conflict EXCEPT ![t] = NoLock] /\ loc' = [loc EXCEPT ![t] = NoLocals]
  BY DEF Grant, GiveUp
<1>6. NoLocals \in Locals /\ NoLocals.i = 1
  BY LockIs DEF NoLocals, Locals, Node
<1>7. conflict' \in [Thread -> Node] /\ conflict'[t] = NoLock /\ \A u \in Thread \ {t} : conflict'[u] = conflict[u]
  BY <1>3, <1>5 DEF Node
<1>8. pc'[t] = p /\ loc'[t] = NoLocals
  BY <1>3, <1>4, <1>5 DEF Goto
<1>9. /\ p \in Place /\ p \notin Linking /\ p \notin Renewing \cup Headless \cup Joined /\ p \notin HoldingMutex
      /\ p \notin Renewing \cup {"swap"} /\ p # "first"
  BY DEF Place, Linking, Renewing, Headless, Joined, HoldingMutex, Waiting
<1>10. ProgramInv(t)'
  <2>1. /\ trx[t] \in 1 .. Len(Programs[t]) /\ Len(deque[t]) <= Len(Program(t))
        /\ Len(deque[t]) \in Nat /\ Len(deque[t]) > 0
    BY <1>2, <1>3, ProgramIs DEF ProgramInv
  <2>2. Len(Program(t)) \in Nat
    BY <2>1, ProgramIs DEF Program
  <2>3. p = "pick" => Len(deque[t]) < Len(Program(t))
    BY <1>4, <2>1, <2>2
  <2>4. 1 \in 1 .. Len(deque[t])
    BY <2>1
  <2>5. Program(t)' = Program(t)
    BY <1>1 DEF Program
  <2> QED
    BY <1>1, <1>6, <1>8, <1>9, <2>1, <2>3, <2>4, <2>5 DEF ProgramInv, Freeing
<1>11. LockInv(t)'
  BY <1>1, <1>2, <1>3, <1>7, <1>8, <1>9 DEF LockInv, HasHead
<1>12. CallAt(p, NoLocals)
  BY <1>6, <1>9 DEF CallAt, Linking, HoldingMutex, Probing
<1>13. HeadInv(t)'
  BY <1>8, <1>9 DEF HeadInv, HoldingMutex
<1> QED
  BY <1>1, <1>3, <1>4, <1>5, <1>6, <1>7, <1>9, <1>10, <1>11, <1>12, <1>13, QuietStep DEF Goto

\* What the steps of t that write a list or its vector leave to show.
LEMMA OwnRest ==
  ASSUME IInv, NEW t \in Thread, Others(t), Grows, Types', FirstInv', PassInv', head' = head, mutex' = mutex,
         ProgramInv(t)', LockInv(t)', CallInv(t)', HeadInv(t)'
  PROVE  IInv'
<1>1. \A u \in Thread : u # t => ProgramInv(u)' /\ LockInv(u)' /\ CallInv(u)' /\ HeadInv(u)'
  BY OthersKept, HeadKept
<1> QED
  BY <1>1 DEF IInv

\* The record a thread wants a lock for.
LEMMA WantedIs ==
  ASSUME IInv, NEW t \in Thread, pc[t] = "pick"
  PROVE  /\ Len(deque[t]) < Len(Program(t)) /\ trx[t] <= Len(Programs[t])
         /\ Wanted(t) \in Request /\ Wanted(t).rec \in Record
<1>1. Types /\ ProgramInv(t)
  BY CallIs
<1>2. trx[t] \in 1 .. Len(Programs[t]) /\ deque[t] \in Seq(Lock)
  BY <1>1, ProgramIs DEF ProgramInv, Types
<1>3. Len(deque[t]) < Len(Program(t)) /\ Len(deque[t]) \in Nat
  BY <1>1, <1>2 DEF ProgramInv
<1>4. Program(t) \in Seq(Request)
  BY <1>2, ProgramIs DEF Program
<1>5. Wanted(t) \in Request
  BY <1>3, <1>4 DEF Wanted
<1> QED
  BY <1>2, <1>3, <1>5 DEF Request

\* The thread that takes lock n for its request.
LEMMA TakesInv ==
  ASSUME IInv, NEW t \in Thread, pc[t] = "pick", NEW n \in Lock, Owner(n) = t, Created(n)', Grows,
         NEW p \in {"mode", "renew_state"}, Goto(t, p), loc' = [loc EXCEPT ![t].new = n],
         UNCHANGED <<head, tail, mutex, conflict, waitSet, deque, trx>>,
         lk' \in [Lock -> Fields], saved' \in [Thread -> [Record -> 0 .. MaxLocks]],
         \A l \in Lock : lk'[l].idPass => lk[l].idPass,
         ~lk'[n].idPass, \A r \in Record : tail[r] # n,
         \A u \in Thread : pc[u] \in Linking => loc[u].prev # n
  PROVE  IInv'
<1> DEFINE m == [loc[t] EXCEPT !.new = n]
<1>1. /\ Types /\ ProgramInv(t) /\ LockInv(t) /\ loc \in [Thread -> Locals] /\ loc[t] \in Locals
      /\ pc \in [Thread -> Place] /\ FirstInv /\ PassInv
  BY CallIs DEF IInv
<1>2. m \in Locals /\ m.new = n
  BY <1>1 DEF Locals
<1>3. loc' = [loc EXCEPT ![t] = m] /\ pc' = [pc EXCEPT ![t] = p]
  BY DEF Goto
<1> HIDE DEF m
<1>4. loc'[t] = m /\ pc'[t] = p /\ \A u \in Thread \ {t} : pc'[u] = pc[u] /\ loc'[u] = loc[u]
  BY <1>1, <1>3
<1>5. /\ p \in Place /\ p \notin Linking /\ p \notin Headless \cup Joined /\ p \notin HoldingMutex
      /\ p \in Renewing /\ p # "first" /\ p \notin Freeing /\ p # "done" /\ p # "pick"
      /\ p \notin Probing
  BY DEF Place, Linking, Renewing, Headless, Joined, HoldingMutex, Waiting, Freeing, Probing
<1>6. Others(t)
  BY <1>4 DEF Others
<1>7. Types'
  <2>1. pc' \in [Thread -> Place] /\ loc' \in [Thread -> Locals]
    <3>1. pc' = [pc EXCEPT ![t] = p] /\ p \in Place /\ pc \in [Thread -> Place]
      BY <1>1, <1>3, <1>5
    <3>2. loc' = [loc EXCEPT ![t] = m] /\ m \in Locals /\ loc \in [Thread -> Locals]
      BY <1>1, <1>2, <1>3
    <3>3. pc' \in [Thread -> Place]
      BY <3>1
    <3>4. loc' \in [Thread -> Locals]
      BY <3>2
    <3> QED
      BY <3>3, <3>4
  <2> QED
    BY <1>1, <2>1 DEF Types
<1>8. FirstInv'
  BY <1>1, <1>4, <1>5, <1>6, FirstKept
<1>9. \A u \in Thread : pc'[u] \in Linking =>
        /\ u # t /\ pc[u] \in Linking /\ loc'[u] = loc[u] /\ loc[u].prev \in Lock /\ loc[u].new \in Lock
        /\ Rec(loc[u].prev) = Rec(loc[u].new) /\ Created(loc[u].prev) /\ Created(loc[u].prev)'
        /\ ~lk[loc[u].prev].idPass /\ loc[u].prev # tail[Rec(loc[u].new)] /\ loc[u].prev # n
  <2> SUFFICES ASSUME NEW u \in Thread, pc'[u] \in Linking
               PROVE  /\ u # t /\ pc[u] \in Linking /\ loc'[u] = loc[u] /\ loc[u].prev \in Lock /\ loc[u].new \in Lock
                      /\ Rec(loc[u].prev) = Rec(loc[u].new) /\ Created(loc[u].prev) /\ Created(loc[u].prev)'
                      /\ ~lk[loc[u].prev].idPass /\ loc[u].prev # tail[Rec(loc[u].new)] /\ loc[u].prev # n
    OBVIOUS
  <2>1. u # t /\ pc[u] \in Linking /\ loc'[u] = loc[u] /\ pc[u] \in Headless \cup Joined
    BY <1>4, <1>5 DEF Linking, Headless, Joined
  <2>2. loc[u].prev \in Lock /\ loc[u].new \in Lock
    BY <2>1, CallIs DEF CallAt
  <2>3. /\ Rec(loc[u].prev) = Rec(loc[u].new) /\ Created(loc[u].prev)
        /\ ~lk[loc[u].prev].idPass /\ loc[u].prev # tail[Rec(loc[u].new)]
    BY <1>1, <2>1 DEF PassInv
  <2>4. loc[u].prev = loc'[u].prev
    BY <2>1
  <2> DEFINE q == loc[u].prev
  <2>5. PICK k \in Lock : k = q
    BY <2>2
  <2>6. Created(k)'
    BY <1>1, <2>3, <2>5, CreatedGrows
  <2>7. Created(loc[u].prev)'
    BY <2>4, <2>5, <2>6
  <2> QED
    BY <2>1, <2>2, <2>3, <2>7
<1>10. \A u \in Thread : pc'[u] \in Renewing \cup {"swap"} =>
         /\ loc'[u].new \in Lock
         /\ ~lk'[loc'[u].new].idPass /\ loc'[u].new # tail[Rec(loc'[u].new)]
         /\ \A v \in Thread : pc'[v] \in Linking => loc[v].prev # loc'[u].new
  <2> SUFFICES ASSUME NEW u \in Thread, pc'[u] \in Renewing \cup {"swap"}
               PROVE  /\ loc'[u].new \in Lock
                      /\ ~lk'[loc'[u].new].idPass /\ loc'[u].new # tail[Rec(loc'[u].new)]
                      /\ \A v \in Thread : pc'[v] \in Linking => loc[v].prev # loc'[u].new
    OBVIOUS
  <2>1. CASE u = t
    BY <1>2, <1>4, <1>9, <2>1, LockIs
  <2>2. CASE u # t
    <3>1. loc'[u] = loc[u] /\ pc[u] \in Renewing \cup {"swap"} /\ pc[u] \in Renewing \cup Headless
      BY <1>4, <2>2 DEF Headless
    <3>2. loc[u].new \in Lock
      BY <3>1, CallIs
    <3>3. /\ ~lk[loc[u].new].idPass /\ loc[u].new # tail[Rec(loc[u].new)]
          /\ \A v \in Thread : pc[v] \in Linking => loc[v].prev # loc[u].new
      BY <1>1, <3>1 DEF PassInv
    <3> QED
      <4>1. \A v \in Thread : pc'[v] \in Linking => loc[v].prev # loc[u].new
        BY <1>9, <3>3
      <4>2. ~lk'[loc[u].new].idPass
        BY <3>2, <3>3
      <4> QED
        BY <3>1, <3>2, <3>3, <4>1, <4>2
  <2> QED
    BY <2>1, <2>2
<1>11. \A r \in Record : tail[r] # NoLock => Rec(tail[r]) = r /\ Created(tail[r])' /\ ~lk'[tail[r]].idPass
  <2> SUFFICES ASSUME NEW r \in Record, tail[r] # NoLock
               PROVE  Rec(tail[r]) = r /\ Created(tail[r])' /\ ~lk'[tail[r]].idPass
    OBVIOUS
  <2>1. Rec(tail[r]) = r /\ Created(tail[r]) /\ ~lk[tail[r]].idPass
    BY <1>1 DEF PassInv
  <2>2. PICK k \in Lock : k = tail[r]
    BY <1>1 DEF Types, Node
  <2>3. Created(k)'
    BY <1>1, <2>1, <2>2, CreatedGrows
  <2>4. tail' = tail
    OBVIOUS
  <2> QED
    BY <2>1, <2>2, <2>3, <2>4
<1>12. \A l \in Lock : ~Created(l)' => ~lk'[l].idPass
  <2> SUFFICES ASSUME NEW l \in Lock, ~Created(l)'
               PROVE  ~lk'[l].idPass
    OBVIOUS
  <2>1. ~Created(l)
    BY <1>1, CreatedGrows
  <2> QED
    BY <1>1, <2>1 DEF PassInv
<1>13. PassInv'
  <2>1. \A u, v \in Thread : pc'[u] \in Linking /\ pc'[v] \in Linking /\ loc'[u].prev = loc'[v].prev => u = v
    BY <1>1, <1>9 DEF PassInv
  <2>2. \A r \in Record : tail'[r] # NoLock =>
          Rec(tail'[r]) = r /\ Created(tail[r])' /\ ~lk'[tail'[r]].idPass
    BY <1>11
  <2>3. \A u \in Thread : pc'[u] \in Linking =>
         /\ Rec(loc'[u].prev) = Rec(loc'[u].new) /\ Created(loc[u].prev)'
         /\ ~lk'[loc'[u].prev].idPass /\ loc'[u].prev # tail'[Rec(loc'[u].new)]
    BY <1>9
  <2>4. \A u \in Thread : pc'[u] \in Renewing \cup {"swap"} =>
         /\ ~lk'[loc'[u].new].idPass /\ loc'[u].new # tail'[Rec(loc'[u].new)]
         /\ \A v \in Thread : pc'[v] \in Linking => loc'[v].prev # loc'[u].new
    BY <1>9, <1>10
  <2> QED
    BY <1>12, <2>1, <2>2, <2>3, <2>4 DEF PassInv
<1>14. ProgramInv(t)'
  BY <1>1, <1>4, <1>5, WantedIs DEF ProgramInv, Program
<1>15. LockInv(t)'
  <2>1. pc[t] \notin Headless /\ conflict[t] = NoLock
    BY <1>1 DEF Headless, LockInv, Waiting
  <2>2. \A k \in 1 .. Len(deque[t]) : HasHead(Rec(deque[t][k]))
    BY <1>1, <2>1 DEF LockInv
  <2>3. Created(loc[t].new)'
    BY <1>2, <1>4
  <2> QED
    BY <1>2, <1>4, <1>5, <2>1, <2>2, <2>3 DEF LockInv, HasHead
<1>16. CallInv(t)'
  BY <1>4, <1>5 DEF CallInv, CallAt
<1>17. HeadInv(t)'
  BY <1>4, <1>5 DEF HeadInv, HoldingMutex
<1> QED
  BY <1>6, <1>7, <1>8, <1>13, <1>14, <1>15, <1>16, <1>17, OwnRest

LEMMA PickInv ==
  ASSUME IInv, NEW t \in Thread, Pick(t)
  PROVE  IInv'
<1> DEFINE r == Wanted(t).rec
           i == loc[t].i
           l == <<t, r, i>>
           c == saved[t][r]
<1>1. pc[t] = "pick" /\ UNCHANGED <<head, tail, mutex, conflict, waitSet, deque, trx>>
  BY DEF Pick
<1>2. /\ Types /\ ProgramInv(t) /\ LockInv(t) /\ loc \in [Thread -> Locals] /\ loc[t] \in Locals
      /\ pc \in [Thread -> Place] /\ PassInv /\ lk \in [Lock -> Fields] /\ CallAt(pc[t], loc[t])
      /\ saved \in [Thread -> [Record -> 0 .. MaxLocks]] /\ waitSet \subseteq Thread
      /\ conflict \in [Thread -> Node] /\ deque \in [Thread -> Seq(Lock)] /\ trx \in [Thread -> Nat \ {0}]
      /\ mutex \in [Record -> Thread \cup {NoThread}] /\ tail \in [Record -> Node]
  BY CallIs DEF IInv, Types
<1>3. r \in Record /\ i \in Nat /\ i > 0 /\ c \in 0 .. MaxLocks
  BY <1>1, <1>2, WantedIs DEF CallAt, Locals
<1>4. \A u \in Thread : pc[u] \in Linking => loc[u].prev \in Lock /\ Created(loc[u].prev) /\ ~lk[loc[u].prev].idPass
  BY <1>2, CallIs DEF CallAt, PassInv
<1>5. \A q \in Record : tail[q] # NoLock => tail[q] \in Lock /\ Created(tail[q]) /\ ~lk[tail[q]].idPass
  BY <1>2 DEF PassInv, Node
<1>6. CASE Create(t)
  <2>1. c < MaxLocks /\ saved' = [saved EXCEPT ![t][r] = @ + 1] /\ loc' = [loc EXCEPT ![t].new = <<t, r, c + 1>>]
        /\ Goto(t, "mode") /\ lk' = lk
    BY <1>6 DEF Create
  <2>2. <<t, r, c + 1>> \in Lock
    BY <1>3, <2>1, LockIs DEF Lock
  <2>3. PICK n \in Lock : n = <<t, r, c + 1>>
    BY <2>2
  <2>4. n \in Lock /\ Owner(n) = t /\ Rec(n) = r /\ n[3] = c + 1
    BY <2>3 DEF Owner, Rec
  <2>5. saved' = [saved EXCEPT ![t] = [saved[t] EXCEPT ![r] = c + 1]]
    BY <1>2, <1>3, <2>1
  <2>6. saved[t] \in [Record -> 0 .. MaxLocks] /\ c + 1 \in 0 .. MaxLocks
    BY <1>2, <1>3, <2>1, LockIs
  <2>7. [saved[t] EXCEPT ![r] = c + 1] \in [Record -> 0 .. MaxLocks]
    BY <1>3, <2>6
  <2>8. saved' \in [Thread -> [Record -> 0 .. MaxLocks]]
    BY <1>2, <2>5, <2>7
  <2>9. \A u \in Thread, q \in Record : saved'[u][q] = IF u = t /\ q = r THEN c + 1 ELSE saved[u][q]
    BY <1>2, <1>3, <2>5
  <2>10. \A u \in Thread, q \in Record : saved[u][q] \in Nat
    BY <1>2, LockIs
  <2>11. Grows
    BY <1>1, <1>3, <2>9, <2>10 DEF Grows
  <2>12. ~Created(n)
    BY <1>3, <2>4 DEF Created
  <2>13. Created(n)'
    BY <1>3, <2>4, <2>9 DEF Created
  <2>14. \A q \in Record : tail[q] # n
    BY <1>5, <2>4, <2>12, LockIs
  <2>15. \A u \in Thread : pc[u] \in Linking => loc[u].prev # n
    BY <1>4, <2>12
  <2>16. ~lk'[n].idPass
    BY <1>2, <2>1, <2>4, <2>12 DEF PassInv
  <2> QED
    BY <1>1, <1>2, <2>1, <2>3, <2>4, <2>8, <2>11, <2>13, <2>14, <2>15, <2>16, TakesInv
<1>7. CASE i <= saved[t][r] /\ Recyclable(l) /\ Recycle(t, l)
  <2>1. /\ lk' = [lk EXCEPT ![l].id = MaxId, ![l].idPass = FALSE]
        /\ loc' = [loc EXCEPT ![t].new = l] /\ Goto(t, "renew_state") /\ saved' = saved
    BY <1>7 DEF Recycle
  <2>2. l \in Lock
    BY <1>3, <1>7, LockIs DEF Lock
  <2>3. PICK n \in Lock : n = l
    BY <2>2
  <2>4. n \in Lock /\ Owner(n) = t /\ Rec(n) = r /\ n[3] = i
    BY <2>3 DEF Owner, Rec
  <2>5. /\ lk' = [lk EXCEPT ![n].id = MaxId, ![n].idPass = FALSE]
        /\ loc' = [loc EXCEPT ![t].new = n]
    BY <2>1, <2>3
  <2> HIDE DEF l
  <2>6. lk[n].idPass
    BY <1>7, <2>3 DEF Recyclable
  <2> DEFINE m == [lk[n] EXCEPT !.id = MaxId, !.idPass = FALSE]
  <2>7. lk' = [lk EXCEPT ![n] = m]
    BY <1>2, <2>5, <2>4
  <2>8. m \in Fields /\ m.idPass = FALSE
    <3>1. MaxId \in Nat /\ lk[n] \in Fields
      BY <1>2, <2>4, LockIs
    <3> QED
      BY <3>1 DEF Fields
  <2> HIDE DEF m
  <2>9. lk' \in [Lock -> Fields] /\ ~lk'[n].idPass /\ \A k \in Lock : lk'[k].idPass => lk[k].idPass
    BY <1>2, <2>4, <2>7, <2>8
  <2>10. Created(n)'
    BY <1>7, <2>1, <2>4 DEF Created
  <2>11. Grows
    BY <1>1, <1>2, <2>1, GrowsIs
  <2>12. \A q \in Record : tail[q] # n
    BY <1>5, <2>4, <2>6, LockIs
  <2>13. \A u \in Thread : pc[u] \in Linking => loc[u].prev # n
    BY <1>4, <2>6
  <2>14. saved' \in [Thread -> [Record -> 0 .. MaxLocks]]
    BY <1>2, <2>1
  <2> QED
    BY <1>1, <2>1, <2>4, <2>5, <2>9, <2>10, <2>11, <2>12, <2>13, <2>14, TakesInv
<1>8. CASE loc' = [loc EXCEPT ![t].i = @ + 1] /\ UNCHANGED <<lk, saved, pc>>
  <2> DEFINE m == [loc[t] EXCEPT !.i = @ + 1]
  <2>1. loc' = [loc EXCEPT ![t] = m] /\ pc' = [pc EXCEPT ![t] = "pick"]
    BY <1>1, <1>2, <1>8
  <2>2. m \in Locals /\ m.i > 0 /\ m.new = loc[t].new
    <3>1. i + 1 \in Nat /\ i + 1 > 0
      BY <1>3
    <3> QED
      BY <1>2, <3>1 DEF Locals
  <2> HIDE DEF m
  <2>3. loc'[t] = m /\ pc'[t] = "pick"
    BY <1>2, <2>1
  <2>4. "pick" \in Place \ (Linking \cup Renewing \cup {"swap", "first"} \cup HoldingMutex \cup Headless \cup Joined \cup Freeing)
    BY DEF Place, Linking, Renewing, HoldingMutex, Headless, Joined, Freeing, Waiting
  <2>5. ProgramInv(t)'
    BY <1>1, <1>2, <2>3, <2>4 DEF ProgramInv, Program
  <2>6. LockInv(t)'
    BY <1>1, <1>2, <1>8, <2>3, <2>4 DEF LockInv, HasHead
  <2>7. CallAt("pick", m)
    BY <2>2 DEF CallAt, Linking, HoldingMutex, Probing
  <2>8. HeadInv(t)'
    BY <2>3 DEF HeadInv, HoldingMutex
  <2> QED
    BY <1>1, <1>2, <1>8, <2>1, <2>2, <2>4, <2>5, <2>6, <2>7, <2>8, QuietStep
<1> QED
  BY <1>6, <1>7, <1>8 DEF Pick

\* The lock a thread is linking to, and the one a thread brings to its list.
LEMMA PassIs ==
  ASSUME IInv
  PROVE  /\ \A u \in Thread : pc[u] \in Linking =>
              /\ loc[u].prev \in Lock /\ loc[u].new \in Lock
              /\ Rec(loc[u].new) \in Record /\ Rec(loc[u].prev) = Rec(loc[u].new) /\ Created(loc[u].prev)
              /\ ~lk[loc[u].prev].idPass /\ loc[u].prev # tail[Rec(loc[u].new)]
         /\ \A u \in Thread : pc[u] \in Renewing \cup {"swap"} =>
              /\ loc[u].new \in Lock /\ Owner(loc[u].new) = u /\ Created(loc[u].new)
              /\ ~lk[loc[u].new].idPass /\ loc[u].new # tail[Rec(loc[u].new)]
              /\ \A v \in Thread : pc[v] \in Linking => loc[v].prev # loc[u].new
         /\ \A r \in Record : tail[r] # NoLock =>
              tail[r] \in Lock /\ Rec(tail[r]) = r /\ Created(tail[r]) /\ ~lk[tail[r]].idPass
<1>1. PassInv /\ Types
  BY DEF IInv
<1>2. ASSUME NEW u \in Thread, pc[u] \in Linking
      PROVE  /\ loc[u].prev \in Lock /\ loc[u].new \in Lock
             /\ Rec(loc[u].new) \in Record /\ Rec(loc[u].prev) = Rec(loc[u].new) /\ Created(loc[u].prev)
             /\ ~lk[loc[u].prev].idPass /\ loc[u].prev # tail[Rec(loc[u].new)]
  <2>1. pc[u] \in Headless \cup Joined
    BY <1>2 DEF Linking, Headless, Joined
  <2>2. loc[u].prev \in Lock /\ loc[u].new \in Lock /\ Rec(loc[u].new) \in Record
    BY <1>2, <2>1, CallIs DEF CallAt
  <2> QED
    BY <1>1, <1>2, <2>2 DEF PassInv
<1>3. ASSUME NEW u \in Thread, pc[u] \in Renewing \cup {"swap"}
      PROVE  /\ loc[u].new \in Lock /\ Owner(loc[u].new) = u /\ Created(loc[u].new)
             /\ ~lk[loc[u].new].idPass /\ loc[u].new # tail[Rec(loc[u].new)]
             /\ \A v \in Thread : pc[v] \in Linking => loc[v].prev # loc[u].new
  <2>1. pc[u] \in Renewing \cup Headless \cup Joined
    BY <1>3 DEF Headless
  <2>2. loc[u].new \in Lock /\ Owner(loc[u].new) = u /\ Created(loc[u].new)
    BY <2>1, CallIs DEF LockInv
  <2> QED
    BY <1>1, <1>3, <2>2 DEF PassInv
<1>4. ASSUME NEW r \in Record, tail[r] # NoLock
      PROVE  tail[r] \in Lock /\ Rec(tail[r]) = r /\ Created(tail[r]) /\ ~lk[tail[r]].idPass
  BY <1>1, <1>4 DEF PassInv, Types, Node
<1> QED
  BY <1>2, <1>3, <1>4

LEMMA SwapInv ==
  ASSUME IInv, NEW t \in Thread, Swap(t)
  PROVE  IInv'
<1>1. pc[t] = "swap" /\ UNCHANGED <<lk, head, mutex, conflict, waitSet, saved, deque, trx>>
  BY DEF Swap
<1>2. pc[t] \in Headless /\ pc[t] \in Renewing \cup {"swap"} /\ pc[t] \notin Linking /\ pc[t] # "done"
      /\ pc[t] \notin Waiting \cup {"grant", "give_up"} /\ pc[t] \notin Renewing
  BY <1>1 DEF Headless, Linking, Waiting, Renewing
<1>3. PICK n \in Lock, r \in Record, q \in Node :
        n = loc[t].new /\ r = Rec(n) /\ q = tail[r] /\ Owner(n) = t /\ Created(n) /\ ~lk[n].idPass
        /\ n # q /\ \A v \in Thread : pc[v] \in Linking => loc[v].prev # n
  <2>1. /\ loc[t].new \in Lock /\ Owner(loc[t].new) = t /\ Created(loc[t].new)
        /\ ~lk[loc[t].new].idPass /\ loc[t].new # tail[Rec(loc[t].new)]
        /\ \A v \in Thread : pc[v] \in Linking => loc[v].prev # loc[t].new
    BY <1>2, PassIs
  <2>2. Rec(loc[t].new) \in Record /\ tail[Rec(loc[t].new)] \in Node
    BY <2>1, LockIs DEF IInv, Types
  <2> QED
    BY <2>1, <2>2
<1>4. /\ Types /\ ProgramInv(t) /\ LockInv(t) /\ loc \in [Thread -> Locals] /\ loc[t] \in Locals
      /\ pc \in [Thread -> Place] /\ FirstInv /\ PassInv /\ tail \in [Record -> Node]
      /\ deque[t] \in Seq(Lock)
  BY CallIs DEF IInv, Types
<1> DEFINE m == [loc[t] EXCEPT !.prev = q]
           p == IF q = NoLock THEN "first" ELSE "link"
<1>5. m \in Locals /\ m.new = n /\ m.prev = q
  BY <1>3, <1>4 DEF Locals, Node
<1>6. loc' = [loc EXCEPT ![t] = m] /\ pc' = [pc EXCEPT ![t] = p] /\ tail' = [tail EXCEPT ![r] = n]
  BY <1>3 DEF Swap, Goto
<1>7. p \in {"first", "link"} /\ p \in Headless /\ p # "done" /\ p \notin Renewing \cup {"swap"} /\ p # "pick"
      /\ p \notin Freeing /\ p \notin HoldingMutex /\ p \in Place /\ p \notin Joined
      /\ (p \in Linking <=> q # NoLock) /\ (p = "first" <=> q = NoLock)
  BY DEF Headless, Renewing, Freeing, HoldingMutex, Place, Joining, Joined, Linking, Waiting
<1> HIDE DEF m, p
<1>8. loc'[t] = m /\ pc'[t] = p /\ \A u \in Thread \ {t} : pc'[u] = pc[u] /\ loc'[u] = loc[u]
  BY <1>4, <1>6
<1>9. \A k \in Record : tail'[k] = IF k = r THEN n ELSE tail[k]
  BY <1>4, <1>6
<1>10. Others(t)
  BY <1>1, <1>8 DEF Others
<1>11. Grows
  BY <1>1, <1>4, GrowsIs
<1>12. Types'
  <2>1. pc' \in [Thread -> Place]
    BY <1>4, <1>6, <1>7
  <2>2. loc' \in [Thread -> Locals]
    BY <1>4, <1>5, <1>6
  <2>3. tail' \in [Record -> Node]
    BY <1>4, <1>6 DEF Node
  <2> QED
    BY <1>1, <1>4, <2>1, <2>2, <2>3 DEF Types
<1>13. FirstInv'
  <2>1. \A k \in Record : tail'[k] = NoLock => head'[k] = NoLock
    BY <1>1, <1>3, <1>4, <1>9, LockIs DEF FirstInv
  <2>2. \A u \in Thread : u # t /\ pc'[u] = "first" =>
          tail[Rec(loc'[u].new)] # NoLock /\ head[Rec(loc'[u].new)] = NoLock /\ Rec(loc'[u].new) \in Record
    <3> SUFFICES ASSUME NEW u \in Thread, u # t, pc'[u] = "first"
                 PROVE  tail[Rec(loc'[u].new)] # NoLock /\ head[Rec(loc'[u].new)] = NoLock /\ Rec(loc'[u].new) \in Record
      OBVIOUS
    <3>1. pc[u] = "first" /\ loc'[u] = loc[u] /\ pc[u] \in Headless
      BY <1>8 DEF Headless
    <3>2. Rec(loc[u].new) \in Record
      BY <3>1, CallIs
    <3> QED
      BY <1>4, <3>1, <3>2 DEF FirstInv
  <2>3. p = "first" => tail[r] = NoLock /\ head[r] = NoLock /\ n # NoLock
    BY <1>3, <1>4, <1>7, LockIs DEF FirstInv
  <2>4. \A u \in Thread : pc'[u] = "first" =>
          tail'[Rec(loc'[u].new)] # NoLock /\ head'[Rec(loc'[u].new)] = NoLock
    BY <1>1, <1>3, <1>5, <1>8, <1>9, <2>2, <2>3, LockIs
  <2>5. \A u, v \in Thread : pc'[u] = "first" /\ pc'[v] = "first" /\ Rec(loc'[u].new) = Rec(loc'[v].new) => u = v
    <3>1. \A u \in Thread : u # t /\ pc'[u] = "first" /\ pc'[t] = "first" => Rec(loc'[u].new) # Rec(loc'[t].new)
      BY <1>3, <1>5, <1>8, <2>2, <2>3
    <3>2. \A u, v \in Thread : u # t /\ v # t /\ pc'[u] = "first" /\ pc'[v] = "first" /\ Rec(loc'[u].new) = Rec(loc'[v].new) => u = v
      BY <1>4, <1>8 DEF FirstInv
    <3> QED
      BY <3>1, <3>2
  <2> QED
    BY <2>1, <2>4, <2>5 DEF FirstInv
<1>14. PassInv'
  <2>1. \A u \in Thread : u # t /\ pc'[u] \in Linking =>
          pc[u] \in Linking /\ loc'[u] = loc[u] /\ loc[u].prev # n /\ loc[u].prev # q
    <3> SUFFICES ASSUME NEW u \in Thread, u # t, pc'[u] \in Linking
                 PROVE  pc[u] \in Linking /\ loc'[u] = loc[u] /\ loc[u].prev # n /\ loc[u].prev # q
      OBVIOUS
    <3>1. pc[u] \in Linking /\ loc'[u] = loc[u]
      BY <1>8
    <3>2. loc[u].prev \in Lock /\ Rec(loc[u].prev) = Rec(loc[u].new) /\ loc[u].prev # tail[Rec(loc[u].new)]
      BY <3>1, PassIs
    <3>3. q # NoLock => Rec(q) = r
      BY <1>3, PassIs
    <3> QED
      BY <1>3, <3>1, <3>2, <3>3, LockIs
  <2>2. \A l : Created(l)' <=> Created(l)
    BY <1>1 DEF Created
  <2>3. q # NoLock => q \in Lock /\ Rec(q) = r /\ Created(q) /\ ~lk[q].idPass
    BY <1>3, PassIs
  <2>4. \A k \in Record : tail'[k] # NoLock => Rec(tail'[k]) = k /\ Created(tail[k])' /\ ~lk'[tail'[k]].idPass
    <3> SUFFICES ASSUME NEW k \in Record, tail'[k] # NoLock
                 PROVE  Rec(tail'[k]) = k /\ Created(tail[k])' /\ ~lk'[tail'[k]].idPass
      OBVIOUS
    <3>1. PICK j : j = tail'[k]
      OBVIOUS
    <3>2. Rec(j) = k /\ Created(j) /\ ~lk[j].idPass
      BY <1>3, <1>9, <3>1, PassIs
    <3>3. Created(tail[k])' <=> Created(j)'
      BY <3>1
    <3> QED
      BY <1>1, <2>2, <3>1, <3>2, <3>3
  <2>5. \A u \in Thread : pc'[u] \in Linking =>
         /\ Rec(loc'[u].prev) = Rec(loc'[u].new) /\ Created(loc[u].prev)'
         /\ ~lk'[loc'[u].prev].idPass /\ loc'[u].prev # tail'[Rec(loc'[u].new)]
    <3> SUFFICES ASSUME NEW u \in Thread, pc'[u] \in Linking
                 PROVE  /\ Rec(loc'[u].prev) = Rec(loc'[u].new) /\ Created(loc[u].prev)'
                        /\ ~lk'[loc'[u].prev].idPass /\ loc'[u].prev # tail'[Rec(loc'[u].new)]
      OBVIOUS
    <3>1. PICK j : j = loc'[u].prev
      OBVIOUS
    <3>2. Created(loc[u].prev)' <=> Created(j)'
      BY <3>1
    <3>3. CASE u = t
      <4>1. j = q /\ q # NoLock /\ Rec(loc'[u].new) = r
        BY <1>3, <1>5, <1>7, <1>8, <3>1, <3>3
      <4> QED
        BY <1>1, <1>3, <1>9, <2>2, <2>3, <3>1, <3>2, <4>1
    <3>4. CASE u # t
      <4>1. pc[u] \in Linking /\ loc'[u] = loc[u] /\ j = loc[u].prev /\ j # n
        BY <2>1, <3>1, <3>4
      <4>2. /\ Rec(loc[u].new) \in Record /\ Rec(j) = Rec(loc[u].new) /\ Created(j)
            /\ ~lk[j].idPass /\ j # tail[Rec(loc[u].new)]
        BY <4>1, PassIs
      <4> QED
        BY <1>1, <1>9, <2>2, <3>1, <3>2, <4>1, <4>2
    <3> QED
      BY <3>3, <3>4
  <2>6. \A u, v \in Thread : pc'[u] \in Linking /\ pc'[v] \in Linking /\ loc'[u].prev = loc'[v].prev => u = v
    <3>1. \A u \in Thread : u # t /\ pc'[u] \in Linking => loc'[u].prev # q
      BY <2>1
    <3>2. loc'[t].prev = q
      BY <1>5, <1>8
    <3>3. \A u, v \in Thread : u # t /\ v # t /\ pc'[u] \in Linking /\ pc'[v] \in Linking /\ loc'[u].prev = loc'[v].prev => u = v
      BY <1>4, <2>1 DEF PassInv
    <3> QED
      BY <3>1, <3>2, <3>3
  <2>7. \A u \in Thread : pc'[u] \in Renewing \cup {"swap"} =>
         /\ ~lk'[loc'[u].new].idPass /\ loc'[u].new # tail'[Rec(loc'[u].new)]
         /\ \A v \in Thread : pc'[v] \in Linking => loc'[v].prev # loc'[u].new
    <3> SUFFICES ASSUME NEW u \in Thread, pc'[u] \in Renewing \cup {"swap"}
                 PROVE  /\ ~lk'[loc'[u].new].idPass /\ loc'[u].new # tail'[Rec(loc'[u].new)]
                        /\ \A v \in Thread : pc'[v] \in Linking => loc'[v].prev # loc'[u].new
      OBVIOUS
    <3>1. u # t /\ pc[u] \in Renewing \cup {"swap"} /\ loc'[u] = loc[u]
      BY <1>7, <1>8
    <3>2. /\ loc[u].new \in Lock /\ Owner(loc[u].new) = u
          /\ ~lk[loc[u].new].idPass /\ loc[u].new # tail[Rec(loc[u].new)]
          /\ \A v \in Thread : pc[v] \in Linking => loc[v].prev # loc[u].new
      BY <3>1, PassIs
    <3>3. loc[u].new # n /\ Rec(loc[u].new) \in Record
      BY <1>3, <3>1, <3>2, LockIs
    <3>4. loc[u].new # tail'[Rec(loc[u].new)]
      BY <1>9, <3>2, <3>3
    <3>5. pc'[t] \in Linking => loc'[t].prev # loc[u].new
      <4>1. loc'[t].prev = q /\ (Rec(loc[u].new) = r => loc[u].new # q)
        BY <1>3, <1>5, <1>8, <3>2
      <4>2. pc'[t] \in Linking => Rec(q) = r
        BY <1>7, <1>8, <2>3
      <4> QED
        BY <4>1, <4>2
    <3>6. \A v \in Thread : pc'[v] \in Linking => loc'[v].prev # loc[u].new
      BY <2>1, <3>2, <3>5
    <3> QED
      BY <1>1, <3>1, <3>2, <3>4, <3>6
  <2>8. \A l \in Lock : ~Created(l)' => ~lk'[l].idPass
    BY <1>1, <1>4, <2>2 DEF PassInv
  <2> QED
    BY <2>4, <2>5, <2>6, <2>7, <2>8 DEF PassInv
<1>15. ProgramInv(t)'
  BY <1>1, <1>2, <1>4, <1>7, <1>8 DEF ProgramInv, Program
<1>16. LockInv(t)'
  <2>1. Created(loc[t].new)'
    BY <1>1, <1>3, <1>5, <1>8 DEF Created
  <2> QED
    BY <1>1, <1>2, <1>3, <1>4, <1>5, <1>7, <1>8, <2>1 DEF LockInv, HasHead
<1>17. CallInv(t)'
  BY <1>5, <1>7, <1>8 DEF CallInv, CallAt, Linking, HoldingMutex, Probing, Node
<1>18. HeadInv(t)'
  BY <1>7, <1>8 DEF HeadInv, HoldingMutex
<1> QED
  BY <1>1, <1>10, <1>11, <1>12, <1>13, <1>14, <1>15, <1>16, <1>17, <1>18, OwnRest

LEMMA PassIdInv ==
  ASSUME IInv, NEW t \in Thread, PassId(t)
  PROVE  IInv'
<1>1. pc[t] = "pass_id" /\ UNCHANGED shared /\ loc' = loc /\ Goto(t, "conflict")
  BY DEF PassId
<1>2. pc[t] \in Linking /\ pc[t] \in Joined /\ pc[t] \notin Headless /\ pc[t] # "done"
      /\ pc[t] \notin Waiting \cup {"grant", "give_up"}
  BY <1>1 DEF Linking, Joined, Headless, Waiting
<1>3. PICK q \in Lock : q = loc[t].prev /\ Created(q) /\ q # tail[Rec(q)]
  <2>1. /\ loc[t].prev \in Lock /\ Created(loc[t].prev) /\ loc[t].prev # tail[Rec(loc[t].prev)]
    BY <1>2, PassIs
  <2> QED
    BY <2>1
<1>4. /\ Types /\ ProgramInv(t) /\ LockInv(t) /\ loc \in [Thread -> Locals]
      /\ pc \in [Thread -> Place] /\ FirstInv /\ PassInv /\ lk \in [Lock -> Fields]
  BY CallIs DEF IInv
<1> DEFINE m == [lk[q] EXCEPT !.idPass = TRUE]
<1>5. lk' = [lk EXCEPT ![q] = m] /\ m \in Fields
  <2>1. lk' = [lk EXCEPT ![q] = m]
    BY <1>3 DEF PassId
  <2>2. lk[q] \in Fields
    BY <1>4
  <2>3. m \in Fields
    BY <2>2 DEF Fields
  <2> QED
    BY <2>1, <2>3
<1> HIDE DEF m
<1>6. lk' \in [Lock -> Fields] /\ \A l \in Lock \ {q} : lk'[l].idPass = lk[l].idPass
  BY <1>4, <1>5
<1>7. pc'[t] = "conflict" /\ pc' = [pc EXCEPT ![t] = "conflict"] /\ \A u \in Thread \ {t} : pc'[u] = pc[u]
  BY <1>1, <1>4 DEF Goto
<1>8. "conflict" \in Place \ (Linking \cup Renewing \cup {"swap", "first"} \cup HoldingMutex \cup Headless \cup Freeing)
      /\ "conflict" \in Joined /\ "conflict" \notin Probing
  BY DEF Place, Joining, Linking, Renewing, HoldingMutex, Headless, Freeing, Joined, Probing
<1>9. Others(t)
  BY <1>1, <1>7 DEF Others, shared
<1>10. Grows
  BY <1>1, <1>4, GrowsIs DEF shared
<1>11. Types'
  <2>1. pc' \in [Thread -> Place]
    BY <1>4, <1>7, <1>8
  <2> QED
    BY <1>1, <1>4, <1>6, <2>1 DEF Types, shared
<1>12. FirstInv'
  BY <1>1, <1>4, <1>7, <1>9, FirstKept DEF shared
<1>13. PassInv'
  <2>1. \A l : Created(l)' <=> Created(l)
    BY <1>1 DEF Created, shared
  <2>2. \A u \in Thread : pc'[u] \in Linking => u # t /\ pc[u] \in Linking
    BY <1>7, <1>8
  <2>3. \A u \in Thread : pc'[u] \in Linking =>
          /\ loc[u].prev \in Lock /\ loc[u].prev # q
          /\ Rec(loc[u].prev) = Rec(loc[u].new) /\ Created(loc[u].prev)
          /\ ~lk[loc[u].prev].idPass /\ loc[u].prev # tail[Rec(loc[u].new)]
    <3> SUFFICES ASSUME NEW u \in Thread, pc'[u] \in Linking
                 PROVE  /\ loc[u].prev \in Lock /\ loc[u].prev # q
                        /\ Rec(loc[u].prev) = Rec(loc[u].new) /\ Created(loc[u].prev)
                        /\ ~lk[loc[u].prev].idPass /\ loc[u].prev # tail[Rec(loc[u].new)]
      OBVIOUS
    <3>1. u # t /\ pc[u] \in Linking
      BY <2>2
    <3>2. loc[u].prev # q
      BY <1>2, <1>3, <1>4, <3>1 DEF PassInv
    <3> QED
      BY <3>1, <3>2, PassIs
  <2>4. \A u \in Thread : pc'[u] \in Linking =>
         /\ Rec(loc'[u].prev) = Rec(loc'[u].new) /\ Created(loc[u].prev)'
         /\ ~lk'[loc'[u].prev].idPass /\ loc'[u].prev # tail'[Rec(loc'[u].new)]
    <3> SUFFICES ASSUME NEW u \in Thread, pc'[u] \in Linking
                 PROVE  /\ Rec(loc'[u].prev) = Rec(loc'[u].new) /\ Created(loc[u].prev)'
                        /\ ~lk'[loc'[u].prev].idPass /\ loc'[u].prev # tail'[Rec(loc'[u].new)]
      OBVIOUS
    <3>1. PICK j : j = loc[u].prev
      OBVIOUS
    <3>2. Created(loc[u].prev)' <=> Created(j)'
      BY <1>1, <3>1
    <3> QED
      BY <1>1, <1>6, <2>1, <2>3, <3>1, <3>2 DEF shared
  <2>5. \A u, v \in Thread : pc'[u] \in Linking /\ pc'[v] \in Linking /\ loc'[u].prev = loc'[v].prev => u = v
    BY <1>1, <1>4, <2>2 DEF PassInv
  <2>6. \A r \in Record : tail'[r] # NoLock => Rec(tail'[r]) = r /\ Created(tail[r])' /\ ~lk'[tail'[r]].idPass
    <3> SUFFICES ASSUME NEW r \in Record, tail[r] # NoLock
                 PROVE  Rec(tail[r]) = r /\ Created(tail[r])' /\ ~lk'[tail[r]].idPass
      BY <1>1 DEF shared
    <3>1. PICK j : j = tail[r]
      OBVIOUS
    <3>2. j \in Lock /\ Rec(j) = r /\ Created(j) /\ ~lk[j].idPass
      BY <3>1, PassIs
    <3>3. Created(tail[r])' <=> Created(j)'
      BY <1>1, <3>1 DEF shared
    <3>4. j # q
      BY <1>3, <3>1, <3>2
    <3> QED
      BY <1>6, <2>1, <3>1, <3>2, <3>3, <3>4
  <2>7. \A u \in Thread : pc'[u] \in Renewing \cup {"swap"} =>
         /\ ~lk'[loc'[u].new].idPass /\ loc'[u].new # tail'[Rec(loc'[u].new)]
         /\ \A v \in Thread : pc'[v] \in Linking => loc'[v].prev # loc'[u].new
    <3> SUFFICES ASSUME NEW u \in Thread, pc'[u] \in Renewing \cup {"swap"}
                 PROVE  /\ ~lk'[loc[u].new].idPass /\ loc[u].new # tail[Rec(loc[u].new)]
                        /\ \A v \in Thread : pc'[v] \in Linking => loc[v].prev # loc[u].new
      BY <1>1 DEF shared
    <3>1. pc[u] \in Renewing \cup {"swap"}
      BY <1>7, <1>8
    <3>2. /\ loc[u].new \in Lock
          /\ ~lk[loc[u].new].idPass /\ loc[u].new # tail[Rec(loc[u].new)]
          /\ \A v \in Thread : pc[v] \in Linking => loc[v].prev # loc[u].new
      BY <3>1, PassIs
    <3>3. loc[u].new # q
      BY <1>2, <1>3, <3>2
    <3> QED
      BY <1>6, <2>2, <3>2, <3>3
  <2>8. \A l \in Lock : ~Created(l)' => ~lk'[l].idPass
    BY <1>3, <1>4, <1>6, <2>1 DEF PassInv
  <2> QED
    BY <2>4, <2>5, <2>6, <2>7, <2>8 DEF PassInv
<1>14. ProgramInv(t)'
  BY <1>1, <1>2, <1>4, <1>7, <1>8 DEF ProgramInv, Program, shared, Renewing
<1>15. LockInv(t)'
  BY <1>1, <1>2, <1>4, <1>7, <1>8 DEF LockInv, HasHead, Created, shared, Renewing
<1>16. CallInv(t)'
  BY <1>7, <1>8 DEF CallInv, CallAt
<1>17. HeadInv(t)'
  BY <1>7, <1>8 DEF HeadInv, HoldingMutex
<1> QED
  BY <1>1, <1>9, <1>10, <1>11, <1>12, <1>13, <1>14, <1>15, <1>16, <1>17, OwnRest DEF shared

\* The mutex of a head, and the head that is not there yet.
LEMMA HoldingIs ==
  ASSUME IInv, NEW u \in Thread, pc[u] \in HoldingMutex
  PROVE  /\ Releases(u) \in Lock /\ Rec(Releases(u)) \in Record
         /\ mutex[Rec(Releases(u))] = u /\ head[Rec(Releases(u))] \in Lock
         /\ loc[u].target \in Lock /\ loc[u].i \in 1 .. Len(deque[u]) /\ deque[u] \in Seq(Lock)
         /\ trx[u] \in 1 .. Len(Programs[u])
         /\ pc[u] \in {"front", "advance", "pass_head", "new_front", "wake_head"} =>
              loc[u].target = head[Rec(Releases(u))]
<1>1. /\ Types /\ ProgramInv(u) /\ LockInv(u) /\ CallAt(pc[u], loc[u]) /\ HeadInv(u)
  BY CallIs
<1>2. pc[u] \in Freeing /\ pc[u] # "done" /\ pc[u] \notin Headless
  BY DEF Freeing, HoldingMutex, Headless
<1>3. /\ loc[u].i \in 1 .. Len(deque[u]) /\ deque[u] \in Seq(Lock) /\ trx[u] \in 1 .. Len(Programs[u])
      /\ head \in [Record -> Node]
  BY <1>1, <1>2, ProgramIs DEF ProgramInv, Types
<1>4. Releases(u) \in Lock /\ Rec(Releases(u)) \in Record
  BY <1>3, LockIs DEF Releases
<1>5. HasHead(Rec(Releases(u)))
  BY <1>1, <1>2, <1>3 DEF LockInv, Releases
<1>6. head[Rec(Releases(u))] \in Lock
  BY <1>3, <1>4, <1>5 DEF HasHead, Node
<1> QED
  BY <1>1, <1>3, <1>4, <1>6 DEF CallAt, HeadInv

LEMMA FirstLockInv ==
  ASSUME IInv, NEW t \in Thread, FirstLock(t)
  PROVE  IInv'
<1>1. pc[t] = "first" /\ UNCHANGED <<tail, mutex, conflict, waitSet, saved, deque, trx, loc>> /\ Goto(t, "conflict")
  BY DEF FirstLock
<1>2. pc[t] \in Headless /\ pc[t] # "done" /\ pc[t] \notin Waiting \cup {"grant", "give_up"}
  BY <1>1 DEF Headless, Waiting
<1>3. /\ Types /\ ProgramInv(t) /\ LockInv(t) /\ loc \in [Thread -> Locals]
      /\ pc \in [Thread -> Place] /\ FirstInv /\ PassInv /\ lk \in [Lock -> Fields]
      /\ head \in [Record -> Node] /\ deque[t] \in Seq(Lock)
      /\ loc[t].new \in Lock /\ Rec(loc[t].new) \in Record
  BY <1>2, CallIs DEF IInv, Types
<1>4. PICK n \in Lock, r \in Record : n = loc[t].new /\ r = Rec(n) /\ tail[r] # NoLock /\ head[r] = NoLock
  BY <1>1, <1>3 DEF FirstInv
<1> DEFINE m == [lk[n] EXCEPT !.id = 0]
<1>5. lk' = [lk EXCEPT ![n] = m] /\ m \in Fields /\ m.idPass = lk[n].idPass
  <2>1. lk' = [lk EXCEPT ![n] = m]
    BY <1>4 DEF FirstLock
  <2>2. lk[n] \in Fields
    BY <1>3
  <2>3. m \in Fields /\ m.idPass = lk[n].idPass
    BY <2>2 DEF Fields
  <2> QED
    BY <2>1, <2>3
<1> HIDE DEF m
<1>6. lk' \in [Lock -> Fields] /\ \A l \in Lock : lk'[l].idPass = lk[l].idPass
  BY <1>3, <1>5
<1>7. head' = [head EXCEPT ![r] = n]
  BY <1>4 DEF FirstLock
<1>8. head' \in [Record -> Node] /\ \A k \in Record : head'[k] = IF k = r THEN n ELSE head[k]
  BY <1>3, <1>7 DEF Node
<1>9. pc'[t] = "conflict" /\ pc' = [pc EXCEPT ![t] = "conflict"] /\ \A u \in Thread \ {t} : pc'[u] = pc[u]
  BY <1>1, <1>3 DEF Goto
<1>10. "conflict" \in Place \ (Linking \cup Renewing \cup {"swap", "first"} \cup HoldingMutex \cup Headless \cup Freeing)
       /\ "conflict" \in Joined /\ "conflict" \notin Probing
  BY DEF Place, Joining, Linking, Renewing, HoldingMutex, Headless, Freeing, Joined, Probing
<1>11. Others(t)
  BY <1>1, <1>9 DEF Others
<1>12. Grows
  <2>1. \A k \in Record : head[k] # NoLock => head'[k] # NoLock
    BY <1>4, <1>8, LockIs
  <2> QED
    BY <1>1, <1>3, <2>1, GrowsIs
<1>13. Types'
  <2>1. pc' \in [Thread -> Place]
    BY <1>3, <1>9, <1>10
  <2> QED
    BY <1>1, <1>3, <1>6, <1>8, <2>1 DEF Types
<1>14. FirstInv'
  <2>1. \A k \in Record : tail'[k] = NoLock => head'[k] = NoLock
    BY <1>1, <1>3, <1>4, <1>8 DEF FirstInv
  <2>2. \A u \in Thread : pc'[u] = "first" => u # t /\ pc[u] = "first" /\ Rec(loc[u].new) \in Record
    <3> SUFFICES ASSUME NEW u \in Thread, pc'[u] = "first"
                 PROVE  u # t /\ pc[u] = "first" /\ Rec(loc[u].new) \in Record
      OBVIOUS
    <3>1. u # t /\ pc[u] = "first" /\ pc[u] \in Headless
      BY <1>9 DEF Headless
    <3> QED
      BY <3>1, CallIs
  <2>3. \A u \in Thread : pc'[u] = "first" => tail'[Rec(loc'[u].new)] # NoLock /\ head'[Rec(loc'[u].new)] = NoLock
    <3> SUFFICES ASSUME NEW u \in Thread, pc'[u] = "first"
                 PROVE  tail[Rec(loc[u].new)] # NoLock /\ head'[Rec(loc[u].new)] = NoLock
      BY <1>1
    <3>1. tail[Rec(loc[u].new)] # NoLock /\ head[Rec(loc[u].new)] = NoLock /\ Rec(loc[u].new) # Rec(loc[t].new)
      BY <1>1, <1>3, <2>2 DEF FirstInv
    <3> QED
      BY <1>4, <1>8, <2>2, <3>1
  <2>4. \A u, v \in Thread : pc'[u] = "first" /\ pc'[v] = "first" /\ Rec(loc'[u].new) = Rec(loc'[v].new) => u = v
    BY <1>1, <1>3, <2>2 DEF FirstInv
  <2> QED
    BY <2>1, <2>3, <2>4 DEF FirstInv
<1>15. PassInv'
  <2>1. pc'[t] \notin Linking /\ pc'[t] \notin Renewing \cup {"swap"} /\ tail' = tail /\ saved' = saved
    BY <1>1, <1>9, <1>10
  <2>2. \A u \in Thread : CallInv(u) /\ LockInv(u)
    BY DEF IInv
  <2> QED
    BY <1>3, <1>6, <1>11, <2>1, <2>2, PassKept
<1>16. ProgramInv(t)'
  BY <1>1, <1>2, <1>3, <1>9, <1>10 DEF ProgramInv, Program, Renewing
<1>17. LockInv(t)'
  <2>1. n # NoLock /\ head'[r] # NoLock
    BY <1>8, LockIs
  <2>2. \A k \in 1 .. Len(deque[t]) : head'[Rec(deque[t][k])] # NoLock
    <3> SUFFICES ASSUME NEW k \in 1 .. Len(deque[t]) PROVE head'[Rec(deque[t][k])] # NoLock
      OBVIOUS
    <3>1. deque[t][k] \in Lock /\ Rec(deque[t][k]) \in Record
      BY <1>3, LockIs
    <3>2. head[Rec(deque[t][k])] # NoLock \/ deque[t][k] = n
      BY <1>3, <1>4 DEF LockInv, HasHead
    <3> QED
      BY <1>4, <1>8, <2>1, <3>1, <3>2
  <2>3. Created(loc[t].new) /\ conflict[t] = NoLock
    BY <1>2, <1>3 DEF LockInv
  <2>4. Owner(loc[t].new) = t
    BY <1>2, CallIs
  <2> QED
    BY <1>1, <1>3, <1>4, <1>9, <1>10, <2>1, <2>2, <2>3, <2>4 DEF LockInv, HasHead, Created
<1>18. CallInv(t)'
  BY <1>9, <1>10 DEF CallInv, CallAt
<1>19. HeadInv(t)'
  BY <1>9, <1>10 DEF HeadInv, HoldingMutex
<1>20. ASSUME NEW u \in Thread, u # t
       PROVE  ProgramInv(u)' /\ LockInv(u)' /\ CallInv(u)' /\ HeadInv(u)'
  <2>1. ProgramInv(u)' /\ LockInv(u)' /\ CallInv(u)'
    BY <1>11, <1>12, <1>20, OthersKept
  <2>2. pc'[u] = pc[u] /\ loc'[u] = loc[u] /\ deque'[u] = deque[u] /\ mutex' = mutex
    BY <1>1, <1>9, <1>20
  <2>3. CASE pc[u] \in HoldingMutex
    <3>1. Rec(Releases(u)) \in Record /\ head[Rec(Releases(u))] # NoLock
      BY <2>3, HoldingIs, LockIs
    <3>2. head'[Rec(Releases(u))] = head[Rec(Releases(u))]
      BY <1>4, <1>8, <3>1
    <3>3. HeadInv(u)
      BY DEF IInv
    <3> QED
      BY <2>1, <2>2, <3>2, <3>3 DEF HeadInv, Releases
  <2>4. CASE pc[u] \notin HoldingMutex
    BY <2>1, <2>2, <2>4 DEF HeadInv, HoldingMutex
  <2> QED
    BY <2>3, <2>4
<1> QED
  BY <1>13, <1>14, <1>15, <1>16, <1>17, <1>18, <1>19, <1>20 DEF IInv

\* A step of ReleaseLock that goes on with the same lock.
LEMMA FreeingStep ==
  ASSUME IInv, NEW t \in Thread, pc[t] \in Freeing, NEW p \in Freeing, Goto(t, p),
         NEW m \in Locals, m.i = loc[t].i, loc' = [loc EXCEPT ![t] = m],
         lk' \in [Lock -> Fields], \A l \in Lock : lk'[l].idPass = lk[l].idPass,
         waitSet' \subseteq Thread, UNCHANGED <<head, tail, conflict, saved, deque, trx>>,
         mutex' \in [Record -> Thread \cup {NoThread}],
         \A r \in Record : mutex[r] \notin {t, NoThread} => mutex'[r] = mutex[r],
         p \in HoldingMutex => mutex'[Rec(Releases(t))] = t /\ m.target \in Lock,
         p = "pass_head" => m.prev \in Lock,
         p \in {"front", "advance", "pass_head", "new_front", "wake_head"} =>
           m.target = head[Rec(Releases(t))]
  PROVE  IInv'
<1>1. /\ ProgramInv(t) /\ LockInv(t) /\ loc \in [Thread -> Locals] /\ pc \in [Thread -> Place]
      /\ conflict \in [Thread -> Node] /\ deque \in [Thread -> Seq(Lock)] /\ trx \in [Thread -> Nat \ {0}]
  BY CallIs
<1>2. /\ p \in Place /\ p \notin Linking /\ p \notin Renewing \cup Headless \cup Joined /\ p # "first"
      /\ p \notin Renewing \cup {"swap"} /\ p # "done" /\ p # "pick" /\ p \notin Probing
      /\ p \notin {"collect", "next", "walk", "walk_next", "walk_id", "walk_head"}
      /\ p \notin {"check", "check_id", "check_mode", "wait", "unwait", "fill"}
      /\ p \notin Waiting \cup {"grant", "give_up"}
  BY DEF Freeing, HoldingMutex, Place, Linking, Renewing, Headless, Joined, Probing, Waiting
<1>3. /\ pc[t] # "done" /\ pc[t] \notin Headless /\ pc[t] \notin Waiting \cup {"grant", "give_up"}
  BY DEF Freeing, HoldingMutex, Headless, Waiting
<1>4. pc'[t] = p /\ loc'[t] = m
  BY <1>1 DEF Goto
<1>5. ProgramInv(t)'
  BY <1>1, <1>2, <1>3, <1>4 DEF ProgramInv, Program
<1>6. LockInv(t)'
  BY <1>1, <1>2, <1>3, <1>4 DEF LockInv, HasHead
<1>7. CallAt(p, m)
  BY <1>2 DEF CallAt
<1>8. HeadInv(t)'
  BY <1>4 DEF HeadInv, Releases
<1> QED
  BY <1>1, <1>2, <1>4, <1>5, <1>6, <1>7, <1>8, QuietStep DEF Goto

\* ReleaseLock returns.
LEMMA UnlockInv ==
  ASSUME IInv, NEW t \in Thread, pc[t] \in HoldingMutex, Unlock(t),
         lk' \in [Lock -> Fields], \A l \in Lock : lk'[l].idPass = lk[l].idPass,
         waitSet' \subseteq Thread, UNCHANGED <<head, tail, conflict, saved>>
  PROVE  IInv'
<1>1. /\ ProgramInv(t) /\ LockInv(t) /\ loc \in [Thread -> Locals] /\ pc \in [Thread -> Place]
      /\ conflict \in [Thread -> Node] /\ deque \in [Thread -> Seq(Lock)] /\ trx \in [Thread -> Nat \ {0}]
      /\ mutex \in [Record -> Thread \cup {NoThread}]
  BY CallIs
<1>2. /\ Rec(Releases(t)) \in Record /\ mutex[Rec(Releases(t))] = t
      /\ loc[t].i \in 1 .. Len(deque[t]) /\ deque[t] \in Seq(Lock) /\ trx[t] \in 1 .. Len(Programs[t])
  BY HoldingIs
<1>3. pc[t] \in Freeing /\ pc[t] \notin Headless /\ pc[t] \notin Waiting \cup {"grant", "give_up"} /\ pc[t] # "done"
  BY DEF Freeing, HoldingMutex, Headless, Waiting
<1>4. /\ mutex' \in [Record -> Thread \cup {NoThread}]
      /\ \A r \in Record : mutex[r] \notin {t, NoThread} => mutex'[r] = mutex[r]
  <2>1. mutex' = [mutex EXCEPT ![Rec(Releases(t))] = NoThread]
    BY DEF Unlock
  <2> QED
    BY <1>1, <1>2, <2>1
<1>5. NoLocals \in Locals /\ NoLocals.i = 1
  BY LockIs DEF NoLocals, Locals, Node
<1>6. \A n \in 1 .. Len(deque[t]) : HasHead(Rec(deque[t][n]))
  BY <1>1, <1>3 DEF LockInv
<1>7. conflict[t] = NoLock
  BY <1>1, <1>3 DEF LockInv
<1>8. CASE loc[t].i < Len(deque[t])
  <2> DEFINE k == loc[t].i + 1
             m == [NoLocals EXCEPT !.i = k]
  <2>1. loc' = [loc EXCEPT ![t] = m] /\ Goto(t, "release") /\ UNCHANGED <<deque, trx>>
    BY <1>8 DEF Unlock
  <2>2. k \in 1 .. Len(deque[t]) /\ k \in Nat
    BY <1>2, <1>8
  <2> HIDE DEF k
  <2>3. m \in Locals /\ m.i = k
    BY <1>5, <2>2 DEF Locals
  <2> HIDE DEF m
  <2>4. loc'[t] = m /\ pc'[t] = "release" /\ pc' = [pc EXCEPT ![t] = "release"]
    BY <1>1, <2>1 DEF Goto
  <2>5. "release" \in Place \ (Linking \cup Renewing \cup {"swap", "first", "done", "pick"} \cup HoldingMutex \cup Headless \cup Joined)
    BY DEF Place, Linking, Renewing, HoldingMutex, Headless, Joined, Waiting
  <2>6. ProgramInv(t)'
    <3>1. loc'[t].i \in 1 .. Len(deque'[t])
      BY <2>1, <2>2, <2>3, <2>4
    <3> QED
      BY <1>1, <1>3, <2>1, <2>4, <2>5, <3>1 DEF ProgramInv, Program
  <2>7. LockInv(t)'
    BY <1>6, <1>7, <2>1, <2>4, <2>5 DEF LockInv, HasHead
  <2>8. CallAt("release", m)
    BY DEF CallAt, Linking, HoldingMutex, Probing
  <2>9. HeadInv(t)'
    BY <2>4 DEF HeadInv, HoldingMutex
  <2> QED
    BY <1>1, <1>4, <2>1, <2>3, <2>4, <2>5, <2>6, <2>7, <2>8, <2>9, QuietStep
<1>9. CASE ~(loc[t].i < Len(deque[t]))
  <2> DEFINE p == IF trx[t] = Len(Programs[t]) THEN "done" ELSE "pick"
  <2>1. /\ loc' = [loc EXCEPT ![t] = NoLocals] /\ deque' = [deque EXCEPT ![t] = << >>]
        /\ trx' = [trx EXCEPT ![t] = @ + 1] /\ pc' = [pc EXCEPT ![t] = p]
    BY <1>9 DEF Unlock, Goto
  <2>2. /\ deque'[t] = << >> /\ deque' \in [Thread -> Seq(Lock)]
        /\ \A u \in Thread \ {t} : deque'[u] = deque[u]
    BY <1>1, <2>1
  <2>3. /\ trx'[t] = trx[t] + 1 /\ \A u \in Thread \ {t} : trx'[u] = trx[u]
    BY <1>1, <2>1
  <2>4. trx' \in [Thread -> Nat \ {0}]
    <3>1. trx[t] + 1 \in Nat \ {0}
      BY <1>2
    <3> QED
      BY <1>1, <2>1, <3>1
  <2>5. p \in {"done", "pick"} /\ (p # "done" => trx[t] + 1 \in 1 .. Len(Programs[t]))
    <3>1. Len(Programs[t]) \in Nat
      BY ProgramIs
    <3> QED
      BY <1>2, <3>1
  <2> HIDE DEF p
  <2>6. loc'[t] = NoLocals /\ pc'[t] = p
    BY <1>1, <2>1
  <2>7. p \in Place \ (Linking \cup Renewing \cup {"swap", "first"} \cup HoldingMutex \cup Headless \cup Joined \cup Freeing)
    BY <2>5 DEF Place, Linking, Renewing, HoldingMutex, Headless, Joined, Waiting, Freeing
  <2>8. ProgramInv(t)'
    <3>1. Len(deque'[t]) = 0
      BY <2>2
    <3>2. p # "done" => trx'[t] <= Len(Programs[t]) /\ 0 < Len(Programs[t][trx'[t]]) /\ Len(Programs[t][trx'[t]]) \in Nat
      <4> SUFFICES ASSUME p # "done"
                   PROVE  trx'[t] <= Len(Programs[t]) /\ 0 < Len(Programs[t][trx'[t]]) /\ Len(Programs[t][trx'[t]]) \in Nat
        OBVIOUS
      <4>1. PICK x \in 1 .. Len(Programs[t]) : x = trx'[t]
        BY <2>3, <2>5
      <4>2. Programs[t][x] \in Seq(Request) /\ Len(Programs[t][x]) > 0
        BY ProgramIs
      <4>3. Len(Programs[t][x]) \in Nat
        BY <4>2
      <4>4. Len(Programs[t]) \in Nat
        BY ProgramIs
      <4>5. x <= Len(Programs[t])
        BY <4>1, <4>4
      <4> QED
        BY <4>1, <4>2, <4>3, <4>5
    <3> QED
      BY <2>5, <2>6, <2>7, <3>1, <3>2 DEF ProgramInv, Program, Renewing
  <2>9. LockInv(t)'
    BY <1>7, <2>2, <2>6, <2>7 DEF LockInv, HasHead
  <2>10. CallAt(p, NoLocals)
    BY <1>5, <2>5 DEF CallAt, Linking, HoldingMutex, Probing
  <2>11. HeadInv(t)'
    BY <2>6, <2>7 DEF HeadInv, HoldingMutex
  <2> QED
    BY <1>1, <1>4, <1>5, <2>1, <2>2, <2>3, <2>4, <2>7, <2>8, <2>9, <2>10, <2>11, QuietStep
<1> QED
  BY <1>8, <1>9

LEMMA HeadPassSet ==
  ASSUME lk \in [Lock -> Fields], NEW l \in Lock, lk' = [lk EXCEPT ![l].headPass = TRUE]
  PROVE  lk' \in [Lock -> Fields] /\ \A k \in Lock : lk'[k].idPass = lk[k].idPass
<1>1. lk' = [lk EXCEPT ![l] = [lk[l] EXCEPT !.headPass = TRUE]]
  OBVIOUS
<1>2. [lk[l] EXCEPT !.headPass = TRUE] \in Fields /\ [lk[l] EXCEPT !.headPass = TRUE].idPass = lk[l].idPass
  BY DEF Fields
<1> QED
  BY <1>1, <1>2

LEMMA WakeIs ==
  ASSUME lk \in [Lock -> Fields], waitSet \subseteq Thread, NEW l \in Lock, Wake(l)
  PROVE  /\ lk' \in [Lock -> Fields] /\ \A k \in Lock : lk'[k].idPass = lk[k].idPass
         /\ waitSet' \subseteq Thread
<1>1. lk' = [lk EXCEPT ![l] = [lk[l] EXCEPT !.signal = TRUE]]
  BY DEF Wake
<1>2. [lk[l] EXCEPT !.signal = TRUE] \in Fields /\ [lk[l] EXCEPT !.signal = TRUE].idPass = lk[l].idPass
  BY DEF Fields
<1> QED
  BY <1>1, <1>2 DEF Wake

\* The thread goes on and keeps its locals and the mutex.
LEMMA HoldInv ==
  ASSUME IInv, NEW t \in Thread, pc[t] \in HoldingMutex, NEW p \in HoldingMutex \ {"pass_head"}, Goto(t, p),
         UNCHANGED <<head, tail, mutex, conflict, saved, deque, trx, loc>>,
         lk' \in [Lock -> Fields], \A l \in Lock : lk'[l].idPass = lk[l].idPass, waitSet' \subseteq Thread,
         p \in {"front", "advance", "new_front", "wake_head"} => pc[t] \in {"front", "pass_head", "new_front"}
  PROVE  IInv'
<1>1. /\ loc[t].target \in Lock /\ mutex[Rec(Releases(t))] = t
      /\ pc[t] \in {"front", "pass_head", "new_front"} => loc[t].target = head[Rec(Releases(t))]
  BY HoldingIs
<1>2. /\ loc \in [Thread -> Locals] /\ loc[t] \in Locals /\ mutex \in [Record -> Thread \cup {NoThread}]
  BY CallIs
<1>3. loc' = [loc EXCEPT ![t] = loc[t]]
  BY <1>2
<1>4. pc[t] \in Freeing /\ p \in Freeing
  BY DEF Freeing
<1> QED
  BY <1>1, <1>2, <1>3, <1>4, FreeingStep

LEMMA MarkInv ==
  ASSUME IInv, NEW t \in Thread, MarkObsolete(t) \/ LockHead(t)
  PROVE  IInv'
<1>1. pc[t] \in {"release", "head_mutex"} /\ pc[t] \in Freeing
  BY DEF MarkObsolete, LockHead, Freeing
<1>2. /\ Types /\ ProgramInv(t) /\ LockInv(t) /\ loc \in [Thread -> Locals] /\ loc[t] \in Locals /\ lk \in [Lock -> Fields]
      /\ mutex \in [Record -> Thread \cup {NoThread}] /\ waitSet \subseteq Thread /\ head \in [Record -> Node]
      /\ deque[t] \in Seq(Lock)
  BY CallIs DEF Types
<1>3. loc[t].i \in 1 .. Len(deque[t]) /\ pc[t] \notin Headless
  BY <1>1, <1>2 DEF ProgramInv, Headless
<1>4. Releases(t) \in Lock /\ Rec(Releases(t)) \in Record
  BY <1>2, <1>3, LockIs DEF Releases
<1>5. CASE MarkObsolete(t)
  <2>1. lk' \in [Lock -> Fields] /\ \A l \in Lock : lk'[l].idPass = lk[l].idPass
    BY <1>2, <1>4, <1>5, StateSet DEF MarkObsolete, State
  <2>2. "head_mutex" \in Freeing \ (HoldingMutex \cup {"pass_head", "front", "advance", "new_front", "wake_head"})
    BY DEF Freeing, HoldingMutex
  <2>3. loc' = [loc EXCEPT ![t] = loc[t]] /\ Goto(t, "head_mutex") /\ UNCHANGED shared
    BY <1>2, <1>5 DEF MarkObsolete
  <2> QED
    BY <1>1, <1>2, <2>1, <2>2, <2>3, FreeingStep DEF shared
<1>6. CASE LockHead(t)
  <2> DEFINE h == head[Rec(Releases(t))]
             m == [loc[t] EXCEPT !.target = h]
  <2>1. h \in Lock
    <3>1. HasHead(Rec(Releases(t)))
      BY <1>2, <1>3 DEF LockInv, Releases
    <3> QED
      BY <1>2, <1>4, <3>1 DEF HasHead, Node
  <2>2. /\ loc' = [loc EXCEPT ![t] = m] /\ Goto(t, "front") /\ mutex[Rec(Releases(t))] = NoThread
        /\ mutex' = [mutex EXCEPT ![Rec(Releases(t))] = t]
        /\ UNCHANGED <<lk, head, tail, conflict, waitSet, saved, deque, trx>>
    BY <1>6 DEF LockHead
  <2> HIDE DEF h
  <2>3. m \in Locals /\ m.i = loc[t].i /\ m.target = h
    BY <1>2, <2>1 DEF Locals
  <2> HIDE DEF m
  <2>4. /\ mutex' \in [Record -> Thread \cup {NoThread}] /\ mutex'[Rec(Releases(t))] = t
        /\ \A r \in Record : mutex[r] \notin {t, NoThread} => mutex'[r] = mutex[r]
    BY <1>2, <1>4, <2>2
  <2>5. "front" \in Freeing /\ "front" # "pass_head"
    BY DEF Freeing, HoldingMutex
  <2>6. m.target = head[Rec(Releases(t))]
    BY <2>3 DEF h
  <2> QED
    BY <1>1, <1>2, <2>1, <2>2, <2>3, <2>4, <2>5, <2>6, FreeingStep
<1> QED
  BY <1>5, <1>6

\* The steps under the mutex of the head that leave the head where it is.
LEMMA HeldInv ==
  ASSUME IInv, NEW t \in Thread,
         Front(t) \/ PassHead(t) \/ NewFront(t) \/ WakeHead(t) \/ WakeNext(t) \/ WakeOther(t)
  PROVE  IInv'
<1>1. pc[t] \in HoldingMutex /\ pc[t] \in Freeing
  BY DEF Front, PassHead, NewFront, WakeHead, WakeNext, WakeOther, HoldingMutex, Freeing
<1>2. /\ loc \in [Thread -> Locals] /\ loc[t] \in Locals /\ lk \in [Lock -> Fields] /\ CallAt(pc[t], loc[t])
      /\ mutex \in [Record -> Thread \cup {NoThread}] /\ waitSet \subseteq Thread
  BY CallIs
<1>3. loc[t].target \in Lock /\ mutex[Rec(Releases(t))] = t
  BY <1>1, HoldingIs
<1>4. {"advance", "new_front", "wake_head", "wake_next", "wake_other"} \subseteq HoldingMutex \ {"pass_head"}
  BY DEF HoldingMutex
<1>5. CASE Front(t)
  <2>1. pc[t] = "front" /\ UNCHANGED <<lk, head, tail, conflict, waitSet, saved>>
    BY <1>5 DEF Front
  <2>2. CASE Hold(t, "advance")
    BY <1>1, <1>2, <1>4, <2>1, <2>2, HoldInv DEF Hold
  <2>3. CASE Unlock(t)
    BY <1>1, <1>2, <2>1, <2>3, UnlockInv
  <2> QED
    BY <1>5, <2>2, <2>3 DEF Front
<1>6. CASE PassHead(t)
  <2>1. pc[t] = "pass_head" /\ UNCHANGED <<shared, loc>> /\ Goto(t, "new_front")
    BY <1>6 DEF PassHead
  <2>2. loc[t].prev \in Lock
    BY <1>2, <2>1 DEF CallAt
  <2>3. lk' \in [Lock -> Fields] /\ \A l \in Lock : lk'[l].idPass = lk[l].idPass
    BY <1>2, <1>6, <2>2, HeadPassSet DEF PassHead
  <2> QED
    BY <1>1, <1>2, <1>4, <2>1, <2>3, HoldInv DEF shared
<1>7. CASE NewFront(t)
  <2>1. pc[t] = "new_front" /\ UNCHANGED <<lk, shared, loc>>
    BY <1>7 DEF NewFront
  <2>2. PICK p \in {"advance", "wake_head"} : Goto(t, p)
    BY <1>7 DEF NewFront
  <2> QED
    BY <1>1, <1>2, <1>4, <2>1, <2>2, HoldInv DEF shared
<1>8. CASE WakeHead(t)
  <2>1. pc[t] = "wake_head" /\ UNCHANGED <<head, tail, conflict, saved>> /\ Wake(loc[t].target)
    BY <1>8 DEF WakeHead
  <2>2. lk' \in [Lock -> Fields] /\ (\A l \in Lock : lk'[l].idPass = lk[l].idPass) /\ waitSet' \subseteq Thread
    BY <1>2, <1>3, <2>1, WakeIs
  <2>3. CASE Hold(t, "wake_next")
    BY <1>1, <1>4, <2>1, <2>2, <2>3, HoldInv DEF Hold
  <2>4. CASE Unlock(t)
    BY <1>1, <2>1, <2>2, <2>4, UnlockInv
  <2> QED
    BY <1>8, <2>3, <2>4 DEF WakeHead
<1>9. CASE WakeNext(t)
  <2> DEFINE l == lk[loc[t].target].next
  <2>1. pc[t] = "wake_next" /\ UNCHANGED <<lk, head, tail, conflict, waitSet, saved>>
    BY <1>9 DEF WakeNext
  <2>2. CASE Unlock(t)
    BY <1>1, <1>2, <2>1, <2>2, UnlockInv
  <2>3. CASE ~(l = NoLock \/ (lk[l].state # "OBSOLETE" /\ lk[l].mode = "EXCLUSIVE"))
    <3> DEFINE m == [loc[t] EXCEPT !.target = l]
               p == IF lk[l].state = "OBSOLETE" THEN "wake_next" ELSE "wake_other"
    <3>1. l \in Lock
      BY <1>2, <1>3, <2>3 DEF Fields
    <3>2. loc' = [loc EXCEPT ![t] = m] /\ Goto(t, p) /\ UNCHANGED <<mutex, deque, trx>>
      BY <1>9, <2>3 DEF WakeNext
    <3> HIDE DEF l
    <3>3. m \in Locals /\ m.i = loc[t].i /\ m.target = l
      BY <1>2, <3>1 DEF Locals
    <3>4. p \in Freeing \ {"front", "advance", "pass_head", "new_front", "wake_head"}
      BY DEF Freeing, HoldingMutex
    <3> HIDE DEF m, p
    <3> QED
      BY <1>1, <1>2, <1>3, <2>1, <3>1, <3>2, <3>3, <3>4, FreeingStep
  <2> QED
    BY <1>9, <2>2, <2>3 DEF WakeNext
<1>10. CASE WakeOther(t)
  <2>1. /\ UNCHANGED <<head, tail, conflict, saved>> /\ Wake(loc[t].target) /\ Hold(t, "wake_next")
    BY <1>10 DEF WakeOther
  <2>2. lk' \in [Lock -> Fields] /\ (\A l \in Lock : lk'[l].idPass = lk[l].idPass) /\ waitSet' \subseteq Thread
    BY <1>2, <1>3, <2>1, WakeIs
  <2> QED
    BY <1>1, <1>4, <2>1, <2>2, HoldInv DEF Hold
<1> QED
  BY <1>5, <1>6, <1>7, <1>8, <1>9, <1>10

\* The head moves on: the record keeps a head, and only the thread that has its mutex stands on it.
LEMMA AdvanceInv ==
  ASSUME IInv, NEW t \in Thread, Advance(t)
  PROVE  IInv'
<1>1. pc[t] = "advance" /\ UNCHANGED <<lk, tail, conflict, waitSet, saved>> /\ pc[t] \in HoldingMutex
  BY DEF Advance, HoldingMutex
<1>2. /\ Types /\ ProgramInv(t) /\ LockInv(t) /\ loc \in [Thread -> Locals] /\ loc[t] \in Locals /\ FirstInv /\ PassInv
      /\ pc \in [Thread -> Place] /\ lk \in [Lock -> Fields] /\ waitSet \subseteq Thread /\ head \in [Record -> Node]
      /\ deque[t] \in Seq(Lock)
  BY CallIs DEF IInv, Types
<1>3. PICK r \in Record : /\ r = Rec(Releases(t)) /\ mutex[r] = t /\ head[r] \in Lock
                          /\ loc[t].target \in Lock
  BY <1>1, HoldingIs
<1>4. CASE Unlock(t) /\ UNCHANGED head
  BY <1>1, <1>2, <1>4, UnlockInv
<1>5. CASE lk[loc[t].target].next # NoLock
  <2>1. PICK l \in Lock : l = lk[loc[t].target].next
    BY <1>2, <1>3, <1>5 DEF Fields
  <2> DEFINE m == [loc[t] EXCEPT !.prev = loc[t].target, !.target = l]
  <2>2. /\ head' = [head EXCEPT ![r] = l] /\ loc' = [loc EXCEPT ![t] = m]
        /\ pc' = [pc EXCEPT ![t] = "pass_head"] /\ UNCHANGED <<mutex, deque, trx>>
    BY <1>3, <1>5, <2>1 DEF Advance, Goto
  <2>3. m \in Locals /\ m.i = loc[t].i /\ m.target = l /\ m.prev \in Lock
    BY <1>2, <1>3, <2>1 DEF Locals
  <2> HIDE DEF m
  <2>4. head' \in [Record -> Node] /\ \A k \in Record : head'[k] = IF k = r THEN l ELSE head[k]
    BY <1>2, <2>1, <2>2 DEF Node
  <2>5. loc'[t] = m /\ pc'[t] = "pass_head" /\ \A u \in Thread \ {t} : pc'[u] = pc[u] /\ loc'[u] = loc[u]
    BY <1>2, <2>2
  <2>6. /\ "pass_head" \in Place \ (Linking \cup Renewing \cup {"swap", "first", "done", "pick"} \cup Headless \cup Joined)
        /\ "pass_head" \notin Probing /\ "pass_head" \in HoldingMutex
        /\ pc[t] \notin Headless /\ pc[t] # "done" /\ pc[t] \in Freeing /\ pc[t] \notin Waiting \cup {"grant", "give_up"}
    BY <1>1 DEF Place, Linking, Renewing, HoldingMutex, Headless, Joined, Waiting, Freeing, Probing
  <2>7. Others(t)
    BY <1>1, <2>2, <2>5 DEF Others
  <2>8. Grows
    <3>1. \A k \in Record : head[k] # NoLock => head'[k] # NoLock
      BY <2>1, <2>4, LockIs
    <3> QED
      BY <1>1, <1>2, <3>1, GrowsIs
  <2>9. Types'
    <3>1. pc' \in [Thread -> Place]
      BY <1>2, <2>2, <2>6
    <3>2. loc' \in [Thread -> Locals]
      BY <1>2, <2>2, <2>3
    <3> QED
      BY <1>1, <1>2, <2>2, <2>4, <3>1, <3>2 DEF Types
  <2>10. FirstInv'
    <3>1. head[r] # NoLock
      BY <1>3, LockIs
    <3>2. \A k \in Record : tail'[k] = NoLock => head'[k] = NoLock
      BY <1>1, <1>2, <2>4, <3>1 DEF FirstInv
    <3>3. \A u \in Thread : pc'[u] = "first" => u # t /\ pc[u] = "first" /\ loc'[u] = loc[u]
      BY <2>5
    <3>4. \A u \in Thread : pc'[u] = "first" => tail'[Rec(loc'[u].new)] # NoLock /\ head'[Rec(loc'[u].new)] = NoLock
      <4> SUFFICES ASSUME NEW u \in Thread, pc'[u] = "first"
                   PROVE  tail[Rec(loc[u].new)] # NoLock /\ head'[Rec(loc[u].new)] = NoLock
        BY <1>1, <3>3
      <4>1. pc[u] = "first" /\ pc[u] \in Headless
        BY <3>3 DEF Headless
      <4>2. tail[Rec(loc[u].new)] # NoLock /\ head[Rec(loc[u].new)] = NoLock
        BY <1>2, <4>1 DEF FirstInv
      <4>3. Rec(loc[u].new) \in Record
        BY <4>1, CallIs
      <4> QED
        BY <2>4, <3>1, <4>2, <4>3
    <3>5. \A u, v \in Thread : pc'[u] = "first" /\ pc'[v] = "first" /\ Rec(loc'[u].new) = Rec(loc'[v].new) => u = v
      BY <1>2, <3>3 DEF FirstInv
    <3> QED
      BY <3>2, <3>4, <3>5 DEF FirstInv
  <2>11. PassInv'
    <3>1. pc'[t] \notin Linking /\ pc'[t] \notin Renewing \cup {"swap"} /\ tail' = tail /\ saved' = saved /\ lk' = lk
      BY <1>1, <2>5, <2>6
    <3>2. \A u \in Thread : CallInv(u) /\ LockInv(u)
      BY DEF IInv
    <3> QED
      BY <1>2, <2>7, <3>1, <3>2, PassKept
  <2>12. ProgramInv(t)'
    <3>1. loc'[t].i \in 1 .. Len(deque'[t])
      BY <1>2, <2>2, <2>3, <2>5, <2>6 DEF ProgramInv
    <3> QED
      BY <1>2, <2>2, <2>5, <2>6, <3>1 DEF ProgramInv, Program
  <2>13. LockInv(t)'
    <3>1. \A n \in 1 .. Len(deque[t]) : head'[Rec(deque[t][n])] # NoLock
      <4> SUFFICES ASSUME NEW n \in 1 .. Len(deque[t]) PROVE head'[Rec(deque[t][n])] # NoLock
        OBVIOUS
      <4>1. deque[t][n] \in Lock /\ Rec(deque[t][n]) \in Record
        BY <1>2, LockIs
      <4>2. head[Rec(deque[t][n])] # NoLock
        BY <1>2, <2>6 DEF LockInv, HasHead
      <4> QED
        BY <2>8, <4>1, <4>2 DEF Grows
    <3>2. conflict'[t] = NoLock
      BY <1>1, <1>2, <2>6 DEF LockInv
    <3> QED
      BY <2>2, <2>5, <2>6, <3>1, <3>2 DEF LockInv, HasHead
  <2>14. CallInv(t)'
    BY <2>1, <2>3, <2>5, <2>6 DEF CallInv, CallAt
  <2>15. HeadInv(t)'
    <3>1. Releases(t)' = Releases(t)
      BY <2>2, <2>3, <2>5 DEF Releases
    <3> QED
      BY <1>3, <2>2, <2>3, <2>4, <2>5, <3>1 DEF HeadInv
  <2>16. ASSUME NEW u \in Thread, u # t
         PROVE  ProgramInv(u)' /\ LockInv(u)' /\ CallInv(u)' /\ HeadInv(u)'
    <3>1. ProgramInv(u)' /\ LockInv(u)' /\ CallInv(u)'
      BY <2>7, <2>8, <2>16, OthersKept
    <3>2. pc'[u] = pc[u] /\ loc'[u] = loc[u] /\ deque'[u] = deque[u] /\ mutex' = mutex
      BY <2>2, <2>5, <2>16
    <3>3. CASE pc[u] \in HoldingMutex
      <4>1. Rec(Releases(u)) \in Record /\ mutex[Rec(Releases(u))] = u
        BY <3>3, HoldingIs
      <4>2. head'[Rec(Releases(u))] = head[Rec(Releases(u))]
        BY <1>3, <2>4, <2>16, <4>1
      <4>3. HeadInv(u)
        BY DEF IInv
      <4> QED
        BY <3>1, <3>2, <4>2, <4>3 DEF HeadInv, Releases
    <3>4. CASE pc[u] \notin HoldingMutex
      BY <3>1, <3>2, <3>4 DEF HeadInv, HoldingMutex
    <3> QED
      BY <3>3, <3>4
  <2> QED
    BY <2>9, <2>10, <2>11, <2>12, <2>13, <2>14, <2>15, <2>16 DEF IInv
<1> QED
  BY <1>4, <1>5 DEF Advance

\* A step in which nothing happens, or only a wakeup without a notification.
LEMMA Unchanged ==
  ASSUME IInv, waitSet' \subseteq waitSet,
         UNCHANGED <<lk, head, tail, mutex, conflict, saved, deque, trx, pc, loc>>
  PROVE  IInv'
<1>1. /\ lk' = lk /\ head' = head /\ tail' = tail /\ mutex' = mutex /\ conflict' = conflict /\ waitSet' \subseteq waitSet
      /\ saved' = saved /\ deque' = deque /\ trx' = trx /\ pc' = pc /\ loc' = loc
  OBVIOUS
<1>2. Types' /\ FirstInv' /\ PassInv'
  BY <1>1 DEF IInv, Types, FirstInv, PassInv, Created
<1>3. \A t \in Thread : ProgramInv(t)' /\ LockInv(t)' /\ CallInv(t)' /\ HeadInv(t)'
  <2> SUFFICES ASSUME NEW t \in Thread
               PROVE  ProgramInv(t)' /\ LockInv(t)' /\ CallInv(t)' /\ HeadInv(t)'
    OBVIOUS
  <2>1. ProgramInv(t) /\ LockInv(t) /\ CallInv(t) /\ HeadInv(t)
    BY DEF IInv
  <2>2. ProgramInv(t)'
    BY <1>1, <2>1 DEF ProgramInv, Program
  <2>3. LockInv(t)'
    BY <1>1, <2>1 DEF LockInv, HasHead, Created
  <2>4. CallInv(t)'
    BY <1>1, <2>1 DEF CallInv, CallAt, HasHead
  <2>5. HeadInv(t)'
    BY <1>1, <2>1 DEF HeadInv, Releases
  <2> QED
    BY <2>2, <2>3, <2>4, <2>5
<1> QED
  BY <1>2, <1>3 DEF IInv

LEMMA NextInv == IInv /\ [Next]_vars => IInv'
<1> SUFFICES ASSUME IInv, [Next]_vars PROVE IInv'
  OBVIOUS
<1>1. ASSUME NEW t \in Thread, Acquiring(t) PROVE IInv'
  <2>1. CASE Pick(t) \/ RenewState(t) \/ RenewNext(t) \/ SetMode(t)
    BY <2>1, PickInv, RenewInv, SetModeInv
  <2>2. CASE Swap(t) \/ Link(t) \/ AwaitId(t) \/ PassId(t) \/ FirstLock(t) \/ SetConflict(t)
    BY <2>2, SwapInv, LinkStepInv, PassIdInv, FirstLockInv
  <2>3. CASE FromHead(t) \/ Collect(t) \/ CollectNext(t)
    BY <2>3, CollectInv
  <2>4. CASE Check(t) \/ CheckId(t) \/ CheckMode(t) \/ Wait(t) \/ Unwait(t)
    BY <2>4, CheckInv
  <2>5. CASE Deadlock(t) \/ GiveUp(t) \/ Sleep(t) \/ Awake(t) \/ Grant(t)
    BY <2>5, WakesInv, GrantInv
  <2> QED
    BY <1>1, <2>1, <2>2, <2>3, <2>4, <2>5 DEF Acquiring
<1>2. ASSUME NEW t \in Thread, Searching(t) PROVE IInv'
  <2>1. CASE Fill(t) \/ Pop(t) \/ NoDeadlock(t)
    BY <2>1, FillInv, PopInv, NoDeadlockInv
  <2>2. CASE Probe(t) \/ ProbeId(t) \/ ProbeHead(t)
    BY <2>2, ProbeInv
  <2>3. CASE Walk(t) \/ WalkNext(t) \/ WalkId(t) \/ WalkAgain(t) \/ WalkHead(t)
    BY <2>3, WalkInv
  <2> QED
    BY <1>2, <2>1, <2>2, <2>3 DEF Searching
<1>3. ASSUME NEW t \in Thread, Releasing(t) PROVE IInv'
  <2>1. CASE MarkObsolete(t) \/ LockHead(t)
    BY <2>1, MarkInv
  <2>2. CASE Front(t) \/ PassHead(t) \/ NewFront(t) \/ WakeHead(t) \/ WakeNext(t) \/ WakeOther(t)
    BY <2>2, HeldInv
  <2>3. CASE Advance(t)
    BY <2>3, AdvanceInv
  <2> QED
    BY <1>3, <2>1, <2>2, <2>3 DEF Releasing
<1>4. CASE UNCHANGED vars
  BY <1>4, Unchanged DEF vars
<1> QED
  BY <1>1, <1>2, <1>3, <1>4 DEF Next, Step, Done

LEMMA SpuriousInv == IInv /\ [Next \/ \E t \in Thread : SpuriousWakeup(t)]_vars => IInv'
<1> SUFFICES ASSUME IInv, NEW t \in Thread, SpuriousWakeup(t) PROVE IInv'
  BY NextInv
<1> QED
  BY Unchanged DEF SpuriousWakeup

LEMMA TypesHold == IInv => TypeOK
BY DEF IInv, Types, TypeOK, Node

LEMMA AssertionsAre == IInv => AssertionsHold
<1> SUFFICES ASSUME IInv, NEW t \in Thread
             PROVE  /\ pc[t] = "pass_id" => ~lk[loc[t].prev].idPass
                    /\ pc[t] = "conflict" => conflict[t] = NoLock
                    /\ pc[t] = "head" => head[Rec(loc[t].new)] # NoLock
                    /\ pc[t] \in {"probe_head", "walk_again"} => head[Rec(loc[t].conf)] # NoLock
                    /\ pc[t] = "front" => loc[t].target # NoLock
                    /\ pc[t] = "wake_head" => loc[t].target = head[Rec(Releases(t))]
  BY DEF AssertionsHold
<1>1. LockInv(t) /\ CallInv(t) /\ HeadInv(t)
  BY DEF IInv
<1>2. pc[t] = "pass_id" => ~lk[loc[t].prev].idPass
  BY PassIs DEF Linking
<1>3. pc[t] = "conflict" => conflict[t] = NoLock
  BY <1>1 DEF LockInv, Waiting
<1>4. pc[t] = "head" => head[Rec(loc[t].new)] # NoLock
  BY <1>1 DEF LockInv, HasHead, Joined, Waiting
<1>5. pc[t] \in {"probe_head", "walk_again"} => head[Rec(loc[t].conf)] # NoLock
  BY <1>1 DEF CallInv, CallAt, HasHead, Probing
<1>6. pc[t] = "front" => loc[t].target # NoLock
  BY <1>1, LockIs DEF CallInv, CallAt, HoldingMutex
<1>7. pc[t] = "wake_head" => loc[t].target = head[Rec(Releases(t))]
  BY <1>1 DEF HeadInv
<1> QED
  BY <1>2, <1>3, <1>4, <1>5, <1>6, <1>7

\* The types of the locks, the heads and tails, and of where every thread stands, for every
\* number of threads and records and all transactions.
THEOREM TypeCorrect == Spec => []TypeOK
<1>1. Spec => []IInv
  BY InitInv, NextInv, PTL DEF Spec
<1> QED
  BY <1>1, TypesHold, PTL

\* The assertions of AcquireLock and ReleaseLock never fail, and IsDeadlock never follows a
\* head that is nullptr: an id is taken over once, and a list that has a lock keeps a head.
THEOREM AssertionsNeverFail == Spec => []AssertionsHold
<1>1. Spec => []IInv
  BY InitInv, NextInv, PTL DEF Spec
<1> QED
  BY <1>1, AssertionsAre, PTL

\* They do not fail either when wait() returns without a notification.
THEOREM AssertionsSpurious == SpuriousSpec => []AssertionsHold
<1>1. SpuriousSpec => []IInv
  BY InitInv, SpuriousInv, PTL DEF SpuriousSpec
<1> QED
  BY <1>1, AssertionsAre, PTL

-----------------------------------------------------------------------------
(* The order of the lists *)

\* The places where a thread prepares the lock it is about to put into a list.
Preparing == Renewing \cup {"swap"}

Out(l) == pc[Owner(l)] \in Preparing /\ loc[Owner(l)].new = l

\* The lock was put into its list and has not been used again since.
Listed(l) == Created(l) /\ ~Out(l)

\* The head has moved over the lock.
Overtaken(rank, l) == HasHead(Rec(l)) /\ rank[l] < rank[head[Rec(l)]]

\* The places where the state of the new lock may be WAIT.
MayWait == {"check", "check_id", "unwait", "fill", "pop", "deadlock", "sleep", "asleep"} \cup Probing

\* The id of a lock, once it has one.
IdInv(rank, l) ==
  /\ ~Listed(l) => lk[l].id = MaxId
  /\ Listed(l) => lk[l].id \in {MaxId, rank[l]}
  /\ Listed(l) =>
       (lk[l].id = MaxId <=> pc[Owner(l)] \in {"link", "await_id", "first"} /\ loc[Owner(l)].new = l)
  /\ Listed(l) /\ ~HasHead(Rec(l)) => lk[l].id = MaxId

\* A lock that is not in use looks like a new one, and only a lock a thread asks for is WAIT.
FreshInv(l) ==
  /\ ~Created(l) \/ (loc[Owner(l)].new = l /\ pc[Owner(l)] \in {"mode", "swap"}) =>
       lk[l].next = NoLock /\ ~lk[l].headPass /\ ~lk[l].signal /\ lk[l].state = "ACTIVE"
  /\ loc[Owner(l)].new = l /\ pc[Owner(l)] = "renew_next" => lk[l].state = "ACTIVE"
  /\ lk[l].state = "WAIT" => loc[Owner(l)].new = l /\ pc[Owner(l)] \in MayWait

\* Two locks of one list have their own places, and the first one got its id first.
OrderInv(rank, l, m) ==
  Listed(l) /\ Listed(m) /\ Rec(l) = Rec(m) =>
    /\ rank[l] = rank[m] => l = m
    /\ rank[m] < rank[l] /\ lk[l].id # MaxId => lk[m].id # MaxId

\* The tail is the last lock, and the head one of its list.
EndsInv(rank, r) ==
  /\ tail[r] # NoLock => Listed(tail[r])
  /\ \A l \in Lock : Listed(l) /\ Rec(l) = r => tail[r] # NoLock /\ rank[l] <= rank[tail[r]]
  /\ HasHead(r) => Rec(head[r]) = r /\ Listed(head[r])

\* The head has passed released locks only.
PassedInv(rank, l) ==
  Listed(l) =>
    /\ lk[l].headPass => Overtaken(rank, l)
    /\ Overtaken(rank, l) => lk[l].state = "OBSOLETE"

\* The links, and that every lock the head has not reached has one before it.
LinkInv(rank, l) ==
  Listed(l) =>
    /\ lk[l].next # NoLock =>
         /\ Rec(lk[l].next) = Rec(l)
         /\ Listed(lk[l].next) => rank[lk[l].next] > rank[l]
         /\ ~Overtaken(rank, l) => Listed(lk[l].next) /\ rank[lk[l].next] = rank[l] + 1
    /\ rank[l] > 0 /\ (HasHead(Rec(l)) => rank[head[Rec(l)]] < rank[l]) =>
         \E m \in Lock :
           /\ Listed(m) /\ Rec(m) = Rec(l) /\ rank[m] + 1 = rank[l]
           /\ \/ lk[m].next = l
              \/ pc[Owner(l)] = "link" /\ loc[Owner(l)].new = l /\ loc[Owner(l)].prev = m

\* The locks of a thread are in the lists. None is OBSOLETE before it is released.
DequeInv(t) ==
  /\ \A l \in Locks(t) :
       /\ Owner(l) = t
       /\ Listed(l) \/ (pc[t] = "swap" /\ l = loc[t].new)
       /\ pc[t] \notin Freeing \cup {"give_up"} => lk[l].state # "OBSOLETE"
  /\ pc[t] \in Headless \cup Joined => loc[t].new \in Locks(t)
  /\ pc[t] = "give_up" => lk[loc[t].new].state = "OBSOLETE"
  /\ pc[t] \in {"pick", "done"} \cup Freeing => loc[t].new = NoLock

\* A thread that joins a list stands at place p with the locals x.
JoinAt(rank, p, x) ==
  /\ p \in Linking => Listed(x.prev) /\ rank[x.new] = rank[x.prev] + 1
  /\ p = "first" => rank[x.new] = 0

\* A thread that moves the head of r stands there. Behind the head it has met SHARED
\* locks and released ones only.
HeadAt(rank, r, p, x) ==
  /\ p = "advance" => lk[x.target].state = "OBSOLETE"
  /\ p = "pass_head" =>
       Rec(x.prev) = r /\ Listed(x.prev) /\ Overtaken(rank, x.prev) /\ ~lk[x.prev].headPass
  /\ p \in {"wake_next", "wake_other"} =>
       /\ Rec(x.target) = r /\ Listed(x.target) /\ ~Overtaken(rank, x.target)
       /\ \A m \in Lock : Listed(m) /\ Rec(m) = r /\ rank[m] <= rank[x.target] =>
            lk[m].state = "OBSOLETE" \/ lk[m].mode = "SHARED"

\* The lists, if rank says where each lock stands in its list: the id it has or will get.
ListInv(rank) ==
  /\ \A l \in Lock : IdInv(rank, l) /\ FreshInv(l) /\ PassedInv(rank, l) /\ LinkInv(rank, l)
  /\ \A l, m \in Lock : OrderInv(rank, l, m)
  /\ \A r \in Record : EndsInv(rank, r)
  /\ \A t \in Thread :
       DequeInv(t) /\ JoinAt(rank, pc[t], loc[t]) /\ HeadAt(rank, Rec(Releases(t)), pc[t], loc[t])

\* No list runs out of ids.
IdsLast == \A l \in Lock : lk[l].id # MaxId => lk[l].id + 1 < MaxId

\* m keeps l from being granted.
Bars(rank, m, l) ==
  /\ Listed(m) /\ Rec(m) = Rec(l) /\ rank[m] < rank[l]
  /\ lk[m].state # "OBSOLETE" /\ ~Compatible(m, l)

Clear(rank, l) == \A m \in Lock : ~Bars(rank, m, l)

\* A search for the locks before n that comes to k next has found what bars n before k, and
\* finds the rest from k on: nobody links the locks up to n anew.
Ahead(rank, n, vec, k) ==
  Listed(k) /\ rank[k] <= rank[n] =>
    /\ \A m \in Lock : Bars(rank, m, n) => rank[m] >= rank[k] \/ \E j \in 1 .. Len(vec) : vec[j] = m
    /\ \A x \in Lock :
         Listed(x) /\ Rec(x) = Rec(n) /\ rank[k] <= rank[x] /\ rank[x] < rank[n] =>
           LET y == lk[x].next IN
           y # NoLock /\ Listed(y) /\ rank[y] <= rank[n] => rank[y] = rank[x] + 1

\* What bars n is among the first i locks that were found.
Found(rank, n, vec, i) ==
  \A m \in Lock : Bars(rank, m, n) => \E j \in 1 .. Len(vec) : j <= i /\ vec[j] = m

\* A thread that looks at the locks before its own stands at place p with the locals x.
SearchAt(rank, p, x) ==
  /\ p \in {"collect", "next"} => Rec(x.target) = Rec(x.new)
  /\ p = "collect" => x.target # x.new /\ Ahead(rank, x.new, x.vec, x.target)
  /\ p = "next" /\ lk[x.target].next # NoLock =>
       Rec(lk[x.target].next) = Rec(x.new) /\ Ahead(rank, x.new, x.vec, lk[x.target].next)
  /\ p \in {"check", "check_id", "check_mode", "wait"} => Found(rank, x.new, x.vec, x.i)
  /\ p = "unwait" => Found(rank, x.new, x.vec, x.i - 1)
  /\ p = "check_mode" => lk[x.new].mode = "SHARED"

\* What was granted was free to be, and so is what was signalled.
GrantedInv(rank, t) ==
  /\ \A l \in Held(t) : Clear(rank, l)
  /\ pc[t] = "asleep" /\ t \notin waitSet => lk[loc[t].new].signal

SignalInv(rank, l) == Listed(l) /\ lk[l].signal /\ lk[l].state # "OBSOLETE" => Clear(rank, l)

OrderlyInv(rank) ==
  /\ \A t \in Thread : GrantedInv(rank, t) /\ SearchAt(rank, pc[t], loc[t])
  /\ \A l \in Lock : SignalInv(rank, l)

\* The thread t can only change its own lock while it prepares it, and nothing else of the lists.
KeptLock(t, l) ==
  /\ Listed(l)' =>
       /\ Listed(l) /\ lk'[l].id = lk[l].id /\ lk'[l].next = lk[l].next
       /\ lk'[l].mode = lk[l].mode /\ lk'[l].headPass = lk[l].headPass
       /\ lk[l].state = "OBSOLETE" => lk'[l].state = "OBSOLETE"
       /\ lk[l].signal => lk'[l].signal
  /\ Listed(l) => Listed(l)' \/ (lk[l].headPass /\ lk[l].idPass)
  /\ ~Listed(l)' => lk'[l].id = MaxId
  /\ lk'[l].next \in {lk[l].next, NoLock}
  /\ Owner(l) # t =>
       lk'[l].state = lk[l].state /\ (~Listed(l) => lk'[l] = lk[l]) /\ (Created(l)' <=> Created(l))

Steady(t) ==
  /\ Others(t) /\ head' = head /\ tail' = tail
  /\ pc[t] \notin {"swap", "link", "await_id", "first"}
  /\ pc'[t] \notin {"link", "await_id", "first"}
  /\ \A l \in Lock : KeptLock(t, l)

LEMMA OthersListed ==
  ASSUME NEW t \in Thread, Others(t), NEW l \in Lock, Owner(l) # t, Created(l)' <=> Created(l)
  PROVE  Listed(l)' <=> Listed(l)
<1>1. Owner(l) \in Thread \ {t}
  BY LockIs
<1>2. pc'[Owner(l)] = pc[Owner(l)] /\ loc'[Owner(l)] = loc[Owner(l)]
  BY <1>1 DEF Others
<1> QED
  BY <1>2 DEF Listed, Out

\* What any step leaves of the lists to those who search them: a listed lock stays as it is,
\* unless it is recycled, gets the one behind it as its next, or is put behind all the others.
Gentle(t, rank, rk) ==
  \A l \in Lock :
    /\ Listed(l)' =>
         \/ /\ Listed(l) /\ rk[l] = rank[l] /\ lk'[l].mode = lk[l].mode
            /\ lk[l].state = "OBSOLETE" => lk'[l].state = "OBSOLETE"
         \/ /\ ~Listed(l) /\ Owner(l) = t
            /\ \A m \in Lock : Listed(m) /\ Rec(m) = Rec(l) => rank[m] < rk[l]
    /\ Listed(l) => Listed(l)' \/ (lk[l].headPass /\ lk[l].idPass)
    /\ \/ lk'[l].next \in {lk[l].next, NoLock}
       \/ LET y == lk'[l].next IN
          /\ y \in Lock /\ Listed(l) /\ Listed(y) /\ Rec(y) = Rec(l)
          /\ rank[y] = rank[l] + 1 /\ lk[y].id = MaxId

LEMMA SteadyGentle ==
  ASSUME NEW rank, NEW t, Steady(t)
  PROVE  Gentle(t, rank, rank)
<1>1. \A l \in Lock : KeptLock(t, l)
  BY DEF Steady
<1> QED
  BY <1>1 DEF KeptLock, Gentle

\* What a thread knows of the list it joins.
LEMMA JoinLift ==
  ASSUME NEW t, NEW rank, NEW rk, Gentle(t, rank, rk), NEW p, NEW x, JoinAt(rank, p, x),
         p \in Linking => x.prev \in Lock /\ ~lk[x.prev].idPass,
         p \in Linking \cup {"first"} => rk[x.new] = rank[x.new]
  PROVE  JoinAt(rk, p, x)'
<1>1. p \in Linking => Listed(x.prev)' /\ rk[x.prev] = rank[x.prev]
  BY DEF JoinAt, Gentle
<1> QED
  BY <1>1 DEF JoinAt

\* What a thread knows of the head it moves.
LEMMA HeadLift ==
  ASSUME NEW t, NEW rank \in [Lock -> Nat], NEW rk \in [Lock -> Nat], Gentle(t, rank, rk), Types,
         \A l \in Lock : PassedInv(rank, l),
         NEW r \in Record, head'[r] = head[r], EndsInv(rank, r), NEW p, NEW x, HeadAt(rank, r, p, x),
         p = "advance" => x.target \in Lock /\ x.target = head[r],
         p = "pass_head" => x.prev \in Lock /\ lk'[x.prev].headPass = lk[x.prev].headPass,
         p \in {"wake_next", "wake_other"} => x.target \in Lock
  PROVE  HeadAt(rk, r, p, x)'
<1>1. \A l \in Lock : Listed(l) /\ ~Overtaken(rank, l) => Listed(l)'
  BY DEF PassedInv, Gentle
<1>2. HasHead(r) => /\ head[r] \in Lock /\ Rec(head[r]) = r /\ Listed(head[r]) /\ ~Overtaken(rank, head[r])
                    /\ rk[head[r]] = rank[head[r]]
  <2> SUFFICES ASSUME HasHead(r)
               PROVE  /\ head[r] \in Lock /\ Rec(head[r]) = r /\ Listed(head[r]) /\ ~Overtaken(rank, head[r])
                      /\ rk[head[r]] = rank[head[r]]
    OBVIOUS
  <2>1. head[r] \in Lock /\ Rec(head[r]) = r /\ Listed(head[r])
    BY DEF EndsInv, Types, Node, HasHead
  <2>2. ~Overtaken(rank, head[r])
    BY <2>1 DEF Overtaken
  <2>3. PICK h : h = head[r]
    OBVIOUS
  <2>4. Listed(h)'
    BY <1>1, <2>1, <2>2, <2>3
  <2> QED
    BY <2>1, <2>2, <2>3, <2>4 DEF Gentle
<1>3. ASSUME NEW l \in Lock, Listed(l), Listed(l)', Rec(l) = r
      PROVE  rk[l] = rank[l] /\ (Overtaken(rk, l)' <=> Overtaken(rank, l))
  <2>1. rk[l] = rank[l]
    BY <1>3 DEF Gentle
  <2> QED
    BY <1>2, <1>3, <2>1 DEF Overtaken, HasHead
<1>4. p = "advance" => lk'[x.target].state = "OBSOLETE"
  <2> SUFFICES ASSUME p = "advance" PROVE lk'[x.target].state = "OBSOLETE"
    OBVIOUS
  <2>1. x.target \in Lock /\ x.target = head[r] /\ HasHead(r)
    BY LockIs DEF HasHead
  <2> QED
    BY <1>1, <1>2, <2>1 DEF Gentle, HeadAt
<1>5. p = "pass_head" =>
       (Rec(x.prev) = r /\ Listed(x.prev) /\ Overtaken(rk, x.prev) /\ ~lk[x.prev].headPass)'
  <2> SUFFICES ASSUME p = "pass_head"
               PROVE  Rec(x.prev) = r /\ Listed(x.prev)' /\ Overtaken(rk, x.prev)' /\ ~lk'[x.prev].headPass
    OBVIOUS
  <2>1. x.prev \in Lock /\ Rec(x.prev) = r /\ Listed(x.prev) /\ Overtaken(rank, x.prev) /\ ~lk[x.prev].headPass
    BY DEF HeadAt
  <2>2. Listed(x.prev)'
    BY <2>1 DEF Gentle
  <2> QED
    BY <1>3, <2>1, <2>2
<1>6. p \in {"wake_next", "wake_other"} =>
       (/\ Rec(x.target) = r /\ Listed(x.target) /\ ~Overtaken(rk, x.target)
        /\ \A m \in Lock : Listed(m) /\ Rec(m) = r /\ rk[m] <= rk[x.target] =>
             lk[m].state = "OBSOLETE" \/ lk[m].mode = "SHARED")'
  <2> SUFFICES ASSUME p \in {"wake_next", "wake_other"}
               PROVE  /\ Rec(x.target) = r /\ Listed(x.target)' /\ ~Overtaken(rk, x.target)'
                      /\ \A m \in Lock : Listed(m)' /\ Rec(m) = r /\ rk[m] <= rk[x.target] =>
                           lk'[m].state = "OBSOLETE" \/ lk'[m].mode = "SHARED"
    OBVIOUS
  <2>1. x.target \in Lock /\ Rec(x.target) = r /\ Listed(x.target) /\ ~Overtaken(rank, x.target)
    BY DEF HeadAt
  <2>2. Listed(x.target)' /\ rk[x.target] = rank[x.target] /\ ~Overtaken(rk, x.target)'
    BY <1>1, <1>3, <2>1
  <2>3. ASSUME NEW m \in Lock, Listed(m)', Rec(m) = r, rk[m] <= rk[x.target]
        PROVE  lk'[m].state = "OBSOLETE" \/ lk'[m].mode = "SHARED"
    <3>1. ~(rank[x.target] < rk[m])
      BY <2>1, <2>2, <2>3
    <3>2. Listed(m)
      BY <2>1, <2>3, <3>1 DEF Gentle
    <3>3. rk[m] = rank[m] /\ lk'[m].mode = lk[m].mode /\ (lk[m].state = "OBSOLETE" => lk'[m].state = "OBSOLETE")
      BY <2>3, <3>2 DEF Gentle
    <3>4. lk[m].state = "OBSOLETE" \/ lk[m].mode = "SHARED"
      BY <2>2, <2>3, <3>2, <3>3 DEF HeadAt
    <3> QED
      BY <3>3, <3>4
  <2> QED
    BY <2>1, <2>2, <2>3
<1> QED
  BY <1>4, <1>5, <1>6 DEF HeadAt

\* What the other threads know of the lists outlives any step of t.
LEMMA OthersInLists ==
  ASSUME IInv, NEW rank \in [Lock -> Nat], NEW rk \in [Lock -> Nat], ListInv(rank),
         NEW t \in Thread, Gentle(t, rank, rk), Others(t),
         \A l \in Lock : Owner(l) # t =>
           lk'[l].state = lk[l].state /\ rk[l] = rank[l] /\ (Created(l)' <=> Created(l)),
         NEW u \in Thread, u # t,
         pc[u] \in HoldingMutex => head'[Rec(Releases(u))] = head[Rec(Releases(u))],
         pc[u] = "pass_head" => lk'[loc[u].prev].headPass = lk[loc[u].prev].headPass
  PROVE  DequeInv(u)' /\ JoinAt(rk, pc[u], loc[u])' /\ HeadAt(rk, Rec(Releases(u)), pc[u], loc[u])'
<1>1. Types /\ PassInv /\ ProgramInv(u) /\ LockInv(u) /\ CallInv(u) /\ HeadInv(u)
  BY DEF IInv
<1>2. pc'[u] = pc[u] /\ loc'[u] = loc[u] /\ deque'[u] = deque[u]
  BY DEF Others
<1>3. DequeInv(u) /\ JoinAt(rank, pc[u], loc[u]) /\ HeadAt(rank, Rec(Releases(u)), pc[u], loc[u])
  BY DEF ListInv
<1>4. DequeInv(u)'
  <2>1. Locks(u)' = Locks(u) /\ Locks(u) \subseteq Lock
    BY <1>1, <1>2 DEF Locks, Types
  <2>2. \A l \in Locks(u) : l \in Lock /\ Owner(l) = u
    BY <1>3, <2>1 DEF DequeInv
  <2>3. \A l \in Locks(u) : lk'[l].state = lk[l].state /\ (Listed(l)' <=> Listed(l))
    BY <2>2, OthersListed
  <2>4. pc[u] = "give_up" => loc[u].new \in Locks(u)
    BY <1>3 DEF DequeInv, Joined
  <2> QED
    BY <1>2, <1>3, <2>1, <2>2, <2>3, <2>4 DEF DequeInv
<1>5. JoinAt(rk, pc[u], loc[u])'
  <2>1. PICK q, y : q = pc[u] /\ y = loc[u] /\ q = pc'[u] /\ y = loc'[u]
    BY <1>2
  <2>2. JoinAt(rank, q, y) /\ (q \in Linking => y.prev \in Lock /\ ~lk[y.prev].idPass)
    BY <1>1, <1>3, <2>1 DEF CallInv, CallAt, PassInv
  <2>3. q \in Linking \cup {"first"} => rk[y.new] = rank[y.new]
    BY <1>1, <2>1 DEF LockInv, Linking, Headless, Joined
  <2>4. JoinAt(rk, q, y)'
    BY <2>2, <2>3, JoinLift
  <2> QED
    BY <2>1, <2>4 DEF JoinAt
<1>6. HeadAt(rk, Rec(Releases(u)), pc[u], loc[u])'
  <2>1. CASE pc[u] \notin HoldingMutex
    BY <1>2, <2>1 DEF HeadAt, HoldingMutex
  <2>2. CASE pc[u] \in HoldingMutex
    <3>1. PICK q, y, r : /\ q = pc[u] /\ y = loc[u] /\ r = Rec(Releases(u))
                         /\ q = pc'[u] /\ y = loc'[u] /\ r = Rec(Releases(u)')
      BY <1>2 DEF Releases
    <3>2. r \in Record
      <4>1. Releases(u) \in Lock
        BY <1>1, <2>2 DEF ProgramInv, Freeing, Releases, Types
      <4> QED
        BY <3>1, <4>1, LockIs
    <3>3. HeadAt(rank, r, q, y) /\ head'[r] = head[r]
      BY <1>3, <2>2, <3>1
    <3>4. /\ q = "advance" => y.target \in Lock /\ y.target = head[r]
          /\ q = "pass_head" => y.prev \in Lock /\ lk'[y.prev].headPass = lk[y.prev].headPass
          /\ q \in {"wake_next", "wake_other"} => y.target \in Lock
      BY <1>1, <3>1 DEF CallInv, CallAt, HeadInv, HoldingMutex
    <3>5. HeadAt(rk, r, q, y)'
      BY <1>1, <3>2, <3>3, <3>4, HeadLift DEF ListInv
    <3> QED
      BY <3>1, <3>5 DEF HeadAt
  <2> QED
    BY <2>1, <2>2
<1> QED
  BY <1>4, <1>5, <1>6

LEMMA FreshKept ==
  ASSUME NEW t \in Thread, Others(t), NEW l \in Lock, Owner(l) # t, FreshInv(l),
         lk'[l].state = lk[l].state, ~Listed(l) => lk'[l] = lk[l], Created(l)' <=> Created(l)
  PROVE  FreshInv(l)'
<1>1. pc'[Owner(l)] = pc[Owner(l)] /\ loc'[Owner(l)] = loc[Owner(l)]
  BY LockIs DEF Others
<1>2. ~Created(l)' \/ (loc'[Owner(l)].new = l /\ pc'[Owner(l)] \in {"mode", "swap"}) => ~Listed(l)
  BY <1>1 DEF Listed, Out, Preparing, Renewing
<1> QED
  BY <1>1, <1>2 DEF FreshInv

\* A step that leaves the lists alone keeps them in order.
LEMMA SteadyStep ==
  ASSUME IInv, IInv', NEW rank \in [Lock -> Nat], ListInv(rank), NEW t \in Thread, Steady(t),
         \A l \in Lock : Owner(l) = t => FreshInv(l)', DequeInv(t)',
         JoinAt(rank, pc[t], loc[t])', HeadAt(rank, Rec(Releases(t)), pc[t], loc[t])'
  PROVE  ListInv(rank)'
<1>1. Types /\ Types' /\ PassInv /\ FirstInv /\ \A u \in Thread : ProgramInv(u) /\ LockInv(u) /\ CallInv(u) /\ HeadInv(u)
  BY DEF IInv
<1>2. head' = head /\ tail' = tail /\ \A l \in Lock : KeptLock(t, l)
  BY DEF Steady
<1>3. \A l \in Lock : IdInv(rank, l) /\ FreshInv(l) /\ PassedInv(rank, l) /\ LinkInv(rank, l)
  BY DEF ListInv
<1>4. \A l : Overtaken(rank, l)' <=> Overtaken(rank, l)
  BY <1>2 DEF Overtaken, HasHead
<1>5. \A l \in Lock : Listed(l) /\ ~Overtaken(rank, l) => Listed(l)'
  BY <1>2, <1>3 DEF PassedInv, KeptLock
<1>6. \A l \in Lock : Listed(l)' => Listed(l)
  BY <1>2 DEF KeptLock
<1>7. \A u \in Thread \ {t} : pc'[u] = pc[u] /\ loc'[u] = loc[u] /\ deque'[u] = deque[u]
  BY DEF Steady, Others
<1>8. \A l \in Lock : Owner(l) # t => (Listed(l)' <=> Listed(l))
  BY <1>2, OthersListed DEF Steady, KeptLock
<1>9. ASSUME NEW l \in Lock
      PROVE  IdInv(rank, l)'
  <2>1. IdInv(rank, l) /\ KeptLock(t, l)
    BY <1>2, <1>3
  <2>2. Listed(l)' =>
          (lk'[l].id = MaxId <=> pc'[Owner(l)] \in {"link", "await_id", "first"} /\ loc'[Owner(l)].new = l)
    <3> SUFFICES ASSUME Listed(l)'
                 PROVE  lk'[l].id = MaxId <=> pc'[Owner(l)] \in {"link", "await_id", "first"} /\ loc'[Owner(l)].new = l
      OBVIOUS
    <3>1. lk'[l].id = MaxId <=> pc[Owner(l)] \in {"link", "await_id", "first"} /\ loc[Owner(l)].new = l
      BY <2>1 DEF IdInv, KeptLock
    <3>2. CASE Owner(l) = t
      BY <3>1, <3>2 DEF Steady
    <3>3. CASE Owner(l) # t
      BY <1>7, <3>1, <3>3, LockIs
    <3> QED
      BY <3>2, <3>3
  <2> QED
    BY <1>2, <2>1, <2>2 DEF IdInv, KeptLock, HasHead
<1>10. ASSUME NEW l \in Lock
       PROVE  FreshInv(l)'
  <2>1. CASE Owner(l) = t
    BY <2>1
  <2>2. CASE Owner(l) # t
    BY <1>2, <1>3, <2>2, FreshKept DEF Steady, KeptLock
  <2> QED
    BY <2>1, <2>2
<1>11. ASSUME NEW l \in Lock
       PROVE  PassedInv(rank, l)'
  BY <1>2, <1>3, <1>4 DEF PassedInv, KeptLock
<1>12. ASSUME NEW l \in Lock
       PROVE  LinkInv(rank, l)'
  <2> SUFFICES ASSUME Listed(l)' PROVE LinkInv(rank, l)'
    BY DEF LinkInv
  <2>1. Listed(l) /\ lk'[l].next = lk[l].next /\ LinkInv(rank, l)
    BY <1>2, <1>3 DEF KeptLock
  <2>2. Rec(l) \in Record /\ lk[l].next \in Node
    BY <1>1, LockIs DEF Types, Fields, Node
  <2>3. lk[l].next # NoLock =>
         /\ Rec(lk[l].next) = Rec(l)
         /\ Listed(lk[l].next)' => rank[lk[l].next] > rank[l]
         /\ ~Overtaken(rank, l) => Listed(lk[l].next)' /\ rank[lk[l].next] = rank[l] + 1
    <3> SUFFICES ASSUME lk[l].next # NoLock
                 PROVE  /\ Rec(lk[l].next) = Rec(l)
                        /\ Listed(lk[l].next)' => rank[lk[l].next] > rank[l]
                        /\ ~Overtaken(rank, l) => Listed(lk[l].next)' /\ rank[lk[l].next] = rank[l] + 1
      OBVIOUS
    <3>0. PICK m : m = lk[l].next
      OBVIOUS
    <3>1. m \in Lock /\ Rec(m) = Rec(l) /\ m = lk'[l].next
      BY <2>1, <2>2, <3>0 DEF LinkInv, Node
    <3>2. Listed(m)' => rank[m] > rank[l]
      BY <1>6, <2>1, <3>0, <3>1 DEF LinkInv
    <3>3. ~Overtaken(rank, l) => Listed(m)' /\ rank[m] = rank[l] + 1
      <4> SUFFICES ASSUME ~Overtaken(rank, l) PROVE Listed(m)' /\ rank[m] = rank[l] + 1
        OBVIOUS
      <4>1. Listed(m) /\ rank[m] = rank[l] + 1
        BY <2>1, <3>0 DEF LinkInv
      <4>2. HasHead(Rec(l)) => head[Rec(l)] \in Lock
        BY <1>1, <2>2 DEF HasHead, Types, Node
      <4>3. ~Overtaken(rank, m)
        BY <2>2, <3>1, <4>1, <4>2 DEF Overtaken
      <4> QED
        BY <1>5, <3>1, <4>1, <4>3
    <3>4. Listed(lk[l].next)' <=> Listed(m)'
      BY <3>1
    <3> QED
      BY <3>0, <3>1, <3>2, <3>3, <3>4
  <2>4. rank[l] > 0 /\ (HasHead(Rec(l)) => rank[head[Rec(l)]] < rank[l]) =>
         \E m \in Lock :
           /\ Listed(m)' /\ Rec(m) = Rec(l) /\ rank[m] + 1 = rank[l]
           /\ \/ lk'[m].next = l
              \/ pc'[Owner(l)] = "link" /\ loc'[Owner(l)].new = l /\ loc'[Owner(l)].prev = m
    <3> SUFFICES ASSUME rank[l] > 0, HasHead(Rec(l)) => rank[head[Rec(l)]] < rank[l]
                 PROVE  \E m \in Lock :
                          /\ Listed(m)' /\ Rec(m) = Rec(l) /\ rank[m] + 1 = rank[l]
                          /\ \/ lk'[m].next = l
                             \/ pc'[Owner(l)] = "link" /\ loc'[Owner(l)].new = l /\ loc'[Owner(l)].prev = m
      OBVIOUS
    <3>1. PICK m \in Lock :
           /\ Listed(m) /\ Rec(m) = Rec(l) /\ rank[m] + 1 = rank[l]
           /\ \/ lk[m].next = l
              \/ pc[Owner(l)] = "link" /\ loc[Owner(l)].new = l /\ loc[Owner(l)].prev = m
      BY <2>1 DEF LinkInv
    <3>2. HasHead(Rec(l)) => head[Rec(l)] \in Lock
      BY <1>1, <2>2 DEF HasHead, Types, Node
    <3>3. ~Overtaken(rank, m)
      BY <3>1, <3>2 DEF Overtaken
    <3>4. Listed(m)' /\ lk'[m].next = lk[m].next
      BY <1>2, <1>5, <3>1, <3>3 DEF KeptLock
    <3>5. pc[Owner(l)] = "link" => pc'[Owner(l)] = pc[Owner(l)] /\ loc'[Owner(l)] = loc[Owner(l)]
      BY <1>7, LockIs DEF Steady
    <3> QED
      BY <3>1, <3>4, <3>5
  <2> QED
    BY <1>2, <1>4, <2>1, <2>3, <2>4 DEF LinkInv, HasHead
<1>13. ASSUME NEW l \in Lock, NEW m \in Lock
       PROVE  OrderInv(rank, l, m)'
  <2>1. OrderInv(rank, l, m) /\ KeptLock(t, l) /\ KeptLock(t, m)
    BY <1>2 DEF ListInv
  <2> QED
    BY <2>1 DEF OrderInv, KeptLock
<1>14. ASSUME NEW r \in Record
       PROVE  EndsInv(rank, r)'
  <2>1. EndsInv(rank, r)
    BY DEF ListInv
  <2>2. tail[r] # NoLock => Listed(tail[r])'
    <3>1. tail[r] # NoLock => tail[r] \in Lock /\ ~lk[tail[r]].idPass
      BY <1>1 DEF Types, Node, PassInv
    <3> QED
      BY <1>2, <2>1, <3>1 DEF EndsInv, KeptLock
  <2>3. HasHead(r) => Listed(head[r])'
    <3>1. HasHead(r) => head[r] \in Lock
      BY <1>1 DEF Types, Node, HasHead
    <3>2. HasHead(r) => Rec(head[r]) = r /\ Listed(head[r])
      BY <2>1 DEF EndsInv
    <3>3. HasHead(r) => ~Overtaken(rank, head[r])
      BY <3>1, <3>2 DEF Overtaken
    <3>4. PICK h : h = head[r] /\ h = head'[r]
      BY <1>2
    <3>5. HasHead(r) => Listed(h)'
      BY <1>5, <3>1, <3>2, <3>3, <3>4
    <3> QED
      BY <3>4, <3>5
  <2>4. \A l \in Lock : Listed(l)' /\ Rec(l) = r => tail[r] # NoLock /\ rank[l] <= rank[tail[r]]
    BY <1>6, <2>1 DEF EndsInv
  <2> QED
    BY <1>2, <2>1, <2>2, <2>3, <2>4 DEF EndsInv, HasHead
<1>15. ASSUME NEW u \in Thread, u # t
       PROVE  DequeInv(u)' /\ JoinAt(rank, pc[u], loc[u])' /\ HeadAt(rank, Rec(Releases(u)), pc[u], loc[u])'
  <2>1. Gentle(t, rank, rank) /\ Others(t)
    BY SteadyGentle DEF Steady
  <2>2. \A l \in Lock : Owner(l) # t => lk'[l].state = lk[l].state /\ (Created(l)' <=> Created(l))
    BY <1>2 DEF KeptLock
  <2>3. pc[u] = "pass_head" => lk'[loc[u].prev].headPass = lk[loc[u].prev].headPass
    <3> SUFFICES ASSUME pc[u] = "pass_head" PROVE lk'[loc[u].prev].headPass = lk[loc[u].prev].headPass
      OBVIOUS
    <3>1. PICK k : k = loc[u].prev
      OBVIOUS
    <3>2. k \in Lock /\ Listed(k) /\ ~lk[k].headPass
      BY <1>1, <3>1 DEF CallInv, CallAt, ListInv, HeadAt
    <3>3. Listed(k)'
      BY <1>2, <3>2 DEF KeptLock
    <3> QED
      BY <1>2, <3>1, <3>2, <3>3 DEF KeptLock
  <2> QED
    BY <1>2, <1>15, <2>1, <2>2, <2>3, OthersInLists
<1> QED
  <2>1. \A l \in Lock : IdInv(rank, l)' /\ FreshInv(l)' /\ PassedInv(rank, l)' /\ LinkInv(rank, l)'
    BY <1>9, <1>10, <1>11, <1>12
  <2>2. \A l, m \in Lock : OrderInv(rank, l, m)'
    BY <1>13
  <2>3. \A r \in Record : EndsInv(rank, r)'
    BY <1>14
  <2>4. \A u \in Thread :
          DequeInv(u)' /\ JoinAt(rank, pc[u], loc[u])' /\ HeadAt(rank, Rec(Releases(u)), pc[u], loc[u])'
    BY <1>15
  <2> QED
    BY <2>1, <2>2, <2>3, <2>4 DEF ListInv

\* Fewer and fewer locks keep a listed lock from being granted.
LEMMA BarsShrink ==
  ASSUME NEW t, NEW rank \in [Lock -> Nat], NEW rk \in [Lock -> Nat], Gentle(t, rank, rk),
         NEW l \in Lock, Listed(l), Listed(l)', NEW m \in Lock, Bars(rk, m, l)'
  PROVE  Bars(rank, m, l) /\ rk[m] = rank[m] /\ rk[l] = rank[l]
<1>1. /\ Listed(m)' /\ Rec(m) = Rec(l) /\ rk[m] < rk[l]
      /\ lk'[m].state # "OBSOLETE" /\ ~Compatible(m, l)'
  BY DEF Bars
<1>2. rk[l] = rank[l] /\ lk'[l].mode = lk[l].mode
  BY DEF Gentle
<1>3. Listed(m)
  BY <1>1, <1>2 DEF Gentle
<1>4. rk[m] = rank[m] /\ lk'[m].mode = lk[m].mode /\ lk[m].state # "OBSOLETE"
  BY <1>1, <1>3 DEF Gentle
<1> QED
  BY <1>1, <1>2, <1>3, <1>4 DEF Bars, Compatible

LEMMA ClearLift ==
  ASSUME NEW t, NEW rank \in [Lock -> Nat], NEW rk \in [Lock -> Nat], Gentle(t, rank, rk),
         NEW l \in Lock, Listed(l), Listed(l)', Clear(rank, l)
  PROVE  Clear(rk, l)'
BY BarsShrink DEF Clear

LEMMA FoundLift ==
  ASSUME NEW t, NEW rank \in [Lock -> Nat], NEW rk \in [Lock -> Nat], Gentle(t, rank, rk),
         NEW n \in Lock, Listed(n), Listed(n)', NEW vec, NEW i, Found(rank, n, vec, i)
  PROVE  Found(rk, n, vec, i)'
BY BarsShrink DEF Found

LEMMA AheadLift ==
  ASSUME NEW t, NEW rank \in [Lock -> Nat], NEW rk \in [Lock -> Nat], Gentle(t, rank, rk),
         \A l \in Lock : LinkInv(rank, l), lk \in [Lock -> Fields],
         NEW n \in Lock, Listed(n), Listed(n)', NEW vec, NEW k \in Lock, Rec(k) = Rec(n), Ahead(rank, n, vec, k)
  PROVE  Ahead(rk, n, vec, k)'
<1>1. rk[n] = rank[n]
  BY DEF Gentle
<1>2. ASSUME NEW y \in Lock, Listed(y)', Rec(y) = Rec(n), rk[y] <= rk[n]
      PROVE  Listed(y) /\ rk[y] = rank[y]
  <2>1. ~(rank[n] < rk[y])
    BY <1>1, <1>2
  <2> QED
    BY <1>2, <2>1 DEF Gentle
<1> SUFFICES ASSUME Listed(k)', rk[k] <= rk[n]
             PROVE  /\ \A m \in Lock : Bars(rk, m, n)' => rk[m] >= rk[k] \/ \E j \in 1 .. Len(vec) : vec[j] = m
                    /\ \A x \in Lock :
                         Listed(x)' /\ Rec(x) = Rec(n) /\ rk[k] <= rk[x] /\ rk[x] < rk[n] =>
                           (LET y == lk[x].next IN
                            y # NoLock /\ Listed(y) /\ rk[y] <= rk[n] => rk[y] = rk[x] + 1)'
  BY DEF Ahead
<1>3. Listed(k) /\ rk[k] = rank[k]
  BY <1>2
<1>4. /\ \A m \in Lock : Bars(rank, m, n) => rank[m] >= rank[k] \/ \E j \in 1 .. Len(vec) : vec[j] = m
      /\ \A x \in Lock :
           Listed(x) /\ Rec(x) = Rec(n) /\ rank[k] <= rank[x] /\ rank[x] < rank[n] =>
             LET y == lk[x].next IN
             y # NoLock /\ Listed(y) /\ rank[y] <= rank[n] => rank[y] = rank[x] + 1
  BY <1>1, <1>3 DEF Ahead
<1>5. ASSUME NEW m \in Lock, Bars(rk, m, n)'
      PROVE  rk[m] >= rk[k] \/ \E j \in 1 .. Len(vec) : vec[j] = m
  BY <1>3, <1>4, <1>5, BarsShrink
<1>6. ASSUME NEW x \in Lock, Listed(x)', Rec(x) = Rec(n), rk[k] <= rk[x], rk[x] < rk[n],
             NEW y, y = lk'[x].next, y # NoLock, Listed(y)', rk[y] <= rk[n]
      PROVE  rk[y] = rk[x] + 1
  <2>1. Listed(x) /\ rk[x] = rank[x]
    BY <1>2, <1>6
  <2>2. CASE y = lk[x].next
    <3>1. y \in Lock /\ Rec(y) = Rec(n)
      <4>1. y \in Node
        BY <2>2 DEF Fields, Node
      <4>2. Rec(y) = Rec(x)
        BY <1>6, <2>1, <2>2 DEF LinkInv
      <4> QED
        BY <1>6, <4>1, <4>2 DEF Node
    <3>2. Listed(y) /\ rk[y] = rank[y]
      BY <1>2, <1>6, <3>1
    <3> QED
      BY <1>1, <1>3, <1>4, <1>6, <2>1, <2>2, <3>2
  <2>3. CASE y # lk[x].next
    <3>1. y \in Lock /\ Listed(y) /\ Rec(y) = Rec(x) /\ rank[y] = rank[x] + 1
      BY <1>6, <2>3 DEF Gentle
    <3>2. rk[y] = rank[y]
      BY <1>2, <1>6, <3>1
    <3> QED
      BY <2>1, <3>1, <3>2
  <2> QED
    BY <2>2, <2>3
<1> QED
  BY <1>5, <1>6

Looking == {"collect", "next", "check", "check_id", "check_mode", "wait", "unwait"}

\* What a thread knows of the locks before its own outlives any step.
LEMMA SearchLift ==
  ASSUME NEW t, NEW rank \in [Lock -> Nat], NEW rk \in [Lock -> Nat], Gentle(t, rank, rk),
         \A l \in Lock : LinkInv(rank, l), \A l, m \in Lock : OrderInv(rank, l, m), lk \in [Lock -> Fields],
         NEW p, NEW x, SearchAt(rank, p, x),
         p \in Looking => x.new \in Lock /\ Listed(x.new) /\ Listed(x.new)' /\ lk[x.new].id # MaxId,
         p \in {"collect", "next"} => x.target \in Lock
  PROVE  SearchAt(rk, p, x)'
<1>1. p \in {"collect", "next"} => Rec(x.target) = Rec(x.new)
  BY DEF SearchAt
<1>2. p = "collect" => x.target # x.new /\ Ahead(rk, x.new, x.vec, x.target)'
  BY AheadLift DEF SearchAt, Looking
<1>3. ASSUME p = "next", NEW y, y = lk'[x.target].next, y # NoLock
      PROVE  Rec(y) = Rec(x.new) /\ Ahead(rk, x.new, x.vec, y)'
  <2>1. /\ x.new \in Lock /\ Listed(x.new) /\ Listed(x.new)' /\ lk[x.new].id # MaxId
        /\ x.target \in Lock /\ Rec(x.target) = Rec(x.new)
    BY <1>1, <1>3 DEF Looking
  <2>2. CASE y = lk[x.target].next
    <3>1. Rec(y) = Rec(x.new) /\ Ahead(rank, x.new, x.vec, y)
      BY <1>3, <2>2 DEF SearchAt
    <3>2. y \in Lock
      BY <1>3, <2>1, <2>2 DEF Fields
    <3> QED
      BY <2>1, <3>1, <3>2, AheadLift
  <2>3. CASE y # lk[x.target].next
    <3>1. /\ y \in Lock /\ Listed(y) /\ Rec(y) = Rec(x.target)
          /\ lk[y].id = MaxId
      BY <1>3, <2>1, <2>3 DEF Gentle
    <3>2. rank[x.new] < rank[y]
      <4>1. OrderInv(rank, x.new, y)
        BY <2>1, <3>1
      <4>2. y # x.new /\ rank[y] # rank[x.new] /\ ~(rank[y] < rank[x.new])
        BY <2>1, <3>1, <4>1 DEF OrderInv
      <4> QED
        BY <2>1, <3>1, <4>2
    <3>3. rk[x.new] = rank[x.new] /\ (Listed(y)' => rk[y] = rank[y])
      BY <2>1, <3>1 DEF Gentle
    <3>4. ~(Listed(y)' /\ rk[y] <= rk[x.new])
      BY <2>1, <3>1, <3>2, <3>3
    <3> QED
      BY <2>1, <3>1, <3>4 DEF Ahead
  <2> QED
    BY <2>2, <2>3
<1>4. p \in {"check", "check_id", "check_mode", "wait"} => Found(rk, x.new, x.vec, x.i)'
  BY FoundLift DEF SearchAt, Looking
<1>5. p = "unwait" => Found(rk, x.new, x.vec, x.i - 1)'
  BY FoundLift DEF SearchAt, Looking
<1>6. p = "check_mode" => lk'[x.new].mode = "SHARED"
  BY DEF SearchAt, Looking, Gentle
<1> QED
  BY <1>1, <1>2, <1>3, <1>4, <1>5, <1>6 DEF SearchAt

\* A thread that has joined a list asks for a lock that has its id.
LEMMA Settled ==
  ASSUME IInv, NEW rank, ListInv(rank), NEW u \in Thread, pc[u] \in Joined
  PROVE  /\ loc[u].new \in Lock /\ Owner(loc[u].new) = u /\ loc[u].new \in Locks(u) /\ Listed(loc[u].new)
         /\ lk[loc[u].new].id = rank[loc[u].new] /\ lk[loc[u].new].id # MaxId
         /\ HasHead(Rec(loc[u].new))
<1>1. LockInv(u) /\ DequeInv(u)
  BY DEF IInv, ListInv
<1>2. loc[u].new \in Lock /\ Owner(loc[u].new) = u /\ loc[u].new \in Locks(u) /\ HasHead(Rec(loc[u].new))
  BY <1>1 DEF LockInv, DequeInv
<1>3. pc[u] \notin {"swap", "link", "await_id", "first"}
  BY DEF Joined, Waiting
<1>4. Listed(loc[u].new)
  BY <1>1, <1>2, <1>3 DEF DequeInv
<1>5. IdInv(rank, loc[u].new)
  BY <1>2 DEF ListInv
<1> QED
  BY <1>2, <1>3, <1>4, <1>5 DEF IdInv

LEMMA LocksIs ==
  ASSUME Types, NEW u \in Thread
  PROVE  Locks(u) \subseteq Lock
BY DEF Locks, Types

\* Any step of t keeps the grants in order, if it grants and signals what is clear.
LEMMA OrderlyStep ==
  ASSUME IInv, IInv', NEW rank \in [Lock -> Nat], NEW rk \in [Lock -> Nat],
         ListInv(rank), ListInv(rk)', OrderlyInv(rank),
         NEW t \in Thread, Gentle(t, rank, rk), Others(t),
         \A l \in Lock : Owner(l) # t => lk'[l].state = lk[l].state,
         \A l \in Lock : Listed(l) /\ Listed(l)' /\ lk[l].signal => lk'[l].signal,
         \A l \in Held(t)' : Listed(l) /\ Clear(rank, l),
         \A l \in Lock : Listed(l)' /\ lk'[l].signal /\ lk'[l].state # "OBSOLETE" =>
           Listed(l) /\ (lk[l].signal \/ Clear(rank, l)),
         \A u \in Thread \ {t} : pc[u] = "asleep" /\ u \notin waitSet' => u \notin waitSet \/ lk'[loc[u].new].signal,
         pc'[t] = "asleep" => t \in waitSet',
         NEW p, NEW x, p = pc'[t], x = loc'[t], SearchAt(rank, p, x),
         p \in Looking => pc[t] \in Joined /\ x.new = loc[t].new
  PROVE  OrderlyInv(rk)'
<1>1. Types /\ Types' /\ \A u \in Thread : CallInv(u) /\ CallInv(u)'
  BY DEF IInv
<1>2. lk \in [Lock -> Fields] /\ (\A l \in Lock : LinkInv(rank, l)) /\ (\A l, m \in Lock : OrderInv(rank, l, m))
  BY <1>1 DEF ListInv, Types
<1>3. Looking \subseteq Joined
  BY DEF Looking, Joined, Waiting
<1>4. ASSUME NEW u \in Thread, u # t
      PROVE  GrantedInv(rk, u)' /\ SearchAt(rk, pc[u], loc[u])'
  <2>1. pc'[u] = pc[u] /\ loc'[u] = loc[u] /\ deque'[u] = deque[u]
    BY <1>4 DEF Others
  <2>2. GrantedInv(rank, u) /\ SearchAt(rank, pc[u], loc[u])
    BY DEF OrderlyInv
  <2>3. DequeInv(u) /\ DequeInv(u)'
    BY DEF ListInv
  <2>4. Locks(u)' = Locks(u) /\ Locks(u) \subseteq Lock
    BY <1>1, <2>1, LocksIs DEF Locks
  <2>5. ASSUME NEW l \in Held(u)'
        PROVE  Clear(rk, l)'
    <3>1. l \in Held(u) /\ l \in Lock
      <4>1. l \in Locks(u) /\ lk'[l].state # "OBSOLETE" /\ (l = loc[u].new => pc[u] = "grant")
        BY <2>1, <2>4 DEF Held
      <4>2. l \in Lock /\ Owner(l) # t
        BY <1>4, <2>3, <2>4, <4>1 DEF DequeInv
      <4> QED
        BY <4>1, <4>2 DEF Held
    <3>2. Listed(l) /\ Listed(l)'
      BY <2>1, <2>3, <2>4, <3>1 DEF DequeInv, Held
    <3> QED
      BY <2>2, <3>1, <3>2, ClearLift DEF GrantedInv
  <2>6. pc'[u] = "asleep" /\ u \notin waitSet' => lk'[loc'[u].new].signal
    <3> SUFFICES ASSUME pc[u] = "asleep", u \notin waitSet' PROVE lk'[loc[u].new].signal
      BY <2>1
    <3>1. pc[u] \in Joined /\ pc'[u] \in Joined
      BY <2>1 DEF Joined, Waiting
    <3>2. loc[u].new \in Lock /\ Listed(loc[u].new)
      BY <3>1, Settled
    <3>3. PICK n : n = loc[u].new /\ n = loc'[u].new
      BY <2>1
    <3>4. Listed(n)'
      <4>1. n \in Locks(u)' /\ pc'[u] # "swap"
        BY <2>1, <2>3, <3>1, <3>3 DEF DequeInv
      <4> QED
        BY <2>3, <4>1 DEF DequeInv
    <3> QED
      BY <1>4, <2>2, <3>2, <3>3, <3>4 DEF GrantedInv
  <2>7. SearchAt(rk, pc[u], loc[u])'
    <3>1. PICK q, y : q = pc[u] /\ y = loc[u] /\ q = pc'[u] /\ y = loc'[u]
      BY <2>1
    <3>2. q \in Looking => y.new \in Lock /\ Listed(y.new) /\ lk[y.new].id # MaxId
      BY <1>3, <3>1, Settled
    <3>3. q \in Looking => Listed(y.new)'
      <4> SUFFICES ASSUME q \in Looking PROVE Listed(y.new)'
        OBVIOUS
      <4>1. y.new \in Locks(u)' /\ pc'[u] # "swap"
        BY <1>3, <2>3, <3>1 DEF DequeInv, Looking
      <4> QED
        BY <2>3, <4>1 DEF DequeInv
    <3>4. q \in {"collect", "next"} => y.target \in Lock
      BY <1>1, <3>1 DEF CallInv, CallAt
    <3>5. SearchAt(rk, q, y)'
      BY <1>2, <2>2, <3>1, <3>2, <3>3, <3>4, SearchLift
    <3> QED
      BY <3>1, <3>5 DEF SearchAt
  <2> QED
    BY <2>5, <2>6, <2>7 DEF GrantedInv
<1>5. GrantedInv(rk, t)'
  <2>1. DequeInv(t)'
    BY DEF ListInv
  <2>2. Locks(t)' \subseteq Lock
    BY <1>1 DEF Locks, Types
  <2>3. ASSUME NEW l \in Held(t)'
        PROVE  Clear(rk, l)'
    <3>1. l \in Locks(t)' /\ l \in Lock /\ (l = loc'[t].new => pc'[t] = "grant")
      BY <2>2 DEF Held
    <3>2. Listed(l)'
      BY <2>1, <3>1 DEF DequeInv
    <3> QED
      BY <3>1, <3>2, ClearLift
  <2> QED
    BY <2>3 DEF GrantedInv
<1>6. SearchAt(rk, pc[t], loc[t])'
  <2>1. p \in Looking => x.new \in Lock /\ Listed(x.new) /\ lk[x.new].id # MaxId
    BY Settled
  <2>2. p \in Looking => Listed(x.new)'
    <3> SUFFICES ASSUME p \in Looking PROVE Listed(x.new)'
      OBVIOUS
    <3>1. DequeInv(t)'
      BY DEF ListInv
    <3>2. x.new \in Locks(t)' /\ pc'[t] # "swap"
      BY <1>3, <3>1 DEF DequeInv, Looking
    <3> QED
      BY <3>1, <3>2 DEF DequeInv
  <2>3. p \in {"collect", "next"} => x.target \in Lock
    BY <1>1 DEF CallInv, CallAt
  <2>4. SearchAt(rk, p, x)'
    BY <1>2, <2>1, <2>2, <2>3, SearchLift
  <2> QED
    BY <2>4 DEF SearchAt
<1>7. ASSUME NEW l \in Lock
      PROVE  SignalInv(rk, l)'
  <2> SUFFICES ASSUME Listed(l)', lk'[l].signal, lk'[l].state # "OBSOLETE" PROVE Clear(rk, l)'
    BY DEF SignalInv
  <2>1. Listed(l) /\ (lk[l].signal \/ Clear(rank, l))
    OBVIOUS
  <2>2. lk[l].state # "OBSOLETE"
    BY <2>1 DEF Gentle
  <2>3. Clear(rank, l)
    BY <2>1, <2>2 DEF OrderlyInv, SignalInv
  <2> QED
    BY <2>1, <2>3, ClearLift
<1> QED
  <2>1. \A u \in Thread : GrantedInv(rk, u)' /\ SearchAt(rk, pc[u], loc[u])'
    BY <1>4, <1>5, <1>6
  <2> QED
    BY <1>7, <2>1 DEF OrderlyInv

Orderly(rank) == ListInv(rank) /\ OrderlyInv(rank)

\* Some rank puts every list in order.
Ordered == \E rank \in [Lock -> Nat] : Orderly(rank)

LEMMA ListedSame ==
  ASSUME NEW t \in Thread, Others(t), saved' = saved,
         pc[t] \in Preparing <=> pc'[t] \in Preparing,
         pc'[t] \in Preparing => loc'[t].new = loc[t].new
  PROVE  \A l \in Lock : (Listed(l)' <=> Listed(l)) /\ (Created(l)' <=> Created(l))
<1>1. \A l : Created(l)' <=> Created(l)
  BY DEF Created
<1>2. ASSUME NEW l \in Lock
      PROVE  Out(l)' <=> Out(l)
  BY LockIs DEF Others, Out
<1> QED
  BY <1>1, <1>2 DEF Listed

\* A step of a thread that looks at the locks before its own, searches for a deadlock, or
\* sets the state of its new lock.
LEMMA WaitingOrdered ==
  ASSUME IInv, IInv', NEW rank \in [Lock -> Nat], Orderly(rank), NEW t \in Thread,
         Others(t), NEW p, NEW x, p = pc'[t], x = loc'[t],
         pc[t] \in Waiting \cup {"conflict", "pass_id"}, p \in Waiting \cup {"conflict", "grant", "give_up"}, x.new = loc[t].new,
         UNCHANGED <<head, tail, saved, deque, trx>>,
         \A l \in Lock :
           /\ l # loc[t].new => lk'[l].state = lk[l].state /\ (~Listed(l) => lk'[l] = lk[l])
           /\ lk'[l].mode = lk[l].mode /\ lk'[l].id = lk[l].id /\ lk'[l].next = lk[l].next
           /\ lk'[l].headPass = lk[l].headPass /\ lk'[l].signal = lk[l].signal,
         lk'[loc[t].new].state = "OBSOLETE" <=> p = "give_up",
         lk'[loc[t].new].state = "WAIT" => p \in MayWait,
         waitSet \subseteq waitSet', p = "asleep" => t \in waitSet',
         SearchAt(rank, p, x), p = "grant" => Clear(rank, loc[t].new)
  PROVE  Orderly(rank)'
<1> DEFINE n == loc[t].new
<1>1. Types /\ ListInv(rank) /\ OrderlyInv(rank) /\ DequeInv(t)
  BY DEF IInv, Orderly, ListInv
<1>2. pc'[t] = p /\ loc'[t] = x /\ Others(t)
  OBVIOUS
<1>3. /\ pc[t] \in Joined /\ p \in Joined
      /\ pc[t] \notin Preparing \cup {"link", "await_id", "first", "give_up"} \cup Freeing
      /\ p \notin Preparing \cup Linking \cup {"first", "pick", "done"} \cup Freeing
  BY DEF Joined, Preparing, Renewing, Waiting, Linking, Freeing, HoldingMutex
<1>4. n \in Lock /\ Owner(n) = t /\ n \in Locks(t) /\ Listed(n)
  BY <1>1, <1>3, Settled
<1>5. lk[n].state # "OBSOLETE"
  BY <1>1, <1>3, <1>4 DEF DequeInv
<1>6. \A l \in Lock : (Listed(l)' <=> Listed(l)) /\ (Created(l)' <=> Created(l))
  BY <1>2, <1>3, ListedSame
<1>7. Locks(t)' = Locks(t) /\ Locks(t) \subseteq Lock
  BY <1>1, LocksIs DEF Locks
<1>8. Steady(t)
  <2>1. \A l \in Lock : KeptLock(t, l)
    <3> SUFFICES ASSUME NEW l \in Lock PROVE KeptLock(t, l)
      OBVIOUS
    <3>1. ~Listed(l)' => lk'[l].id = MaxId
      BY <1>1, <1>6 DEF ListInv, IdInv
    <3>2. lk[l].state = "OBSOLETE" => lk'[l].state = "OBSOLETE"
      BY <1>5
    <3> QED
      BY <1>4, <1>6, <3>1, <3>2 DEF KeptLock
  <2> QED
    BY <1>2, <1>3, <2>1 DEF Steady, Preparing, Linking
<1>9. ASSUME NEW l \in Lock, Owner(l) = t
      PROVE  FreshInv(l)'
  <2>1. FreshInv(l)
    BY <1>1 DEF ListInv
  <2>2. p \notin {"mode", "swap", "renew_next"}
    BY <1>3 DEF Preparing, Renewing
  <2>3. ~Created(l) => lk'[l] = lk[l] /\ l # n
    BY <1>4 DEF Listed
  <2> QED
    BY <1>2, <1>6, <1>9, <2>1, <2>2, <2>3 DEF FreshInv
<1>10. DequeInv(t)'
  <2>1. \A l \in Locks(t) : /\ Owner(l) = t /\ Listed(l)'
                            /\ p # "give_up" => lk'[l].state # "OBSOLETE"
    BY <1>1, <1>3, <1>6, <1>7 DEF DequeInv, Preparing
  <2> QED
    BY <1>2, <1>3, <1>4, <1>7, <2>1 DEF DequeInv
<1>11. JoinAt(rank, pc[t], loc[t])' /\ HeadAt(rank, Rec(Releases(t)), pc[t], loc[t])'
  BY <1>2, <1>3 DEF JoinAt, HeadAt, Freeing, HoldingMutex
<1>12. ListInv(rank)'
  BY <1>1, <1>8, <1>9, <1>10, <1>11, SteadyStep
<1>13. \A l \in Held(t)' : Listed(l) /\ Clear(rank, l)
  <2> SUFFICES ASSUME NEW l \in Held(t)' PROVE Listed(l) /\ Clear(rank, l)
    OBVIOUS
  <2>1. l \in Locks(t) /\ lk'[l].state # "OBSOLETE" /\ (l = n => p = "grant")
    BY <1>2, <1>7 DEF Held
  <2>2. Listed(l)
    BY <1>1, <1>3, <2>1 DEF DequeInv, Preparing
  <2>3. CASE l = n
    BY <2>1, <2>2, <2>3
  <2>4. CASE l # n
    <3>1. l \in Held(t)
      BY <1>7, <2>1, <2>4 DEF Held
    <3> QED
      BY <1>1, <2>2, <3>1 DEF OrderlyInv, GrantedInv
  <2> QED
    BY <2>3, <2>4
<1>14. OrderlyInv(rank)'
  <2>1. Gentle(t, rank, rank)
    BY <1>8, SteadyGentle
  <2>2. \A l \in Lock : Owner(l) # t => lk'[l].state = lk[l].state
    BY <1>4
  <2>3. \A l \in Lock : lk'[l].signal = lk[l].signal
    OBVIOUS
  <2>4. \A u \in Thread \ {t} : pc[u] = "asleep" /\ u \notin waitSet' => u \notin waitSet \/ lk'[loc[u].new].signal
    OBVIOUS
  <2> QED
    BY <1>1, <1>2, <1>3, <1>6, <1>12, <1>13, <2>1, <2>2, <2>3, <2>4, OrderlyStep
<1> QED
  BY <1>12, <1>14 DEF Orderly

LEMMA LookOrdered ==
  ASSUME IInv, IInv', NEW rank \in [Lock -> Nat], Orderly(rank), NEW t \in Thread,
         Others(t), UNCHANGED <<lk, shared>>, NEW p, NEW x, p = pc'[t], x = loc'[t],
         pc[t] \in Waiting, p \in (Waiting \ {"asleep"}) \cup {"grant"}, x.new = loc[t].new,
         pc[t] \in MayWait => p \in MayWait \/ lk[loc[t].new].state # "WAIT",
         SearchAt(rank, p, x), p = "grant" => Clear(rank, loc[t].new)
  PROVE  Orderly(rank)'
<1>1. /\ loc[t].new \in Lock /\ Owner(loc[t].new) = t /\ lk[loc[t].new].state # "OBSOLETE"
      /\ FreshInv(loc[t].new)
  <2>1. pc[t] \in Joined /\ pc[t] \notin Freeing \cup {"give_up"}
    BY DEF Joined, Waiting, Freeing, HoldingMutex
  <2> QED
    BY <2>1, Settled DEF Orderly, ListInv, DequeInv
<1>2. lk[loc[t].new].state = "WAIT" => p \in MayWait
  BY <1>1 DEF FreshInv
<1>3. lk' = lk /\ UNCHANGED <<head, tail, saved, deque, trx, waitSet>>
  BY DEF shared
<1>4. p # "give_up" /\ p \in Waiting \cup {"grant", "give_up"} /\ p # "asleep"
  BY DEF Waiting
<1> QED
  BY <1>1, <1>2, <1>3, <1>4, WaitingOrdered

\* The places of IsDeadlock.
Seeking == {"fill", "pop"} \cup Probing

LEMMA SearchingMoves ==
  ASSUME IInv, NEW t \in Thread, Searching(t)
  PROVE  /\ Others(t) /\ UNCHANGED <<lk, shared>> /\ loc'[t].new = loc[t].new
         /\ pc[t] \in Seeking /\ pc'[t] \in Seeking \cup {"deadlock", "sleep"}
<1>1. Types
  BY DEF IInv
<1>2. /\ pc \in [Thread -> Place] /\ loc \in [Thread -> Locals]
  BY <1>1 DEF Types
<1>3. CASE Fill(t)
  BY <1>2, <1>3 DEF Fill, Others, shared, Seeking, Goto, Locals
<1>4. CASE Pop(t)
  BY <1>2, <1>4 DEF Pop, Others, shared, Seeking, Probing, Goto, Locals
<1>5. CASE NoDeadlock(t)
  BY <1>2, <1>5 DEF NoDeadlock, Others, shared, Seeking, Goto, Locals, NoLocals
<1>6. CASE Probe(t)
  BY <1>2, <1>6 DEF Probe, Others, shared, Seeking, Probing, Goto, Locals, Passed
<1>7. CASE ProbeId(t)
  BY <1>2, <1>7 DEF ProbeId, Others, shared, Seeking, Probing, Goto, Locals
<1>8. CASE ProbeHead(t)
  BY <1>2, <1>8 DEF ProbeHead, Others, shared, Seeking, Probing, Goto, Locals, WalkAt, Passed
<1>9. CASE Walk(t)
  BY <1>2, <1>9 DEF Walk, Others, shared, Seeking, Probing, Goto, Locals, Passed, NoLocals
<1>10. CASE WalkNext(t)
  BY <1>2, <1>10 DEF WalkNext, Others, shared, Seeking, Probing, Goto, Locals
<1>11. CASE WalkId(t)
  <2>1. CASE lk[loc[t].target].id > loc[t].cid
    BY <1>2, <1>11, <2>1 DEF WalkId, Others, shared, Seeking, Probing, Goto, Locals
  <2>2. CASE ~(lk[loc[t].target].id > loc[t].cid)
    <3>1. WalkAt(t, loc[t].target, loc[t].tmp) /\ UNCHANGED <<lk, shared>> /\ pc[t] = "walk_id"
      BY <1>11, <2>2 DEF WalkId
    <3>2. CASE loc[t].target = loc[t].conf
      BY <1>2, <3>1, <3>2 DEF Others, shared, Seeking, Probing, Goto, Locals, WalkAt, Passed
    <3>3. CASE loc[t].target # loc[t].conf
      BY <1>2, <3>1, <3>3 DEF Others, shared, Seeking, Probing, Goto, Locals, WalkAt
    <3> QED
      BY <3>2, <3>3
  <2> QED
    BY <2>1, <2>2
<1>12. CASE WalkAgain(t)
  BY <1>2, <1>12 DEF WalkAgain, Others, shared, Seeking, Probing, Goto, Locals
<1>13. CASE WalkHead(t)
  BY <1>2, <1>13 DEF WalkHead, Others, shared, Seeking, Probing, Goto, Locals, WalkAt, Passed
<1> QED
  BY <1>3, <1>4, <1>5, <1>6, <1>7, <1>8, <1>9, <1>10, <1>11, <1>12, <1>13 DEF Searching

LEMMA SearchingOrdered ==
  ASSUME IInv, IInv', NEW rank \in [Lock -> Nat], Orderly(rank), NEW t \in Thread, Searching(t)
  PROVE  Orderly(rank)'
<1>1. /\ Others(t) /\ UNCHANGED <<lk, shared>> /\ loc'[t].new = loc[t].new
      /\ pc[t] \in Seeking /\ pc'[t] \in Seeking \cup {"deadlock", "sleep"}
  BY SearchingMoves
<1>2. PICK p, x : p = pc'[t] /\ x = loc'[t]
  OBVIOUS
<1>3. /\ pc[t] \in Waiting /\ p \in Waiting \ {"asleep"} /\ p \in MayWait /\ p # "grant"
      /\ p \notin Looking
  BY <1>1, <1>2 DEF Seeking, Probing, Waiting, MayWait, Looking
<1>4. SearchAt(rank, p, x)
  BY <1>3 DEF SearchAt, Looking
<1> QED
  BY <1>1, <1>2, <1>3, <1>4, LookOrdered

\* What no thread knows of a lock that the head has not passed, for a search that begins at the head.
LEMMA HeadAhead ==
  ASSUME NEW rank \in [Lock -> Nat], ListInv(rank), Types, NEW n \in Lock, Listed(n), HasHead(Rec(n)),
         NEW h, h = head[Rec(n)]
  PROVE  h \in Lock /\ Rec(h) = Rec(n) /\ Listed(h) /\ Ahead(rank, n, << >>, h)
<1>1. Rec(n) \in Record /\ EndsInv(rank, Rec(n))
  BY LockIs DEF ListInv
<1>2. h \in Lock /\ Rec(h) = Rec(n) /\ Listed(h)
  BY <1>1 DEF EndsInv, Types, Node, HasHead
<1>3. ASSUME NEW m \in Lock, Bars(rank, m, n)
      PROVE  rank[m] >= rank[h]
  <2>1. ~Overtaken(rank, m)
    BY <1>3 DEF Bars, ListInv, PassedInv
  <2> QED
    BY <1>2, <1>3, <2>1 DEF Bars, Overtaken
<1>4. ASSUME NEW x \in Lock, Listed(x), Rec(x) = Rec(n), rank[h] <= rank[x], lk[x].next # NoLock
      PROVE  rank[lk[x].next] = rank[x] + 1
  <2>1. ~Overtaken(rank, x)
    BY <1>2, <1>4 DEF Overtaken
  <2> QED
    BY <1>4, <2>1 DEF ListInv, LinkInv
<1> QED
  BY <1>2, <1>3, <1>4 DEF Ahead

\* The search has come to n.
LEMMA AheadFound ==
  ASSUME NEW rank \in [Lock -> Nat], NEW n \in Lock, Listed(n), NEW vec \in Seq(Lock), Ahead(rank, n, vec, n)
  PROVE  Found(rank, n, vec, Len(vec)) /\ (vec = << >> => Clear(rank, n))
<1>1. \A m \in Lock : Bars(rank, m, n) => \E j \in 1 .. Len(vec) : vec[j] = m
  BY DEF Ahead, Bars
<1> QED
  BY <1>1 DEF Found, Clear

LEMMA CollectAtOrdered ==
  ASSUME IInv, IInv', NEW rank \in [Lock -> Nat], Orderly(rank), NEW t \in Thread,
         UNCHANGED <<lk, shared>>, pc[t] \in {"head", "next"},
         NEW l \in Lock, NEW vec \in Seq(Lock), CollectAt(t, l, vec),
         Rec(l) = Rec(loc[t].new), Ahead(rank, loc[t].new, vec, l)
  PROVE  Orderly(rank)'
<1>1. Types /\ ListInv(rank)
  BY DEF IInv, Orderly
<1>2. pc \in [Thread -> Place] /\ loc \in [Thread -> Locals]
  BY <1>1 DEF Types
<1>3. PICK p, x : p = pc'[t] /\ x = loc'[t]
  OBVIOUS
<1>4. /\ Others(t) /\ x.new = loc[t].new /\ x.target = l /\ x.vec = vec /\ x.i = Len(vec)
      /\ p = IF l # loc[t].new THEN "collect" ELSE IF vec = << >> THEN "grant" ELSE "check"
  BY <1>2, <1>3 DEF CollectAt, Goto, Others, Locals, shared
<1>5. pc[t] \in Waiting /\ pc[t] \notin MayWait /\ pc[t] \in Joined
  BY DEF Waiting, MayWait, Probing, Joined
<1>6. loc[t].new \in Lock /\ Listed(loc[t].new)
  BY <1>1, <1>5, Settled
<1>7. p \in (Waiting \ {"asleep"}) \cup {"grant"}
  BY <1>4 DEF Waiting
<1>8. l = loc[t].new => Found(rank, loc[t].new, vec, Len(vec)) /\ (vec = << >> => Clear(rank, loc[t].new))
  BY <1>6, AheadFound
<1>9. SearchAt(rank, p, x)
  BY <1>4, <1>8 DEF SearchAt
<1>10. p = "grant" => Clear(rank, loc[t].new)
  BY <1>4, <1>8
<1> QED
  BY <1>3, <1>4, <1>5, <1>7, <1>9, <1>10, LookOrdered

LEMMA FromHeadOrdered ==
  ASSUME IInv, IInv', NEW rank \in [Lock -> Nat], Orderly(rank), NEW t \in Thread, FromHead(t)
  PROVE  Orderly(rank)'
<1>1. Types /\ ListInv(rank)
  BY DEF IInv, Orderly
<1>2. pc[t] = "head" /\ UNCHANGED <<lk, shared>> /\ CollectAt(t, head[Rec(loc[t].new)], << >>)
  BY DEF FromHead
<1>3. PICK n, h : n = loc[t].new /\ h = head[Rec(n)]
  OBVIOUS
<1>4. n \in Lock /\ Listed(n) /\ HasHead(Rec(n))
  BY <1>1, <1>2, <1>3, Settled DEF Joined, Waiting
<1>5. h \in Lock /\ Rec(h) = Rec(n) /\ Ahead(rank, n, << >>, h)
  BY <1>1, <1>3, <1>4, HeadAhead
<1>6. << >> \in Seq(Lock)
  OBVIOUS
<1> QED
  BY <1>2, <1>3, <1>5, <1>6, CollectAtOrdered

\* A lock whose id is not above that of a settled one is listed, and not behind it.
LEMMA NotBehind ==
  ASSUME NEW rank \in [Lock -> Nat], ListInv(rank), IdsLast, Types,
         NEW n \in Lock, Listed(n), lk[n].id = rank[n], lk[n].id # MaxId,
         NEW k \in Lock, ~(lk[k].id > lk[n].id)
  PROVE  Listed(k) /\ rank[k] <= rank[n] /\ (Rec(k) = Rec(n) /\ k # n => rank[k] < rank[n])
<1>1. lk[k].id # MaxId
  <2>1. lk[k].id \in Nat /\ lk[n].id \in Nat /\ MaxId \in Nat
    BY LockIs DEF Types, Fields
  <2>2. lk[n].id + 1 < MaxId
    BY DEF IdsLast
  <2> QED
    BY <2>1, <2>2
<1>2. Listed(k) /\ lk[k].id = rank[k]
  BY <1>1 DEF ListInv, IdInv
<1>3. OrderInv(rank, k, n)
  BY DEF ListInv
<1> QED
  BY <1>2, <1>3 DEF OrderInv

LEMMA CollectOrdered ==
  ASSUME IInv, IInv', IdsLast, NEW rank \in [Lock -> Nat], Orderly(rank), NEW t \in Thread, Collect(t)
  PROVE  Orderly(rank)'
<1>1. Types /\ ListInv(rank) /\ OrderlyInv(rank) /\ CallInv(t)
  BY DEF IInv, Orderly
<1>2. pc \in [Thread -> Place] /\ loc \in [Thread -> Locals]
  BY <1>1 DEF Types
<1>3. pc[t] = "collect" /\ UNCHANGED <<lk, shared>>
  BY DEF Collect
<1>4. PICK n, k, p, x : n = loc[t].new /\ k = loc[t].target /\ p = pc'[t] /\ x = loc'[t]
  OBVIOUS
<1>5. n \in Lock /\ Listed(n) /\ lk[n].id = rank[n] /\ lk[n].id # MaxId
  BY <1>1, <1>3, <1>4, Settled DEF Joined, Waiting
<1>6. k \in Lock /\ Rec(k) = Rec(n) /\ k # n /\ Ahead(rank, n, loc[t].vec, k)
  BY <1>1, <1>3, <1>4 DEF CallInv, CallAt, OrderlyInv, SearchAt
<1>7. CASE Behind(t, k)
  <2>1. Others(t) /\ p = "head" /\ x.new = n
    BY <1>2, <1>3, <1>4, <1>7 DEF Collect, Goto, Others, shared
  <2>2. SearchAt(rank, p, x)
    BY <2>1 DEF SearchAt
  <2>3. pc[t] \in Waiting /\ pc[t] \notin MayWait /\ p \in (Waiting \ {"asleep"}) \cup {"grant"} /\ p # "grant"
    BY <1>3, <2>1 DEF Waiting, MayWait, Probing
  <2> QED
    BY <1>3, <1>4, <2>1, <2>2, <2>3, LookOrdered
<1>8. CASE ~Behind(t, k)
  <2>1. Others(t) /\ p = "next" /\ x.new = n /\ x.target = k /\ x.vec = Append(loc[t].vec, k)
    BY <1>2, <1>3, <1>4, <1>8 DEF Collect, Goto, Others, shared, Locals
  <2>2. Listed(k) /\ rank[k] <= rank[n] /\ rank[k] < rank[n]
    BY <1>1, <1>4, <1>5, <1>6, <1>8, NotBehind DEF Behind
  <2>3. loc[t].vec \in Seq(Lock)
    BY <1>2 DEF Locals
  <2>4. x.vec \in Seq(Lock) /\ \A m \in Lock : m = k \/ (\E j \in 1 .. Len(loc[t].vec) : loc[t].vec[j] = m) =>
          \E j \in 1 .. Len(x.vec) : x.vec[j] = m
    <3>1. Len(loc[t].vec) \in Nat /\ Len(x.vec) = Len(loc[t].vec) + 1
          /\ x.vec \in Seq(Lock) /\ x.vec[Len(loc[t].vec) + 1] = k
          /\ \A j \in 1 .. Len(loc[t].vec) : x.vec[j] = loc[t].vec[j]
      BY <1>6, <2>1, <2>3, SMTT(30)
    <3>2. Len(loc[t].vec) + 1 \in 1 .. Len(x.vec) /\ \A j \in 1 .. Len(loc[t].vec) : j \in 1 .. Len(x.vec)
      BY <3>1
    <3> QED
      BY <3>1, <3>2
  <2>5. ASSUME NEW y, y = lk[k].next, y # NoLock
        PROVE  Rec(y) = Rec(n) /\ Ahead(rank, n, x.vec, y)
    <3>1. Rec(y) = Rec(n)
      BY <1>1, <1>6, <2>2, <2>5 DEF ListInv, LinkInv
    <3>2. y \in Lock
      BY <1>1, <1>6, <2>5 DEF Types, Fields
    <3> SUFFICES ASSUME Listed(y), rank[y] <= rank[n]
                 PROVE  /\ \A m \in Lock : Bars(rank, m, n) => rank[m] >= rank[y] \/ \E j \in 1 .. Len(x.vec) : x.vec[j] = m
                        /\ \A z \in Lock :
                             Listed(z) /\ Rec(z) = Rec(n) /\ rank[y] <= rank[z] /\ rank[z] < rank[n] =>
                               LET w == lk[z].next IN
                               w # NoLock /\ Listed(w) /\ rank[w] <= rank[n] => rank[w] = rank[z] + 1
      BY <3>1 DEF Ahead
    <3>3. /\ \A m \in Lock : Bars(rank, m, n) => rank[m] >= rank[k] \/ \E j \in 1 .. Len(loc[t].vec) : loc[t].vec[j] = m
          /\ \A z \in Lock :
               Listed(z) /\ Rec(z) = Rec(n) /\ rank[k] <= rank[z] /\ rank[z] < rank[n] =>
                 LET w == lk[z].next IN
                 w # NoLock /\ Listed(w) /\ rank[w] <= rank[n] => rank[w] = rank[z] + 1
      BY <1>6, <2>2 DEF Ahead
    <3>4. rank[y] = rank[k] + 1
      BY <1>6, <2>2, <2>5, <3>3
    <3>5. ASSUME NEW m \in Lock, Bars(rank, m, n), rank[m] < rank[y]
          PROVE  \E j \in 1 .. Len(x.vec) : x.vec[j] = m
      <4>1. CASE rank[m] >= rank[k]
        <5>1. rank[m] = rank[k] /\ Listed(m) /\ Rec(m) = Rec(k)
          BY <1>6, <3>4, <3>5, <4>1 DEF Bars
        <5>2. m = k
          BY <1>1, <1>6, <2>2, <5>1 DEF ListInv, OrderInv
        <5> QED
          BY <2>4, <5>2
      <4>2. CASE ~(rank[m] >= rank[k])
        BY <2>4, <3>3, <3>5, <4>2
      <4> QED
        BY <4>1, <4>2
    <3>6. \A z \in Lock : rank[y] <= rank[z] => rank[k] <= rank[z]
      BY <1>6, <3>4
    <3> QED
      BY <3>2, <3>3, <3>5, <3>6
  <2>6. SearchAt(rank, p, x)
    BY <1>6, <2>1, <2>5 DEF SearchAt
  <2>7. pc[t] \in Waiting /\ pc[t] \notin MayWait /\ p \in (Waiting \ {"asleep"}) \cup {"grant"} /\ p # "grant"
    BY <1>3, <2>1 DEF Waiting, MayWait, Probing
  <2> QED
    BY <1>3, <1>4, <2>1, <2>6, <2>7, LookOrdered
<1> QED
  BY <1>7, <1>8

LEMMA CollectNextOrdered ==
  ASSUME IInv, IInv', NEW rank \in [Lock -> Nat], Orderly(rank), NEW t \in Thread, CollectNext(t)
  PROVE  Orderly(rank)'
<1>1. Types /\ ListInv(rank) /\ OrderlyInv(rank) /\ CallInv(t)
  BY DEF IInv, Orderly
<1>2. pc \in [Thread -> Place] /\ loc \in [Thread -> Locals]
  BY <1>1 DEF Types
<1>3. pc[t] = "next" /\ UNCHANGED <<lk, shared>>
  BY DEF CollectNext
<1>4. PICK l : l = lk[loc[t].target].next
  OBVIOUS
<1>5. loc[t].vec \in Seq(Lock) /\ loc[t].target \in Lock /\ l \in Node
  BY <1>1, <1>2, <1>3, <1>4 DEF CallInv, CallAt, Locals, Types, Fields, Node
<1>6. CASE l = NoLock
  <2>1. PICK p, x : p = pc'[t] /\ x = loc'[t]
    OBVIOUS
  <2>2. Others(t) /\ p = "head" /\ x.new = loc[t].new
    BY <1>2, <1>3, <1>4, <1>6, <2>1 DEF CollectNext, Goto, Others, shared
  <2>3. SearchAt(rank, p, x)
    BY <2>2 DEF SearchAt
  <2>4. pc[t] \in Waiting /\ pc[t] \notin MayWait /\ p \in (Waiting \ {"asleep"}) \cup {"grant"} /\ p # "grant"
    BY <1>3, <2>2 DEF Waiting, MayWait, Probing
  <2> QED
    BY <1>3, <2>1, <2>2, <2>3, <2>4, LookOrdered
<1>7. CASE l # NoLock
  <2>1. CollectAt(t, l, loc[t].vec)
    BY <1>4, <1>7 DEF CollectNext
  <2>2. l \in Lock /\ Rec(l) = Rec(loc[t].new) /\ Ahead(rank, loc[t].new, loc[t].vec, l)
    BY <1>1, <1>3, <1>4, <1>5, <1>7 DEF OrderlyInv, SearchAt, Node
  <2> QED
    BY <1>3, <1>5, <2>1, <2>2, CollectAtOrdered
<1> QED
  BY <1>6, <1>7

\* A lock that does not bar n can be left out of what was found.
LEMMA FoundLess ==
  ASSUME NEW rank, NEW n, NEW vec, NEW i \in Nat, Found(rank, n, vec, i),
         i > 0 => ~Bars(rank, vec[i], n)
  PROVE  Found(rank, n, vec, i - 1)
<1> SUFFICES ASSUME NEW m \in Lock, Bars(rank, m, n)
             PROVE  \E j \in 1 .. Len(vec) : j <= i - 1 /\ vec[j] = m
  BY DEF Found
<1>1. PICK j \in 1 .. Len(vec) : j <= i /\ vec[j] = m
  BY DEF Found
<1>2. j # i
  BY <1>1
<1> QED
  BY <1>1, <1>2

\* The look at one more lock is over.
LEMMA CheckOnOrdered ==
  ASSUME IInv, IInv', NEW rank \in [Lock -> Nat], Orderly(rank), NEW t \in Thread,
         UNCHANGED <<lk, shared>>, pc[t] \in {"check", "check_id", "check_mode"},
         CheckOn(t), lk[loc[t].new].state # "WAIT", ~Bars(rank, Target(t), loc[t].new)
  PROVE  Orderly(rank)'
<1>1. Types /\ ListInv(rank) /\ OrderlyInv(rank) /\ CallInv(t)
  BY DEF IInv, Orderly
<1>2. pc \in [Thread -> Place] /\ loc \in [Thread -> Locals]
  BY <1>1 DEF Types
<1>3. PICK p, x, i : p = pc'[t] /\ x = loc'[t] /\ i = loc[t].i
  OBVIOUS
<1>4. i \in Nat /\ i > 0
  BY <1>1, <1>2, <1>3 DEF CallInv, CallAt, Locals
<1>5. /\ Others(t) /\ x.new = loc[t].new /\ x.vec = loc[t].vec /\ x.i = i - 1
      /\ p = IF i = 1 THEN "grant" ELSE "check"
  BY <1>2, <1>3 DEF CheckOn, Goto, Others, shared, Locals
<1>6. Found(rank, loc[t].new, loc[t].vec, i - 1)
  BY <1>1, <1>3, <1>4, FoundLess DEF OrderlyInv, SearchAt, Target
<1>7. p = "grant" => Clear(rank, loc[t].new)
  BY <1>5, <1>6 DEF Found, Clear
<1>8. SearchAt(rank, p, x)
  BY <1>5, <1>6 DEF SearchAt
<1>9. pc[t] \in Waiting /\ p \in (Waiting \ {"asleep"}) \cup {"grant"}
  BY <1>5 DEF Waiting
<1> QED
  BY <1>3, <1>5, <1>7, <1>8, <1>9, LookOrdered

LEMMA SkipOrdered ==
  ASSUME IInv, IInv', NEW rank \in [Lock -> Nat], Orderly(rank), NEW t \in Thread,
         UNCHANGED <<lk, shared>>, pc[t] \in {"check", "check_id"},
         Skip(t), ~Bars(rank, Target(t), loc[t].new)
  PROVE  Orderly(rank)'
<1>1. Types /\ ListInv(rank) /\ OrderlyInv(rank) /\ CallInv(t)
  BY DEF IInv, Orderly
<1>2. pc \in [Thread -> Place] /\ loc \in [Thread -> Locals]
  BY <1>1 DEF Types
<1>3. CASE SecondLook(t)
  <2>1. PICK p, x, i : p = pc'[t] /\ x = loc'[t] /\ i = loc[t].i
    OBVIOUS
  <2>2. i \in Nat /\ i > 0
    BY <1>1, <1>2, <2>1 DEF CallInv, CallAt, Locals
  <2>3. Others(t) /\ p = "unwait" /\ x = loc[t]
    BY <1>2, <1>3, <2>1 DEF Skip, Goto, Others, shared
  <2>4. Found(rank, loc[t].new, loc[t].vec, i - 1)
    BY <1>1, <2>1, <2>2, FoundLess DEF OrderlyInv, SearchAt, Target
  <2>5. SearchAt(rank, p, x)
    BY <2>1, <2>3, <2>4 DEF SearchAt
  <2>6. pc[t] \in Waiting /\ p \in (Waiting \ {"asleep"}) \cup {"grant"} /\ p \in MayWait /\ p # "grant"
    BY <2>3 DEF Waiting, MayWait
  <2> QED
    BY <2>1, <2>3, <2>5, <2>6, LookOrdered
<1>4. CASE ~SecondLook(t)
  BY <1>4, CheckOnOrdered DEF Skip, SecondLook
<1> QED
  BY <1>3, <1>4

LEMMA CheckOrdered ==
  ASSUME IInv, IInv', NEW rank \in [Lock -> Nat], Orderly(rank), NEW t \in Thread, Check(t)
  PROVE  Orderly(rank)'
<1>1. Types /\ OrderlyInv(rank)
  BY DEF IInv, Orderly
<1>2. pc \in [Thread -> Place]
  BY <1>1 DEF Types
<1>3. pc[t] = "check" /\ UNCHANGED <<lk, shared>>
  BY DEF Check
<1>4. CASE Released(Target(t))
  BY <1>3, <1>4, SkipOrdered DEF Check, Bars, Released
<1>5. CASE ~Released(Target(t))
  <2>1. PICK p, x : p = pc'[t] /\ x = loc'[t]
    OBVIOUS
  <2>2. Others(t) /\ p = "check_id" /\ x = loc[t]
    BY <1>2, <1>3, <1>5, <2>1 DEF Check, Goto, Others, shared
  <2>3. SearchAt(rank, p, x)
    BY <1>1, <1>3, <2>2 DEF OrderlyInv, SearchAt
  <2>4. pc[t] \in Waiting /\ p \in (Waiting \ {"asleep"}) \cup {"grant"} /\ p \in MayWait /\ p # "grant"
    BY <1>3, <2>2 DEF Waiting, MayWait
  <2> QED
    BY <1>3, <2>1, <2>2, <2>3, <2>4, LookOrdered
<1> QED
  BY <1>4, <1>5

LEMMA CheckIdOrdered ==
  ASSUME IInv, IInv', NEW rank \in [Lock -> Nat], Orderly(rank), NEW t \in Thread, CheckId(t)
  PROVE  Orderly(rank)'
<1>1. Types /\ ListInv(rank) /\ OrderlyInv(rank) /\ CallInv(t)
  BY DEF IInv, Orderly
<1>2. pc \in [Thread -> Place] /\ loc \in [Thread -> Locals]
  BY <1>1 DEF Types
<1>3. pc[t] = "check_id" /\ UNCHANGED <<lk, shared>>
  BY DEF CheckId
<1>4. PICK p, x : p = pc'[t] /\ x = loc'[t]
  OBVIOUS
<1>5. /\ loc[t].new \in Lock /\ Listed(loc[t].new)
      /\ lk[loc[t].new].id = rank[loc[t].new] /\ lk[loc[t].new].id # MaxId
  BY <1>1, <1>3, Settled DEF Joined, Waiting
<1>6. CASE Behind(t, Target(t)) /\ Skip(t)
  <2>1. ~Bars(rank, Target(t), loc[t].new)
    <3> SUFFICES ASSUME Bars(rank, Target(t), loc[t].new) PROVE FALSE
      OBVIOUS
    <3>1. PICK k, n : k = Target(t) /\ n = loc[t].new
      OBVIOUS
    <3>2. k \in Lock
      BY <1>1, <1>2, <1>3, <3>1 DEF CallInv, CallAt, Locals, Target
    <3>3. Listed(k) /\ Rec(k) = Rec(n) /\ rank[k] < rank[n] /\ Listed(n) /\ lk[n].id # MaxId
      BY <1>5, <3>1 DEF Bars
    <3>4. OrderInv(rank, n, k) /\ IdInv(rank, k)
      BY <1>1, <1>5, <3>1, <3>2 DEF ListInv
    <3>5. lk[k].id = rank[k]
      BY <3>3, <3>4 DEF OrderInv, IdInv
    <3> QED
      BY <1>5, <1>6, <3>1, <3>2, <3>3, <3>5 DEF Behind
  <2> QED
    BY <1>3, <1>6, <2>1, SkipOrdered
<1>7. CASE ~Behind(t, Target(t)) /\ SecondLook(t)
  <2>1. Others(t) /\ p = "fill" /\ x.new = loc[t].new
    BY <1>2, <1>3, <1>4, <1>7 DEF CheckId, Goto, Others, shared, Locals
  <2>2. SearchAt(rank, p, x)
    BY <2>1 DEF SearchAt
  <2>3. pc[t] \in Waiting /\ p \in (Waiting \ {"asleep"}) \cup {"grant"} /\ p \in MayWait /\ p # "grant"
    BY <1>3, <2>1 DEF Waiting, MayWait
  <2> QED
    BY <1>3, <1>4, <2>1, <2>2, <2>3, LookOrdered
<1>8. CASE ~Behind(t, Target(t)) /\ ~SecondLook(t)
  <2>1. /\ Others(t) /\ x = loc[t]
        /\ p = IF lk[loc[t].new].mode = "EXCLUSIVE" THEN "wait" ELSE "check_mode"
    BY <1>2, <1>3, <1>4, <1>8 DEF CheckId, Goto, Others, shared
  <2>2. lk[loc[t].new].mode \in Mode
    BY <1>1, <1>5 DEF Types, Fields
  <2>3. SearchAt(rank, p, x)
    BY <1>1, <1>3, <2>1, <2>2 DEF OrderlyInv, SearchAt, Mode
  <2>4. pc[t] \in Waiting /\ p \in (Waiting \ {"asleep"}) \cup {"grant"} /\ p # "grant"
    BY <1>3, <2>1 DEF Waiting
  <2> QED
    BY <1>3, <1>4, <1>8, <2>1, <2>3, <2>4, LookOrdered DEF SecondLook
<1> QED
  BY <1>6, <1>7, <1>8 DEF CheckId

LEMMA CheckModeOrdered ==
  ASSUME IInv, IInv', NEW rank \in [Lock -> Nat], Orderly(rank), NEW t \in Thread, CheckMode(t)
  PROVE  Orderly(rank)'
<1>1. Types /\ ListInv(rank) /\ OrderlyInv(rank) /\ CallInv(t)
  BY DEF IInv, Orderly
<1>2. pc \in [Thread -> Place] /\ loc \in [Thread -> Locals]
  BY <1>1 DEF Types
<1>3. pc[t] = "check_mode" /\ UNCHANGED <<lk, shared>>
  BY DEF CheckMode
<1>4. loc[t].new \in Lock /\ Owner(loc[t].new) = t /\ Target(t) \in Lock
  <2>1. loc[t].new \in Lock /\ Owner(loc[t].new) = t
    BY <1>1, <1>3, Settled DEF Joined, Waiting
  <2> QED
    BY <1>1, <1>2, <1>3, <2>1 DEF CallInv, CallAt, Locals, Target
<1>5. CASE lk[Target(t)].mode = "EXCLUSIVE"
  <2>1. PICK p, x : p = pc'[t] /\ x = loc'[t]
    OBVIOUS
  <2>2. Others(t) /\ p = "wait" /\ x = loc[t]
    BY <1>2, <1>3, <1>5, <2>1 DEF CheckMode, Goto, Others, shared
  <2>3. SearchAt(rank, p, x)
    BY <1>1, <1>3, <2>2 DEF OrderlyInv, SearchAt
  <2>4. pc[t] \in Waiting /\ pc[t] \notin MayWait /\ p \in (Waiting \ {"asleep"}) \cup {"grant"} /\ p # "grant"
    BY <1>3, <2>2 DEF Waiting, MayWait, Probing
  <2> QED
    BY <1>3, <2>1, <2>2, <2>3, <2>4, LookOrdered
<1>6. CASE lk[Target(t)].mode # "EXCLUSIVE"
  <2>1. lk[Target(t)].mode = "SHARED" /\ lk[loc[t].new].mode = "SHARED"
    BY <1>1, <1>3, <1>4, <1>6 DEF Types, Fields, Mode, OrderlyInv, SearchAt
  <2>2. lk[loc[t].new].state # "WAIT"
    <3>1. FreshInv(loc[t].new) /\ pc[t] \notin MayWait
      BY <1>1, <1>3, <1>4 DEF ListInv, MayWait, Probing
    <3> QED
      BY <1>4, <3>1 DEF FreshInv
  <2> QED
    BY <1>3, <1>6, <2>1, <2>2, CheckOnOrdered DEF CheckMode, Bars, Compatible
<1> QED
  BY <1>5, <1>6

\* A step that sets the state of the new lock.
LEMMA StateOrdered ==
  ASSUME IInv, IInv', NEW rank \in [Lock -> Nat], Orderly(rank), NEW t \in Thread,
         pc[t] \in Waiting, NEW s \in State, lk' = [lk EXCEPT ![loc[t].new].state = s],
         Others(t), UNCHANGED <<head, tail, saved, deque, trx>>, NEW p, NEW x, p = pc'[t], x = loc'[t],
         p \in Waiting \cup {"grant", "give_up"}, x.new = loc[t].new,
         s = "OBSOLETE" <=> p = "give_up", s = "WAIT" => p \in MayWait,
         waitSet \subseteq waitSet', p = "asleep" => t \in waitSet',
         SearchAt(rank, p, x), p = "grant" => Clear(rank, loc[t].new)
  PROVE  Orderly(rank)'
<1>1. lk \in [Lock -> Fields]
  BY DEF IInv, Types
<1>2. loc[t].new \in Lock
  BY Settled DEF Joined, Orderly
<1>3. /\ \A l \in Lock : l # loc[t].new => lk'[l] = lk[l]
      /\ lk'[loc[t].new] = [lk[loc[t].new] EXCEPT !.state = s]
      /\ lk[loc[t].new] \in Fields
  BY <1>1, <1>2
<1>4. \A l \in Lock :
        /\ lk'[l].mode = lk[l].mode /\ lk'[l].id = lk[l].id /\ lk'[l].next = lk[l].next
        /\ lk'[l].headPass = lk[l].headPass /\ lk'[l].signal = lk[l].signal
  BY <1>3 DEF Fields
<1>5. lk'[loc[t].new].state = s
  BY <1>3 DEF Fields
<1> QED
  BY <1>3, <1>4, <1>5, WaitingOrdered

LEMMA WaitOrdered ==
  ASSUME IInv, IInv', NEW rank \in [Lock -> Nat], Orderly(rank), NEW t \in Thread, Wait(t)
  PROVE  Orderly(rank)'
<1>1. Types /\ OrderlyInv(rank)
  BY DEF IInv, Orderly
<1>2. pc \in [Thread -> Place]
  BY <1>1 DEF Types
<1>3. PICK p, x : p = pc'[t] /\ x = loc'[t]
  OBVIOUS
<1>4. /\ pc[t] = "wait" /\ lk' = [lk EXCEPT ![loc[t].new].state = "WAIT"]
      /\ Others(t) /\ UNCHANGED <<head, tail, saved, deque, trx, waitSet>> /\ p = "check" /\ x = loc[t]
  BY <1>2, <1>3 DEF Wait, Goto, Others, shared
<1>5. SearchAt(rank, p, x)
  BY <1>1, <1>4 DEF OrderlyInv, SearchAt
<1>6. pc[t] \in Waiting /\ p \in Waiting /\ p \in MayWait /\ p # "asleep" /\ p # "grant" /\ "WAIT" \in State /\ "WAIT" # "OBSOLETE"
  BY <1>4 DEF Waiting, MayWait, State
<1> QED
  BY <1>3, <1>4, <1>5, <1>6, StateOrdered

LEMMA UnwaitOrdered ==
  ASSUME IInv, IInv', NEW rank \in [Lock -> Nat], Orderly(rank), NEW t \in Thread, Unwait(t)
  PROVE  Orderly(rank)'
<1>1. Types /\ OrderlyInv(rank) /\ CallInv(t)
  BY DEF IInv, Orderly
<1>2. pc \in [Thread -> Place] /\ loc \in [Thread -> Locals]
  BY <1>1 DEF Types
<1>3. PICK p, x, i : p = pc'[t] /\ x = loc'[t] /\ i = loc[t].i
  OBVIOUS
<1>4. pc[t] = "unwait" /\ lk' = [lk EXCEPT ![loc[t].new].state = "ACTIVE"] /\ CheckOn(t) /\ UNCHANGED shared
  BY DEF Unwait
<1>5. /\ Others(t) /\ UNCHANGED <<head, tail, saved, deque, trx, waitSet>>
      /\ x.new = loc[t].new /\ x.vec = loc[t].vec /\ x.i = i - 1
      /\ p = IF i = 1 THEN "grant" ELSE "check"
  BY <1>2, <1>3, <1>4 DEF CheckOn, Goto, Others, shared, Locals
<1>6. Found(rank, loc[t].new, loc[t].vec, i - 1)
  BY <1>1, <1>3, <1>4 DEF OrderlyInv, SearchAt
<1>7. p = "grant" => Clear(rank, loc[t].new)
  BY <1>5, <1>6 DEF Found, Clear
<1>8. SearchAt(rank, p, x)
  BY <1>5, <1>6 DEF SearchAt
<1>9. pc[t] \in Waiting /\ p \in Waiting \cup {"grant"} /\ p # "asleep" /\ "ACTIVE" \in State /\ "ACTIVE" \notin {"WAIT", "OBSOLETE"}
  BY <1>4, <1>5 DEF Waiting, State
<1> QED
  BY <1>3, <1>4, <1>5, <1>7, <1>8, <1>9, StateOrdered

LEMMA DeadlockOrdered ==
  ASSUME IInv, IInv', NEW rank \in [Lock -> Nat], Orderly(rank), NEW t \in Thread, Deadlock(t)
  PROVE  Orderly(rank)'
<1>1. Types
  BY DEF IInv
<1>2. pc \in [Thread -> Place]
  BY <1>1 DEF Types
<1>3. PICK p, x : p = pc'[t] /\ x = loc'[t]
  OBVIOUS
<1>4. /\ pc[t] = "deadlock" /\ lk' = [lk EXCEPT ![loc[t].new].state = "OBSOLETE"]
      /\ Others(t) /\ UNCHANGED <<head, tail, saved, deque, trx, waitSet>> /\ p = "give_up" /\ x = loc[t]
  BY <1>2, <1>3 DEF Deadlock, Goto, Others, shared
<1>5. SearchAt(rank, p, x)
  BY <1>4 DEF SearchAt
<1>6. pc[t] \in Waiting /\ p # "asleep" /\ p # "grant" /\ "OBSOLETE" \in State /\ "OBSOLETE" # "WAIT"
  BY <1>4 DEF Waiting, State
<1> QED
  BY <1>3, <1>4, <1>5, <1>6, StateOrdered

\* A signal that was set is as good as a look at the locks before.
LEMMA SignalClear ==
  ASSUME IInv, NEW rank, Orderly(rank), NEW t \in Thread, pc[t] \in {"sleep", "asleep"}, lk[loc[t].new].signal
  PROVE  Clear(rank, loc[t].new)
<1>1. pc[t] \in Joined /\ pc[t] \notin Freeing \cup {"give_up"}
  BY DEF Joined, Waiting, Freeing, HoldingMutex
<1>2. DequeInv(t) /\ ListInv(rank) /\ OrderlyInv(rank)
  BY DEF Orderly, ListInv
<1>3. loc[t].new \in Lock /\ Listed(loc[t].new) /\ loc[t].new \in Locks(t)
  BY <1>1, <1>2, Settled
<1>4. lk[loc[t].new].state # "OBSOLETE"
  BY <1>1, <1>2, <1>3 DEF DequeInv
<1> QED
  BY <1>2, <1>3, <1>4 DEF OrderlyInv, SignalInv

LEMMA SleepOrdered ==
  ASSUME IInv, IInv', NEW rank \in [Lock -> Nat], Orderly(rank), NEW t \in Thread, Sleep(t)
  PROVE  Orderly(rank)'
<1>1. Types /\ ListInv(rank)
  BY DEF IInv, Orderly
<1>2. pc \in [Thread -> Place]
  BY <1>1 DEF Types
<1>3. PICK p, x : p = pc'[t] /\ x = loc'[t]
  OBVIOUS
<1>4. CASE lk[loc[t].new].signal
  <2>1. /\ pc[t] = "sleep" /\ lk' = [lk EXCEPT ![loc[t].new].state = "ACTIVE"]
        /\ Others(t) /\ UNCHANGED <<head, tail, saved, deque, trx, waitSet>> /\ p = "grant" /\ x = loc[t]
    BY <1>2, <1>3, <1>4 DEF Sleep, Goto, Others
  <2>2. SearchAt(rank, p, x)
    BY <2>1 DEF SearchAt
  <2>3. pc[t] \in Waiting /\ p # "asleep" /\ "ACTIVE" \in State /\ "ACTIVE" \notin {"WAIT", "OBSOLETE"}
    BY <2>1 DEF Waiting, State
  <2>4. Clear(rank, loc[t].new)
    BY <1>4, <2>1, SignalClear
  <2> QED
    BY <1>3, <2>1, <2>2, <2>3, <2>4, StateOrdered
<1>5. CASE ~lk[loc[t].new].signal
  <2>1. /\ pc[t] = "sleep" /\ lk' = lk /\ waitSet' = waitSet \cup {t}
        /\ Others(t) /\ UNCHANGED <<head, tail, saved, deque, trx>> /\ p = "asleep" /\ x = loc[t]
    BY <1>2, <1>3, <1>5 DEF Sleep, Goto, Others
  <2>2. SearchAt(rank, p, x)
    BY <2>1 DEF SearchAt
  <2>3. pc[t] \in Waiting /\ p \in Waiting /\ p \in MayWait /\ p # "grant"
    BY <2>1 DEF Waiting, MayWait
  <2>4. lk[loc[t].new].state # "OBSOLETE"
    <3>1. pc[t] \in Joined /\ pc[t] \notin Freeing \cup {"give_up"}
      BY <2>1 DEF Joined, Waiting, Freeing, HoldingMutex
    <3> QED
      BY <1>1, <3>1 DEF ListInv, DequeInv
  <2> QED
    BY <1>3, <2>1, <2>2, <2>3, <2>4, WaitingOrdered
<1> QED
  BY <1>4, <1>5

LEMMA AwakeOrdered ==
  ASSUME IInv, IInv', NEW rank \in [Lock -> Nat], Orderly(rank), NEW t \in Thread, Awake(t)
  PROVE  Orderly(rank)'
<1>1. Types /\ OrderlyInv(rank)
  BY DEF IInv, Orderly
<1>2. pc \in [Thread -> Place]
  BY <1>1 DEF Types
<1>3. PICK p, x : p = pc'[t] /\ x = loc'[t]
  OBVIOUS
<1>4. /\ pc[t] = "asleep" /\ t \notin waitSet /\ lk' = [lk EXCEPT ![loc[t].new].state = "ACTIVE"]
      /\ Others(t) /\ UNCHANGED <<head, tail, saved, deque, trx, waitSet>> /\ p = "grant" /\ x = loc[t]
  BY <1>2, <1>3 DEF Awake, Goto, Others, shared
<1>5. SearchAt(rank, p, x)
  BY <1>4 DEF SearchAt
<1>6. pc[t] \in Waiting /\ p # "asleep" /\ "ACTIVE" \in State /\ "ACTIVE" \notin {"WAIT", "OBSOLETE"}
  BY <1>4 DEF Waiting, State
<1>7. Clear(rank, loc[t].new)
  BY <1>1, <1>4, SignalClear DEF OrderlyInv, GrantedInv
<1> QED
  BY <1>3, <1>4, <1>5, <1>6, <1>7, StateOrdered

LEMMA SetConflictOrdered ==
  ASSUME IInv, IInv', NEW rank \in [Lock -> Nat], Orderly(rank), NEW t \in Thread, SetConflict(t)
  PROVE  Orderly(rank)'
<1>1. Types /\ ListInv(rank)
  BY DEF IInv, Orderly
<1>2. pc \in [Thread -> Place] /\ conflict \in [Thread -> Node]
  BY <1>1 DEF Types
<1>3. PICK p, x : p = pc'[t] /\ x = loc'[t]
  OBVIOUS
<1>4. /\ pc[t] = "conflict" /\ lk' = lk /\ Others(t)
      /\ UNCHANGED <<head, tail, saved, deque, trx, waitSet>> /\ p = "head" /\ x = loc[t]
  BY <1>2, <1>3 DEF SetConflict, Goto, Others
<1>5. SearchAt(rank, p, x)
  BY <1>4 DEF SearchAt
<1>6. p \in Waiting /\ p # "asleep" /\ p # "grant"
  BY <1>4 DEF Waiting
<1>7. lk[loc[t].new].state \notin {"WAIT", "OBSOLETE"}
  <2>1. pc[t] \in Joined /\ pc[t] \notin Freeing \cup {"give_up"} /\ pc[t] \notin MayWait
    BY <1>4 DEF Joined, Waiting, Freeing, HoldingMutex, MayWait, Probing
  <2>2. loc[t].new \in Lock /\ Owner(loc[t].new) = t /\ loc[t].new \in Locks(t)
    BY <1>1, <2>1, Settled
  <2> QED
    BY <1>1, <2>1, <2>2 DEF ListInv, DequeInv, FreshInv
<1> QED
  BY <1>3, <1>4, <1>5, <1>6, <1>7, WaitingOrdered

\* What a thread may do to the locks that returns from AcquireLock or releases its locks.
Eased(t, rank) ==
  \A l \in Lock :
    /\ lk'[l].mode = lk[l].mode /\ lk'[l].id = lk[l].id /\ lk'[l].next = lk[l].next
    /\ lk'[l].headPass = lk[l].headPass
    /\ lk'[l].state = lk[l].state \/ (lk'[l].state = "OBSOLETE" /\ Owner(l) = t)
    /\ lk[l].signal => lk'[l].signal
    /\ lk'[l].signal /\ lk'[l].state # "OBSOLETE" => lk[l].signal \/ Clear(rank, l)
    /\ ~Listed(l) => lk'[l] = lk[l]

\* Who is woken finds the signal.
Roused(t) ==
  \A u \in Thread \ {t} : pc[u] = "asleep" /\ u \notin waitSet' => u \notin waitSet \/ lk'[loc[u].new].signal

\* A step of a thread that returns from AcquireLock or releases its locks.
LEMMA ReleaseOrdered ==
  ASSUME IInv, IInv', NEW rank \in [Lock -> Nat], Orderly(rank), NEW t \in Thread,
         Others(t), NEW p, NEW x, NEW r, p = pc'[t], x = loc'[t],
         pc[t] \in {"pick", "grant", "give_up"} \cup Freeing, p \in {"pick", "done"} \cup Freeing, x.new = NoLock,
         UNCHANGED <<head, tail, saved>>, Locks(t)' \subseteq Locks(t),
         Eased(t, rank), Roused(t),
         p \in {"pick", "done"} => \A l \in Locks(t)' : lk'[l].state # "OBSOLETE",
         p \in HoldingMutex => r = Rec(Releases(t)') /\ HeadAt(rank, r, p, x)
  PROVE  Orderly(rank)'
<1>1. Types /\ ListInv(rank) /\ OrderlyInv(rank) /\ DequeInv(t)
  BY DEF IInv, Orderly, ListInv
<1>2. /\ pc[t] \notin Preparing \cup {"link", "await_id", "first"} \cup MayWait
      /\ p \notin Preparing \cup {"asleep", "give_up", "grant", "first"} \cup Linking \cup Looking \cup Headless \cup Joined
  BY DEF Preparing, Renewing, Linking, Freeing, HoldingMutex, MayWait, Probing, Looking, Headless, Joined, Waiting
<1>3. \A l \in Lock : (Listed(l)' <=> Listed(l)) /\ (Created(l)' <=> Created(l))
  BY <1>2, ListedSame
<1>4. Locks(t) \subseteq Lock
  BY <1>1, LocksIs
<1>5. Steady(t)
  <2>1. \A l \in Lock : KeptLock(t, l)
    <3> SUFFICES ASSUME NEW l \in Lock PROVE KeptLock(t, l)
      OBVIOUS
    <3>1. ~Listed(l)' => lk'[l].id = MaxId
      BY <1>1, <1>3 DEF ListInv, IdInv, Eased
    <3> QED
      BY <1>3, <3>1 DEF KeptLock, Eased
  <2> QED
    BY <1>2, <2>1 DEF Steady, Preparing, Linking
<1>6. ASSUME NEW l \in Lock, Owner(l) = t
      PROVE  FreshInv(l)'
  <2>1. FreshInv(l)
    BY <1>1 DEF ListInv
  <2>2. lk'[l].state # "WAIT"
    BY <1>2, <1>6, <2>1 DEF FreshInv, Eased
  <2>3. ~Created(l)' => lk'[l] = lk[l] /\ ~Created(l)
    BY <1>3 DEF Listed, Eased
  <2>4. p \notin {"mode", "swap", "renew_next"}
    BY <1>2 DEF Preparing, Renewing
  <2> QED
    BY <1>6, <2>1, <2>2, <2>3, <2>4 DEF FreshInv
<1>7. \A l \in Locks(t) : Owner(l) = t /\ Listed(l)
  BY <1>1, <1>2 DEF DequeInv, Preparing
<1>8. DequeInv(t)'
  <2>1. \A l \in Locks(t)' : /\ Owner(l) = t /\ Listed(l)'
                             /\ p \notin Freeing \cup {"give_up"} => lk'[l].state # "OBSOLETE"
    BY <1>3, <1>4, <1>7
  <2> QED
    BY <1>2, <2>1 DEF DequeInv
<1>9. JoinAt(rank, pc[t], loc[t])'
  BY <1>2 DEF JoinAt
<1>10. HeadAt(rank, Rec(Releases(t)), pc[t], loc[t])'
  <2>1. CASE p \notin HoldingMutex
    BY <2>1 DEF HeadAt, HoldingMutex
  <2>2. CASE p \in HoldingMutex
    <3>1. r = Rec(Releases(t)') /\ HeadAt(rank, r, p, x)
      BY <2>2
    <3>2. Types' /\ ProgramInv(t)' /\ CallInv(t)' /\ HeadInv(t)'
      BY DEF IInv
    <3>3. r \in Record
      <4>1. Releases(t)' \in Lock
        BY <2>2, <3>2 DEF ProgramInv, Freeing, Releases, Types
      <4> QED
        BY <3>1, <4>1, LockIs
    <3>4. /\ p = "advance" => x.target \in Lock /\ x.target = head[r]
          /\ p = "pass_head" => x.prev \in Lock
          /\ p \in {"wake_next", "wake_other"} => x.target \in Lock
      BY <3>1, <3>2 DEF CallInv, CallAt, HeadInv, HoldingMutex
    <3>5. Gentle(t, rank, rank) /\ \A l \in Lock : lk'[l].headPass = lk[l].headPass
      BY <1>5, SteadyGentle DEF Eased
    <3>6. (\A l \in Lock : PassedInv(rank, l)) /\ EndsInv(rank, r)
      BY <1>1, <3>3 DEF ListInv
    <3>7. HeadAt(rank, r, p, x)'
      BY <1>1, <3>1, <3>3, <3>4, <3>5, <3>6, HeadLift
    <3> QED
      BY <3>1, <3>7 DEF HeadAt
  <2> QED
    BY <2>1, <2>2
<1>11. ListInv(rank)'
  BY <1>1, <1>5, <1>6, <1>8, <1>9, <1>10, SteadyStep
<1>12. \A l \in Held(t)' : Listed(l) /\ Clear(rank, l)
  <2> SUFFICES ASSUME NEW l \in Held(t)' PROVE Listed(l) /\ Clear(rank, l)
    OBVIOUS
  <2>1. l \in Locks(t) /\ l \in Lock /\ lk[l].state # "OBSOLETE"
    BY <1>4 DEF Held, Eased
  <2>2. l = loc[t].new => pc[t] = "grant"
    BY <1>1, <2>1, LockIs DEF DequeInv
  <2>3. l \in Held(t)
    BY <2>1, <2>2 DEF Held
  <2> QED
    BY <1>1, <1>7, <2>1, <2>3 DEF OrderlyInv, GrantedInv
<1>13. OrderlyInv(rank)'
  <2>1. Gentle(t, rank, rank)
    BY <1>5, SteadyGentle
  <2>2. SearchAt(rank, p, x)
    BY <1>2 DEF SearchAt, Looking
  <2>3. \A l \in Lock : Owner(l) # t => lk'[l].state = lk[l].state
    BY DEF Eased
  <2>4. \A l \in Lock : Listed(l)' /\ lk'[l].signal /\ lk'[l].state # "OBSOLETE" =>
          Listed(l) /\ (lk[l].signal \/ Clear(rank, l))
    BY <1>3 DEF Eased
  <2>5. \A l \in Lock : lk[l].signal => lk'[l].signal
    BY DEF Eased
  <2> QED
    BY <1>1, <1>2, <1>11, <1>12, <2>1, <2>2, <2>3, <2>4, <2>5, OrderlyStep DEF Roused
<1> QED
  BY <1>11, <1>13 DEF Orderly

LEMMA EasedSame ==
  ASSUME NEW t, NEW rank, lk' = lk, waitSet' = waitSet
  PROVE  Eased(t, rank) /\ Roused(t)
BY DEF Eased, Roused

\* Wake() of a lock that is free to be granted.
LEMMA WakeEased ==
  ASSUME IInv, NEW rank, Orderly(rank), NEW t, NEW l \in Lock, Listed(l),
         lk[l].state # "OBSOLETE" => Clear(rank, l), Wake(l)
  PROVE  Eased(t, rank) /\ Roused(t)
<1>1. lk \in [Lock -> Fields] /\ lk' = [lk EXCEPT ![l].signal = TRUE]
  BY DEF IInv, Types, Wake
<1>2. /\ \A k \in Lock : k # l => lk'[k] = lk[k]
      /\ lk'[l] = [lk[l] EXCEPT !.signal = TRUE] /\ lk[l] \in Fields
  BY <1>1
<1>3. /\ lk'[l].mode = lk[l].mode /\ lk'[l].id = lk[l].id /\ lk'[l].next = lk[l].next
      /\ lk'[l].headPass = lk[l].headPass /\ lk'[l].state = lk[l].state /\ lk'[l].signal
  BY <1>2 DEF Fields
<1>4. Eased(t, rank)
  BY <1>2, <1>3 DEF Eased
<1>5. Roused(t)
  <2>1. FreshInv(l)
    BY DEF Orderly, ListInv
  <2> QED
    BY <1>3, <2>1 DEF Wake, FreshInv, Roused
<1> QED
  BY <1>4, <1>5

LEMMA UnlockOrdered ==
  ASSUME IInv, IInv', NEW rank \in [Lock -> Nat], Orderly(rank), NEW t \in Thread,
         Unlock(t), pc[t] \in HoldingMutex, UNCHANGED <<head, tail, conflict, saved>>,
         Eased(t, rank), Roused(t)
  PROVE  Orderly(rank)'
<1>1. Types
  BY DEF IInv
<1>2. pc \in [Thread -> Place] /\ loc \in [Thread -> Locals] /\ deque \in [Thread -> Seq(Lock)] /\ trx \in [Thread -> Nat \ {0}]
  BY <1>1 DEF Types
<1>3. PICK p, x : p = pc'[t] /\ x = loc'[t]
  OBVIOUS
<1>4. CASE loc[t].i < Len(deque[t])
  <2>1. Others(t) /\ p = "release" /\ x.new = NoLock /\ deque' = deque
    BY <1>2, <1>3, <1>4 DEF Unlock, Goto, Others, NoLocals
  <2>2. pc[t] \in Freeing /\ p \in Freeing /\ p \notin HoldingMutex \cup {"pick", "done"} /\ Locks(t)' = Locks(t)
    BY <2>1 DEF Freeing, HoldingMutex, Locks
  <2> QED
    BY <1>3, <2>1, <2>2, ReleaseOrdered
<1>5. CASE ~(loc[t].i < Len(deque[t]))
  <2>1. /\ Others(t) /\ p \in {"pick", "done"} /\ x.new = NoLock /\ deque'[t] = << >>
    BY <1>2, <1>3, <1>5 DEF Unlock, Goto, Others, NoLocals
  <2>2. pc[t] \in Freeing /\ p \notin HoldingMutex /\ Locks(t)' = {}
    BY <2>1 DEF Freeing, HoldingMutex, Locks
  <2> QED
    BY <1>3, <2>1, <2>2, ReleaseOrdered
<1> QED
  BY <1>4, <1>5

\* The thread keeps the mutex.
LEMMA HoldOrdered ==
  ASSUME IInv, IInv', NEW rank \in [Lock -> Nat], Orderly(rank), NEW t \in Thread,
         pc[t] \in HoldingMutex, NEW p \in HoldingMutex, NEW x, p = pc'[t], x = loc'[t],
         Others(t), x.new = loc[t].new, x.i = loc[t].i,
         UNCHANGED <<head, tail, saved, deque>>,
         Eased(t, rank), Roused(t), HeadAt(rank, Rec(Releases(t)), p, x)
  PROVE  Orderly(rank)'
<1>1. PICK r : r = Rec(Releases(t)) /\ r = Rec(Releases(t)')
  BY DEF Releases
<1>2. pc[t] \in Freeing /\ p \in Freeing /\ p \notin {"pick", "done"} /\ Locks(t)' = Locks(t)
  BY DEF Freeing, HoldingMutex, Locks
<1>3. x.new = NoLock
  BY <1>2 DEF Orderly, ListInv, DequeInv
<1> QED
  BY <1>1, <1>2, <1>3, ReleaseOrdered

LEMMA GrantOrdered ==
  ASSUME IInv, IInv', NEW rank \in [Lock -> Nat], Orderly(rank), NEW t \in Thread, Grant(t) \/ GiveUp(t)
  PROVE  Orderly(rank)'
<1>1. Types /\ ListInv(rank)
  BY DEF IInv, Orderly
<1>2. pc \in [Thread -> Place] /\ loc \in [Thread -> Locals] /\ conflict \in [Thread -> Node]
  BY <1>1 DEF Types
<1>3. PICK p, x : p = pc'[t] /\ x = loc'[t]
  OBVIOUS
<1>4. /\ pc[t] \in {"grant", "give_up"} /\ Others(t) /\ x.new = NoLock /\ p \in {"pick", "release"}
      /\ UNCHANGED <<lk, head, tail, saved, waitSet, deque>>
      /\ p = "pick" => pc[t] = "grant"
  BY <1>2, <1>3 DEF Grant, GiveUp, Goto, Others, NoLocals
<1>5. p \notin HoldingMutex /\ p \in {"pick", "done"} \cup Freeing
  BY <1>4 DEF HoldingMutex, Freeing
<1>6. Locks(t)' = Locks(t) /\ Locks(t) \subseteq Lock
  BY <1>1, <1>4, LocksIs DEF Locks
<1>7. p \in {"pick", "done"} => \A l \in Locks(t)' : lk'[l].state # "OBSOLETE"
  BY <1>1, <1>4, <1>6 DEF ListInv, DequeInv, Freeing, HoldingMutex
<1>8. Eased(t, rank) /\ Roused(t)
  BY <1>4, EasedSame
<1> QED
  BY <1>3, <1>4, <1>5, <1>6, <1>7, <1>8, ReleaseOrdered

LEMMA MarkObsoleteOrdered ==
  ASSUME IInv, IInv', NEW rank \in [Lock -> Nat], Orderly(rank), NEW t \in Thread, MarkObsolete(t)
  PROVE  Orderly(rank)'
<1>1. Types /\ ListInv(rank) /\ ProgramInv(t) /\ DequeInv(t)
  BY DEF IInv, Orderly, ListInv
<1>2. pc \in [Thread -> Place] /\ loc \in [Thread -> Locals] /\ lk \in [Lock -> Fields]
  BY <1>1 DEF Types
<1>3. PICK p, x : p = pc'[t] /\ x = loc'[t]
  OBVIOUS
<1>4. /\ pc[t] = "release" /\ Others(t) /\ x = loc[t] /\ p = "head_mutex"
      /\ UNCHANGED <<head, tail, saved, waitSet, deque>>
      /\ lk' = [lk EXCEPT ![Releases(t)].state = "OBSOLETE"]
  BY <1>2, <1>3 DEF MarkObsolete, Goto, Others, shared
<1>5. /\ pc[t] \in Freeing /\ p \notin HoldingMutex /\ p \in {"pick", "done"} \cup Freeing /\ p \notin {"pick", "done"}
      /\ pc[t] # "swap"
  BY <1>4 DEF HoldingMutex, Freeing
<1>6. Locks(t)' = Locks(t) /\ x.new = NoLock
  BY <1>1, <1>4, <1>5 DEF Locks, DequeInv
<1>7. PICK k : k = Releases(t)
  OBVIOUS
<1>8. k \in Lock /\ k \in Locks(t)
  BY <1>1, <1>5, <1>7 DEF ProgramInv, Releases, Types, Locks
<1>9. Owner(k) = t /\ Listed(k)
  BY <1>1, <1>5, <1>8 DEF DequeInv
<1>10. Eased(t, rank)
  <2>1. /\ \A l \in Lock : l # k => lk'[l] = lk[l]
        /\ lk'[k] = [lk[k] EXCEPT !.state = "OBSOLETE"] /\ lk[k] \in Fields
    BY <1>2, <1>4, <1>7, <1>8
  <2>2. /\ lk'[k].mode = lk[k].mode /\ lk'[k].id = lk[k].id /\ lk'[k].next = lk[k].next
        /\ lk'[k].headPass = lk[k].headPass /\ lk'[k].signal = lk[k].signal /\ lk'[k].state = "OBSOLETE"
    BY <2>1 DEF Fields
  <2> QED
    BY <1>9, <2>1, <2>2 DEF Eased
<1>11. Roused(t)
  BY <1>4 DEF Roused
<1> QED
  BY <1>3, <1>4, <1>5, <1>6, <1>10, <1>11, ReleaseOrdered

LEMMA LockHeadOrdered ==
  ASSUME IInv, IInv', NEW rank \in [Lock -> Nat], Orderly(rank), NEW t \in Thread, LockHead(t)
  PROVE  Orderly(rank)'
<1>1. Types /\ DequeInv(t)
  BY DEF IInv, Orderly, ListInv
<1>2. pc \in [Thread -> Place] /\ loc \in [Thread -> Locals]
  BY <1>1 DEF Types
<1>3. PICK p, x, r : p = pc'[t] /\ x = loc'[t] /\ r = Rec(Releases(t)')
  OBVIOUS
<1>4. /\ pc[t] = "head_mutex" /\ Others(t) /\ x.new = loc[t].new /\ p = "front"
      /\ UNCHANGED <<lk, head, tail, saved, waitSet, deque>>
  BY <1>2, <1>3 DEF LockHead, Goto, Others
<1>5. pc[t] \in Freeing /\ p \in Freeing /\ p \notin {"pick", "done"}
  BY <1>4 DEF HoldingMutex, Freeing
<1>6. Locks(t)' = Locks(t) /\ x.new = NoLock
  BY <1>1, <1>4, <1>5 DEF Locks, DequeInv
<1>7. HeadAt(rank, r, p, x)
  BY <1>4 DEF HeadAt
<1>8. Eased(t, rank) /\ Roused(t)
  BY <1>4, EasedSame
<1> QED
  BY <1>3, <1>4, <1>5, <1>6, <1>7, <1>8, ReleaseOrdered

\* The thread that moves the head of a record stands on it.
LEMMA AtHead ==
  ASSUME IInv, NEW rank \in [Lock -> Nat], Orderly(rank), NEW t \in Thread,
         pc[t] \in {"front", "advance", "pass_head", "new_front", "wake_head"},
         NEW r, r = Rec(Releases(t)), NEW h, h = loc[t].target
  PROVE  /\ r \in Record /\ h \in Lock /\ h = head[r] /\ Rec(h) = r /\ Listed(h) /\ HasHead(r)
         /\ ~Overtaken(rank, h) /\ Clear(rank, h)
<1>1. Types /\ ListInv(rank) /\ ProgramInv(t) /\ CallInv(t) /\ HeadInv(t)
  BY DEF IInv, Orderly
<1>2. r \in Record
  <2>1. Releases(t) \in Lock
    BY <1>1 DEF ProgramInv, Freeing, HoldingMutex, Releases, Types
  <2> QED
    BY <2>1, LockIs
<1>3. h \in Lock /\ h = head[r]
  BY <1>1 DEF CallInv, CallAt, HoldingMutex, HeadInv
<1>4. Rec(h) = r /\ Listed(h) /\ HasHead(r)
  BY <1>1, <1>2, <1>3, LockIs DEF ListInv, EndsInv, HasHead
<1>5. ~Overtaken(rank, h)
  BY <1>3, <1>4 DEF Overtaken
<1>6. Clear(rank, h)
  <2> SUFFICES ASSUME NEW m \in Lock, Bars(rank, m, h) PROVE FALSE
    BY DEF Clear
  <2>1. Overtaken(rank, m)
    BY <1>3, <1>4 DEF Bars, Overtaken
  <2> QED
    BY <1>1, <2>1 DEF Bars, ListInv, PassedInv
<1> QED
  BY <1>2, <1>3, <1>4, <1>5, <1>6

LEMMA FrontOrdered ==
  ASSUME IInv, IInv', NEW rank \in [Lock -> Nat], Orderly(rank), NEW t \in Thread, Front(t) \/ NewFront(t)
  PROVE  Orderly(rank)'
<1>1. pc \in [Thread -> Place]
  BY DEF IInv, Types
<1>2. pc[t] \in HoldingMutex /\ UNCHANGED <<lk, head, tail, conflict, saved, waitSet>>
  BY DEF Front, NewFront, HoldingMutex, shared
<1>3. Eased(t, rank) /\ Roused(t)
  BY <1>2, EasedSame
<1>4. CASE Unlock(t)
  BY <1>2, <1>3, <1>4, UnlockOrdered
<1>5. CASE ~Unlock(t)
  <2>1. PICK p, x : p = pc'[t] /\ x = loc'[t]
    OBVIOUS
  <2>2. /\ Others(t) /\ x = loc[t] /\ deque' = deque
        /\ p \in {"advance", "wake_head"} /\ (p = "advance" => lk[x.target].state = "OBSOLETE")
    BY <1>1, <1>2, <1>5, <2>1 DEF Front, NewFront, Hold, Goto, Others, shared
  <2>3. p \in HoldingMutex /\ HeadAt(rank, Rec(Releases(t)), p, x)
    BY <2>2 DEF HoldingMutex, HeadAt
  <2> QED
    BY <1>2, <1>3, <2>1, <2>2, <2>3, HoldOrdered
<1> QED
  BY <1>4, <1>5

LEMMA WakeHeadOrdered ==
  ASSUME IInv, IInv', NEW rank \in [Lock -> Nat], Orderly(rank), NEW t \in Thread, WakeHead(t)
  PROVE  Orderly(rank)'
<1>1. pc \in [Thread -> Place] /\ ListInv(rank)
  BY DEF IInv, Types, Orderly
<1>2. /\ pc[t] = "wake_head" /\ pc[t] \in HoldingMutex /\ UNCHANGED <<head, tail, conflict, saved>>
      /\ Wake(loc[t].target)
  BY DEF WakeHead, HoldingMutex
<1>3. PICK p, x, r, h : p = pc'[t] /\ x = loc'[t] /\ r = Rec(Releases(t)) /\ h = loc[t].target
  OBVIOUS
<1>4. /\ r \in Record /\ h \in Lock /\ h = head[r] /\ Rec(h) = r /\ Listed(h) /\ HasHead(r)
      /\ ~Overtaken(rank, h) /\ Clear(rank, h)
  BY <1>2, <1>3, AtHead
<1>5. Eased(t, rank) /\ Roused(t)
  BY <1>2, <1>3, <1>4, WakeEased
<1>6. CASE lk[h].mode = "SHARED"
  <2>1. Others(t) /\ x = loc[t] /\ deque' = deque /\ p = "wake_next"
    BY <1>1, <1>2, <1>3, <1>6 DEF WakeHead, Hold, Goto, Others
  <2>2. ASSUME NEW m \in Lock, Listed(m), Rec(m) = r, rank[m] <= rank[h]
        PROVE  lk[m].state = "OBSOLETE" \/ lk[m].mode = "SHARED"
    <3>1. CASE rank[m] = rank[h]
      BY <1>1, <1>4, <1>6, <2>2, <3>1 DEF ListInv, OrderInv
    <3>2. CASE rank[m] # rank[h]
      <4>1. Overtaken(rank, m)
        BY <1>4, <2>2, <3>2 DEF Overtaken
      <4> QED
        BY <1>1, <2>2, <4>1 DEF ListInv, PassedInv
    <3> QED
      BY <3>1, <3>2
  <2>3. HeadAt(rank, r, p, x)
    BY <1>3, <1>4, <2>1, <2>2 DEF HeadAt
  <2>4. p \in HoldingMutex
    BY <2>1 DEF HoldingMutex
  <2> QED
    BY <1>2, <1>3, <1>5, <2>1, <2>3, <2>4, HoldOrdered
<1>7. CASE lk[h].mode # "SHARED"
  BY <1>2, <1>3, <1>5, <1>7, UnlockOrdered DEF WakeHead
<1> QED
  BY <1>6, <1>7

LEMMA WakeNextOrdered ==
  ASSUME IInv, IInv', NEW rank \in [Lock -> Nat], Orderly(rank), NEW t \in Thread, WakeNext(t)
  PROVE  Orderly(rank)'
<1>1. Types /\ ListInv(rank) /\ CallInv(t)
  BY DEF IInv, Orderly
<1>2. pc \in [Thread -> Place] /\ loc \in [Thread -> Locals] /\ lk \in [Lock -> Fields]
  BY <1>1 DEF Types
<1>3. pc[t] = "wake_next" /\ pc[t] \in HoldingMutex /\ UNCHANGED <<lk, head, tail, conflict, saved, waitSet>>
  BY DEF WakeNext, HoldingMutex
<1>4. Eased(t, rank) /\ Roused(t)
  BY <1>3, EasedSame
<1>5. PICK p, x, r, k, l : /\ p = pc'[t] /\ x = loc'[t] /\ r = Rec(Releases(t))
                           /\ k = loc[t].target /\ l = lk[k].next
  OBVIOUS
<1>6. /\ k \in Lock /\ Rec(k) = r /\ Listed(k) /\ ~Overtaken(rank, k)
      /\ \A m \in Lock : Listed(m) /\ Rec(m) = r /\ rank[m] <= rank[k] =>
           lk[m].state = "OBSOLETE" \/ lk[m].mode = "SHARED"
  <2>1. HeadAt(rank, r, pc[t], loc[t])
    BY <1>1, <1>5 DEF ListInv
  <2>2. k \in Lock
    BY <1>1, <1>3, <1>5 DEF CallInv, CallAt
  <2> QED
    BY <1>3, <1>5, <2>1, <2>2 DEF HeadAt
<1>7. CASE l = NoLock \/ (lk[l].state # "OBSOLETE" /\ lk[l].mode = "EXCLUSIVE")
  BY <1>3, <1>4, <1>5, <1>7, UnlockOrdered DEF WakeNext
<1>8. CASE ~(l = NoLock \/ (lk[l].state # "OBSOLETE" /\ lk[l].mode = "EXCLUSIVE"))
  <2>1. /\ Others(t) /\ x.new = loc[t].new /\ x.i = loc[t].i /\ x.target = l /\ deque' = deque
        /\ p \in {"wake_next", "wake_other"}
    BY <1>2, <1>3, <1>5, <1>8 DEF WakeNext, Goto, Others, Locals
  <2>2. l \in Lock
    BY <1>2, <1>5, <1>6, <1>8 DEF Fields
  <2>3. Rec(l) = r /\ Listed(l) /\ rank[l] = rank[k] + 1
    BY <1>1, <1>5, <1>6, <1>8 DEF ListInv, LinkInv
  <2>4. ~Overtaken(rank, l)
    <3>1. HasHead(r) => head[r] \in Lock
      BY <1>1, <1>6, LockIs DEF Types, Node, HasHead
    <3> QED
      BY <1>6, <2>2, <2>3, <3>1 DEF Overtaken
  <2>5. ASSUME NEW m \in Lock, Listed(m), Rec(m) = r, rank[m] <= rank[l]
        PROVE  lk[m].state = "OBSOLETE" \/ lk[m].mode = "SHARED"
    <3>1. CASE rank[m] = rank[l]
      <4>1. m = l
        BY <1>1, <2>2, <2>3, <2>5, <3>1 DEF ListInv, OrderInv
      <4> QED
        BY <1>2, <1>8, <2>2, <4>1 DEF Fields, Mode
    <3>2. CASE rank[m] # rank[l]
      BY <1>6, <2>2, <2>3, <2>5, <3>2
    <3> QED
      BY <3>1, <3>2
  <2>6. HeadAt(rank, r, p, x)
    BY <2>1, <2>3, <2>4, <2>5 DEF HeadAt
  <2>7. p \in HoldingMutex
    BY <2>1 DEF HoldingMutex
  <2> QED
    BY <1>3, <1>4, <1>5, <2>1, <2>6, <2>7, HoldOrdered
<1> QED
  BY <1>7, <1>8

LEMMA WakeOtherOrdered ==
  ASSUME IInv, IInv', NEW rank \in [Lock -> Nat], Orderly(rank), NEW t \in Thread, WakeOther(t)
  PROVE  Orderly(rank)'
<1>1. Types /\ ListInv(rank) /\ CallInv(t)
  BY DEF IInv, Orderly
<1>2. pc \in [Thread -> Place] /\ loc \in [Thread -> Locals]
  BY <1>1 DEF Types
<1>3. /\ pc[t] = "wake_other" /\ pc[t] \in HoldingMutex /\ UNCHANGED <<head, tail, conflict, saved>>
      /\ Wake(loc[t].target)
  BY DEF WakeOther, HoldingMutex
<1>4. PICK p, x, r, k : p = pc'[t] /\ x = loc'[t] /\ r = Rec(Releases(t)) /\ k = loc[t].target
  OBVIOUS
<1>5. k \in Lock /\ HeadAt(rank, r, "wake_other", loc[t])
  BY <1>1, <1>3, <1>4 DEF CallInv, CallAt, ListInv
<1>6. /\ Rec(k) = r /\ Listed(k)
      /\ \A m \in Lock : Listed(m) /\ Rec(m) = r /\ rank[m] <= rank[k] =>
           lk[m].state = "OBSOLETE" \/ lk[m].mode = "SHARED"
  BY <1>4, <1>5 DEF HeadAt
<1>7. lk[k].state # "OBSOLETE" => Clear(rank, k)
  <2> SUFFICES ASSUME lk[k].state # "OBSOLETE", NEW m \in Lock, Bars(rank, m, k) PROVE FALSE
    BY DEF Clear
  <2>1. lk[k].mode = "SHARED"
    BY <1>5, <1>6
  <2>2. rank[m] <= rank[k] /\ Listed(m) /\ Rec(m) = r /\ lk[m].state # "OBSOLETE" /\ ~Compatible(m, k)
    BY <1>5, <1>6 DEF Bars
  <2> QED
    BY <1>6, <2>1, <2>2 DEF Compatible
<1>8. Eased(t, rank) /\ Roused(t)
  BY <1>3, <1>4, <1>5, <1>6, <1>7, WakeEased
<1>9. Others(t) /\ x = loc[t] /\ deque' = deque /\ p = "wake_next"
  BY <1>2, <1>3, <1>4 DEF WakeOther, Hold, Goto, Others
<1>10. HeadAt(rank, r, p, x)
  BY <1>5, <1>9 DEF HeadAt
<1>11. p \in HoldingMutex
  BY <1>9 DEF HoldingMutex
<1> QED
  BY <1>3, <1>4, <1>8, <1>9, <1>10, <1>11, HoldOrdered

\* A step of a thread that prepares the lock n.
LEMMA PrepareOrdered ==
  ASSUME IInv, IInv', NEW rank \in [Lock -> Nat], Orderly(rank), NEW t \in Thread,
         Others(t), NEW p \in Preparing, NEW x, NEW n \in Lock, p = pc'[t], x = loc'[t], n = x.new,
         pc[t] \in {"pick"} \cup Renewing, UNCHANGED <<head, tail, waitSet>>,
         Owner(n) = t, n \notin Locks(t), loc[t].new \in {NoLock, n},
         \A l \in Lock \ {n} : lk'[l] = lk[l] /\ (Created(l)' <=> Created(l)),
         lk'[n].id = MaxId, lk'[n].next \in {lk[n].next, NoLock},
         Listed(n) => lk[n].headPass /\ lk[n].idPass,
         FreshInv(n)', p \in Renewing => Locks(t)' = Locks(t),
         p = "swap" => Locks(t)' = Locks(t) \cup {n} /\ lk'[n].state # "OBSOLETE"
  PROVE  Orderly(rank)'
<1>1. Types /\ ListInv(rank) /\ OrderlyInv(rank) /\ DequeInv(t)
  BY DEF IInv, Orderly, ListInv
<1>2. /\ pc[t] \notin {"swap", "link", "await_id", "first"} \cup MayWait \cup {"asleep", "give_up"} \cup Freeing
      /\ p \notin {"asleep", "give_up", "pick", "grant", "first"} \cup Linking \cup Looking \cup Joined \cup Freeing \cup HoldingMutex
      /\ p \in Headless => p = "swap"
  BY DEF Preparing, Renewing, Linking, Freeing, HoldingMutex, MayWait, Probing, Looking, Headless, Joined, Waiting
<1>3. ~Listed(n)'
  BY DEF Listed, Out
<1>4. \A l \in Lock \ {n} : Listed(l)' <=> Listed(l)
  <2> SUFFICES ASSUME NEW l \in Lock \ {n} PROVE Listed(l)' <=> Listed(l)
    OBVIOUS
  <2>1. Out(l)' <=> Out(l)
    BY LockIs DEF Out, Others
  <2> QED
    BY <2>1 DEF Listed
<1>5. Locks(t) \subseteq Lock
  BY <1>1, LocksIs
<1>6. Steady(t)
  <2>1. \A l \in Lock : KeptLock(t, l)
    <3> SUFFICES ASSUME NEW l \in Lock PROVE KeptLock(t, l)
      OBVIOUS
    <3>1. CASE l = n
      BY <1>3, <3>1 DEF KeptLock
    <3>2. CASE l # n
      <4>1. ~Listed(l)' => lk'[l].id = MaxId
        BY <1>1, <1>4, <3>2 DEF ListInv, IdInv
      <4> QED
        BY <1>4, <3>2, <4>1 DEF KeptLock
    <3> QED
      BY <3>1, <3>2
  <2> QED
    BY <1>2, <2>1 DEF Steady, Linking
<1>7. ASSUME NEW l \in Lock, Owner(l) = t
      PROVE  FreshInv(l)'
  <2>1. CASE l = n
    BY <2>1
  <2>2. CASE l # n
    <3>1. FreshInv(l) /\ lk'[l] = lk[l] /\ (Created(l)' <=> Created(l)) /\ loc'[t].new # l
      BY <1>1, <2>2 DEF ListInv
    <3> QED
      BY <1>2, <1>7, <3>1 DEF FreshInv
  <2> QED
    BY <2>1, <2>2
<1>8. DequeInv(t)'
  <2>1. \A l \in Locks(t) : l # n /\ Owner(l) = t /\ Listed(l)' /\ lk'[l].state # "OBSOLETE"
    <3> SUFFICES ASSUME NEW l \in Locks(t) PROVE l # n /\ Owner(l) = t /\ Listed(l)' /\ lk'[l].state # "OBSOLETE"
      OBVIOUS
    <3>1. l # n /\ l \in Lock
      BY <1>5
    <3>2. Owner(l) = t /\ Listed(l) /\ lk[l].state # "OBSOLETE"
      BY <1>1, <1>2 DEF DequeInv
    <3> QED
      BY <1>4, <3>1, <3>2
  <2>2. \A l \in Locks(t)' : l \in Locks(t) \/ (l = n /\ p = "swap")
    BY DEF Preparing
  <2>3. \A l \in Locks(t)' :
          /\ Owner(l) = t
          /\ Listed(l)' \/ (p = "swap" /\ l = n)
          /\ p \notin Freeing \cup {"give_up"} => lk'[l].state # "OBSOLETE"
    BY <2>1, <2>2
  <2>4. p \in Headless => n \in Locks(t)'
    BY <1>2
  <2> QED
    BY <1>2, <2>3, <2>4 DEF DequeInv, Preparing, Renewing
<1>9. JoinAt(rank, pc[t], loc[t])' /\ HeadAt(rank, Rec(Releases(t)), pc[t], loc[t])'
  BY <1>2 DEF JoinAt, HeadAt, HoldingMutex
<1>10. ListInv(rank)'
  BY <1>1, <1>6, <1>7, <1>8, <1>9, SteadyStep
<1>11. \A l \in Held(t)' : Listed(l) /\ Clear(rank, l)
  <2> SUFFICES ASSUME NEW l \in Held(t)' PROVE Listed(l) /\ Clear(rank, l)
    OBVIOUS
  <2>1. l \in Locks(t)' /\ lk'[l].state # "OBSOLETE" /\ l # n
    BY <1>2 DEF Held
  <2>2. l \in Locks(t)
    BY <2>1 DEF Preparing
  <2>3. l \in Lock /\ lk[l].state # "OBSOLETE" /\ l # loc[t].new
    BY <1>5, <2>1, <2>2, LockIs
  <2>4. l \in Held(t)
    BY <2>2, <2>3 DEF Held
  <2>5. Listed(l)
    BY <1>1, <1>2, <2>2 DEF DequeInv
  <2> QED
    BY <1>1, <2>4, <2>5 DEF OrderlyInv, GrantedInv
<1>12. OrderlyInv(rank)'
  <2>1. Gentle(t, rank, rank)
    BY <1>6, SteadyGentle
  <2>2. SearchAt(rank, p, x)
    BY <1>2 DEF SearchAt, Looking
  <2>3. \A l \in Lock : Owner(l) # t => lk'[l].state = lk[l].state
    OBVIOUS
  <2>4. \A l \in Lock : Listed(l)' => Listed(l) /\ lk'[l].signal = lk[l].signal
    BY <1>3, <1>4
  <2> QED
    BY <1>1, <1>2, <1>10, <1>11, <2>1, <2>2, <2>3, <2>4, OrderlyStep
<1> QED
  BY <1>10, <1>12 DEF Orderly

LEMMA RenewStateOrdered ==
  ASSUME IInv, IInv', NEW rank \in [Lock -> Nat], Orderly(rank), NEW t \in Thread, RenewState(t)
  PROVE  Orderly(rank)'
<1>1. Types /\ ListInv(rank) /\ LockInv(t) /\ DequeInv(t) /\ PassInv
  BY DEF IInv, Orderly, ListInv
<1>2. pc \in [Thread -> Place] /\ lk \in [Lock -> Fields]
  BY <1>1 DEF Types
<1>3. PICK p, x, n : p = pc'[t] /\ x = loc'[t] /\ n = loc[t].new
  OBVIOUS
<1>4. /\ pc[t] = "renew_state" /\ Others(t) /\ x = loc[t] /\ p = "renew_next"
      /\ UNCHANGED <<head, tail, saved, waitSet, deque, loc>>
      /\ lk' = [lk EXCEPT ![n].state = "ACTIVE"]
  BY <1>2, <1>3 DEF RenewState, Goto, Others, shared
<1>5. n \in Lock /\ Owner(n) = t /\ Created(n) /\ Out(n) /\ ~Listed(n)
  BY <1>1, <1>3, <1>4 DEF LockInv, Renewing, Out, Listed, Preparing
<1>6. n \notin Locks(t)
  BY <1>1, <1>4, <1>5 DEF DequeInv
<1>7. /\ \A l \in Lock : l # n => lk'[l] = lk[l]
      /\ lk'[n] = [lk[n] EXCEPT !.state = "ACTIVE"] /\ lk[n] \in Fields
  BY <1>2, <1>4, <1>5
<1>8. lk'[n].id = MaxId /\ lk'[n].next = lk[n].next /\ lk'[n].state = "ACTIVE"
  BY <1>1, <1>5, <1>7 DEF Fields, ListInv, IdInv
<1>9. Created(n)' /\ \A l \in Lock : Created(l)' <=> Created(l)
  BY <1>4, <1>5 DEF Created
<1>10. FreshInv(n)'
  BY <1>3, <1>4, <1>5, <1>8, <1>9 DEF FreshInv
<1>11. Locks(t)' = Locks(t)
  BY <1>4 DEF Locks
<1>12. p \in Preparing /\ p # "swap" /\ pc[t] \in Renewing
  BY <1>4 DEF Preparing, Renewing
<1> QED
  BY <1>3, <1>4, <1>5, <1>6, <1>7, <1>8, <1>9, <1>10, <1>11, <1>12, PrepareOrdered

LEMMA RenewNextOrdered ==
  ASSUME IInv, IInv', NEW rank \in [Lock -> Nat], Orderly(rank), NEW t \in Thread, RenewNext(t)
  PROVE  Orderly(rank)'
<1>1. Types /\ ListInv(rank) /\ LockInv(t) /\ DequeInv(t)
  BY DEF IInv, Orderly, ListInv
<1>2. pc \in [Thread -> Place] /\ lk \in [Lock -> Fields]
  BY <1>1 DEF Types
<1>3. PICK p, x, n : p = pc'[t] /\ x = loc'[t] /\ n = loc[t].new
  OBVIOUS
<1>4. /\ pc[t] = "renew_next" /\ Others(t) /\ x = loc[t] /\ p = "mode"
      /\ UNCHANGED <<head, tail, saved, waitSet, deque, loc>>
      /\ lk' = [lk EXCEPT ![n].next = NoLock, ![n].headPass = FALSE, ![n].signal = FALSE]
  BY <1>2, <1>3 DEF RenewNext, Goto, Others, shared
<1>5. n \in Lock /\ Owner(n) = t /\ Created(n) /\ Out(n) /\ ~Listed(n)
  BY <1>1, <1>3, <1>4 DEF LockInv, Renewing, Out, Listed, Preparing
<1>6. n \notin Locks(t)
  BY <1>1, <1>4, <1>5 DEF DequeInv
<1>7. /\ \A l \in Lock : l # n => lk'[l] = lk[l]
      /\ lk'[n] = [lk[n] EXCEPT !.next = NoLock, !.headPass = FALSE, !.signal = FALSE] /\ lk[n] \in Fields
  BY <1>2, <1>4, <1>5
<1>8. lk'[n].id = MaxId /\ lk'[n].next = NoLock /\ ~lk'[n].headPass /\ ~lk'[n].signal /\ lk'[n].state = lk[n].state
  BY <1>1, <1>5, <1>7 DEF Fields, ListInv, IdInv
<1>9. Created(n)' /\ \A l \in Lock : Created(l)' <=> Created(l)
  BY <1>4, <1>5 DEF Created
<1>10. FreshInv(n)'
  <2>1. lk[n].state = "ACTIVE"
    BY <1>1, <1>3, <1>4, <1>5 DEF ListInv, FreshInv
  <2> QED
    BY <1>3, <1>4, <1>5, <1>8, <1>9, <2>1 DEF FreshInv
<1>11. Locks(t)' = Locks(t)
  BY <1>4 DEF Locks
<1>12. p \in Preparing /\ p # "swap" /\ pc[t] \in Renewing
  BY <1>4 DEF Preparing, Renewing
<1> QED
  BY <1>3, <1>4, <1>5, <1>6, <1>7, <1>8, <1>9, <1>10, <1>11, <1>12, PrepareOrdered

LEMMA SetModeOrdered ==
  ASSUME IInv, IInv', NEW rank \in [Lock -> Nat], Orderly(rank), NEW t \in Thread, SetMode(t)
  PROVE  Orderly(rank)'
<1>1. Types /\ ListInv(rank) /\ LockInv(t) /\ DequeInv(t)
  BY DEF IInv, Orderly, ListInv
<1>2. pc \in [Thread -> Place] /\ lk \in [Lock -> Fields] /\ deque \in [Thread -> Seq(Lock)]
  BY <1>1 DEF Types
<1>3. PICK p, x, n : p = pc'[t] /\ x = loc'[t] /\ n = loc[t].new
  OBVIOUS
<1>4. /\ pc[t] = "mode" /\ Others(t) /\ x = loc[t] /\ p = "swap"
      /\ UNCHANGED <<head, tail, saved, waitSet, loc>> /\ deque'[t] = Append(deque[t], n)
      /\ lk' = [lk EXCEPT ![n].mode = Wanted(t).mode]
  BY <1>2, <1>3 DEF SetMode, Goto, Others
<1>5. n \in Lock /\ Owner(n) = t /\ Created(n) /\ Out(n) /\ ~Listed(n)
  BY <1>1, <1>3, <1>4 DEF LockInv, Renewing, Out, Listed, Preparing
<1>6. n \notin Locks(t)
  BY <1>1, <1>4, <1>5 DEF DequeInv
<1>7. /\ \A l \in Lock : l # n => lk'[l] = lk[l]
      /\ lk'[n] = [lk[n] EXCEPT !.mode = Wanted(t).mode] /\ lk[n] \in Fields
  BY <1>2, <1>4, <1>5
<1>8. /\ lk'[n].id = MaxId /\ lk'[n].next = lk[n].next /\ lk'[n].headPass = lk[n].headPass
      /\ lk'[n].signal = lk[n].signal /\ lk'[n].state = lk[n].state
  BY <1>1, <1>5, <1>7 DEF Fields, ListInv, IdInv
<1>9. Created(n)' /\ \A l \in Lock : Created(l)' <=> Created(l)
  BY <1>4, <1>5 DEF Created
<1>10. lk[n].next = NoLock /\ ~lk[n].headPass /\ ~lk[n].signal /\ lk[n].state = "ACTIVE"
  BY <1>1, <1>3, <1>4, <1>5 DEF ListInv, FreshInv
<1>11. FreshInv(n)'
  BY <1>3, <1>4, <1>5, <1>8, <1>9, <1>10 DEF FreshInv
<1>12. Locks(t)' = Locks(t) \cup {n}
  <2>1. deque[t] \in Seq(Lock)
    BY <1>2
  <2>2. /\ Len(deque'[t]) = Len(deque[t]) + 1 /\ deque'[t][Len(deque[t]) + 1] = n
        /\ \A k \in 1 .. Len(deque[t]) : deque'[t][k] = deque[t][k]
    BY <1>4, <1>5, <2>1
  <2>3. Len(deque[t]) \in Nat
    BY <2>1
  <2> QED
    BY <2>2, <2>3 DEF Locks
<1>13. p \in Preparing /\ p \notin Renewing /\ pc[t] \in Renewing
  BY <1>4 DEF Preparing, Renewing
<1> QED
  BY <1>3, <1>4, <1>5, <1>6, <1>7, <1>8, <1>9, <1>10, <1>11, <1>12, <1>13, PrepareOrdered

LEMMA PickOrdered ==
  ASSUME IInv, IInv', NEW rank \in [Lock -> Nat], Orderly(rank), NEW t \in Thread, Pick(t)
  PROVE  Orderly(rank)'
<1>1. Types /\ Types' /\ ListInv(rank) /\ ProgramInv(t) /\ DequeInv(t)
  BY DEF IInv, Orderly, ListInv
<1>2. pc \in [Thread -> Place] /\ loc \in [Thread -> Locals] /\ lk \in [Lock -> Fields]
  BY <1>1 DEF Types
<1>3. pc[t] = "pick" /\ UNCHANGED <<head, tail, mutex, conflict, waitSet, deque, trx>> /\ loc[t].new = NoLock
  BY <1>1 DEF Pick, DequeInv
<1>4. PICK p, x, r : p = pc'[t] /\ x = loc'[t] /\ r = Wanted(t).rec
  OBVIOUS
<1>5. Locks(t)' = Locks(t)
  BY <1>3 DEF Locks
<1>6. \A l \in Locks(t) : Owner(l) = t /\ Listed(l) /\ lk[l].state # "OBSOLETE"
  BY <1>1, <1>3 DEF DequeInv, Freeing, HoldingMutex
<1>7. \A l \in Lock : Owner(l) = t => (Listed(l) <=> Created(l))
  BY <1>3 DEF Listed, Out, Preparing, Renewing
<1>8. r \in Record
  BY <1>1, <1>3, <1>4, WantedIs
<1>9. CASE loc[t].i > saved[t][r] /\ Create(t)
  <2>1. PICK n : n = <<t, r, saved[t][r] + 1>>
    OBVIOUS
  <2>2. /\ Others(t) /\ x.new = n /\ p = "mode" /\ lk' = lk /\ saved[t][r] < MaxLocks
        /\ saved' = [saved EXCEPT ![t][r] = @ + 1]
    BY <1>2, <1>3, <1>4, <1>9, <2>1 DEF Create, Goto, Others, Locals
  <2>3. saved \in [Thread -> [Record -> 0 .. MaxLocks]] /\ saved[t][r] \in 0 .. MaxLocks /\ MaxLocks \in Nat
    BY <1>1, <1>8, LockIs DEF Types
  <2>4. n \in Lock /\ Owner(n) = t /\ Rec(n) = r /\ n[3] = saved[t][r] + 1
    BY <1>8, <2>1, <2>2, <2>3 DEF Lock, Owner, Rec
  <2>5. ~Created(n) /\ ~Listed(n)
    BY <2>3, <2>4 DEF Created, Listed
  <2>6. Created(n)' /\ \A l \in Lock \ {n} : Created(l)' <=> Created(l)
    <3>1. saved'[t][r] = saved[t][r] + 1
      BY <1>8, <2>2, <2>3
    <3>2. \A u \in Thread, q \in Record : u # t \/ q # r => saved'[u][q] = saved[u][q]
      BY <2>2, <2>3
    <3>3. Created(n)'
      BY <2>3, <2>4, <3>1 DEF Created
    <3>4. ASSUME NEW l \in Lock \ {n}
          PROVE  Created(l)' <=> Created(l)
      <4>1. CASE Owner(l) = t /\ Rec(l) = r
        <5>1. l = <<t, r, l[3]>> /\ l[3] \in Nat /\ l[3] # saved[t][r] + 1
          BY <2>1, <3>4, <4>1, LockIs DEF Lock, Owner, Rec
        <5> QED
          BY <2>3, <3>1, <4>1, <5>1, SMTT(60) DEF Created
      <4>2. CASE ~(Owner(l) = t /\ Rec(l) = r)
        BY <3>2, <4>2, LockIs DEF Created
      <4> QED
        BY <4>1, <4>2
    <3> QED
      BY <3>3, <3>4
  <2>7. n \notin Locks(t)
    BY <1>6, <2>5
  <2>8. lk[n].next = NoLock /\ ~lk[n].headPass /\ ~lk[n].signal /\ lk[n].state = "ACTIVE" /\ lk[n].id = MaxId
    BY <1>1, <2>4, <2>5 DEF ListInv, FreshInv, IdInv
  <2>9. FreshInv(n)'
    BY <2>2, <2>8 DEF FreshInv
  <2>10. p \in Preparing /\ p \in Renewing /\ p # "swap"
    BY <2>2 DEF Preparing, Renewing
  <2> QED
    BY <1>3, <1>4, <1>5, <2>2, <2>4, <2>5, <2>6, <2>7, <2>8, <2>9, <2>10, PrepareOrdered
<1>10. CASE loc[t].i <= saved[t][r] /\ Recyclable(<<t, r, loc[t].i>>) /\ Recycle(t, <<t, r, loc[t].i>>)
  <2>1. PICK n : n = <<t, r, loc[t].i>>
    OBVIOUS
  <2>2. saved[t][r] \in 0 .. MaxLocks /\ MaxLocks \in Nat /\ loc[t].i \in Nat /\ loc[t].i > 0
    <3>1. CallInv(t)
      BY DEF IInv
    <3> QED
      BY <1>1, <1>2, <1>3, <1>8, <3>1, LockIs DEF Types, CallInv, CallAt, Locals
  <2>3. n \in Lock /\ Owner(n) = t /\ Rec(n) = r /\ n[3] = loc[t].i
    BY <1>8, <1>10, <2>1, <2>2 DEF Lock, Owner, Rec
  <2>4. /\ Others(t) /\ x.new = n /\ p = "renew_state" /\ saved' = saved
        /\ lk' = [lk EXCEPT ![n].id = MaxId, ![n].idPass = FALSE]
    BY <1>2, <1>3, <1>4, <1>10, <2>1 DEF Recycle, Goto, Others, Locals
  <2>5. /\ \A l \in Lock : l # n => lk'[l] = lk[l]
        /\ lk'[n] = [lk[n] EXCEPT !.id = MaxId, !.idPass = FALSE] /\ lk[n] \in Fields
    BY <1>2, <2>3, <2>4
  <2>6. lk'[n].id = MaxId /\ lk'[n].next = lk[n].next /\ lk'[n].state = lk[n].state
    BY <2>5 DEF Fields
  <2>7. lk[n].state = "OBSOLETE" /\ lk[n].idPass /\ lk[n].headPass
    BY <1>10, <2>1 DEF Recyclable
  <2>8. \A l \in Lock : Created(l)' <=> Created(l)
    BY <2>4 DEF Created
  <2>9. Created(n)
    BY <1>10, <2>2, <2>3 DEF Created
  <2>10. FreshInv(n)'
    BY <2>3, <2>4, <2>6, <2>7, <2>8, <2>9, <1>4 DEF FreshInv
  <2>11. p \in Preparing /\ p \in Renewing /\ p # "swap" /\ n \notin Locks(t)
    BY <1>6, <2>4, <2>7 DEF Preparing, Renewing
  <2> QED
    BY <1>3, <1>4, <1>5, <2>3, <2>4, <2>5, <2>6, <2>7, <2>8, <2>10, <2>11, PrepareOrdered
<1>11. CASE loc' = [loc EXCEPT ![t].i = @ + 1] /\ UNCHANGED <<lk, saved, pc>>
  <2>1. Others(t) /\ p = "pick" /\ x.new = NoLock
    BY <1>2, <1>3, <1>4, <1>11 DEF Others, Locals
  <2>2. Eased(t, rank) /\ Roused(t)
    BY <1>3, <1>11, EasedSame
  <2>3. p \notin HoldingMutex
    BY <2>1 DEF HoldingMutex
  <2> QED
    BY <1>3, <1>4, <1>5, <1>6, <1>11, <2>1, <2>2, <2>3, ReleaseOrdered
<1> QED
  BY <1>4, <1>9, <1>10, <1>11 DEF Pick

LEMMA PassIdOrdered ==
  ASSUME IInv, IInv', NEW rank \in [Lock -> Nat], Orderly(rank), NEW t \in Thread, PassId(t)
  PROVE  Orderly(rank)'
<1>1. Types /\ ListInv(rank) /\ CallInv(t)
  BY DEF IInv, Orderly
<1>2. pc \in [Thread -> Place] /\ lk \in [Lock -> Fields]
  BY <1>1 DEF Types
<1>3. PICK p, x, k : p = pc'[t] /\ x = loc'[t] /\ k = loc[t].prev
  OBVIOUS
<1>4. /\ pc[t] = "pass_id" /\ Others(t) /\ x = loc[t] /\ p = "conflict"
      /\ UNCHANGED <<head, tail, saved, deque, trx, waitSet>>
      /\ lk' = [lk EXCEPT ![k].idPass = TRUE]
  BY <1>2, <1>3 DEF PassId, Goto, Others, shared
<1>5. k \in Lock /\ Listed(k)
  BY <1>1, <1>3, <1>4 DEF CallInv, CallAt, Linking, ListInv, JoinAt
<1>6. /\ \A l \in Lock : l # k => lk'[l] = lk[l]
      /\ lk'[k] = [lk[k] EXCEPT !.idPass = TRUE] /\ lk[k] \in Fields
  BY <1>2, <1>4, <1>5
<1>7. \A l \in Lock :
        /\ lk'[l].state = lk[l].state /\ (~Listed(l) => lk'[l] = lk[l])
        /\ lk'[l].mode = lk[l].mode /\ lk'[l].id = lk[l].id /\ lk'[l].next = lk[l].next
        /\ lk'[l].headPass = lk[l].headPass /\ lk'[l].signal = lk[l].signal
  BY <1>5, <1>6 DEF Fields
<1>8. SearchAt(rank, p, x) /\ p \notin {"asleep", "grant", "give_up"}
  BY <1>4 DEF SearchAt
<1>9. lk[loc[t].new].state \notin {"WAIT", "OBSOLETE"} /\ loc[t].new \in Lock
  <2>1. pc[t] \in Joined /\ pc[t] \notin Freeing \cup {"give_up"} /\ pc[t] \notin MayWait
    BY <1>4 DEF Joined, Waiting, Freeing, HoldingMutex, MayWait, Probing
  <2>2. loc[t].new \in Lock /\ Owner(loc[t].new) = t /\ loc[t].new \in Locks(t)
    BY <1>1, <2>1, Settled
  <2> QED
    BY <1>1, <2>1, <2>2 DEF ListInv, DequeInv, FreshInv
<1>10. lk'[loc[t].new].state \notin {"WAIT", "OBSOLETE"}
  BY <1>7, <1>9
<1>11. \A l \in Lock :
         /\ l # loc[t].new => lk'[l].state = lk[l].state /\ (~Listed(l) => lk'[l] = lk[l])
         /\ lk'[l].mode = lk[l].mode /\ lk'[l].id = lk[l].id /\ lk'[l].next = lk[l].next
         /\ lk'[l].headPass = lk[l].headPass /\ lk'[l].signal = lk[l].signal
  BY <1>7
<1>12. x.new = loc[t].new /\ waitSet \subseteq waitSet'
  BY <1>4
<1> QED
  BY <1>3, <1>4, <1>8, <1>10, <1>11, <1>12, WaitingOrdered

\* A step of a thread that puts its lock into a list: what is left to show are the lists.
LEMMA JoinOrdered ==
  ASSUME IInv, IInv', NEW rank \in [Lock -> Nat], NEW rk \in [Lock -> Nat], Orderly(rank), NEW t \in Thread,
         Gentle(t, rank, rk), Others(t), NEW p, NEW x, NEW n, p = pc'[t], x = loc'[t], n = loc[t].new, x.new = n,
         pc[t] \in Headless, p \in {"link", "await_id", "first", "pass_id", "conflict"},
         UNCHANGED <<saved, deque, waitSet>>,
         \A l \in Lock :
           /\ lk'[l].state = lk[l].state /\ lk'[l].headPass = lk[l].headPass /\ lk'[l].signal = lk[l].signal
           /\ l # n => rk[l] = rank[l] /\ (~Listed(l) => lk'[l] = lk[l]),
         \A u \in Thread \ {t} : pc[u] \in HoldingMutex => head'[Rec(Releases(u))] = head[Rec(Releases(u))],
         \A l \in Lock : IdInv(rk, l)' /\ PassedInv(rk, l)' /\ LinkInv(rk, l)',
         \A l, m \in Lock : OrderInv(rk, l, m)', \A r \in Record : EndsInv(rk, r)', JoinAt(rk, p, x)'
  PROVE  Orderly(rk)'
<1>1. Types /\ ListInv(rank) /\ OrderlyInv(rank) /\ DequeInv(t) /\ LockInv(t)
  BY DEF IInv, Orderly, ListInv
<1>2. /\ pc[t] \notin MayWait \cup Renewing \cup {"asleep", "give_up", "grant", "pick", "mode"} \cup Freeing
      /\ p \notin Preparing \cup {"mode", "swap", "renew_next", "asleep", "give_up", "grant", "pick", "done"} \cup Freeing \cup HoldingMutex \cup Looking
  BY DEF Headless, MayWait, Probing, Renewing, Preparing, Freeing, HoldingMutex, Looking
<1>3. n \in Lock /\ Owner(n) = t /\ Created(n)
  BY <1>1 DEF LockInv
<1>4. \A l \in Lock : (Created(l)' <=> Created(l))
  BY DEF Created
<1>5. Listed(n)' /\ \A l \in Lock \ {n} : Listed(l)' <=> Listed(l)
  <2>1. Listed(n)'
    BY <1>2, <1>3, <1>4 DEF Listed, Out
  <2>2. ASSUME NEW l \in Lock \ {n}
        PROVE  Listed(l)' <=> Listed(l)
    <3>1. CASE Owner(l) = t
      BY <1>4, <2>2, <3>1 DEF Listed, Out
    <3>2. CASE Owner(l) # t
      BY <1>4, <3>2, OthersListed
    <3> QED
      BY <3>1, <3>2
  <2> QED
    BY <2>1, <2>2
<1>6. Locks(t)' = Locks(t) /\ Locks(t) \subseteq Lock
  BY <1>1, LocksIs DEF Locks
<1>7. ASSUME NEW l \in Lock
      PROVE  FreshInv(l)'
  <2>1. FreshInv(l)
    BY <1>1 DEF ListInv
  <2>2. CASE Owner(l) = t
    <3>1. lk[l].state # "WAIT"
      BY <1>2, <2>1, <2>2 DEF FreshInv
    <3>2. ~Created(l)' => l # n /\ lk'[l] = lk[l] /\ ~Created(l)
      BY <1>3, <1>4 DEF Listed
    <3> QED
      BY <1>2, <2>1, <2>2, <3>1, <3>2 DEF FreshInv
  <2>3. CASE Owner(l) # t
    <3>1. l # n /\ (~Listed(l) => lk'[l] = lk[l]) /\ (Created(l)' <=> Created(l)) /\ lk'[l].state = lk[l].state
      BY <1>3, <1>4, <2>3
    <3> QED
      BY <2>1, <2>3, <3>1, FreshKept
  <2> QED
    BY <2>2, <2>3
<1>8. DequeInv(t)'
  <2>1. \A l \in Locks(t) : Owner(l) = t /\ Listed(l)' /\ lk'[l].state # "OBSOLETE"
    BY <1>1, <1>2, <1>5, <1>6 DEF DequeInv
  <2>2. n \in Locks(t)
    BY <1>1 DEF DequeInv
  <2> QED
    BY <1>2, <1>6, <2>1, <2>2 DEF DequeInv
<1>9. JoinAt(rk, pc[t], loc[t])'
  BY DEF JoinAt
<1>10. HeadAt(rk, Rec(Releases(t)), pc[t], loc[t])'
  BY <1>2 DEF HeadAt, HoldingMutex
<1>11. ASSUME NEW u \in Thread, u # t
       PROVE  DequeInv(u)' /\ JoinAt(rk, pc[u], loc[u])' /\ HeadAt(rk, Rec(Releases(u)), pc[u], loc[u])'
  <2>1. \A l \in Lock : Owner(l) # t => lk'[l].state = lk[l].state /\ rk[l] = rank[l] /\ (Created(l)' <=> Created(l))
    BY <1>3, <1>4
  <2>2. pc[u] = "pass_head" => lk'[loc[u].prev].headPass = lk[loc[u].prev].headPass
    <3>1. CallInv(u)
      BY DEF IInv
    <3> QED
      BY <3>1 DEF CallInv, CallAt
  <2> QED
    BY <1>1, <1>11, <2>1, <2>2, OthersInLists
<1>12. ListInv(rk)'
  <2>1. \A u \in Thread :
          DequeInv(u)' /\ JoinAt(rk, pc[u], loc[u])' /\ HeadAt(rk, Rec(Releases(u)), pc[u], loc[u])'
    BY <1>8, <1>9, <1>10, <1>11
  <2> QED
    BY <1>7, <2>1 DEF ListInv
<1>13. OrderlyInv(rk)'
  <2>1. \A l \in Held(t)' : Listed(l) /\ Clear(rank, l)
    <3> SUFFICES ASSUME NEW l \in Held(t)' PROVE Listed(l) /\ Clear(rank, l)
      OBVIOUS
    <3>1. l \in Locks(t) /\ l \in Lock /\ lk[l].state # "OBSOLETE" /\ l # n
      BY <1>2, <1>6 DEF Held
    <3>2. l \in Held(t) /\ Listed(l)
      BY <1>1, <3>1 DEF Held, DequeInv
    <3> QED
      BY <1>1, <3>2 DEF OrderlyInv, GrantedInv
  <2>2. ~Listed(n) => ~lk[n].signal
    <3> SUFFICES ASSUME ~Listed(n) PROVE ~lk[n].signal
      OBVIOUS
    <3>1. pc[t] = "swap"
      BY <1>2, <1>3 DEF Listed, Out, Preparing
    <3> QED
      BY <1>1, <1>3, <3>1 DEF ListInv, FreshInv
  <2>3. \A l \in Lock : Listed(l)' /\ lk'[l].signal /\ lk'[l].state # "OBSOLETE" =>
          Listed(l) /\ (lk[l].signal \/ Clear(rank, l))
    BY <1>5, <2>2
  <2>4. SearchAt(rank, p, x)
    BY <1>2 DEF SearchAt, Looking
  <2>5. \A u \in Thread \ {t} : pc[u] = "asleep" /\ u \notin waitSet' => u \notin waitSet \/ lk'[loc[u].new].signal
    OBVIOUS
  <2>6. \A l \in Lock : Listed(l) /\ Listed(l)' /\ lk[l].signal => lk'[l].signal
    OBVIOUS
  <2>7. \A l \in Lock : Owner(l) # t => lk'[l].state = lk[l].state
    OBVIOUS
  <2>8. p \notin Looking /\ p # "asleep"
    BY <1>2
  <2> QED
    BY <1>1, <1>12, <2>1, <2>3, <2>4, <2>5, <2>6, <2>7, <2>8, OrderlyStep
<1> QED
  BY <1>12, <1>13 DEF Orderly

\* The links stay in order while no lock is linked, put into a list or used again, and no head
\* goes back.
LEMMA LinksKept ==
  ASSUME Types, Types', NEW rank \in [Lock -> Nat], ListInv(rank), NEW t \in Thread, Others(t), pc[t] # "link",
         \A l \in Lock : (Listed(l)' <=> Listed(l)) /\ lk'[l].next = lk[l].next,
         \A r \in Record : HasHead(r) => head'[r] # NoLock /\ rank[head[r]] <= rank[head'[r]]
  PROVE  \A l \in Lock : LinkInv(rank, l)'
<1> SUFFICES ASSUME NEW l \in Lock, Listed(l) PROVE LinkInv(rank, l)'
  BY DEF LinkInv
<1>1. LinkInv(rank, l) /\ Rec(l) \in Record
  BY LockIs DEF ListInv
<1>2. HasHead(Rec(l)) => /\ HasHead(Rec(l))' /\ head[Rec(l)] \in Lock /\ head'[Rec(l)] \in Lock
                         /\ rank[head[Rec(l)]] <= rank[head'[Rec(l)]]
  BY <1>1 DEF HasHead, Types, Node
<1>3. HasHead(Rec(l)) => /\ rank[head[Rec(l)]] \in Nat /\ rank[head'[Rec(l)]] \in Nat
  BY <1>2
<1>4. ~Overtaken(rank, l)' => ~Overtaken(rank, l)
  BY <1>2, <1>3 DEF Overtaken
<1>5. PICK y : y = lk'[l].next /\ y = lk[l].next
  OBVIOUS
<1>6. y # NoLock =>
       /\ Rec(y) = Rec(l)
       /\ Listed(y)' => rank[y] > rank[l]
       /\ ~Overtaken(rank, l)' => Listed(y)' /\ rank[y] = rank[l] + 1
  <2>1. y # NoLock => y \in Lock
    BY <1>5 DEF Types, Fields
  <2> QED
    BY <1>1, <1>4, <1>5, <2>1 DEF LinkInv
<1>7. ASSUME rank[l] > 0, HasHead(Rec(l))' => rank[head'[Rec(l)]] < rank[l]
      PROVE  \E m \in Lock :
               /\ Listed(m)' /\ Rec(m) = Rec(l) /\ rank[m] + 1 = rank[l]
               /\ \/ lk'[m].next = l
                  \/ pc'[Owner(l)] = "link" /\ loc'[Owner(l)].new = l /\ loc'[Owner(l)].prev = m
  <2>1. HasHead(Rec(l)) => rank[head[Rec(l)]] < rank[l]
    BY <1>2, <1>3, <1>7
  <2>2. PICK m \in Lock :
         /\ Listed(m) /\ Rec(m) = Rec(l) /\ rank[m] + 1 = rank[l]
         /\ \/ lk[m].next = l
            \/ pc[Owner(l)] = "link" /\ loc[Owner(l)].new = l /\ loc[Owner(l)].prev = m
    BY <1>1, <1>7, <2>1 DEF LinkInv
  <2>3. pc[Owner(l)] = "link" => pc'[Owner(l)] = pc[Owner(l)] /\ loc'[Owner(l)] = loc[Owner(l)]
    BY LockIs DEF Others
  <2> QED
    BY <2>2, <2>3
<1>8. Listed(lk[l].next)' <=> Listed(y)'
  BY <1>5
<1> QED
  BY <1>5, <1>6, <1>7, <1>8 DEF LinkInv

LEMMA EndsSame ==
  ASSUME Types, NEW rank, ListInv(rank), UNCHANGED <<head, tail>>,
         \A l \in Lock : Listed(l)' <=> Listed(l)
  PROVE  \A r \in Record : EndsInv(rank, r)'
<1> SUFFICES ASSUME NEW r \in Record PROVE EndsInv(rank, r)'
  OBVIOUS
<1>1. EndsInv(rank, r) /\ head[r] \in Node /\ tail[r] \in Node
  BY DEF ListInv, Types
<1>2. PICK h, z : h = head[r] /\ z = tail[r] /\ h = head'[r] /\ z = tail'[r]
  OBVIOUS
<1>3. (h # NoLock => (Listed(h)' <=> Listed(h))) /\ (z # NoLock => (Listed(z)' <=> Listed(z)))
  BY <1>1, <1>2 DEF Node
<1> QED
  BY <1>1, <1>2, <1>3 DEF EndsInv, HasHead

LEMMA LinkOrdered ==
  ASSUME IInv, IInv', NEW rank \in [Lock -> Nat], Orderly(rank), NEW t \in Thread, Link(t)
  PROVE  Orderly(rank)'
<1>1. Types /\ ListInv(rank) /\ DequeInv(t)
  BY DEF IInv, Orderly, ListInv
<1>2. pc \in [Thread -> Place] /\ loc \in [Thread -> Locals] /\ lk \in [Lock -> Fields]
  BY <1>1 DEF Types
<1>3. PICK p, x, n, k : p = pc'[t] /\ x = loc'[t] /\ n = loc[t].new /\ k = loc[t].prev
  OBVIOUS
<1>4. /\ pc[t] = "link" /\ Others(t) /\ x = loc[t] /\ p = "await_id"
      /\ UNCHANGED <<head, tail, saved, waitSet, deque, loc>>
      /\ lk' = [lk EXCEPT ![k].next = n]
  BY <1>2, <1>3 DEF Link, Goto, Others, shared
<1>5. pc[t] \in Linking /\ pc[t] \in Headless /\ pc[t] \notin Preparing /\ p \notin Preparing /\ p \in Linking
  BY <1>4 DEF Linking, Headless, Preparing, Renewing
<1>6. k \in Lock /\ n \in Lock /\ Rec(k) = Rec(n)
  BY <1>3, <1>5, PassIs
<1>7. Listed(k) /\ rank[n] = rank[k] + 1
  BY <1>1, <1>3, <1>5 DEF ListInv, JoinAt
<1>8. n \in Locks(t) /\ Owner(n) = t /\ Listed(n)
  BY <1>1, <1>3, <1>4, <1>5 DEF DequeInv
<1>9. lk[n].id = MaxId
  BY <1>1, <1>3, <1>4, <1>6, <1>8 DEF ListInv, IdInv
<1>10. /\ \A l \in Lock : l # k => lk'[l] = lk[l]
       /\ lk'[k] = [lk[k] EXCEPT !.next = n] /\ lk[k] \in Fields
  BY <1>2, <1>4, <1>6
<1>11. /\ lk'[k].next = n
       /\ \A l \in Lock :
            /\ lk'[l].mode = lk[l].mode /\ lk'[l].id = lk[l].id /\ lk'[l].state = lk[l].state
            /\ lk'[l].headPass = lk[l].headPass /\ lk'[l].signal = lk[l].signal
            /\ l # k => lk'[l].next = lk[l].next
            /\ ~Listed(l) => lk'[l] = lk[l]
  BY <1>7, <1>10 DEF Fields
<1>12. \A l \in Lock : (Listed(l)' <=> Listed(l)) /\ (Created(l)' <=> Created(l))
  BY <1>3, <1>4, <1>5, ListedSame
<1>13. Gentle(t, rank, rank)
  <2>1. \A l \in Lock :
          \/ lk'[l].next \in {lk[l].next, NoLock}
          \/ LET y == lk'[l].next IN
             /\ y \in Lock /\ Listed(l) /\ Listed(y) /\ Rec(y) = Rec(l)
             /\ rank[y] = rank[l] + 1 /\ lk[y].id = MaxId
    BY <1>6, <1>7, <1>8, <1>9, <1>11
  <2> QED
    BY <1>11, <1>12, <2>1 DEF Gentle
<1>14. \A l : Overtaken(rank, l)' <=> Overtaken(rank, l)
  BY <1>4 DEF Overtaken, HasHead
<1>15. ASSUME NEW l \in Lock
       PROVE  IdInv(rank, l)' /\ PassedInv(rank, l)'
  <2>1. IdInv(rank, l) /\ PassedInv(rank, l)
    BY <1>1 DEF ListInv
  <2>2. PassedInv(rank, l)'
    BY <1>11, <1>12, <1>14, <2>1 DEF PassedInv
  <2>3. pc'[Owner(l)] \in {"link", "await_id", "first"} /\ loc'[Owner(l)].new = l
          <=> pc[Owner(l)] \in {"link", "await_id", "first"} /\ loc[Owner(l)].new = l
    BY <1>3, <1>4, LockIs DEF Others
  <2>4. IdInv(rank, l)'
    BY <1>4, <1>11, <1>12, <2>1, <2>3 DEF IdInv, HasHead
  <2> QED
    BY <2>2, <2>4
<1>16. ASSUME NEW l \in Lock
       PROVE  LinkInv(rank, l)'
  <2> SUFFICES ASSUME Listed(l) PROVE LinkInv(rank, l)'
    BY <1>12 DEF LinkInv
  <2>1. LinkInv(rank, l)
    BY <1>1 DEF ListInv
  <2>2. PICK y : y = lk'[l].next
    OBVIOUS
  <2>3. y # NoLock =>
         /\ Rec(y) = Rec(l)
         /\ Listed(y)' => rank[y] > rank[l]
         /\ ~Overtaken(rank, l) => Listed(y)' /\ rank[y] = rank[l] + 1
    <3>1. CASE l = k
      BY <1>6, <1>7, <1>8, <1>11, <1>12, <2>2, <3>1
    <3>2. CASE l # k
      <4>1. y = lk[l].next /\ (y # NoLock => y \in Lock)
        BY <1>2, <1>11, <2>2, <3>2 DEF Fields
      <4> QED
        BY <1>12, <2>1, <4>1 DEF LinkInv
    <3> QED
      BY <3>1, <3>2
  <2>4. ASSUME rank[l] > 0, HasHead(Rec(l)) => rank[head[Rec(l)]] < rank[l]
        PROVE  \E m \in Lock :
                 /\ Listed(m)' /\ Rec(m) = Rec(l) /\ rank[m] + 1 = rank[l]
                 /\ \/ lk'[m].next = l
                    \/ pc'[Owner(l)] = "link" /\ loc'[Owner(l)].new = l /\ loc'[Owner(l)].prev = m
    <3>1. CASE l = n
      BY <1>6, <1>7, <1>11, <1>12, <3>1
    <3>2. CASE l # n
      <4>1. PICK m \in Lock :
             /\ Listed(m) /\ Rec(m) = Rec(l) /\ rank[m] + 1 = rank[l]
             /\ \/ lk[m].next = l
                \/ pc[Owner(l)] = "link" /\ loc[Owner(l)].new = l /\ loc[Owner(l)].prev = m
        BY <2>1, <2>4 DEF LinkInv
      <4>2. m # k
        <5> SUFFICES ASSUME m = k PROVE FALSE
          OBVIOUS
        <5>1. rank[l] = rank[n] /\ Rec(l) = Rec(n) /\ OrderInv(rank, l, n)
          BY <1>1, <1>6, <1>7, <4>1 DEF ListInv
        <5> QED
          BY <1>8, <3>2, <5>1 DEF OrderInv
      <4>3. pc[Owner(l)] = "link" /\ loc[Owner(l)].new = l =>
              pc'[Owner(l)] = pc[Owner(l)] /\ loc'[Owner(l)] = loc[Owner(l)]
        BY <1>3, <1>4, <3>2, LockIs DEF Others
      <4> QED
        BY <1>11, <1>12, <4>1, <4>2, <4>3
    <3> QED
      BY <3>1, <3>2
  <2>5. Listed(lk[l].next)' <=> Listed(y)'
    BY <2>2
  <2> QED
    BY <1>4, <1>14, <2>2, <2>3, <2>4, <2>5 DEF LinkInv, HasHead
<1>17. \A l, m \in Lock : OrderInv(rank, l, m)'
  BY <1>1, <1>11, <1>12 DEF ListInv, OrderInv
<1>18. \A r \in Record : EndsInv(rank, r)'
  BY <1>1, <1>4, <1>12, EndsSame
<1>19. JoinAt(rank, p, x)'
  BY <1>1, <1>3, <1>4, <1>6, <1>7, <1>12 DEF JoinAt
<1>20. \A u \in Thread \ {t} : pc[u] \in HoldingMutex => head'[Rec(Releases(u))] = head[Rec(Releases(u))]
  BY <1>4
<1> QED
  BY <1>3, <1>4, <1>5, <1>11, <1>13, <1>15, <1>16, <1>17, <1>18, <1>19, <1>20, JoinOrdered, ZenonT(90)

LEMMA AwaitIdOrdered ==
  ASSUME IInv, IInv', IdsLast, NEW rank \in [Lock -> Nat], Orderly(rank), NEW t \in Thread, AwaitId(t)
  PROVE  Orderly(rank)'
<1>1. Types /\ ListInv(rank) /\ DequeInv(t)
  BY DEF IInv, Orderly, ListInv
<1>2. pc \in [Thread -> Place] /\ loc \in [Thread -> Locals] /\ lk \in [Lock -> Fields]
  BY <1>1 DEF Types
<1>3. PICK p, x, n, k : p = pc'[t] /\ x = loc'[t] /\ n = loc[t].new /\ k = loc[t].prev
  OBVIOUS
<1>4. /\ pc[t] = "await_id" /\ Others(t) /\ x = loc[t] /\ p = "pass_id"
      /\ UNCHANGED <<head, tail, saved, waitSet, deque, loc>>
      /\ lk[k].id # MaxId /\ HasHead(Rec(n))
      /\ lk' = [lk EXCEPT ![n].id = lk[k].id + 1]
  BY <1>2, <1>3 DEF AwaitId, Goto, Others, shared, HasHead, NextId
<1>5. pc[t] \in Linking /\ pc[t] \in Headless /\ pc[t] \notin Preparing /\ p \notin Preparing /\ p \in Linking
  BY <1>4 DEF Linking, Headless, Preparing, Renewing
<1>6. k \in Lock /\ n \in Lock /\ Rec(k) = Rec(n)
  BY <1>3, <1>5, PassIs
<1>7. Listed(k) /\ rank[n] = rank[k] + 1
  BY <1>1, <1>3, <1>5 DEF ListInv, JoinAt
<1>8. n \in Locks(t) /\ Owner(n) = t /\ Listed(n)
  BY <1>1, <1>3, <1>4, <1>5 DEF DequeInv
<1>9. lk[k].id = rank[k] /\ rank[n] # MaxId
  <2>1. lk[k].id = rank[k]
    BY <1>1, <1>4, <1>6, <1>7 DEF ListInv, IdInv
  <2> QED
    BY <1>4, <1>6, <1>7, <2>1, LockIs DEF IdsLast
<1>10. /\ \A l \in Lock : l # n => lk'[l] = lk[l]
       /\ lk'[n] = [lk[n] EXCEPT !.id = rank[n]] /\ lk[n] \in Fields
  BY <1>2, <1>4, <1>6, <1>7, <1>9
<1>11. /\ lk'[n].id = rank[n]
       /\ \A l \in Lock :
            /\ lk'[l].mode = lk[l].mode /\ lk'[l].next = lk[l].next /\ lk'[l].state = lk[l].state
            /\ lk'[l].headPass = lk[l].headPass /\ lk'[l].signal = lk[l].signal
            /\ l # n => lk'[l].id = lk[l].id
            /\ ~Listed(l) => lk'[l] = lk[l]
  BY <1>8, <1>10 DEF Fields
<1>12. \A l \in Lock : (Listed(l)' <=> Listed(l)) /\ (Created(l)' <=> Created(l))
  BY <1>3, <1>4, <1>5, ListedSame
<1>13. Gentle(t, rank, rank)
  BY <1>11, <1>12 DEF Gentle
<1>14. \A l : Overtaken(rank, l)' <=> Overtaken(rank, l)
  BY <1>4 DEF Overtaken, HasHead
<1>15. ASSUME NEW l \in Lock
       PROVE  IdInv(rank, l)' /\ PassedInv(rank, l)'
  <2>1. IdInv(rank, l) /\ PassedInv(rank, l)
    BY <1>1 DEF ListInv
  <2>2. PassedInv(rank, l)'
    BY <1>11, <1>12, <1>14, <2>1 DEF PassedInv
  <2>3. CASE l = n
    BY <1>3, <1>4, <1>8, <1>9, <1>11, <1>12, <2>2, <2>3 DEF IdInv, HasHead
  <2>4. CASE l # n
    <3>1. pc'[Owner(l)] \in {"link", "await_id", "first"} /\ loc'[Owner(l)].new = l
            <=> pc[Owner(l)] \in {"link", "await_id", "first"} /\ loc[Owner(l)].new = l
      BY <1>3, <1>4, <2>4, LockIs DEF Others
    <3>2. IdInv(rank, l)'
      BY <1>4, <1>11, <1>12, <2>1, <2>4, <3>1 DEF IdInv, HasHead
    <3> QED
      BY <2>2, <3>2
  <2> QED
    BY <2>2, <2>3, <2>4
<1>16. \A l \in Lock : LinkInv(rank, l)'
  <2>1. \A r \in Record : HasHead(r) => head'[r] # NoLock /\ rank[head[r]] <= rank[head'[r]]
    <3> SUFFICES ASSUME NEW r \in Record, HasHead(r) PROVE rank[head[r]] \in Nat
      BY <1>4 DEF HasHead
    <3> QED
      BY <1>1 DEF Types, Node, HasHead
  <2>2. pc[t] # "link" /\ Types'
    BY <1>4 DEF IInv
  <2> QED
    BY <1>1, <1>4, <1>11, <1>12, <2>1, <2>2, LinksKept
<1>17. ASSUME NEW l \in Lock, NEW m \in Lock
       PROVE  OrderInv(rank, l, m)'
  <2>1. OrderInv(rank, l, m) /\ OrderInv(rank, k, m)
    BY <1>1, <1>6 DEF ListInv
  <2>2. CASE l = n
    <3> SUFFICES ASSUME Listed(m), Rec(m) = Rec(n) PROVE OrderInv(rank, l, m)'
      BY <1>12, <2>2 DEF OrderInv
    <3>1. rank[n] = rank[m] => n = m
      BY <1>8, <2>1, <2>2 DEF OrderInv
    <3>2. rank[m] < rank[n] => lk[m].id # MaxId /\ m # n
      BY <1>4, <1>6, <1>7, <2>1 DEF OrderInv
    <3> QED
      BY <1>11, <2>2, <3>1, <3>2 DEF OrderInv
  <2>3. CASE l # n
    <3>1. lk'[l].id # MaxId /\ lk[m].id # MaxId => lk[l].id # MaxId /\ lk'[m].id # MaxId
      BY <1>9, <1>11, <2>3
    <3> QED
      BY <1>11, <1>12, <2>1, <2>3, <3>1 DEF OrderInv
  <2> QED
    BY <2>2, <2>3
<1>18. \A r \in Record : EndsInv(rank, r)'
  BY <1>1, <1>4, <1>12, EndsSame
<1>19. JoinAt(rank, p, x)'
  BY <1>1, <1>3, <1>4, <1>6, <1>7, <1>12 DEF JoinAt
<1>20. \A u \in Thread \ {t} : pc[u] \in HoldingMutex => head'[Rec(Releases(u))] = head[Rec(Releases(u))]
  BY <1>4
<1>21. \A l \in Lock :
         /\ lk'[l].state = lk[l].state /\ lk'[l].headPass = lk[l].headPass /\ lk'[l].signal = lk[l].signal
         /\ l # n => rank[l] = rank[l] /\ (~Listed(l) => lk'[l] = lk[l])
  BY <1>11
<1>22. Others(t) /\ x.new = n /\ UNCHANGED <<saved, deque, waitSet>> /\ p \in {"link", "await_id", "first", "pass_id", "conflict"}
  BY <1>3, <1>4
<1>23. \A l \in Lock : IdInv(rank, l)' /\ PassedInv(rank, l)' /\ LinkInv(rank, l)'
  BY <1>15, <1>16
<1> QED
  BY <1>3, <1>5, <1>13, <1>17, <1>18, <1>19, <1>20, <1>21, <1>22, <1>23, JoinOrdered

LEMMA FirstLockOrdered ==
  ASSUME IInv, IInv', NEW rank \in [Lock -> Nat], Orderly(rank), NEW t \in Thread, FirstLock(t)
  PROVE  Orderly(rank)'
<1>1. Types /\ Types' /\ ListInv(rank) /\ DequeInv(t) /\ FirstInv
  BY DEF IInv, Orderly, ListInv
<1>2. pc \in [Thread -> Place] /\ loc \in [Thread -> Locals] /\ lk \in [Lock -> Fields] /\ head \in [Record -> Node]
  BY <1>1 DEF Types
<1>3. PICK p, x, n, r : p = pc'[t] /\ x = loc'[t] /\ n = loc[t].new /\ r = Rec(n)
  OBVIOUS
<1>4. /\ pc[t] = "first" /\ Others(t) /\ x = loc[t] /\ p = "conflict"
      /\ UNCHANGED <<tail, saved, waitSet, deque, loc>>
      /\ lk' = [lk EXCEPT ![n].id = 0] /\ head' = [head EXCEPT ![r] = n]
  BY <1>2, <1>3 DEF FirstLock, Goto, Others
<1>5. pc[t] \in Headless /\ pc[t] \notin Preparing /\ p \notin Preparing
  BY <1>4 DEF Headless, Preparing, Renewing
<1>6. n \in Locks(t) /\ n \in Lock /\ Owner(n) = t /\ Listed(n)
  BY <1>1, <1>3, <1>4, <1>5, LocksIs DEF DequeInv
<1>7. rank[n] = 0 /\ r \in Record /\ head[r] = NoLock /\ MaxId # 0 /\ NoLock \notin Lock
  <2>1. rank[n] = 0
    BY <1>1, <1>3, <1>4 DEF ListInv, JoinAt
  <2> QED
    BY <1>1, <1>3, <1>4, <1>6, <2>1, LockIs, NoThreadAssumption DEF FirstInv
<1>8. head'[r] = n /\ \A q \in Record : q # r => head'[q] = head[q]
  BY <1>2, <1>4, <1>7
<1>9. /\ \A l \in Lock : l # n => lk'[l] = lk[l]
      /\ lk'[n] = [lk[n] EXCEPT !.id = 0] /\ lk[n] \in Fields
  BY <1>2, <1>4, <1>6
<1>10. /\ lk'[n].id = 0
       /\ \A l \in Lock :
            /\ lk'[l].mode = lk[l].mode /\ lk'[l].next = lk[l].next /\ lk'[l].state = lk[l].state
            /\ lk'[l].headPass = lk[l].headPass /\ lk'[l].signal = lk[l].signal
            /\ l # n => lk'[l].id = lk[l].id
            /\ ~Listed(l) => lk'[l] = lk[l]
  BY <1>6, <1>9 DEF Fields
<1>11. \A l \in Lock : (Listed(l)' <=> Listed(l)) /\ (Created(l)' <=> Created(l))
  BY <1>3, <1>4, <1>5, ListedSame
<1>12. Gentle(t, rank, rank)
  BY <1>10, <1>11 DEF Gentle
<1>13. \A l \in Lock : Rec(l) = r => ~Overtaken(rank, l) /\ ~Overtaken(rank, l)'
  BY <1>7, <1>8 DEF Overtaken, HasHead
<1>14. \A l \in Lock : Rec(l) # r => (Overtaken(rank, l)' <=> Overtaken(rank, l))
  BY <1>8, LockIs DEF Overtaken, HasHead
<1>15. ASSUME NEW l \in Lock
       PROVE  IdInv(rank, l)' /\ PassedInv(rank, l)'
  <2>1. IdInv(rank, l) /\ PassedInv(rank, l) /\ Rec(l) \in Record
    BY <1>1, LockIs DEF ListInv
  <2>2. PassedInv(rank, l)'
    BY <1>10, <1>11, <1>13, <1>14, <2>1 DEF PassedInv
  <2>3. CASE l = n
    <3>0. Listed(n)' /\ lk'[n].id = 0 /\ HasHead(Rec(n))'
      BY <1>3, <1>6, <1>7, <1>8, <1>10, <1>11 DEF HasHead
    <3>1. Listed(n)' /\ lk'[n].id = 0 /\ rank[n] = 0 /\ MaxId # 0 /\ pc'[Owner(n)] = "conflict" /\ HasHead(Rec(n))'
      BY <1>3, <1>4, <1>6, <1>7, <3>0
    <3>2. IdInv(rank, n)'
      BY <3>1 DEF IdInv
    <3> QED
      BY <2>2, <2>3, <3>2
  <2>4. CASE l # n
    <3>1. pc'[Owner(l)] \in {"link", "await_id", "first"} /\ loc'[Owner(l)].new = l
            <=> pc[Owner(l)] \in {"link", "await_id", "first"} /\ loc[Owner(l)].new = l
      BY <1>3, <1>4, <2>4, LockIs DEF Others
    <3>2. HasHead(Rec(l)) => HasHead(Rec(l))'
      BY <1>6, <1>7, <1>8, <2>1 DEF HasHead
    <3>3. IdInv(rank, l)'
      BY <1>10, <1>11, <2>1, <2>4, <3>1, <3>2 DEF IdInv
    <3> QED
      BY <2>2, <3>3
  <2> QED
    BY <2>3, <2>4
<1>16. \A l \in Lock : LinkInv(rank, l)'
  <2>1. \A q \in Record : HasHead(q) => head'[q] # NoLock /\ rank[head[q]] <= rank[head'[q]]
    <3> SUFFICES ASSUME NEW q \in Record, HasHead(q) PROVE head'[q] # NoLock /\ rank[head[q]] <= rank[head'[q]]
      OBVIOUS
    <3>1. q # r /\ head'[q] = head[q] /\ rank[head[q]] \in Nat
      BY <1>2, <1>7, <1>8 DEF Node, HasHead
    <3> QED
      BY <3>1 DEF HasHead
  <2>2. pc[t] # "link"
    BY <1>4
  <2> QED
    BY <1>1, <1>4, <1>10, <1>11, <2>1, <2>2, LinksKept
<1>17. ASSUME NEW l \in Lock, NEW m \in Lock
       PROVE  OrderInv(rank, l, m)'
  <2>1. OrderInv(rank, l, m)
    BY <1>1 DEF ListInv
  <2>2. l = n => ~(rank[m] < rank[l])
    BY <1>7
  <2>3. l # n /\ lk'[l].id # MaxId => lk[l].id # MaxId
    BY <1>10
  <2>4. lk[m].id # MaxId => lk'[m].id # MaxId
    BY <1>7, <1>10
  <2> QED
    BY <1>11, <2>1, <2>2, <2>3, <2>4 DEF OrderInv
<1>18. ASSUME NEW q \in Record
       PROVE  EndsInv(rank, q)'
  <2>1. EndsInv(rank, q) /\ head[q] \in Node /\ tail[q] \in Node
    BY <1>1 DEF ListInv, Types
  <2>2. PICK h, z : h = head'[q] /\ z = tail[q] /\ z = tail'[q]
    BY <1>4
  <2>3. h # NoLock => h \in Lock /\ Rec(h) = q /\ Listed(h)
    BY <1>3, <1>6, <1>8, <2>1, <2>2 DEF EndsInv, HasHead, Node
  <2>4. (h # NoLock => Listed(h)') /\ (z # NoLock => (Listed(z)' <=> Listed(z)))
    BY <1>11, <2>1, <2>2, <2>3 DEF Node
  <2> QED
    BY <1>11, <2>1, <2>2, <2>3, <2>4 DEF EndsInv, HasHead
<1>19. JoinAt(rank, p, x)'
  BY <1>4 DEF JoinAt, Linking
<1>20. \A u \in Thread \ {t} : pc[u] \in HoldingMutex => head'[Rec(Releases(u))] = head[Rec(Releases(u))]
  <2> SUFFICES ASSUME NEW u \in Thread, pc[u] \in HoldingMutex
               PROVE  head'[Rec(Releases(u))] = head[Rec(Releases(u))]
    OBVIOUS
  <2>1. Rec(Releases(u)) \in Record /\ head[Rec(Releases(u))] \in Lock
    BY HoldingIs
  <2> QED
    BY <1>7, <1>8, <2>1
<1>21. \A l \in Lock :
         /\ lk'[l].state = lk[l].state /\ lk'[l].headPass = lk[l].headPass /\ lk'[l].signal = lk[l].signal
         /\ l # n => rank[l] = rank[l] /\ (~Listed(l) => lk'[l] = lk[l])
  BY <1>10
<1>22. Others(t) /\ x.new = n /\ UNCHANGED <<saved, deque, waitSet>> /\ p \in {"link", "await_id", "first", "pass_id", "conflict"}
  BY <1>3, <1>4
<1>23. \A l \in Lock : IdInv(rank, l)' /\ PassedInv(rank, l)' /\ LinkInv(rank, l)'
  BY <1>15, <1>16
<1> QED
  BY <1>3, <1>5, <1>12, <1>17, <1>18, <1>19, <1>20, <1>21, <1>22, <1>23, JoinOrdered

LEMMA SwapOrdered ==
  ASSUME IInv, IInv', NEW rank \in [Lock -> Nat], Orderly(rank), NEW t \in Thread, Swap(t)
  PROVE  Ordered'
<1>1. Types /\ Types' /\ ListInv(rank) /\ LockInv(t) /\ DequeInv(t)
  BY DEF IInv, Orderly, ListInv
<1>2. pc \in [Thread -> Place] /\ loc \in [Thread -> Locals] /\ tail \in [Record -> Node] /\ head \in [Record -> Node]
  BY <1>1 DEF Types
<1>3. PICK p, x, n, r, k : p = pc'[t] /\ x = loc'[t] /\ n = loc[t].new /\ r = Rec(n) /\ k = tail[r]
  OBVIOUS
<1>4. /\ pc[t] = "swap" /\ Others(t) /\ x.new = n /\ x.prev = k
      /\ p = IF k = NoLock THEN "first" ELSE "link"
      /\ UNCHANGED <<lk, head, saved, waitSet, deque>>
      /\ tail' = [tail EXCEPT ![r] = n]
  BY <1>2, <1>3 DEF Swap, Goto, Others, Locals
<1>5. pc[t] \in Headless /\ p \notin Preparing /\ p \in {"first", "link"}
  BY <1>4 DEF Headless, Preparing, Renewing
<1>6. n \in Lock /\ Owner(n) = t /\ Created(n) /\ ~Listed(n) /\ r \in Record /\ k \in Node
  <2>1. n \in Lock /\ Owner(n) = t /\ Created(n)
    BY <1>1, <1>3, <1>5 DEF LockInv
  <2> QED
    BY <1>2, <1>3, <1>4, <2>1, LockIs DEF Listed, Out, Preparing
<1>7. lk[n].next = NoLock /\ ~lk[n].headPass /\ lk[n].id = MaxId
  BY <1>1, <1>3, <1>4, <1>6 DEF ListInv, FreshInv, IdInv
<1>8. tail'[r] = n /\ \A q \in Record : q # r => tail'[q] = tail[q]
  BY <1>2, <1>4, <1>6
<1>9. k # NoLock => k \in Lock /\ Listed(k) /\ Rec(k) = r /\ k # n
  BY <1>1, <1>3, <1>6, PassIs DEF ListInv, EndsInv, Node
<1>10. \A l \in Lock : Listed(l) /\ Rec(l) = r => k # NoLock /\ rank[l] <= rank[k]
  BY <1>1, <1>3, <1>6 DEF ListInv, EndsInv
<1> DEFINE rk == [rank EXCEPT ![n] = IF k = NoLock THEN 0 ELSE rank[k] + 1]
<1>11. /\ rk \in [Lock -> Nat] /\ \A l \in Lock : l # n => rk[l] = rank[l]
       /\ k = NoLock => rk[n] = 0
       /\ k # NoLock => rk[n] = rank[k] + 1
  BY <1>6, <1>9
<1> HIDE DEF rk
<1>12. \A l \in Lock : Listed(l) /\ Rec(l) = r => l # n /\ rk[l] < rk[n] /\ rank[l] < rk[n]
  BY <1>6, <1>9, <1>10, <1>11
<1>13. Listed(n)' /\ \A l \in Lock : (Created(l)' <=> Created(l)) /\ (l # n => (Listed(l)' <=> Listed(l)))
  <2>1. \A l : Created(l)' <=> Created(l)
    BY <1>4 DEF Created
  <2>2. Listed(n)'
    BY <1>3, <1>5, <1>6, <2>1 DEF Listed, Out
  <2>3. ASSUME NEW l \in Lock, l # n
        PROVE  Out(l)' <=> Out(l)
    BY <1>3, <1>4, <2>3, LockIs DEF Others, Out
  <2> QED
    BY <2>1, <2>2, <2>3 DEF Listed
<1>14. Gentle(t, rank, rk)
  <2>1. \A l \in Lock : Listed(l)' =>
          \/ Listed(l) /\ rk[l] = rank[l]
          \/ ~Listed(l) /\ Owner(l) = t /\ \A m \in Lock : Listed(m) /\ Rec(m) = Rec(l) => rank[m] < rk[l]
    BY <1>3, <1>6, <1>11, <1>12, <1>13
  <2>2. \A l \in Lock : Listed(l) => Listed(l)'
    BY <1>13
  <2> QED
    BY <1>4, <2>1, <2>2 DEF Gentle
<1>15. \A q \in Record : HasHead(q) => /\ head[q] \in Lock /\ Listed(head[q]) /\ Rec(head[q]) = q /\ head[q] # n
                                       /\ rk[head[q]] = rank[head[q]]
  <2> SUFFICES ASSUME NEW q \in Record, HasHead(q)
               PROVE  head[q] \in Lock /\ Listed(head[q]) /\ Rec(head[q]) = q
    BY <1>6, <1>11
  <2> QED
    BY <1>1, <1>2 DEF ListInv, EndsInv, HasHead, Node
<1>16. ~Overtaken(rk, n)' /\ \A l \in Lock : l # n => (Overtaken(rk, l)' <=> Overtaken(rank, l))
  <2>1. ~Overtaken(rk, n)'
    <3>1. HasHead(r) => rk[head[r]] < rk[n] /\ rk[head[r]] \in Nat /\ rk[n] \in Nat
      BY <1>6, <1>11, <1>12, <1>15
    <3> QED
      BY <1>3, <1>4, <3>1 DEF Overtaken, HasHead
  <2>2. \A l \in Lock : l # n => (Overtaken(rk, l)' <=> Overtaken(rank, l))
    BY <1>4, <1>11, <1>15, LockIs DEF Overtaken, HasHead
  <2> QED
    BY <2>1, <2>2
<1>17. ASSUME NEW l \in Lock
       PROVE  IdInv(rk, l)' /\ PassedInv(rk, l)'
  <2>1. IdInv(rank, l) /\ PassedInv(rank, l)
    BY <1>1 DEF ListInv
  <2>2. CASE l = n
    <3>1. PassedInv(rk, l)'
      BY <1>4, <1>7, <1>16, <2>2 DEF PassedInv
    <3>2. IdInv(rk, l)'
      BY <1>3, <1>4, <1>5, <1>6, <1>7, <1>13, <2>2 DEF IdInv
    <3> QED
      BY <3>1, <3>2
  <2>3. CASE l # n
    <3>1. PassedInv(rk, l)'
      BY <1>4, <1>13, <1>16, <2>1, <2>3 DEF PassedInv
    <3>2. pc'[Owner(l)] \in {"link", "await_id", "first"} /\ loc'[Owner(l)].new = l
            <=> pc[Owner(l)] \in {"link", "await_id", "first"} /\ loc[Owner(l)].new = l
      BY <1>3, <1>4, <2>3, LockIs DEF Others
    <3>3. IdInv(rk, l)'
      BY <1>4, <1>11, <1>13, <2>1, <2>3, <3>2 DEF IdInv, HasHead
    <3> QED
      BY <3>1, <3>3
  <2> QED
    BY <2>2, <2>3
<1>18. ASSUME NEW l \in Lock
       PROVE  LinkInv(rk, l)'
  <2> SUFFICES ASSUME Listed(l)' PROVE LinkInv(rk, l)'
    BY DEF LinkInv
  <2>1. CASE l = n
    <3>1. rk[n] > 0 => k # NoLock /\ p = "link"
      BY <1>4, <1>11
    <3>2. rk[n] > 0 =>
            \E m \in Lock :
              /\ Listed(m)' /\ Rec(m) = Rec(n) /\ rk[m] + 1 = rk[n]
              /\ pc'[Owner(n)] = "link" /\ loc'[Owner(n)].new = n /\ loc'[Owner(n)].prev = m
      BY <1>3, <1>4, <1>6, <1>9, <1>11, <1>13, <3>1
    <3> QED
      BY <1>4, <1>7, <2>1, <3>2 DEF LinkInv
  <2>2. CASE l # n
    <3>1. Listed(l) /\ LinkInv(rank, l) /\ rk[l] = rank[l] /\ Rec(l) \in Record
      BY <1>1, <1>11, <1>13, <2>2, LockIs DEF ListInv
    <3>2. PICK y : y = lk[l].next /\ y = lk'[l].next
      BY <1>4
    <3>3. y # NoLock =>
           /\ Rec(y) = Rec(l)
           /\ Listed(y)' => rk[y] > rk[l]
           /\ ~Overtaken(rk, l)' => Listed(y)' /\ rk[y] = rk[l] + 1
      <4> SUFFICES ASSUME y # NoLock
                   PROVE  /\ Rec(y) = Rec(l)
                          /\ Listed(y)' => rk[y] > rk[l]
                          /\ ~Overtaken(rk, l)' => Listed(y)' /\ rk[y] = rk[l] + 1
        OBVIOUS
      <4>1. y \in Lock /\ Rec(y) = Rec(l)
        BY <1>1, <3>1, <3>2 DEF LinkInv, Types, Fields
      <4>2. /\ Listed(y) => rank[y] > rank[l]
            /\ ~Overtaken(rank, l) => Listed(y) /\ rank[y] = rank[l] + 1
        BY <3>1, <3>2 DEF LinkInv
      <4>3. y = n => rk[y] > rk[l] /\ Overtaken(rank, l)
        BY <1>3, <1>6, <1>11, <1>12, <3>1, <4>1, <4>2
      <4>4. y # n => rk[y] = rank[y] /\ (Listed(y)' <=> Listed(y))
        BY <1>11, <1>13, <4>1
      <4> QED
        BY <1>16, <2>2, <3>1, <4>1, <4>2, <4>3, <4>4
    <3>4. ASSUME rk[l] > 0, HasHead(Rec(l)) => rk[head[Rec(l)]] < rk[l]
          PROVE  \E m \in Lock :
                   /\ Listed(m)' /\ Rec(m) = Rec(l) /\ rk[m] + 1 = rk[l]
                   /\ \/ lk'[m].next = l
                      \/ pc'[Owner(l)] = "link" /\ loc'[Owner(l)].new = l /\ loc'[Owner(l)].prev = m
      <4>1. HasHead(Rec(l)) => rank[head[Rec(l)]] < rank[l]
        BY <1>15, <3>1, <3>4
      <4>2. PICK m \in Lock :
             /\ Listed(m) /\ Rec(m) = Rec(l) /\ rank[m] + 1 = rank[l]
             /\ \/ lk[m].next = l
                \/ pc[Owner(l)] = "link" /\ loc[Owner(l)].new = l /\ loc[Owner(l)].prev = m
        BY <3>1, <3>4, <4>1 DEF LinkInv
      <4>3. pc[Owner(l)] = "link" => pc'[Owner(l)] = pc[Owner(l)] /\ loc'[Owner(l)] = loc[Owner(l)]
        BY <1>4, LockIs DEF Others
      <4>4. Listed(m)' /\ rk[m] = rank[m]
        BY <1>6, <1>11, <1>13, <4>2
      <4> QED
        BY <1>4, <3>1, <4>2, <4>3, <4>4
    <3>5. Listed(lk[l].next)' <=> Listed(y)'
      BY <3>2
    <3> QED
      BY <1>4, <3>2, <3>3, <3>4, <3>5 DEF LinkInv, HasHead
  <2> QED
    BY <2>1, <2>2
<1>19. ASSUME NEW l \in Lock, NEW m \in Lock
       PROVE  OrderInv(rk, l, m)'
  <2> SUFFICES ASSUME Listed(l)', Listed(m)', Rec(l) = Rec(m) PROVE OrderInv(rk, l, m)'
    BY DEF OrderInv
  <2>1. OrderInv(rank, l, m)
    BY <1>1 DEF ListInv
  <2>2. CASE l # n /\ m # n
    BY <1>4, <1>11, <1>13, <2>1, <2>2 DEF OrderInv
  <2>3. CASE l = n
    <3>1. m # n => rk[m] < rk[n] /\ rk[m] \in Nat /\ rk[n] \in Nat
      BY <1>3, <1>11, <1>12, <1>13, <2>3
    <3> QED
      BY <1>4, <1>7, <2>3, <3>1 DEF OrderInv
  <2>4. CASE m = n
    <3>1. l # n => rk[l] < rk[n] /\ rk[l] \in Nat /\ rk[n] \in Nat
      BY <1>3, <1>11, <1>12, <1>13, <2>4
    <3> QED
      BY <1>4, <1>7, <2>4, <3>1 DEF OrderInv
  <2> QED
    BY <2>2, <2>3, <2>4
<1>20. ASSUME NEW q \in Record
       PROVE  EndsInv(rk, q)'
  <2>1. EndsInv(rank, q) /\ tail[q] \in Node
    BY <1>1 DEF ListInv, Types
  <2>2. PICK h, z : h = head[q] /\ h = head'[q] /\ z = tail'[q]
    BY <1>4
  <2>3. HasHead(q) => h \in Lock /\ Rec(h) = q /\ Listed(h)'
    BY <1>13, <1>15, <2>2
  <2>4. CASE q = r
    <3>1. z = n /\ n # NoLock
      BY <1>6, <1>8, <2>2, <2>4, LockIs
    <3>2. ASSUME NEW l \in Lock, Listed(l)', Rec(l) = q
          PROVE  rk[l] <= rk[n]
      <4>1. rk[l] \in Nat /\ rk[n] \in Nat /\ (l # n => Listed(l))
        BY <1>6, <1>11, <1>13, <3>2
      <4> QED
        BY <1>12, <2>4, <3>2, <4>1
    <3> QED
      BY <1>4, <1>13, <2>2, <2>3, <3>1, <3>2 DEF EndsInv, HasHead
  <2>5. CASE q # r
    <3>1. z = tail[q] /\ (z # NoLock => z \in Lock /\ Listed(z) /\ Rec(z) = q)
      BY <1>8, <2>1, <2>2, <2>5, PassIs DEF EndsInv
    <3>2. z # NoLock => z # n /\ rk[z] = rank[z] /\ Listed(z)'
      BY <1>6, <1>11, <1>13, <3>1
    <3>3. \A l \in Lock : Listed(l)' /\ Rec(l) = q => z # NoLock /\ rk[l] <= rk[z]
      BY <1>3, <1>11, <1>13, <2>1, <2>5, <3>1, <3>2 DEF EndsInv
    <3> QED
      BY <1>4, <2>2, <2>3, <3>2, <3>3 DEF EndsInv, HasHead
  <2> QED
    BY <2>4, <2>5
<1>21. JoinAt(rk, p, x)'
  <2>1. p = "link" => Listed(k)' /\ rk[n] = rk[k] + 1
    BY <1>4, <1>9, <1>11, <1>13
  <2> QED
    BY <1>4, <1>11, <2>1 DEF JoinAt, Linking
<1>22. \A l \in Lock :
         /\ lk'[l].state = lk[l].state /\ lk'[l].headPass = lk[l].headPass /\ lk'[l].signal = lk[l].signal
         /\ l # n => rk[l] = rank[l] /\ (~Listed(l) => lk'[l] = lk[l])
  BY <1>4, <1>11
<1>23. Others(t) /\ x.new = n /\ UNCHANGED <<saved, deque, waitSet>> /\ p \in {"link", "await_id", "first", "pass_id", "conflict"}
  BY <1>4
<1>24. \A l \in Lock : IdInv(rk, l)' /\ PassedInv(rk, l)' /\ LinkInv(rk, l)'
  BY <1>17, <1>18
<1>25. \A u \in Thread \ {t} : pc[u] \in HoldingMutex => head'[Rec(Releases(u))] = head[Rec(Releases(u))]
  BY <1>4
<1>26. Orderly(rk)'
  BY <1>3, <1>5, <1>11, <1>14, <1>19, <1>20, <1>21, <1>22, <1>23, <1>24, <1>25, JoinOrdered
<1> QED
  BY <1>11, <1>26 DEF Ordered

\* A thread moves the head of r or tells so to the lock it has passed: what is left to show are the lists.
LEMMA MoveOrdered ==
  ASSUME IInv, IInv', NEW rank \in [Lock -> Nat], Orderly(rank), NEW t \in Thread,
         Others(t), NEW p, NEW x, NEW r, p = pc'[t], x = loc'[t], r = Rec(Releases(t)),
         pc[t] \in HoldingMutex, p \in HoldingMutex, x.new = loc[t].new, x.i = loc[t].i,
         UNCHANGED <<tail, saved, deque, waitSet>>,
         \A l \in Lock :
           /\ lk'[l].id = lk[l].id /\ lk'[l].next = lk[l].next /\ lk'[l].mode = lk[l].mode
           /\ lk'[l].state = lk[l].state /\ lk'[l].signal = lk[l].signal
           /\ ~Listed(l) => lk'[l] = lk[l],
         \A q \in Record : HasHead(q) => head'[q] # NoLock /\ rank[head[q]] <= rank[head'[q]],
         \A q \in Record : q # r => head'[q] = head[q],
         \A u \in Thread : u # t /\ pc[u] = "pass_head" => lk'[loc[u].prev].headPass = lk[loc[u].prev].headPass,
         \A l \in Lock : PassedInv(rank, l)', \A q \in Record : EndsInv(rank, q)', HeadAt(rank, r, p, x)'
  PROVE  Orderly(rank)'
<1>1. Types /\ Types' /\ ListInv(rank) /\ OrderlyInv(rank) /\ DequeInv(t) /\ LockInv(t)
  BY DEF IInv, Orderly, ListInv
<1>2. /\ pc[t] \notin Preparing \cup MayWait \cup Linking \cup {"asleep", "give_up", "grant", "pick", "first"}
      /\ p \notin Preparing \cup Linking \cup {"mode", "swap", "renew_next", "asleep", "give_up", "grant", "pick", "done", "first"} \cup Looking
      /\ pc[t] \in Freeing /\ p \in Freeing /\ p \notin Headless \cup Joined
  BY DEF Headless, MayWait, Probing, Renewing, Preparing, Freeing, HoldingMutex, Looking, Linking, Joined, Waiting
<1>3. \A l \in Lock : (Listed(l)' <=> Listed(l)) /\ (Created(l)' <=> Created(l))
  BY <1>2, ListedSame
<1>4. Locks(t)' = Locks(t) /\ Locks(t) \subseteq Lock /\ x.new = NoLock /\ loc[t].new = NoLock
  BY <1>1, <1>2, LocksIs DEF Locks, DequeInv
<1>5. Gentle(t, rank, rank)
  BY <1>3 DEF Gentle
<1>6. ASSUME NEW l \in Lock
      PROVE  IdInv(rank, l)'
  <2>1. IdInv(rank, l) /\ Rec(l) \in Record
    BY <1>1, LockIs DEF ListInv
  <2>2. pc'[Owner(l)] \in {"link", "await_id", "first"} /\ loc'[Owner(l)].new = l
          <=> pc[Owner(l)] \in {"link", "await_id", "first"} /\ loc[Owner(l)].new = l
    BY <1>4, LockIs DEF Others
  <2>3. HasHead(Rec(l)) => HasHead(Rec(l))'
    BY <2>1 DEF HasHead
  <2> QED
    BY <1>3, <2>1, <2>2, <2>3 DEF IdInv
<1>7. ASSUME NEW l \in Lock
      PROVE  FreshInv(l)'
  <2>1. FreshInv(l)
    BY <1>1 DEF ListInv
  <2>2. CASE Owner(l) = t
    <3>1. lk'[l].state # "WAIT"
      BY <1>2, <2>1, <2>2 DEF FreshInv
    <3>2. ~Created(l)' => lk'[l] = lk[l] /\ ~Created(l)
      BY <1>3 DEF Listed
    <3> QED
      BY <1>2, <2>1, <2>2, <3>1, <3>2 DEF FreshInv
  <2>3. CASE Owner(l) # t
    BY <1>3, <2>1, <2>3, FreshKept
  <2> QED
    BY <2>2, <2>3
<1>8. \A l \in Lock : LinkInv(rank, l)'
  <2>1. pc[t] # "link"
    BY <1>2 DEF Linking
  <2> QED
    BY <1>1, <1>3, <2>1, LinksKept
<1>9. \A l, m \in Lock : OrderInv(rank, l, m)'
  BY <1>1, <1>3 DEF ListInv, OrderInv
<1>10. DequeInv(t)'
  <2>1. \A l \in Locks(t) : Owner(l) = t /\ Listed(l)'
    BY <1>1, <1>2, <1>3, <1>4 DEF DequeInv, Preparing
  <2> QED
    BY <1>2, <1>4, <2>1 DEF DequeInv
<1>11. JoinAt(rank, pc[t], loc[t])'
  BY <1>2 DEF JoinAt
<1>12. HeadAt(rank, Rec(Releases(t)), pc[t], loc[t])'
  <2>1. Rec(Releases(t)') = r
    BY DEF Releases
  <2> QED
    BY <2>1 DEF HeadAt
<1>13. ASSUME NEW u \in Thread, u # t
       PROVE  DequeInv(u)' /\ JoinAt(rank, pc[u], loc[u])' /\ HeadAt(rank, Rec(Releases(u)), pc[u], loc[u])'
  <2>1. \A l \in Lock : Owner(l) # t => lk'[l].state = lk[l].state /\ (Created(l)' <=> Created(l))
    BY <1>3
  <2>2. pc[u] \in HoldingMutex => head'[Rec(Releases(u))] = head[Rec(Releases(u))]
    <3> SUFFICES ASSUME pc[u] \in HoldingMutex PROVE Rec(Releases(u)) \in Record /\ Rec(Releases(u)) # r
      OBVIOUS
    <3>1. Rec(Releases(u)) \in Record /\ mutex[Rec(Releases(u))] = u /\ mutex[r] = t
      BY HoldingIs
    <3> QED
      BY <1>13, <3>1
  <2> QED
    BY <1>1, <1>5, <1>13, <2>1, <2>2, OthersInLists
<1>14. ListInv(rank)'
  <2>1. \A u \in Thread :
          DequeInv(u)' /\ JoinAt(rank, pc[u], loc[u])' /\ HeadAt(rank, Rec(Releases(u)), pc[u], loc[u])'
    BY <1>10, <1>11, <1>12, <1>13
  <2>2. \A l \in Lock : IdInv(rank, l)' /\ FreshInv(l)' /\ PassedInv(rank, l)' /\ LinkInv(rank, l)'
    BY <1>6, <1>7, <1>8
  <2> QED
    BY <1>9, <2>1, <2>2 DEF ListInv
<1>15. OrderlyInv(rank)'
  <2>1. \A l \in Held(t)' : Listed(l) /\ Clear(rank, l)
    <3> SUFFICES ASSUME NEW l \in Held(t)' PROVE Listed(l) /\ Clear(rank, l)
      OBVIOUS
    <3>1. l \in Locks(t) /\ l \in Lock /\ lk[l].state # "OBSOLETE" /\ l # NoLock
      BY <1>4, LockIs DEF Held
    <3>2. l \in Held(t) /\ Listed(l)
      BY <1>1, <1>2, <1>4, <3>1 DEF Held, DequeInv, Preparing
    <3> QED
      BY <1>1, <3>2 DEF OrderlyInv, GrantedInv
  <2>2. SearchAt(rank, p, x)
    BY <1>2 DEF SearchAt, Looking
  <2>3. p \notin Looking /\ p # "asleep"
    BY <1>2
  <2>4. \A l \in Lock : Listed(l)' /\ lk'[l].signal /\ lk'[l].state # "OBSOLETE" =>
          Listed(l) /\ (lk[l].signal \/ Clear(rank, l))
    BY <1>3
  <2>5. \A u \in Thread \ {t} : pc[u] = "asleep" /\ u \notin waitSet' => u \notin waitSet \/ lk'[loc[u].new].signal
    OBVIOUS
  <2>6. \A l \in Lock : Listed(l) /\ Listed(l)' /\ lk[l].signal => lk'[l].signal
    OBVIOUS
  <2>7. \A l \in Lock : Owner(l) # t => lk'[l].state = lk[l].state
    OBVIOUS
  <2> QED
    BY <1>1, <1>5, <1>14, <2>1, <2>2, <2>3, <2>4, <2>5, <2>6, <2>7, OrderlyStep
<1> QED
  BY <1>14, <1>15 DEF Orderly

LEMMA AdvanceOrdered ==
  ASSUME IInv, IInv', NEW rank \in [Lock -> Nat], Orderly(rank), NEW t \in Thread, Advance(t)
  PROVE  Orderly(rank)'
<1>1. Types /\ ListInv(rank)
  BY DEF IInv, Orderly
<1>2. pc \in [Thread -> Place] /\ loc \in [Thread -> Locals] /\ lk \in [Lock -> Fields] /\ head \in [Record -> Node]
  BY <1>1 DEF Types
<1>3. PICK p, x, r, k, l : /\ p = pc'[t] /\ x = loc'[t] /\ r = Rec(Releases(t))
                           /\ k = loc[t].target /\ l = lk[k].next
  OBVIOUS
<1>4. pc[t] = "advance" /\ pc[t] \in HoldingMutex /\ UNCHANGED <<lk, tail, conflict, saved, waitSet>>
  BY DEF Advance, HoldingMutex
<1>5. CASE l = NoLock
  <2>1. Eased(t, rank) /\ Roused(t)
    BY <1>4, EasedSame
  <2>2. Unlock(t) /\ head' = head
    BY <1>3, <1>5 DEF Advance
  <2> QED
    BY <1>4, <2>1, <2>2, UnlockOrdered
<1>6. CASE l # NoLock
  <2>1. /\ Others(t) /\ p = "pass_head" /\ x.new = loc[t].new /\ x.i = loc[t].i /\ x.prev = k /\ x.target = l
        /\ deque' = deque /\ head' = [head EXCEPT ![r] = l]
    BY <1>2, <1>3, <1>4, <1>6 DEF Advance, Goto, Others, Locals
  <2>2. r \in Record /\ k \in Lock /\ k = head[r] /\ Rec(k) = r /\ Listed(k) /\ HasHead(r) /\ ~Overtaken(rank, k)
    BY <1>3, <1>4, AtHead
  <2>3. lk[k].state = "OBSOLETE"
    BY <1>1, <1>3, <1>4 DEF ListInv, HeadAt
  <2>4. l \in Lock /\ Rec(l) = r /\ Listed(l) /\ rank[l] = rank[k] + 1
    BY <1>1, <1>2, <1>3, <1>6, <2>2 DEF ListInv, LinkInv, Fields
  <2>5. head'[r] = l /\ \A q \in Record : q # r => head'[q] = head[q]
    BY <1>2, <2>1, <2>2
  <2>6. p \in HoldingMutex /\ pc[t] \notin Preparing /\ p \notin Preparing
    BY <1>4, <2>1 DEF HoldingMutex, Preparing, Renewing
  <2>7. \A m \in Lock : (Listed(m)' <=> Listed(m)) /\ (Created(m)' <=> Created(m))
    BY <1>3, <1>4, <2>1, <2>6, ListedSame
  <2>8. \A q \in Record : HasHead(q) => head'[q] # NoLock /\ rank[head[q]] <= rank[head'[q]]
    <3> SUFFICES ASSUME NEW q \in Record, HasHead(q) PROVE head'[q] # NoLock /\ rank[head[q]] <= rank[head'[q]]
      OBVIOUS
    <3>1. head[q] \in Lock /\ rank[head[q]] \in Nat
      BY <1>2 DEF Node, HasHead
    <3>2. CASE q = r
      BY <2>2, <2>4, <2>5, <3>1, <3>2, LockIs
    <3>3. CASE q # r
      BY <2>5, <3>1, <3>3 DEF HasHead
    <3> QED
      BY <3>2, <3>3
  <2>9. \A m \in Lock : Rec(m) = r =>
          /\ Overtaken(rank, m) <=> rank[m] < rank[k]
          /\ Overtaken(rank, m)' <=> rank[m] <= rank[k]
    BY <1>6, <2>2, <2>4, <2>5, LockIs DEF Overtaken, HasHead
  <2>10. ASSUME NEW m \in Lock
         PROVE  PassedInv(rank, m)'
    <3>1. PassedInv(rank, m) /\ OrderInv(rank, m, k) /\ Rec(m) \in Record
      BY <1>1, <2>2, LockIs DEF ListInv
    <3> SUFFICES ASSUME Listed(m) PROVE PassedInv(rank, m)'
      BY <2>7 DEF PassedInv
    <3>2. CASE Rec(m) = r
      <4>1. rank[m] = rank[k] => m = k
        BY <2>2, <3>1, <3>2 DEF OrderInv
      <4>2. Overtaken(rank, m)' => lk[m].state = "OBSOLETE"
        BY <2>2, <2>3, <2>9, <3>1, <3>2, <4>1 DEF PassedInv
      <4>3. lk[m].headPass => Overtaken(rank, m)'
        BY <2>2, <2>9, <3>1, <3>2 DEF PassedInv
      <4> QED
        BY <1>4, <4>2, <4>3 DEF PassedInv
    <3>3. CASE Rec(m) # r
      <4>1. Overtaken(rank, m)' <=> Overtaken(rank, m)
        BY <2>5, <3>1, <3>3 DEF Overtaken, HasHead
      <4> QED
        BY <1>4, <3>1, <4>1 DEF PassedInv
    <3> QED
      BY <3>2, <3>3
  <2>11. ASSUME NEW q \in Record
         PROVE  EndsInv(rank, q)'
    <3>1. EndsInv(rank, q) /\ head[q] \in Node /\ tail[q] \in Node
      BY <1>1 DEF ListInv, Types
    <3>2. PICK h, z : h = head'[q] /\ z = tail[q] /\ z = tail'[q]
      BY <1>4
    <3>3. h # NoLock => h \in Lock /\ Rec(h) = q /\ Listed(h)
      BY <2>4, <2>5, <3>1, <3>2 DEF EndsInv, HasHead, Node
    <3>4. (h # NoLock => Listed(h)') /\ (z # NoLock => (Listed(z)' <=> Listed(z)))
      BY <2>7, <3>1, <3>2, <3>3 DEF Node
    <3> QED
      BY <2>7, <3>1, <3>2, <3>3, <3>4 DEF EndsInv, HasHead
  <2>12. HeadAt(rank, r, p, x)'
    <3>1. ~lk[k].headPass
      BY <1>1, <2>2 DEF ListInv, PassedInv
    <3>2. Overtaken(rank, k)' /\ Listed(k)'
      BY <2>2, <2>7, <2>9
    <3> QED
      BY <1>4, <2>1, <2>2, <3>1, <3>2 DEF HeadAt
  <2>13. \A m \in Lock :
           /\ lk'[m].id = lk[m].id /\ lk'[m].next = lk[m].next /\ lk'[m].mode = lk[m].mode
           /\ lk'[m].state = lk[m].state /\ lk'[m].signal = lk[m].signal
           /\ ~Listed(m) => lk'[m] = lk[m]
    BY <1>4
  <2>14. \A u \in Thread : u # t /\ pc[u] = "pass_head" => lk'[loc[u].prev].headPass = lk[loc[u].prev].headPass
    BY <1>4
  <2>15. Others(t) /\ x.new = loc[t].new /\ x.i = loc[t].i /\ UNCHANGED <<tail, saved, deque, waitSet>>
    BY <1>4, <2>1
  <2>16. \A q \in Record : q # r => head'[q] = head[q]
    BY <2>5
  <2>17. pc[t] \in HoldingMutex
    BY <1>4
  <2> QED
    BY <1>3, <2>6, <2>8, <2>10, <2>11, <2>12, <2>13, <2>14, <2>15, <2>16, <2>17, MoveOrdered
<1> QED
  BY <1>5, <1>6

LEMMA PassHeadOrdered ==
  ASSUME IInv, IInv', NEW rank \in [Lock -> Nat], Orderly(rank), NEW t \in Thread, PassHead(t)
  PROVE  Orderly(rank)'
<1>1. Types /\ ListInv(rank) /\ CallInv(t)
  BY DEF IInv, Orderly
<1>2. pc \in [Thread -> Place] /\ lk \in [Lock -> Fields] /\ head \in [Record -> Node]
  BY <1>1 DEF Types
<1>3. PICK p, x, r, k : p = pc'[t] /\ x = loc'[t] /\ r = Rec(Releases(t)) /\ k = loc[t].prev
  OBVIOUS
<1>4. /\ pc[t] = "pass_head" /\ Others(t) /\ p = "new_front" /\ x = loc[t]
      /\ UNCHANGED <<head, tail, conflict, saved, waitSet, deque>> /\ lk' = [lk EXCEPT ![k].headPass = TRUE]
  BY <1>2, <1>3 DEF PassHead, Goto, Others, shared
<1>5. k \in Lock /\ Rec(k) = r /\ Listed(k) /\ Overtaken(rank, k)
  BY <1>1, <1>3, <1>4 DEF ListInv, HeadAt, CallInv, CallAt
<1>6. pc[t] \in HoldingMutex /\ p \in HoldingMutex /\ pc[t] \notin Preparing /\ p \notin Preparing
  BY <1>4 DEF HoldingMutex, Preparing, Renewing
<1>7. /\ \A l \in Lock : l # k => lk'[l] = lk[l]
      /\ lk'[k] = [lk[k] EXCEPT !.headPass = TRUE] /\ lk[k] \in Fields
  BY <1>2, <1>4, <1>5
<1>8. \A l \in Lock :
        /\ lk'[l].id = lk[l].id /\ lk'[l].next = lk[l].next /\ lk'[l].mode = lk[l].mode
        /\ lk'[l].state = lk[l].state /\ lk'[l].signal = lk[l].signal
        /\ ~Listed(l) => lk'[l] = lk[l]
  BY <1>5, <1>7 DEF Fields
<1>9. \A l \in Lock : (Listed(l)' <=> Listed(l)) /\ (Created(l)' <=> Created(l))
  BY <1>3, <1>4, <1>6, ListedSame
<1>10. \A l : Overtaken(rank, l)' <=> Overtaken(rank, l)
  BY <1>4 DEF Overtaken, HasHead
<1>11. \A l \in Lock : PassedInv(rank, l)'
  BY <1>1, <1>5, <1>7, <1>8, <1>9, <1>10 DEF ListInv, PassedInv
<1>12. \A q \in Record : EndsInv(rank, q)'
  BY <1>1, <1>4, <1>9, EndsSame
<1>13. \A q \in Record : HasHead(q) => head'[q] # NoLock /\ rank[head[q]] <= rank[head'[q]]
  <2> SUFFICES ASSUME NEW q \in Record, HasHead(q) PROVE rank[head[q]] \in Nat
    BY <1>4 DEF HasHead
  <2> QED
    BY <1>2 DEF Node, HasHead
<1>14. \A u \in Thread : u # t /\ pc[u] = "pass_head" => lk'[loc[u].prev].headPass = lk[loc[u].prev].headPass
  <2> SUFFICES ASSUME NEW u \in Thread, u # t, pc[u] = "pass_head"
               PROVE  lk'[loc[u].prev].headPass = lk[loc[u].prev].headPass
    OBVIOUS
  <2>1. mutex[Rec(Releases(u))] = u /\ mutex[r] = t
    BY <1>3, <1>6, HoldingIs DEF HoldingMutex
  <2>2. loc[u].prev \in Lock /\ Rec(loc[u].prev) = Rec(Releases(u))
    BY <1>1 DEF IInv, ListInv, HeadAt, CallInv, CallAt
  <2>3. loc[u].prev # k
    BY <1>5, <2>1, <2>2
  <2> QED
    BY <1>7, <2>2, <2>3
<1>15. HeadAt(rank, r, p, x)'
  BY <1>4 DEF HeadAt
<1>16. \A q \in Record : q # r => head'[q] = head[q]
  BY <1>4
<1>17. Others(t) /\ x.new = loc[t].new /\ x.i = loc[t].i /\ UNCHANGED <<tail, saved, deque, waitSet>>
  BY <1>4
<1> QED
  BY <1>3, <1>6, <1>8, <1>11, <1>12, <1>13, <1>14, <1>15, <1>16, <1>17, MoveOrdered

LEMMA InitOrdered == Init => Ordered
<1> SUFFICES ASSUME Init PROVE Ordered
  OBVIOUS
<1> DEFINE rank == [l \in Lock |-> 0]
<1>1. rank \in [Lock -> Nat]
  OBVIOUS
<1> HIDE DEF rank
<1>2. ASSUME NEW l \in Lock
      PROVE  ~Created(l) /\ lk[l] = FreshLock
  BY LockIs DEF Init, Created, Lock
<1>3. \A r \in Record : tail[r] = NoLock /\ ~HasHead(r)
  BY DEF Init, HasHead
<1>4. \A t \in Thread : /\ pc[t] \in {"pick", "done"} /\ loc[t] = NoLocals /\ loc[t].new = NoLock
                        /\ Locks(t) = {} /\ Held(t) = {}
  <2> SUFFICES ASSUME NEW t \in Thread
               PROVE  /\ pc[t] \in {"pick", "done"} /\ loc[t] = NoLocals /\ loc[t].new = NoLock /\ Locks(t) = {}
    BY DEF Held
  <2>1. pc[t] \in {"pick", "done"} /\ loc[t] = NoLocals /\ deque[t] = << >>
    BY DEF Init
  <2> QED
    BY <2>1 DEF NoLocals, Locks
<1>5. \A l \in Lock : ~Listed(l)
  BY <1>2 DEF Listed
<1>6. ASSUME NEW l \in Lock
      PROVE  IdInv(rank, l) /\ FreshInv(l) /\ PassedInv(rank, l) /\ LinkInv(rank, l)
  BY <1>2, <1>5 DEF IdInv, FreshInv, PassedInv, LinkInv, FreshLock
<1>7. \A r \in Record : EndsInv(rank, r)
  BY <1>3, <1>5 DEF EndsInv
<1>8. ASSUME NEW t \in Thread
      PROVE  DequeInv(t) /\ JoinAt(rank, pc[t], loc[t]) /\ HeadAt(rank, Rec(Releases(t)), pc[t], loc[t])
  <2>1. pc[t] \notin Linking \cup {"first", "advance", "pass_head", "wake_next", "wake_other", "give_up"} \cup Headless \cup Joined
    BY <1>4 DEF Linking, Headless, Joined, Waiting
  <2> QED
    BY <1>4, <2>1 DEF DequeInv, JoinAt, HeadAt
<1>9. ListInv(rank)
  BY <1>5, <1>6, <1>7, <1>8 DEF ListInv, OrderInv
<1>10. OrderlyInv(rank)
  <2>1. \A t \in Thread : GrantedInv(rank, t) /\ SearchAt(rank, pc[t], loc[t])
    BY <1>4 DEF GrantedInv, SearchAt
  <2> QED
    BY <1>5, <2>1 DEF OrderlyInv, SignalInv
<1> QED
  BY <1>1, <1>9, <1>10 DEF Ordered, Orderly

LEMMA StutterOrdered ==
  ASSUME NEW rank, Orderly(rank), UNCHANGED vars
  PROVE  Orderly(rank)'
<1>1. /\ lk' = lk /\ head' = head /\ tail' = tail /\ mutex' = mutex /\ conflict' = conflict /\ waitSet' = waitSet
      /\ saved' = saved /\ deque' = deque /\ trx' = trx /\ pc' = pc /\ loc' = loc
  BY DEF vars
<1>2. \A l : (Listed(l)' <=> Listed(l)) /\ (Created(l)' <=> Created(l))
  BY <1>1 DEF Listed, Created, Out
<1>3. \A r : HasHead(r)' <=> HasHead(r)
  BY <1>1 DEF HasHead
<1>4. \A l : Overtaken(rank, l)' <=> Overtaken(rank, l)
  BY <1>1, <1>3 DEF Overtaken
<1>5. ASSUME NEW l \in Lock
      PROVE  IdInv(rank, l)' /\ FreshInv(l)' /\ PassedInv(rank, l)' /\ LinkInv(rank, l)'
  <2>1. IdInv(rank, l) /\ FreshInv(l) /\ PassedInv(rank, l) /\ LinkInv(rank, l)
    BY DEF Orderly, ListInv
  <2>2. IdInv(rank, l)' /\ FreshInv(l)' /\ PassedInv(rank, l)'
    BY <1>1, <1>2, <1>3, <1>4, <2>1 DEF IdInv, FreshInv, PassedInv
  <2>3. LinkInv(rank, l)'
    BY <1>1, <2>1 DEF LinkInv, Listed, Created, Out, Overtaken, HasHead
  <2> QED
    BY <2>2, <2>3
<1>6. \A l, m \in Lock : OrderInv(rank, l, m)'
  BY <1>1, <1>2 DEF Orderly, ListInv, OrderInv
<1>7. \A r \in Record : EndsInv(rank, r)'
  BY <1>1 DEF Orderly, ListInv, EndsInv, Listed, Created, Out, HasHead
<1>8. ASSUME NEW t \in Thread
      PROVE  DequeInv(t)' /\ JoinAt(rank, pc[t], loc[t])' /\ HeadAt(rank, Rec(Releases(t)), pc[t], loc[t])'
  <2>1. DequeInv(t) /\ JoinAt(rank, pc[t], loc[t]) /\ HeadAt(rank, Rec(Releases(t)), pc[t], loc[t])
    BY DEF Orderly, ListInv
  <2>2. DequeInv(t)'
    BY <1>1, <1>2, <2>1 DEF DequeInv, Locks
  <2>3. JoinAt(rank, pc[t], loc[t])'
    BY <1>1, <2>1 DEF JoinAt, Listed, Created, Out
  <2>4. HeadAt(rank, Rec(Releases(t)), pc[t], loc[t])'
    BY <1>1, <2>1 DEF HeadAt, Listed, Created, Out, Overtaken, HasHead, Releases
  <2> QED
    BY <2>2, <2>3, <2>4
<1>9. ListInv(rank)'
  BY <1>5, <1>6, <1>7, <1>8 DEF ListInv
<1>10. \A m, l : Bars(rank, m, l)' <=> Bars(rank, m, l)
  BY <1>1, <1>2 DEF Bars, Compatible
<1>11. ASSUME NEW t \in Thread
       PROVE  GrantedInv(rank, t)' /\ SearchAt(rank, pc[t], loc[t])'
  <2>1. GrantedInv(rank, t) /\ SearchAt(rank, pc[t], loc[t])
    BY DEF Orderly, OrderlyInv
  <2>2. GrantedInv(rank, t)'
    BY <1>1, <1>10, <2>1 DEF GrantedInv, Held, Locks, Clear
  <2>3. ASSUME NEW n, NEW vec, NEW k PROVE Ahead(rank, n, vec, k) => Ahead(rank, n, vec, k)'
    BY <1>1, <1>2, <1>10 DEF Ahead
  <2>4. ASSUME NEW n, NEW vec, NEW k PROVE Found(rank, n, vec, k) => Found(rank, n, vec, k)'
    BY <1>10 DEF Found
  <2>5. SearchAt(rank, pc[t], loc[t])'
    BY <1>1, <2>1, <2>3, <2>4 DEF SearchAt
  <2> QED
    BY <2>2, <2>5
<1>12. \A l \in Lock : SignalInv(rank, l)'
  BY <1>1, <1>2, <1>10 DEF Orderly, OrderlyInv, SignalInv, Clear
<1> QED
  BY <1>9, <1>11, <1>12 DEF Orderly, OrderlyInv

LEMMA StepOrdered ==
  ASSUME IInv, IInv', IdsLast, NEW rank \in [Lock -> Nat], Orderly(rank), NEW t \in Thread, Step(t)
  PROVE  Ordered'
<1>1. CASE Acquiring(t)
  <2>1. CASE Swap(t)
    BY <2>1, SwapOrdered
  <2>2. CASE ~Swap(t)
    <3>1. Orderly(rank)'
      <4>1. CASE Pick(t) \/ RenewState(t) \/ RenewNext(t) \/ SetMode(t)
        BY <4>1, PickOrdered, RenewStateOrdered, RenewNextOrdered, SetModeOrdered
      <4>2. CASE Link(t) \/ AwaitId(t) \/ PassId(t) \/ FirstLock(t) \/ SetConflict(t)
        BY <4>2, LinkOrdered, AwaitIdOrdered, PassIdOrdered, FirstLockOrdered, SetConflictOrdered
      <4>3. CASE FromHead(t) \/ Collect(t) \/ CollectNext(t)
        BY <4>3, FromHeadOrdered, CollectOrdered, CollectNextOrdered
      <4>4. CASE Check(t) \/ CheckId(t) \/ CheckMode(t) \/ Wait(t) \/ Unwait(t)
        BY <4>4, CheckOrdered, CheckIdOrdered, CheckModeOrdered, WaitOrdered, UnwaitOrdered
      <4>5. CASE Deadlock(t) \/ GiveUp(t) \/ Sleep(t) \/ Awake(t) \/ Grant(t)
        BY <4>5, DeadlockOrdered, GrantOrdered, SleepOrdered, AwakeOrdered
      <4> QED
        BY <1>1, <2>2, <4>1, <4>2, <4>3, <4>4, <4>5 DEF Acquiring
    <3> QED
      BY <3>1 DEF Ordered
  <2> QED
    BY <2>1, <2>2
<1>2. CASE Searching(t)
  BY <1>2, SearchingOrdered DEF Ordered
<1>3. CASE Releasing(t)
  <2>1. Orderly(rank)'
    <3>1. CASE MarkObsolete(t) \/ LockHead(t) \/ Front(t) \/ NewFront(t)
      BY <3>1, MarkObsoleteOrdered, LockHeadOrdered, FrontOrdered
    <3>2. CASE Advance(t) \/ PassHead(t)
      BY <3>2, AdvanceOrdered, PassHeadOrdered
    <3>3. CASE WakeHead(t) \/ WakeNext(t) \/ WakeOther(t)
      BY <3>3, WakeHeadOrdered, WakeNextOrdered, WakeOtherOrdered
    <3> QED
      BY <1>3, <3>1, <3>2, <3>3 DEF Releasing
  <2> QED
    BY <2>1 DEF Ordered
<1> QED
  BY <1>1, <1>2, <1>3 DEF Step

LEMMA NextOrdered == IInv /\ IInv' /\ IdsLast /\ Ordered /\ [Next]_vars => Ordered'
<1> SUFFICES ASSUME IInv, IInv', IdsLast, Ordered, [Next]_vars PROVE Ordered'
  OBVIOUS
<1>1. PICK rank \in [Lock -> Nat] : Orderly(rank)
  BY DEF Ordered
<1>2. CASE \E t \in Thread : Step(t)
  BY <1>1, <1>2, StepOrdered
<1>3. CASE UNCHANGED vars
  BY <1>1, <1>3, StutterOrdered DEF Ordered
<1> QED
  BY <1>2, <1>3 DEF Next, Done

\* What a thread holds has its id, and nothing before it that could bar it is in use.
LEMMA HeldIs ==
  ASSUME IInv, NEW rank, Orderly(rank), NEW t \in Thread, NEW l \in Held(t)
  PROVE  /\ l \in Lock /\ Owner(l) = t /\ Listed(l) /\ lk[l].state # "OBSOLETE" /\ lk[l].id = rank[l]
         /\ Clear(rank, l)
<1>1. Types /\ ListInv(rank) /\ OrderlyInv(rank) /\ DequeInv(t)
  BY DEF IInv, Orderly, ListInv
<1>2. l \in Locks(t) /\ lk[l].state # "OBSOLETE" /\ (l = loc[t].new => pc[t] = "grant") /\ l \in Lock
  BY <1>1, LocksIs DEF Held
<1>3. Owner(l) = t /\ Listed(l)
  BY <1>1, <1>2 DEF DequeInv
<1>4. lk[l].id = rank[l]
  BY <1>1, <1>2, <1>3 DEF ListInv, IdInv
<1> QED
  BY <1>1, <1>2, <1>3, <1>4 DEF OrderlyInv, GrantedInv

LEMMA OrderedGrants == IInv /\ Ordered => GrantedInOrder /\ MutualExclusion
<1> SUFFICES ASSUME IInv, NEW rank \in [Lock -> Nat], Orderly(rank) PROVE GrantedInOrder /\ MutualExclusion
  BY DEF Ordered
<1>1. ASSUME NEW t \in Thread, NEW l \in Held(t), NEW m \in Lock, Live(m), Before(m, l)
      PROVE  Compatible(m, l)
  <2>1. Listed(m) /\ lk[m].id = rank[m] /\ lk[m].state # "OBSOLETE"
    BY <1>1 DEF Live, Orderly, ListInv, IdInv
  <2>2. l \in Lock /\ lk[l].id = rank[l] /\ Clear(rank, l)
    BY HeldIs
  <2> QED
    BY <1>1, <2>1, <2>2 DEF Before, Clear, Bars
<1>2. ASSUME NEW t \in Thread, NEW u \in Thread, t # u, NEW l \in Held(t), NEW m \in Held(u), Rec(l) = Rec(m)
      PROVE  Compatible(l, m)
  <2>1. l \in Lock /\ Owner(l) = t /\ Listed(l) /\ lk[l].state # "OBSOLETE" /\ Clear(rank, l)
    BY HeldIs
  <2>2. m \in Lock /\ Owner(m) = u /\ Listed(m) /\ lk[m].state # "OBSOLETE" /\ Clear(rank, m)
    BY HeldIs
  <2>3. rank[l] # rank[m]
    BY <1>2, <2>1, <2>2 DEF Orderly, ListInv, OrderInv
  <2>4. ~Bars(rank, m, l) /\ ~Bars(rank, l, m)
    BY <2>1, <2>2 DEF Clear
  <2>5. rank[m] < rank[l] \/ rank[l] < rank[m]
    BY <2>1, <2>2, <2>3
  <2> QED
    BY <1>2, <2>1, <2>2, <2>4, <2>5 DEF Bars, Compatible
<1> QED
  BY <1>1, <1>2 DEF GrantedInOrder, MutualExclusion

LEMMA OrderedAlways == Spec /\ []IdsLast => [](IInv /\ Ordered)
<1>1. Spec => []IInv
  BY InitInv, NextInv, PTL DEF Spec
<1>2. Init => Ordered
  BY InitOrdered
<1>3. IInv /\ IInv' /\ IdsLast /\ Ordered /\ [Next]_vars => Ordered'
  BY NextOrdered
<1> QED
  BY <1>1, <1>2, <1>3, PTL DEF Spec

\* While no list uses up its ids, a lock is granted in the order of the ids.
THEOREM GrantsInOrder == Spec /\ []IdsLast => []GrantedInOrder
BY OrderedAlways, OrderedGrants, PTL

\* While no list uses up its ids, two transactions never hold incompatible locks.
THEOREM MutuallyExclusive == Spec /\ []IdsLast => []MutualExclusion
BY OrderedAlways, OrderedGrants, PTL
=============================================================================
