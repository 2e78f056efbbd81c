------------------------- MODULE GlobalLock_proofs -------------------------
(***************************************************************************)
(* Proofs about GlobalLock: the types, the lists, the wakeups, the         *)
(* deadlocks, and that the lock table keeps the promise of LockService.    *)
(*                                                                         *)
(* The pointers say where a walk comes along, and the invariant has to say *)
(* what the lists are. It speaks of them as sequences: ord[r] has the      *)
(* locks of record r from the head to the tail, and IInv is Inv(ord) for   *)
(* some ord. Inserting a lock appends to ord[r], a move of the head drops  *)
(* a prefix, and the recursive walks are what they are on a sequence. Inv  *)
(* then says who stands in a list (LockInv), what each thread holds or     *)
(* waits for (DequeInv, StateInv), and that exactly those sleep who have   *)
(* an incompatible lock in use before them (GrantInv).                     *)
(***************************************************************************)
EXTENDS GlobalLock, FiniteSetTheorems, WellFoundedInduction, TLAPS

Node == Lock \cup {NoLock}

\* The n-th lock of a list, or its end.
At(s, n) == IF n \in 1 .. Len(s) THEN s[n] ELSE NoLock

In(s, l) == \E n \in 1 .. Len(s) : s[n] = l

Distinct(s) == \A m, n \in 1 .. Len(s) : s[m] = s[n] => m = n

\* The locks of s are linked in this order.
Line(fields, s) == \A n \in 1 .. Len(s) : fields[s[n]].next = At(s, n + 1)

\* The lock is in its thread's vector.
Created(l) == l[3] <= saved[Owner(l)][Rec(l)]

\* The types, but for what is released.
Types ==
  /\ lk \in [Lock -> Fields]
  /\ head \in [Record -> Node] /\ tail \in [Record -> Node]
  /\ conflict \in [Thread -> Node]
  /\ waitSet \subseteq Thread
  /\ saved \in [Thread -> [Record -> 0 .. MaxLocks]]
  /\ deque \in [Thread -> Seq(Lock)]
  /\ trx \in [Thread -> Nat \ {0}]
  /\ released \in [Thread -> Nat]
  /\ pc \in [Thread -> {"acquire", "asleep", "release", "done"}]

\* The list of a record, and its two ends.
ListInv(s, r) ==
  /\ head[r] = At(s, 1) /\ tail[r] = At(s, Len(s))
  /\ Distinct(s) /\ Line(lk, s)
  /\ \A n \in 1 .. Len(s) : Rec(s[n]) = r /\ Created(s[n])

\* A lock is in the list of its record from when it is put there until the head passes it,
\* and is not in use after that. The list never becomes empty again.
LockInv(s, l) ==
  /\ s # << >>
  /\ In(s, l) <=> ~lk[l].headPass
  /\ InUse(lk, l) => ~lk[l].headPass

\* ord has the lists.
QueueInv(ord) ==
  /\ \A r \in Record : ListInv(ord[r], r)
  /\ \A l \in Lock : Created(l) => LockInv(ord[Rec(l)], l)

\* The deque of a thread has the locks its transaction has asked for so far.
DequeInv(t) ==
  /\ \A n \in 1 .. Len(deque[t]) :
       LET l == deque[t][n] IN
       /\ Owner(l) = t /\ Created(l)
       /\ Rec(l) = Program(t)[n].rec /\ lk[l].mode = Program(t)[n].mode
  /\ pc[t] # "done" => trx[t] <= Len(Programs[t]) /\ Len(deque[t]) <= Len(Program(t))
  /\ pc[t] = "done" => deque[t] = << >>
  /\ pc[t] = "acquire" => Len(deque[t]) < Len(Program(t))
  /\ pc[t] \in {"asleep", "release"} => Len(deque[t]) > 0
  /\ pc[t] = "release" => released[t] < Len(deque[t])
  /\ pc[t] # "release" => released[t] = 0

\* The state of those locks, and no other is in use.
StateInv(t) ==
  /\ conflict[t] = IF pc[t] = "asleep" THEN deque[t][Len(deque[t])] ELSE NoLock
  /\ t \in waitSet => pc[t] = "asleep"
  /\ \A n \in 1 .. Len(deque[t]) :
       LET state == lk[deque[t][n]].state IN
       /\ n <= released[t] => state = "OBSOLETE"
       /\ n > released[t] /\ n < Len(deque[t]) => state = "ACTIVE"
       /\ n > released[t] /\ n = Len(deque[t]) =>
            CASE pc[t] = "acquire" -> state = "ACTIVE"
              [] pc[t] = "asleep" -> state = "WAIT"
              [] OTHER -> state \in {"ACTIVE", "OBSOLETE"}
  /\ \A l \in Lock : Owner(l) = t /\ Created(l) /\ InUse(lk, l) => In(deque[t], l)

\* The n-th lock of the list stands behind an incompatible one in use.
Blocked(fields, s, n) ==
  \E m \in 1 .. n - 1 : InUse(fields, s[m]) /\ Incompatible(fields[s[n]].mode, fields[s[m]].mode)

\* Who holds a lock, or has been woken for one, has no incompatible one before it; who
\* sleeps has.
GrantInv(ord) ==
  \A r \in Record : \A n \in 1 .. Len(ord[r]) :
    LET l == ord[r][n] IN
    InUse(lk, l) => (Blocked(lk, ord[r], n) <=> lk[l].state = "WAIT" /\ Owner(l) \in waitSet)

\* The inductive invariant, with the lists as a witness.
Inv(ord) ==
  /\ Types /\ QueueInv(ord) /\ GrantInv(ord)
  /\ \A t \in Thread : DequeInv(t) /\ StateInv(t)

IInv == \E ord \in [Record -> Seq(Lock)] : Inv(ord)

-----------------------------------------------------------------------------
\* A set of numbers has a least one: the induction of this module.
LEMMA Least ==
  ASSUME NEW S \in SUBSET Nat, S # {}
  PROVE  \E n \in S : \A m \in S : n <= m
<1> DEFINE R == OpToRel(<, Nat)
<1>1. IsWellFoundedOn(R, Nat)
  BY NatLessThanWellFounded
<1>2. ASSUME NEW m \in Nat, NEW n \in Nat, m < n PROVE <<m, n>> \in R
  BY <1>2 DEF OpToRel
<1> HIDE DEF R
<1>3. PICK n \in S : \A m \in S : <<m, n>> \notin R
  BY <1>1, WFMin
<1>4. ASSUME NEW m \in S PROVE n <= m
  <2>1. m \in Nat /\ n \in Nat
    OBVIOUS
  <2>2. ~(m < n)
    BY <1>2, <1>3, <2>1
  <2> QED BY <2>1, <2>2
<1> QED BY <1>4

-----------------------------------------------------------------------------
(* The walks along a list *)

\* The locks that one comes to from m along nxt: the smallest set that holds m and all that
\* follow.
Reach(nxt, m) ==
  {x \in Lock : \A S \in SUBSET Lock :
                  m \in S /\ (\A y \in S : nxt[y] \in S \cup {NoLock}) => x \in S}

\* What is reached from m: m itself, and what is reached from its successor.
LEMMA ReachStep ==
  ASSUME NEW nxt \in [Lock -> Node], NEW m \in Lock
  PROVE  Reach(nxt, m) = {m} \cup (IF nxt[m] = NoLock THEN {} ELSE Reach(nxt, nxt[m]))
<1>1. m \in Reach(nxt, m)
  BY DEF Reach
<1>2. CASE nxt[m] = NoLock
  <2>1. {m} \in SUBSET Lock /\ m \in {m} /\ \A y \in {m} : nxt[y] \in {m} \cup {NoLock}
    BY <1>2
  <2>2. Reach(nxt, m) \subseteq {m}
    BY <2>1 DEF Reach
  <2> QED BY <1>1, <1>2, <2>2
<1>3. CASE nxt[m] # NoLock
  <2>1. nxt[m] \in Lock
    BY <1>3 DEF Node
  <2>2. ASSUME NEW x \in Reach(nxt, nxt[m]) PROVE x \in Reach(nxt, m)
    <3>1. x \in Lock
      BY DEF Reach
    <3>2. ASSUME NEW S \in SUBSET Lock, m \in S, \A y \in S : nxt[y] \in S \cup {NoLock} PROVE x \in S
      <4>1. nxt[m] \in S
        BY <1>3, <3>2
      <4> QED BY <3>2, <4>1 DEF Reach
    <3> QED BY <3>1, <3>2 DEF Reach
  <2>3. ASSUME NEW x \in Reach(nxt, m), x # m PROVE x \in Reach(nxt, nxt[m])
    <3>1. x \in Lock
      BY DEF Reach
    <3>2. ASSUME NEW S \in SUBSET Lock, nxt[m] \in S, \A y \in S : nxt[y] \in S \cup {NoLock} PROVE x \in S
      <4> DEFINE Q == S \cup {m}
      <4>1. Q \in SUBSET Lock /\ m \in Q /\ \A y \in Q : nxt[y] \in Q \cup {NoLock}
        BY <3>2
      <4> HIDE DEF Q
      <4>2. x \in Q
        BY <4>1 DEF Reach
      <4> QED BY <2>3, <4>2 DEF Q
    <3> QED BY <3>1, <3>2 DEF Reach
  <2> QED BY <1>1, <1>3, <2>2, <2>3
<1> QED BY <1>2, <1>3

\* The links of a list lead to locks or to its end.
Linkable(fields) == \A m \in Lock : fields[m].next \in Node

\* From, NewHead and Woken, one step of each.
LEMMA FromStep ==
  ASSUME NEW fields, Linkable(fields), NEW last, NEW l \in Node
  PROVE  From(fields, l, last) = IF l \in {last, NoLock} THEN {}
                                 ELSE {l} \cup From(fields, fields[l].next, last)
<1> DEFINE D == Lock \cup {NoLock}
           G(f) == [m \in D |-> IF m \in {last, NoLock} THEN {} ELSE {m} \cup f[fields[m].next]]
           walk == CHOOSE f : f = G(f)
           nxt == [y \in Lock |-> IF fields[y].next = last THEN NoLock ELSE fields[y].next]
           fix == [m \in D |-> IF m \in {last, NoLock} THEN {} ELSE Reach(nxt, m)]
<1>1. nxt \in [Lock -> Node]
  BY DEF Linkable, Node
<1>2. \A m \in Lock : nxt[m] = IF fields[m].next = last THEN NoLock ELSE fields[m].next
  OBVIOUS
<1>3. ASSUME NEW m \in D
      PROVE  fix[m] = IF m \in {last, NoLock} THEN {} ELSE {m} \cup fix[fields[m].next]
  <2>1. CASE m \in {last, NoLock}
    BY <2>1
  <2>2. CASE m \notin {last, NoLock}
    <3>1. m \in Lock /\ fields[m].next \in D
      BY <2>2 DEF Linkable, Node
    <3>2. Reach(nxt, m) = {m} \cup (IF nxt[m] = NoLock THEN {} ELSE Reach(nxt, nxt[m]))
      BY <1>1, <3>1, ReachStep
    <3>3. fix[m] = Reach(nxt, m)
      BY <2>2
    <3>4. fix[fields[m].next] = IF nxt[m] = NoLock THEN {} ELSE Reach(nxt, nxt[m])
      <4>1. fix[fields[m].next] = IF fields[m].next \in {last, NoLock} THEN {}
                                  ELSE Reach(nxt, fields[m].next)
        BY <3>1
      <4> HIDE DEF fix, nxt
      <4> QED BY <1>2, <3>1, <4>1
    <3> HIDE DEF fix, nxt
    <3> QED BY <2>2, <3>2, <3>3, <3>4
  <2> QED BY <2>1, <2>2
<1>4. fix = G(fix)
  <2>1. fix = [m \in D |-> fix[m]]
    OBVIOUS
  <2> HIDE DEF fix, nxt
  <2> QED BY <1>3, <2>1
<1> HIDE DEF fix, nxt
<1>5. walk = G(walk)
  BY <1>4
<1>6. From(fields, l, last) = walk[l] /\ From(fields, fields[l].next, last) = walk[fields[l].next]
  BY DEF From
<1> HIDE DEF walk
<1>7. walk[l] = IF l \in {last, NoLock} THEN {} ELSE {l} \cup walk[fields[l].next]
  <2>1. l \in D
    BY DEF Node
  <2> QED BY <1>5, <2>1
<1> QED BY <1>6, <1>7

\* The walk of NewHead, and the one of Woken behind the new head.
Move(fields) ==
  CHOOSE move : move =
    [m \in Lock |-> IF InUse(fields, m) \/ fields[m].next = NoLock THEN m ELSE move[fields[m].next]]

Barrier(fields, m) == InUse(fields, m) /\ fields[m].mode = "EXCLUSIVE"

Behind(fields) ==
  CHOOSE behind : behind =
    [m \in Lock \cup {NoLock} |->
       IF m = NoLock \/ (InUse(fields, m) /\ fields[m].mode = "EXCLUSIVE") THEN {}
       ELSE {n \in {m} : InUse(fields, n)} \cup behind[fields[m].next]]

\* NewHead and Woken by these walks.
LEMMA WalksAre ==
  ASSUME NEW fields
  PROVE  /\ \A r : NewHead(fields, r) = Move(fields)[head[r]]
         /\ \A h : Woken(fields, h) =
              {h} \cup (IF fields[h].mode = "SHARED" THEN Behind(fields)[fields[h].next] ELSE {})
BY DEF NewHead, Woken, Move, Behind

\* The head stays on a lock in use and on the last one, and else goes on.
LEMMA MoveStep ==
  ASSUME NEW fields, Linkable(fields), NEW l \in Lock
  PROVE  Move(fields)[l] = IF InUse(fields, l) \/ fields[l].next = NoLock THEN l
                           ELSE Move(fields)[fields[l].next]
<1> DEFINE Stop(m) == InUse(fields, m) \/ fields[m].next = NoLock
           G(f) == [m \in Lock |-> IF Stop(m) THEN m ELSE f[fields[m].next]]
           nxt == [y \in Lock |-> IF Stop(y) THEN NoLock ELSE fields[y].next]
           ends(m) == {y \in Reach(nxt, m) : Stop(y)}
           fix == [m \in Lock |-> CHOOSE y : y \in ends(m)]
<1>1. nxt \in [Lock -> Node]
  BY DEF Linkable, Node
<1>2. \A m \in Lock : nxt[m] = IF Stop(m) THEN NoLock ELSE fields[m].next
  OBVIOUS
<1>3. \A m \in Lock : fix[m] = CHOOSE y : y \in ends(m)
  OBVIOUS
<1>4. fix = [m \in Lock |-> fix[m]]
  OBVIOUS
<1> HIDE DEF nxt, fix, Stop
<1>5. ASSUME NEW m \in Lock
      PROVE  fix[m] = IF Stop(m) THEN m ELSE fix[fields[m].next]
  <2>1. Reach(nxt, m) = {m} \cup (IF nxt[m] = NoLock THEN {} ELSE Reach(nxt, nxt[m]))
    BY <1>1, ReachStep
  <2>2. CASE Stop(m)
    <3>1. ends(m) = {m}
      BY <1>2, <2>1, <2>2
    <3> HIDE DEF ends
    <3> QED BY <1>3, <2>2, <3>1
  <2>3. CASE ~Stop(m)
    <3>1. fields[m].next \in Lock /\ nxt[m] = fields[m].next /\ nxt[m] # NoLock
      <4>1. fields[m].next # NoLock
        BY <2>3 DEF Stop
      <4> QED BY <1>2, <2>3, <4>1, NoLockAssumption DEF Linkable, Node
    <3>2. ends(m) = ends(fields[m].next)
      BY <2>1, <2>3, <3>1
    <3> HIDE DEF ends
    <3> QED BY <1>3, <2>3, <3>1, <3>2
  <2> QED BY <2>2, <2>3
<1>6. fix = G(fix)
  BY <1>4, <1>5
<1>7. Move(fields) = CHOOSE f : f = G(f)
  BY DEF Move, Stop
<1>8. Move(fields) = G(Move(fields))
  BY <1>6, <1>7
<1>9. Move(fields)[l] = IF Stop(l) THEN l ELSE Move(fields)[fields[l].next]
  BY <1>8
<1> QED BY <1>9 DEF Stop

\* Behind the head the locks in use are woken up to an EXCLUSIVE one.
LEMMA BehindStep ==
  ASSUME NEW fields, Linkable(fields), NEW l \in Node
  PROVE  Behind(fields)[l] = IF l = NoLock \/ Barrier(fields, l) THEN {}
                             ELSE (IF InUse(fields, l) THEN {l} ELSE {})
                                  \cup Behind(fields)[fields[l].next]
<1> DEFINE D == Lock \cup {NoLock}
           Stop(m) == m = NoLock \/ Barrier(fields, m)
           G(f) == [m \in D |-> IF Stop(m) THEN {}
                                ELSE {n \in {m} : InUse(fields, n)} \cup f[fields[m].next]]
           nxt == [y \in Lock |-> IF Stop(fields[y].next) THEN NoLock ELSE fields[y].next]
           fix == [m \in D |-> IF Stop(m) THEN {} ELSE {n \in Reach(nxt, m) : InUse(fields, n)}]
<1>1. nxt \in [Lock -> Node]
  BY DEF Linkable, Node
<1>2. \A m \in Lock : nxt[m] = IF Stop(fields[m].next) THEN NoLock ELSE fields[m].next
  OBVIOUS
<1>3. \A m \in D : fix[m] = IF Stop(m) THEN {} ELSE {n \in Reach(nxt, m) : InUse(fields, n)}
  OBVIOUS
<1>4. fix = [m \in D |-> fix[m]]
  OBVIOUS
<1>5. Stop(NoLock)
  OBVIOUS
<1>6. Behind(fields) = CHOOSE f : f = G(f)
  BY DEF Behind, Barrier
<1> HIDE DEF nxt, fix
<1>7. ASSUME NEW m \in D
      PROVE  fix[m] = IF Stop(m) THEN {} ELSE {n \in {m} : InUse(fields, n)} \cup fix[fields[m].next]
  <2>1. CASE Stop(m)
    BY <1>3, <2>1
  <2>2. CASE ~Stop(m)
    <3>1. m \in Lock /\ fields[m].next \in D
      BY <1>5, <2>2 DEF Linkable, Node
    <3>2. Reach(nxt, m) = {m} \cup (IF nxt[m] = NoLock THEN {} ELSE Reach(nxt, nxt[m]))
      BY <1>1, <3>1, ReachStep
    <3>3. fix[m] = {n \in Reach(nxt, m) : InUse(fields, n)}
      BY <1>3, <2>2
    <3>4. fix[fields[m].next]
            = IF nxt[m] = NoLock THEN {} ELSE {n \in Reach(nxt, nxt[m]) : InUse(fields, n)}
      <4>1. CASE Stop(fields[m].next)
        BY <1>2, <1>3, <3>1, <4>1
      <4>2. CASE ~Stop(fields[m].next)
        <5>1. nxt[m] = fields[m].next /\ nxt[m] # NoLock
          BY <1>2, <1>5, <3>1, <4>2
        <5> QED BY <1>3, <3>1, <4>2, <5>1
      <4> QED BY <4>1, <4>2
    <3> HIDE DEF Stop
    <3> QED BY <2>2, <3>2, <3>3, <3>4
  <2> QED BY <2>1, <2>2
<1> HIDE DEF Stop
<1>8. fix = G(fix)
  BY <1>4, <1>7
<1>9. Behind(fields) = G(Behind(fields))
  BY <1>6, <1>8
<1>10. Behind(fields)[l] = IF Stop(l) THEN {}
                           ELSE {n \in {l} : InUse(fields, n)} \cup Behind(fields)[fields[l].next]
  <2>1. l \in D
    BY DEF Node
  <2> QED BY <1>9, <2>1
<1>11. {n \in {l} : InUse(fields, n)} = IF InUse(fields, l) THEN {l} ELSE {}
  OBVIOUS
<1> QED BY <1>10, <1>11 DEF Stop

\* A place of a list holds a lock, or is the end.
LEMMA AtType ==
  ASSUME NEW s \in Seq(Lock), NEW k \in Nat
  PROVE  /\ At(s, k) \in Node
         /\ k \in 1 .. Len(s) => At(s, k) = s[k] /\ s[k] \in Lock /\ s[k] # NoLock
BY NoLockAssumption DEF At, Node

\* A walk along a list ends at the first lock that is the last one to look for.
LEMMA FromLine ==
  ASSUME NEW fields, Linkable(fields), NEW s \in Seq(Lock), Line(fields, s), NEW last,
         NEW e \in 1 .. Len(s) + 1, e <= Len(s) => s[e] = last,
         NEW k \in 1 .. e, \A j \in k .. e - 1 : s[j] # last
  PROVE  From(fields, At(s, k), last) = {s[j] : j \in k .. e - 1}
<1> DEFINE Claim(d) == From(fields, At(s, e - d), last) = {s[j] : j \in e - d .. e - 1}
           S == {d \in 0 .. e - k : ~Claim(d)}
<1>0. Len(s) \in Nat /\ e \in Nat /\ k \in Nat
  OBVIOUS
<1>1. ASSUME S # {} PROVE FALSE
  <2>1. S \in SUBSET Nat
    OBVIOUS
  <2> HIDE DEF Claim
  <2>2. PICK d \in S : \A c \in S : d <= c
    BY <1>1, <2>1, Least
  <2>3. d \in 0 .. e - k /\ ~Claim(d)
    OBVIOUS
  <2>4. CASE d = 0
    <3>1. At(s, e) \in {last, NoLock} /\ At(s, e) \in Node
      BY <1>0, AtType DEF At
    <3>2. From(fields, At(s, e), last) = {}
      BY <3>1, FromStep
    <3>3. Claim(0)
      BY <1>0, <3>2 DEF Claim
    <3> QED BY <2>3, <2>4, <3>3
  <2>5. CASE d # 0
    <3>1. /\ d - 1 \in 0 .. e - k /\ d - 1 < d /\ e - d \in 1 .. Len(s) /\ e - d \in Nat
          /\ e - d \in k .. e - 1 /\ (e - d) + 1 = e - (d - 1) /\ e - (d - 1) \in Nat
      BY <1>0, <2>3, <2>5
    <3>2. Claim(d - 1)
      BY <2>2, <2>3, <3>1
    <3>3. /\ At(s, e - d) = s[e - d] /\ s[e - d] \in Lock /\ s[e - d] # NoLock
          /\ At(s, e - d) \in Node
      BY <3>1, AtType
    <3>4. s[e - d] # last
      BY <3>1
    <3>5. fields[s[e - d]].next = At(s, e - (d - 1))
      BY <3>1 DEF Line
    <3>6. From(fields, s[e - d], last) = {s[e - d]} \cup From(fields, fields[s[e - d]].next, last)
      BY <3>3, <3>4, FromStep
    <3>7. {s[j] : j \in e - d .. e - 1} = {s[e - d]} \cup {s[j] : j \in e - (d - 1) .. e - 1}
      <4>1. e - d .. e - 1 = {e - d} \cup (e - (d - 1) .. e - 1)
        BY <1>0, <2>3, <3>1
      <4> QED BY <4>1
    <3>8. Claim(d)
      BY <3>2, <3>3, <3>5, <3>6, <3>7 DEF Claim
    <3> QED BY <2>3, <3>8
  <2> QED BY <2>4, <2>5
<1>2. Claim(e - k)
  <2>1. e - k \in 0 .. e - k
    BY <1>0
  <2> HIDE DEF Claim
  <2> QED BY <1>1, <2>1
<1>3. e - (e - k) = k
  BY <1>0
<1> QED BY <1>2, <1>3

\* A whole list, and what stands before one of its locks.
LEMMA FromHead ==
  ASSUME NEW fields, Linkable(fields), NEW s \in Seq(Lock), Line(fields, s), Distinct(s)
  PROVE  /\ From(fields, At(s, 1), NoLock) = {s[j] : j \in 1 .. Len(s)}
         /\ \A n \in 1 .. Len(s) : From(fields, At(s, 1), s[n]) = {s[j] : j \in 1 .. n - 1}
<1>0. Len(s) \in Nat
  OBVIOUS
<1>1. From(fields, At(s, 1), NoLock) = {s[j] : j \in 1 .. Len(s)}
  <2>1. Len(s) + 1 \in 1 .. Len(s) + 1 /\ 1 \in 1 .. Len(s) + 1 /\ (Len(s) + 1) - 1 = Len(s)
        /\ ~(Len(s) + 1 <= Len(s))
    BY <1>0
  <2>2. \A j \in 1 .. Len(s) : s[j] # NoLock
    BY NoLockAssumption
  <2>3. From(fields, At(s, 1), NoLock) = {s[j] : j \in 1 .. (Len(s) + 1) - 1}
    <3> DEFINE e == Len(s) + 1
    <3>1. e \in 1 .. Len(s) + 1 /\ (e <= Len(s) => s[e] = NoLock) /\ 1 \in 1 .. e
          /\ \A j \in 1 .. e - 1 : s[j] # NoLock
      BY <2>1, <2>2
    <3> HIDE DEF e
    <3>2. From(fields, At(s, 1), NoLock) = {s[j] : j \in 1 .. e - 1}
      BY <3>1, FromLine
    <3> QED BY <3>2 DEF e
  <2> QED BY <2>1, <2>3
<1>2. ASSUME NEW n \in 1 .. Len(s)
      PROVE  From(fields, At(s, 1), s[n]) = {s[j] : j \in 1 .. n - 1}
  <2>1. n \in 1 .. Len(s) + 1 /\ 1 \in 1 .. n
    BY <1>0
  <2>2. \A j \in 1 .. n - 1 : s[j] # s[n]
    BY <1>0 DEF Distinct
  <2> QED BY <2>1, <2>2, FromLine
<1> QED BY <1>1, <1>2

\* The head moves to the first lock in use, or to the last one.
LEMMA HeadLine ==
  ASSUME NEW fields, Linkable(fields), NEW s \in Seq(Lock), Line(fields, s), Len(s) > 0
  PROVE  \E k \in 1 .. Len(s) :
           /\ Move(fields)[s[1]] = s[k]
           /\ InUse(fields, s[k]) \/ k = Len(s)
           /\ \A j \in 1 .. k - 1 : ~InUse(fields, s[j])
<1> DEFINE Stop(j) == InUse(fields, s[j]) \/ j = Len(s)
           S == {j \in 1 .. Len(s) : Stop(j)}
<1>0. Len(s) \in Nat
  OBVIOUS
<1>1. Len(s) \in S /\ S \in SUBSET Nat
  BY <1>0
<1>2. PICK k \in S : \A j \in S : k <= j
  BY <1>1, Least
<1>3. k \in 1 .. Len(s) /\ Stop(k) /\ \A j \in 1 .. k - 1 : ~Stop(j)
  BY <1>0, <1>2
<1>4. ASSUME NEW j \in 1 .. Len(s)
      PROVE  /\ s[j] \in Lock
             /\ Move(fields)[s[j]] = IF Stop(j) THEN s[j] ELSE Move(fields)[At(s, j + 1)]
  <2>1. s[j] \in Lock /\ fields[s[j]].next = At(s, j + 1)
    BY DEF Line
  <2>2. At(s, j + 1) = NoLock <=> j = Len(s)
    BY <1>0, NoLockAssumption DEF At
  <2> QED BY <2>1, <2>2, MoveStep
<1> DEFINE T == {d \in 0 .. k - 1 : Move(fields)[s[k - d]] # s[k]}
<1> HIDE DEF Stop
<1>5. ASSUME T # {} PROVE FALSE
  <2>1. T \in SUBSET Nat
    BY <1>0, <1>3
  <2>2. PICK d \in T : \A c \in T : d <= c
    BY <1>5, <2>1, Least
  <2>3. d \in 0 .. k - 1 /\ Move(fields)[s[k - d]] # s[k]
    OBVIOUS
  <2>4. d # 0
    <3>1. k - 0 = k
      BY <1>0, <1>3
    <3> QED BY <1>3, <1>4, <2>3, <3>1
  <2>5. /\ d - 1 \in 0 .. k - 1 /\ d - 1 < d /\ k - d \in 1 .. k - 1 /\ k - d \in 1 .. Len(s)
        /\ (k - d) + 1 = k - (d - 1) /\ k - (d - 1) \in 1 .. Len(s)
    BY <1>0, <1>3, <2>3, <2>4
  <2>6. Move(fields)[s[k - (d - 1)]] = s[k]
    <3>1. d \in Nat
      BY <1>0, <1>3, <2>3
    <3>2. d - 1 \notin T
      <4> HIDE DEF T
      <4> QED BY <2>2, <3>1
    <3> QED BY <2>5, <3>2
  <2>7. Move(fields)[s[k - d]] = Move(fields)[At(s, (k - d) + 1)]
    BY <1>3, <1>4, <2>5
  <2>8. At(s, (k - d) + 1) = s[k - (d - 1)]
    BY <2>5 DEF At
  <2> QED BY <2>3, <2>6, <2>7, <2>8
<1>6. Move(fields)[s[1]] = s[k]
  <2>1. k - 1 \in 0 .. k - 1 /\ k - (k - 1) = 1
    BY <1>0, <1>3
  <2> QED BY <1>5, <2>1
<1> QED BY <1>3, <1>6 DEF Stop

\* Woken behind a SHARED head: the locks in use before the first EXCLUSIVE one in use.
LEMMA BehindLine ==
  ASSUME NEW fields, Linkable(fields), NEW s \in Seq(Lock), Line(fields, s),
         NEW k \in 1 .. Len(s) + 1, NEW n \in 1 .. Len(s), k <= n, InUse(fields, s[n]),
         \A j \in k .. n : ~Barrier(fields, s[j])
  PROVE  s[n] \in Behind(fields)[At(s, k)]
<1> DEFINE S == {d \in 0 .. n - k : s[n] \notin Behind(fields)[At(s, n - d)]}
<1>0. Len(s) \in Nat /\ k \in Nat /\ n \in Nat
  OBVIOUS
<1>1. ASSUME NEW j \in k .. n
      PROVE  /\ At(s, j) = s[j]
             /\ Behind(fields)[s[j]]
                  = (IF InUse(fields, s[j]) THEN {s[j]} ELSE {}) \cup Behind(fields)[At(s, j + 1)]
  <2>1. j \in 1 .. Len(s)
    BY <1>0
  <2>2. s[j] \in Lock /\ s[j] # NoLock /\ At(s, j) = s[j] /\ s[j] \in Node
    BY <2>1, NoLockAssumption DEF At, Node
  <2>3. fields[s[j]].next = At(s, j + 1)
    BY <2>1 DEF Line
  <2>4. ~Barrier(fields, s[j])
    OBVIOUS
  <2>5. Behind(fields)[s[j]] = IF s[j] = NoLock \/ Barrier(fields, s[j]) THEN {}
          ELSE (IF InUse(fields, s[j]) THEN {s[j]} ELSE {})
               \cup Behind(fields)[fields[s[j]].next]
    BY <2>2, BehindStep
  <2> QED BY <2>2, <2>3, <2>4, <2>5
<1>2. ASSUME S # {} PROVE FALSE
  <2>1. S \in SUBSET Nat
    BY <1>0
  <2>2. PICK d \in S : \A c \in S : d <= c
    BY <1>2, <2>1, Least
  <2>3. d \in 0 .. n - k /\ s[n] \notin Behind(fields)[At(s, n - d)]
    OBVIOUS
  <2>4. d # 0
    <3>1. n - 0 = n /\ n \in k .. n
      BY <1>0
    <3> QED BY <1>1, <2>3, <3>1
  <2>5. d - 1 \in 0 .. n - k /\ d - 1 < d /\ n - d \in k .. n /\ (n - d) + 1 = n - (d - 1)
    BY <1>0, <2>3, <2>4
  <2>6. s[n] \in Behind(fields)[At(s, n - (d - 1))]
    <3>1. d - 1 \notin S
      BY <1>0, <2>2, <2>3, <2>5
    <3> QED BY <2>5, <3>1
  <2> QED BY <1>1, <2>3, <2>5, <2>6
<1>3. n - k \in 0 .. n - k /\ n - (n - k) = k
  BY <1>0
<1> QED BY <1>2, <1>3

\* Nothing else is woken.
LEMMA BehindOnly ==
  ASSUME NEW fields, Linkable(fields), NEW s \in Seq(Lock), Line(fields, s), Distinct(s),
         NEW k \in 1 .. Len(s) + 1, NEW m \in Behind(fields)[At(s, k)]
  PROVE  \E n \in k .. Len(s) : /\ m = s[n] /\ InUse(fields, m)
                                /\ \A j \in k .. n : ~Barrier(fields, s[j])
<1> DEFINE Good(j, x) == \E n \in j .. Len(s) : /\ x = s[n] /\ InUse(fields, x)
                                                /\ \A i \in j .. n : ~Barrier(fields, s[i])
           Claim(j) == \A x \in Behind(fields)[At(s, j)] : Good(j, x)
           S == {d \in 0 .. Len(s) + 1 - k : ~Claim(Len(s) + 1 - d)}
<1>0. Len(s) \in Nat /\ k \in Nat
  OBVIOUS
<1>1. Behind(fields)[NoLock] = {}
  BY BehindStep DEF Node
<1>2. Claim(Len(s) + 1)
  <2>1. At(s, Len(s) + 1) = NoLock
    BY <1>0 DEF At
  <2> QED BY <1>1, <2>1
<1>3. ASSUME NEW j \in 1 .. Len(s), Claim(j + 1) PROVE Claim(j)
  <2>1. s[j] \in Lock /\ s[j] # NoLock /\ At(s, j) = s[j] /\ s[j] \in Node
    BY NoLockAssumption DEF At, Node
  <2>2. fields[s[j]].next = At(s, j + 1)
    BY DEF Line
  <2>3. Behind(fields)[s[j]] = IF Barrier(fields, s[j]) THEN {}
          ELSE (IF InUse(fields, s[j]) THEN {s[j]} ELSE {}) \cup Behind(fields)[At(s, j + 1)]
    <3>1. Behind(fields)[s[j]] = IF s[j] = NoLock \/ Barrier(fields, s[j]) THEN {}
            ELSE (IF InUse(fields, s[j]) THEN {s[j]} ELSE {})
                 \cup Behind(fields)[fields[s[j]].next]
      BY <2>1, BehindStep
    <3> QED BY <2>1, <2>2, <3>1
  <2>4. ASSUME NEW x \in Behind(fields)[At(s, j)] PROVE Good(j, x)
    <3>1. ~Barrier(fields, s[j])
      BY <2>1, <2>3
    <3>2. CASE x = s[j] /\ InUse(fields, x)
      <4>1. j \in j .. Len(s) /\ \A i \in j .. j : i = j
        BY <1>0
      <4> QED BY <3>1, <3>2, <4>1
    <3>3. CASE x \in Behind(fields)[At(s, j + 1)]
      <4>1. PICK n \in j + 1 .. Len(s) : /\ x = s[n] /\ InUse(fields, x)
                                         /\ \A i \in j + 1 .. n : ~Barrier(fields, s[i])
        BY <1>3, <3>3
      <4>2. n \in j .. Len(s) /\ \A i \in j .. n : i = j \/ i \in j + 1 .. n
        BY <1>0
      <4> QED BY <3>1, <4>1, <4>2
    <3> QED BY <2>1, <2>3, <3>1, <3>2, <3>3
  <2> QED BY <2>4
<1> HIDE DEF Claim
<1>4. ASSUME S # {} PROVE FALSE
  <2>1. S \in SUBSET Nat
    BY <1>0
  <2>2. PICK d \in S : \A c \in S : d <= c
    BY <1>4, <2>1, Least
  <2>3. d \in 0 .. Len(s) + 1 - k /\ ~Claim(Len(s) + 1 - d)
    OBVIOUS
  <2>4. d # 0
    <3>1. Len(s) + 1 - 0 = Len(s) + 1
      BY <1>0
    <3> QED BY <1>2, <2>3, <3>1
  <2>5. /\ d - 1 \in 0 .. Len(s) + 1 - k /\ d - 1 < d /\ Len(s) + 1 - d \in 1 .. Len(s)
        /\ (Len(s) + 1 - d) + 1 = Len(s) + 1 - (d - 1)
    BY <1>0, <2>3, <2>4
  <2>6. Claim(Len(s) + 1 - (d - 1))
    BY <2>2, <2>3, <2>5
  <2> QED BY <1>3, <2>3, <2>5, <2>6
<1>5. Claim(k)
  <2>1. Len(s) + 1 - k \in 0 .. Len(s) + 1 - k /\ Len(s) + 1 - (Len(s) + 1 - k) = k
    BY <1>0
  <2> QED BY <1>4, <2>1
<1> QED BY <1>5 DEF Claim

-----------------------------------------------------------------------------
(* AcquireLock *)

\* What a lock is named by.
LEMMA LockIs ==
  ASSUME NEW l \in Lock
  PROVE  /\ Owner(l) \in Thread /\ Rec(l) \in Record /\ l[3] \in 1 .. MaxLocks /\ l[3] \in Nat
         /\ l = <<Owner(l), Rec(l), l[3]>>
BY BoundAssumption DEF Lock, Owner, Rec

\* The new lock is the thread's own, and is in no list.
LEMMA NewLockIs ==
  ASSUME NEW ord \in [Record -> Seq(Lock)], Types, QueueInv(ord),
         NEW t \in Thread, NEW r \in Record, NewLock(t, r) \in Lock
  PROVE  LET l == NewLock(t, r) IN
         /\ Owner(l) = t /\ Rec(l) = r
         /\ ~Created(l) \/ Recyclable(l)
         /\ ~In(ord[r], l)
         /\ \A x \in Lock : (x = l \/ Created(x))
              <=> x[3] <= [saved EXCEPT ![t][r] = IF l[3] > @ THEN l[3] ELSE @][Owner(x)][Rec(x)]
<1> DEFINE l == NewLock(t, r)
           own == {i \in 1 .. saved[t][r] : Recyclable(<<t, r, i>>)}
           after == [saved EXCEPT ![t][r] = IF l[3] > @ THEN l[3] ELSE @]
<1>0. saved[t][r] \in Nat
  BY BoundAssumption DEF Types
<1>1. l = IF own = {} THEN <<t, r, saved[t][r] + 1>>
          ELSE <<t, r, CHOOSE i \in own : \A j \in own : i <= j>>
  BY DEF NewLock
<1>2. Owner(l) = t /\ Rec(l) = r
  BY <1>1 DEF Owner, Rec
<1>3. \/ l[3] = saved[t][r] + 1
      \/ l[3] \in 1 .. saved[t][r] /\ Recyclable(l)
  <2>1. CASE own = {}
    BY <1>1, <2>1
  <2>2. CASE own # {}
    <3>1. own \in SUBSET Nat
      BY <1>0
    <3> HIDE DEF own
    <3>2. (CHOOSE i \in own : \A j \in own : i <= j) \in own
      BY <2>2, <3>1, Least
    <3> QED BY <1>1, <2>2, <3>2 DEF own
  <2> QED BY <2>1, <2>2
<1>4. l \in Lock
  OBVIOUS
<1> HIDE DEF l
<1>5. ~Created(l) \/ Recyclable(l)
  BY <1>0, <1>2, <1>3 DEF Created
<1>6. ~In(ord[r], l)
  <2>1. ASSUME In(ord[r], l) PROVE FALSE
    <3>1. Created(l)
      BY <1>2, <2>1 DEF In, QueueInv, ListInv
    <3>2. ~lk[l].headPass
      BY <1>2, <1>4, <2>1, <3>1 DEF QueueInv, LockInv
    <3> QED BY <1>5, <3>1, <3>2 DEF Recyclable
  <2> QED BY <2>1
<1>7. ASSUME NEW x \in Lock
      PROVE  (x = l \/ Created(x)) <=> x[3] <= after[Owner(x)][Rec(x)]
  <2>1. Owner(x) \in Thread /\ Rec(x) \in Record /\ x[3] \in Nat /\ x = <<Owner(x), Rec(x), x[3]>>
    BY LockIs
  <2>2. l[3] \in Nat /\ l = <<t, r, l[3]>>
    BY <1>2, <1>4, LockIs
  <2>3. after[t][r] = IF l[3] > saved[t][r] THEN l[3] ELSE saved[t][r]
    BY DEF Types
  <2>4. Owner(x) # t \/ Rec(x) # r => after[Owner(x)][Rec(x)] = saved[Owner(x)][Rec(x)]
    BY <2>1 DEF Types
  <2> HIDE DEF after
  <2>5. CASE Owner(x) # t \/ Rec(x) # r
    BY <1>2, <2>4, <2>5 DEF Created
  <2>6. CASE Owner(x) = t /\ Rec(x) = r
    <3>1. x = l <=> x[3] = l[3]
      BY <2>1, <2>2, <2>6
    <3>2. Created(x) <=> x[3] <= saved[t][r]
      BY <2>6 DEF Created
    <3>3. CASE l[3] = saved[t][r] + 1
      BY <1>0, <2>1, <2>2, <2>3, <2>6, <3>1, <3>2, <3>3
    <3>4. CASE l[3] <= saved[t][r]
      BY <1>0, <2>1, <2>2, <2>3, <2>6, <3>1, <3>2, <3>4
    <3> QED BY <1>0, <1>3, <3>3, <3>4
  <2> QED BY <2>5, <2>6
<1> QED BY <1>2, <1>5, <1>6, <1>7 DEF l

\* The lists once the lock stands at the end of its own.
Put(ord, l) == [ord EXCEPT ![Rec(l)] = Append(@, l)]

\* A list with a lock at its end.
LEMMA AppendIs ==
  ASSUME NEW s \in Seq(Lock), NEW l \in Lock
  PROVE  /\ Append(s, l) \in Seq(Lock) /\ Len(Append(s, l)) = Len(s) + 1
         /\ \A n \in 1 .. Len(s) : Append(s, l)[n] = s[n]
         /\ Append(s, l)[Len(s) + 1] = l
         /\ \A x : In(Append(s, l), x) <=> In(s, x) \/ x = l
<1> DEFINE q == Append(s, l)
<1>1. /\ q \in Seq(Lock) /\ Len(q) = Len(s) + 1 /\ Len(s) \in Nat
      /\ \A n \in 1 .. Len(s) : q[n] = s[n]
      /\ q[Len(s) + 1] = l
  OBVIOUS
<1> HIDE DEF q
<1>2. \A x : In(q, x) <=> In(s, x) \/ x = l
  BY <1>1 DEF In
<1> QED BY <1>1, <1>2 DEF q

\* The lists stay as they should when a lock is put at the end of one.
LEMMA InsertList ==
  ASSUME NEW s \in Seq(Lock), NEW l \in Lock, ~In(s, l), Distinct(s),
         NEW old, NEW new, Line(old, s), new[l].next = NoLock,
         \A x \in Lock \ {l} : new[x].next = IF x = At(s, Len(s)) THEN l ELSE old[x].next
  PROVE  LET q == Append(s, l) IN
         /\ Distinct(q) /\ Line(new, q)
         /\ (IF At(s, Len(s)) = NoLock THEN l ELSE At(s, 1)) = At(q, 1)
         /\ l = At(q, Len(q))
<1> DEFINE q == Append(s, l)
           h == At(s, 1)
           end == At(s, Len(s))
<1>1. /\ q \in Seq(Lock) /\ Len(q) = Len(s) + 1 /\ Len(s) \in Nat
      /\ \A n \in 1 .. Len(s) : q[n] = s[n] /\ s[n] \in Lock
      /\ q[Len(s) + 1] = l
  BY AppendIs
<1> HIDE DEF q
<1>2. \A n \in 1 .. Len(s) : s[n] # l
  BY DEF In
<1>3. \A n \in 1 .. Len(q) : n \in 1 .. Len(s) \/ n = Len(s) + 1
  BY <1>1
<1>4. Distinct(q)
  BY <1>1, <1>2, <1>3 DEF Distinct
<1>5. ASSUME NEW n \in 1 .. Len(q) PROVE new[q[n]].next = At(q, n + 1)
  <2>1. CASE n = Len(s) + 1
    BY <1>1, <2>1 DEF At
  <2>2. CASE n = Len(s)
    <3>1. q[n] = s[n] /\ s[n] \in Lock \ {l} /\ At(s, Len(s)) = s[n]
      BY <1>1, <1>2, <2>2 DEF At
    <3>2. At(q, n + 1) = l
      BY <1>1, <2>2 DEF At
    <3> QED BY <3>1, <3>2
  <2>3. CASE n \in 1 .. Len(s) /\ n # Len(s)
    <3>1. n + 1 \in 1 .. Len(s) /\ n + 1 \in 1 .. Len(q) /\ Len(s) \in 1 .. Len(s)
      BY <1>1, <2>3
    <3>2. At(s, Len(s)) = s[Len(s)] /\ s[Len(s)] # s[n] /\ s[n] \in Lock \ {l} /\ q[n] = s[n]
      BY <1>1, <1>2, <2>3, <3>1 DEF At, Distinct
    <3>3. new[q[n]].next = old[s[n]].next
      BY <3>2
    <3>4. At(q, n + 1) = At(s, n + 1)
      BY <1>1, <3>1 DEF At
    <3> QED BY <2>3, <3>3, <3>4 DEF Line
  <2> QED BY <1>3, <2>1, <2>2, <2>3
<1>6. end = NoLock <=> Len(s) = 0
  BY <1>1, NoLockAssumption DEF At
<1>7. (IF end = NoLock THEN l ELSE h) = At(q, 1)
  <2>1. CASE Len(s) = 0
    BY <1>1, <1>6, <2>1 DEF At
  <2>2. CASE Len(s) # 0
    BY <1>1, <1>6, <2>2 DEF At
  <2> QED BY <2>1, <2>2
<1>8. l = At(q, Len(q))
  BY <1>1 DEF At
<1> QED BY <1>4, <1>5, <1>7, <1>8 DEF q, Line

\* QueueInv holds after a lock that is in no list was put into one.
LEMMA PutQueue ==
  ASSUME NEW ord \in [Record -> Seq(Lock)], QueueInv(ord), Types,
         NEW l \in Lock, ~Created(l) \/ Recyclable(l), ~In(ord[Rec(l)], l),
         head' = NewFront(l), tail' = [tail EXCEPT ![Rec(l)] = l],
         \A x \in Lock : Created(x)' <=> x = l \/ Created(x),
         lk'[l].next = NoLock, ~lk'[l].headPass,
         \A x \in Lock \ {l} :
           /\ lk'[x].next = IF x = tail[Rec(l)] THEN l ELSE lk[x].next
           /\ lk'[x].headPass = lk[x].headPass
           /\ InUse(lk, x)' <=> InUse(lk, x)
  PROVE  QueueInv(Put(ord, l))'
<1> DEFINE r == Rec(l)
           q == Append(ord[r], l)
           ord2 == Put(ord, l)
<1>1. /\ r \in Record /\ ord[r] \in Seq(Lock)
      /\ \A p \in Record : ord2[p] = IF p = r THEN q ELSE ord[p]
  BY LockIs DEF Put
<1>2. /\ q \in Seq(Lock) /\ Len(q) = Len(ord[r]) + 1 /\ Len(ord[r]) \in Nat
      /\ \A n \in 1 .. Len(ord[r]) : q[n] = ord[r][n] /\ ord[r][n] \in Lock
      /\ q[Len(q)] = l
      /\ \A x : In(q, x) <=> In(ord[r], x) \/ x = l
  BY <1>1, AppendIs
<1>3. ListInv(ord[r], r)
  BY <1>1 DEF QueueInv
<1> HIDE DEF ord2
<1>4. Distinct(q) /\ Line(lk', q) /\ (IF tail[r] = NoLock THEN l ELSE head[r]) = At(q, 1)
      /\ l = At(q, Len(q))
  <2>1. /\ Distinct(ord[r]) /\ Line(lk, ord[r])
        /\ head[r] = At(ord[r], 1) /\ tail[r] = At(ord[r], Len(ord[r]))
    BY <1>3 DEF ListInv
  <2>2. ord[r] \in Seq(Lock) /\ ~In(ord[r], l)
    BY <1>1
  <2>3. /\ lk'[l].next = NoLock
        /\ \A x \in Lock \ {l} : lk'[x].next = IF x = tail[r] THEN l ELSE lk[x].next
    OBVIOUS
  <2>4. \A x \in Lock \ {l} :
          lk'[x].next = IF x = At(ord[r], Len(ord[r])) THEN l ELSE lk[x].next
    BY <2>1, <2>3
  <2> DEFINE s == ord[r]
             new == lk'
  <2>5. /\ s \in Seq(Lock) /\ ~In(s, l) /\ Distinct(s) /\ Line(lk, s) /\ new[l].next = NoLock
        /\ \A x \in Lock \ {l} : new[x].next = IF x = At(s, Len(s)) THEN l ELSE lk[x].next
    BY <2>1, <2>2, <2>3, <2>4
  <2> HIDE DEF s, new
  <2>6. LET p == Append(s, l) IN
         /\ Distinct(p) /\ Line(new, p)
         /\ (IF At(s, Len(s)) = NoLock THEN l ELSE At(s, 1)) = At(p, 1)
         /\ l = At(p, Len(p))
    BY <2>5, InsertList
  <2> QED BY <2>1, <2>6 DEF s, new
<1>5. head'[r] = (IF tail[r] = NoLock THEN l ELSE head[r]) /\ tail'[r] = l
  BY <1>1 DEF Types, NewFront
<1>6. \A p \in Record \ {r} : head'[p] = head[p] /\ tail'[p] = tail[p]
  BY DEF Types, NewFront
<1>7. ListInv(q, r)'
  <2>1. \A n \in 1 .. Len(q) : n \in 1 .. Len(ord[r]) \/ n = Len(q)
    BY <1>2
  <2>2. \A n \in 1 .. Len(q) : q[n] \in Lock /\ Rec(q[n]) = r /\ Created(q[n])'
    BY <1>2, <1>3, <2>1 DEF ListInv
  <2> HIDE DEF q
  <2> QED BY <1>4, <1>5, <2>2 DEF ListInv, Line
<1> HIDE DEF q
<1>8. ASSUME NEW p \in Record \ {r} PROVE ListInv(ord[p], p)'
  <2>1. ListInv(ord[p], p) /\ ord[p] \in Seq(Lock)
    BY DEF QueueInv
  <2>2. ASSUME NEW n \in 1 .. Len(ord[p])
        PROVE  LET x == ord[p][n] IN x \in Lock \ {l} /\ x # tail[r] /\ Created(x)' /\ Rec(x) = p
    <3>1. ord[p][n] \in Lock /\ Rec(ord[p][n]) = p /\ Created(ord[p][n])
      BY <2>1 DEF ListInv
    <3>2. tail[r] = NoLock \/ Rec(tail[r]) = r
      BY <1>2, <1>3 DEF ListInv, At
    <3> QED BY <3>1, <3>2, NoLockAssumption
  <2>3. Line(lk, ord[p])'
    BY <2>1, <2>2 DEF ListInv, Line
  <2> QED BY <1>6, <2>1, <2>2, <2>3 DEF ListInv
<1>9. ASSUME NEW x \in Lock, Created(x)' PROVE LockInv(ord2[Rec(x)], x)'
  <2>0. Rec(x) \in Record
    BY LockIs
  <2>1. CASE x = l
    <3>1. ord2[Rec(x)] = q /\ q # << >> /\ In(q, l)
      BY <1>1, <1>2, <2>1
    <3> QED BY <2>1, <3>1 DEF LockInv
  <2>2. CASE x # l
    <3>1. LockInv(ord[Rec(x)], x)
      BY <1>9, <2>2 DEF QueueInv
    <3>2. In(ord2[Rec(x)], x) <=> In(ord[Rec(x)], x)
      BY <1>1, <1>2, <2>0, <2>2
    <3>3. ord2[Rec(x)] # << >>
      BY <1>1, <1>2, <2>0, <3>1 DEF LockInv
    <3>4. lk'[x].headPass = lk[x].headPass /\ (InUse(lk, x)' <=> InUse(lk, x))
      BY <2>2
    <3> QED BY <3>1, <3>2, <3>3, <3>4 DEF LockInv
  <2> QED BY <2>1, <2>2
<1>10. \A p \in Record : ListInv(ord2[p], p)'
  BY <1>1, <1>7, <1>8
<1> QED BY <1>9, <1>10 DEF QueueInv, ord2

\* The transaction that runs is a sequence of requests for different records.
LEMMA ProgramIs ==
  ASSUME Types, NEW t \in Thread, trx[t] <= Len(Programs[t])
  PROVE  /\ Program(t) \in Seq(Request) /\ Program(t) # << >>
         /\ \A m, n \in 1 .. Len(Program(t)) : Program(t)[m].rec = Program(t)[n].rec => m = n
<1>1. Programs[t] \in Seq(Seq(Request)) /\ trx[t] \in Nat \ {0}
  BY ProgramAssumption DEF Types
<1>2. trx[t] \in 1 .. Len(Programs[t])
  BY <1>1
<1> DEFINE p == Programs[t][trx[t]]
<1>3. p \in Seq(Request)
  BY <1>1, <1>2
<1>4. p # << >> /\ \A m, n \in 1 .. Len(p) : p[m].rec = p[n].rec => m = n
  BY <1>2, ProgramAssumption
<1> HIDE DEF p
<1>5. p = Program(t)
  BY DEF p, Program
<1> QED BY <1>3, <1>4, <1>5

\* The first requests of the threads.
LEMMA InitInv == Init => IInv
<1> SUFFICES ASSUME Init PROVE IInv
  OBVIOUS
<1> DEFINE ord == [r \in Record |-> << >>]
<1>1. ord \in [Record -> Seq(Lock)]
  OBVIOUS
<1>2. Types
  BY BoundAssumption DEF Init, Types, Fields, FreshLock, Node, Mode, State
<1>3. \A l \in Lock : ~Created(l)
  <2>1. ASSUME NEW l \in Lock PROVE ~Created(l)
    <3>1. l[3] \in 1 .. MaxLocks /\ Owner(l) \in Thread /\ Rec(l) \in Record
      BY LockIs
    <3>2. saved[Owner(l)][Rec(l)] = 0
      BY <3>1 DEF Init
    <3> QED BY <3>1, <3>2, BoundAssumption DEF Created
  <2> QED BY <2>1
<1>4. QueueInv(ord)
  BY <1>3 DEF Init, QueueInv, ListInv, At, Distinct, Line
<1>5. GrantInv(ord)
  BY DEF GrantInv
<1>6. ASSUME NEW t \in Thread PROVE DequeInv(t) /\ StateInv(t)
  <2>1. deque[t] = << >> /\ trx[t] = 1 /\ released[t] = 0 /\ conflict[t] = NoLock /\ waitSet = {}
        /\ pc[t] = IF Programs[t] = << >> THEN "done" ELSE "acquire"
    BY DEF Init
  <2>2. Programs[t] \in Seq(Seq(Request))
    BY ProgramAssumption
  <2>3. pc[t] = "acquire" => trx[t] <= Len(Programs[t]) /\ Len(Program(t)) > 0
    <3>1. ASSUME pc[t] = "acquire" PROVE trx[t] <= Len(Programs[t]) /\ Len(Program(t)) > 0
      <4>1. trx[t] <= Len(Programs[t])
        BY <2>1, <2>2, <3>1
      <4>2. Program(t) \in Seq(Request) /\ Program(t) # << >>
        BY <1>2, <4>1, ProgramIs
      <4> QED BY <4>1, <4>2
    <3> QED BY <3>1
  <2>4. DequeInv(t)
    BY <2>1, <2>3 DEF DequeInv
  <2>5. StateInv(t)
    BY <1>3, <2>1 DEF StateInv
  <2> QED BY <2>4, <2>5
<1> HIDE DEF ord
<1> QED BY <1>1, <1>2, <1>4, <1>5, <1>6 DEF IInv, Inv

\* The fields of the locks once the new one is linked.
LEMMA LinkedIs ==
  ASSUME Types, NEW t \in Thread, NEW l \in Lock, Wanted(t).mode \in Mode, tail[Rec(l)] # l
  PROVE  LET fields == Linked(t, l) IN
         /\ fields \in [Lock -> Fields]
         /\ fields[l].mode = Wanted(t).mode /\ fields[l].next = NoLock
         /\ fields[l].state = "ACTIVE" /\ ~fields[l].headPass
         /\ \A x \in Lock \ {l} :
              /\ fields[x].mode = lk[x].mode /\ fields[x].state = lk[x].state
              /\ fields[x].headPass = lk[x].headPass
              /\ fields[x].next = IF x = tail[Rec(l)] THEN l ELSE lk[x].next
<1> DEFINE new == [FreshLock EXCEPT !.mode = Wanted(t).mode]
           base == [lk EXCEPT ![l] = new]
           fields == Linked(t, l)
<1>1. /\ new \in Fields /\ new.mode = Wanted(t).mode /\ new.next = NoLock
      /\ new.state = "ACTIVE" /\ ~new.headPass
  BY DEF FreshLock, Fields, State, Node
<1> HIDE DEF new
<1>2. base \in [Lock -> Fields] /\ base[l] = new /\ \A x \in Lock \ {l} : base[x] = lk[x]
  BY <1>1 DEF Types
<1>3. fields = IF tail[Rec(l)] = NoLock THEN base ELSE [base EXCEPT ![tail[Rec(l)]].next = l]
  BY DEF Linked, new
<1>4. Rec(l) \in Record /\ tail[Rec(l)] \in Node
  BY LockIs DEF Types
<1> HIDE DEF base, fields
<1>5. CASE tail[Rec(l)] = NoLock
  BY <1>1, <1>2, <1>3, <1>5, NoLockAssumption DEF fields
<1>6. CASE tail[Rec(l)] # NoLock
  <2> DEFINE e == tail[Rec(l)]
  <2>1. e \in Lock /\ e # l /\ base[e] \in Fields
    BY <1>2, <1>4, <1>6 DEF Node
  <2>2. /\ fields[e] = [base[e] EXCEPT !.next = l]
        /\ \A x \in Lock \ {e} : fields[x] = base[x]
        /\ fields = [x \in Lock |-> fields[x]]
    BY <1>2, <1>3, <1>6, <2>1
  <2>3. /\ fields[e] \in Fields /\ fields[e].next = l
        /\ fields[e].mode = base[e].mode /\ fields[e].state = base[e].state
        /\ fields[e].headPass = base[e].headPass
    BY <2>1, <2>2 DEF Fields
  <2> HIDE DEF e
  <2>4. fields \in [Lock -> Fields]
    BY <1>2, <2>2, <2>3
  <2>5. \A x \in Lock \ {l} :
          /\ fields[x].mode = lk[x].mode /\ fields[x].state = lk[x].state
          /\ fields[x].headPass = lk[x].headPass
          /\ fields[x].next = IF x = e THEN l ELSE lk[x].next
    BY <1>2, <2>1, <2>2, <2>3
  <2>6. fields[l] = new
    BY <1>2, <2>1, <2>2
  <2> QED BY <1>1, <2>4, <2>5, <2>6 DEF fields, e
<1> QED BY <1>5, <1>6

\* What a step of another thread leaves alone.
LEMMA OtherThread ==
  ASSUME NEW u \in Thread, Types, DequeInv(u), StateInv(u),
         deque'[u] = deque[u], pc'[u] = pc[u], trx'[u] = trx[u], released'[u] = released[u],
         conflict'[u] = conflict[u], u \in waitSet' => u \in waitSet,
         \A x \in Lock : Owner(x) = u => /\ Created(x)' <=> Created(x)
                                        /\ lk'[x].mode = lk[x].mode
                                        /\ lk'[x].state = lk[x].state
  PROVE  DequeInv(u)' /\ StateInv(u)'
<1>1. deque[u] \in Seq(Lock)
  BY DEF Types
<1>2. ASSUME NEW n \in 1 .. Len(deque[u])
      PROVE  LET x == deque[u][n] IN
             /\ x \in Lock /\ Owner(x) = u /\ Created(x) /\ Created(x)'
             /\ lk'[x].mode = lk[x].mode /\ lk'[x].state = lk[x].state
             /\ Rec(x) = Program(u)[n].rec /\ lk[x].mode = Program(u)[n].mode
  <2> DEFINE x == deque[u][n]
  <2>1. /\ x \in Lock /\ Owner(x) = u /\ Created(x)
        /\ Rec(x) = Program(u)[n].rec /\ lk[x].mode = Program(u)[n].mode
    BY <1>1 DEF DequeInv
  <2>2. PICK y \in Lock : y = x
    BY <2>1
  <2>3. Created(y)' /\ lk'[y].mode = lk[y].mode /\ lk'[y].state = lk[y].state
    BY <2>1, <2>2
  <2>4. x' = x
    OBVIOUS
  <2> HIDE DEF x
  <2> QED BY <2>1, <2>2, <2>3, <2>4 DEF Created, x
<1>3. Program(u)' = Program(u)
  BY DEF Program
<1>4. DequeInv(u)'
  BY <1>2, <1>3 DEF DequeInv
<1>5. StateInv(u)'
  BY <1>2 DEF StateInv, InUse
<1> QED BY <1>4, <1>5

\* What AcquireLock changes: the new lock l gets the state st.
Acquires(t, l, st) ==
  /\ pc[t] = "acquire" /\ l \in Lock /\ Owner(l) = t /\ Wanted(t).mode \in Mode
  /\ ~Created(l) \/ Recyclable(l)
  /\ \A x \in Lock : /\ Created(x)' <=> x = l \/ Created(x)
                     /\ x # l => lk'[x].mode = lk[x].mode /\ lk'[x].state = lk[x].state
  /\ lk'[l].mode = Wanted(t).mode /\ lk'[l].state = st
  /\ st # "WAIT" => UNCHANGED <<conflict, waitSet>>
  /\ st = "WAIT" =>
       /\ conflict' = [conflict EXCEPT ![t] = l] /\ waitSet' = waitSet \cup {t}
       /\ head' = NewFront(l) /\ ~IsDeadlock2(t, Linked(t, l), NewFront(l), l)
       /\ Linked(t, l) \in [Lock -> Fields]
       /\ \A x \in Lock : /\ Linked(t, l)[x].next = lk'[x].next
                          /\ Linked(t, l)[x].state # "OBSOLETE" <=> lk'[x].state # "OBSOLETE"

\* AcquireLock keeps the invariant, whichever way it ends.
LEMMA AcquireEffect ==
  ASSUME NEW ord \in [Record -> Seq(Lock)], Inv(ord), NEW t \in Thread, AcquireLock(t),
         NEW r, NEW l, r = Wanted(t).rec, l = NewLock(t, r)
  PROVE  /\ \E st \in {"ACTIVE", "WAIT", "OBSOLETE"} : Acquires(t, l, st)
         /\ Rec(l) = r /\ ~In(ord[r], l)
         /\ Put(ord, l) \in [Record -> Seq(Lock)] /\ Inv(Put(ord, l))'
<1> DEFINE fields == Linked(t, l)
           front == NewFront(l)
           mustWait == \E m \in From(fields, front[Rec(l)], l) :
                         InUse(fields, m) /\ Incompatible(fields[l].mode, fields[m].mode)
           q == Append(ord[r], l)
           ord2 == Put(ord, l)
<1>1. /\ Types /\ QueueInv(ord) /\ GrantInv(ord)
      /\ \A u \in Thread : DequeInv(u) /\ StateInv(u)
  BY DEF Inv
<1>2. /\ pc[t] = "acquire" /\ l \in Lock /\ Insert(l)
      /\ UNCHANGED <<trx, released>>
  BY DEF AcquireLock
<1>26. PICK st \in {"ACTIVE", "WAIT", "OBSOLETE"} :
         \/ /\ st = "ACTIVE" /\ ~mustWait /\ lk' = fields
            /\ Granted(t, Len(deque[t]) + 1) /\ UNCHANGED <<conflict, waitSet>>
         \/ /\ st = "WAIT" /\ mustWait /\ ~IsDeadlock2(t, fields, front, l)
            /\ lk' = [fields EXCEPT ![l].state = "WAIT"]
            /\ conflict' = [conflict EXCEPT ![t] = l]
            /\ waitSet' = waitSet \cup {t} /\ Goto(t, "asleep")
         \/ /\ st = "OBSOLETE" /\ mustWait /\ lk' = [fields EXCEPT ![l].state = "OBSOLETE"]
            /\ Goto(t, "release") /\ UNCHANGED <<conflict, waitSet>>
  <2> HIDE DEF mustWait
  <2> QED BY DEF AcquireLock, mustWait
<1>3. /\ trx[t] <= Len(Programs[t]) /\ Len(deque[t]) < Len(Program(t)) /\ Len(deque[t]) \in Nat
      /\ deque[t] \in Seq(Lock) /\ released[t] = 0
  BY <1>1, <1>2 DEF DequeInv, Types
<1>4. /\ Program(t) \in Seq(Request)
      /\ \A m, n \in 1 .. Len(Program(t)) : Program(t)[m].rec = Program(t)[n].rec => m = n
  BY <1>1, <1>3, ProgramIs
<1>5. Wanted(t) \in Request /\ r \in Record /\ Wanted(t).mode \in Mode
  <2>1. Len(deque[t]) + 1 \in 1 .. Len(Program(t))
    BY <1>3, <1>4
  <2>2. Wanted(t) \in Request
    BY <1>4, <2>1 DEF Wanted
  <2> QED BY <2>2 DEF Request
<1> HIDE DEF mustWait
<1>6. /\ Owner(l) = t /\ Rec(l) = r
      /\ ~Created(l) \/ Recyclable(l)
      /\ ~In(ord[r], l)
      /\ \A x \in Lock : (x = l \/ Created(x))
           <=> x[3] <= [saved EXCEPT ![t][r] = IF l[3] > @ THEN l[3] ELSE @][Owner(x)][Rec(x)]
  BY <1>1, <1>2, <1>5, NewLockIs
<1>7. /\ saved' = [saved EXCEPT ![t][r] = IF l[3] > @ THEN l[3] ELSE @]
      /\ deque' = [deque EXCEPT ![t] = Append(@, l)]
      /\ head' = front
      /\ tail' = [tail EXCEPT ![r] = l]
      /\ trx' = trx /\ released' = released
  BY <1>2, <1>6 DEF Insert
<1>8. \A x \in Lock : Created(x)' <=> x = l \/ Created(x)
  BY <1>6, <1>7 DEF Created
<1>9. /\ ListInv(ord[r], r) /\ ord[r] \in Seq(Lock)
      /\ tail[r] # l /\ tail[r] \in Node
  <2>1. ListInv(ord[r], r) /\ ord[r] \in Seq(Lock)
    BY <1>1, <1>5 DEF QueueInv
  <2>2. tail[r] # l
    <3>1. ASSUME tail[r] = l PROVE FALSE
      <4>1. At(ord[r], Len(ord[r])) = l
        BY <2>1, <3>1 DEF ListInv
      <4>2. In(ord[r], l)
        BY <1>2, <2>1, <4>1, NoLockAssumption DEF At, In
      <4> QED BY <1>6, <4>2
    <3> QED BY <3>1
  <2> QED BY <1>1, <1>5, <2>1, <2>2 DEF Types
<1>10. /\ fields \in [Lock -> Fields]
       /\ fields[l].mode = Wanted(t).mode /\ fields[l].next = NoLock
       /\ fields[l].state = "ACTIVE" /\ ~fields[l].headPass
       /\ \A x \in Lock \ {l} :
            /\ fields[x].mode = lk[x].mode /\ fields[x].state = lk[x].state
            /\ fields[x].headPass = lk[x].headPass
            /\ fields[x].next = IF x = tail[r] THEN l ELSE lk[x].next
  BY <1>1, <1>2, <1>5, <1>6, <1>9, LinkedIs
<1> HIDE DEF fields
<1>11. /\ lk' \in [Lock -> Fields]
       /\ lk'[l].mode = Wanted(t).mode /\ lk'[l].next = NoLock
       /\ lk'[l].state = st /\ ~lk'[l].headPass
       /\ \A x \in Lock \ {l} : lk'[x] = fields[x]
  <2>1. CASE st = "ACTIVE" /\ lk' = fields
    BY <1>10, <2>1
  <2>2. CASE st \in {"WAIT", "OBSOLETE"} /\ lk' = [fields EXCEPT ![l].state = st]
    <3>1. /\ lk'[l] = [fields[l] EXCEPT !.state = st] /\ \A x \in Lock \ {l} : lk'[x] = fields[x]
          /\ lk' = [x \in Lock |-> lk'[x]] /\ fields[l] \in Fields
      BY <1>2, <1>10, <2>2
    <3>2. /\ lk'[l] \in Fields /\ lk'[l].mode = fields[l].mode /\ lk'[l].next = fields[l].next
          /\ lk'[l].state = st /\ lk'[l].headPass = fields[l].headPass
      <4>1. st \in State
        BY <2>2 DEF State
      <4> DEFINE f == fields[l]
                 g == lk'[l]
      <4>2. f \in Fields /\ g = [f EXCEPT !.state = st]
        BY <3>1
      <4> HIDE DEF f, g
      <4>3. g \in Fields /\ g.mode = f.mode /\ g.next = f.next /\ g.state = st
            /\ g.headPass = f.headPass
        BY <4>1, <4>2 DEF Fields
      <4> QED BY <4>3 DEF f, g
    <3>3. \A x \in Lock : lk'[x] \in Fields
      BY <1>10, <3>1, <3>2
    <3> QED BY <1>10, <3>1, <3>2, <3>3
  <2> QED BY <1>26, <2>1, <2>2
<1>12. /\ \A x \in Lock \ {l} :
            /\ lk'[x].mode = lk[x].mode /\ lk'[x].state = lk[x].state
            /\ lk'[x].headPass = lk[x].headPass
            /\ InUse(lk, x)' <=> InUse(lk, x)
            /\ lk'[x].next = IF x = tail[r] THEN l ELSE lk[x].next
       /\ InUse(lk, l)' <=> st # "OBSOLETE"
  <2>1. ASSUME NEW x \in Lock \ {l}
        PROVE  /\ lk'[x].mode = lk[x].mode /\ lk'[x].state = lk[x].state
               /\ lk'[x].headPass = lk[x].headPass
               /\ lk'[x].next = IF x = tail[r] THEN l ELSE lk[x].next
    <3>1. lk'[x] = fields[x]
      BY <1>11
    <3> QED BY <1>10, <3>1
  <2>2. \A x : InUse(lk, x)' <=> lk'[x].state # "OBSOLETE"
    BY DEF InUse
  <2>3. \A x : InUse(lk, x) <=> lk[x].state # "OBSOLETE"
    BY DEF InUse
  <2> QED BY <1>11, <2>1, <2>2, <2>3
<1>13. QueueInv(ord2)'
  <2>1. /\ ~In(ord[Rec(l)], l) /\ (~Created(l) \/ Recyclable(l))
        /\ head' = NewFront(l) /\ tail' = [tail EXCEPT ![Rec(l)] = l]
        /\ lk'[l].next = NoLock /\ ~lk'[l].headPass
    BY <1>6, <1>7, <1>11
  <2>2. \A x \in Lock \ {l} :
           /\ lk'[x].next = IF x = tail[Rec(l)] THEN l ELSE lk[x].next
           /\ lk'[x].headPass = lk[x].headPass
           /\ InUse(lk, x)' <=> InUse(lk, x)
    BY <1>6, <1>12
  <2> HIDE DEF front
  <2> QED BY <1>1, <1>2, <1>8, <2>1, <2>2, PutQueue
<1>14. Types'
  <2>1. saved' \in [Thread -> [Record -> 0 .. MaxLocks]]
    <3>1. l[3] \in 0 .. MaxLocks
      BY <1>2, LockIs
    <3> QED BY <1>1, <1>5, <1>7, <3>1 DEF Types
  <2>2. deque' \in [Thread -> Seq(Lock)]
    BY <1>1, <1>2, <1>7 DEF Types
  <2>3. head' \in [Record -> Node] /\ tail' \in [Record -> Node]
    BY <1>1, <1>2, <1>7 DEF Types, NewFront, Node
  <2>4. /\ conflict' \in [Thread -> Node] /\ waitSet' \subseteq Thread
        /\ pc' \in [Thread -> {"acquire", "asleep", "release", "done"}]
    <3> HIDE DEF mustWait, fields, front, q, ord2
    <3>1. /\ conflict \in [Thread -> Node] /\ waitSet \subseteq Thread /\ l \in Node
          /\ pc \in [Thread -> {"acquire", "asleep", "release", "done"}]
      BY <1>1, <1>2 DEF Types, Node
    <3>2. \/ conflict' = conflict /\ waitSet' = waitSet
          \/ conflict' = [conflict EXCEPT ![t] = l] /\ waitSet' = waitSet \cup {t}
      BY <1>26
    <3>3. \E place \in {"acquire", "asleep", "release"} : pc' = [pc EXCEPT ![t] = place]
      BY <1>26 DEF Goto, Granted
    <3> QED BY <3>1, <3>2, <3>3
  <2> QED BY <1>1, <1>7, <1>11, <2>1, <2>2, <2>3, <2>4 DEF Types
<1>15. ord2 \in [Record -> Seq(Lock)]
  <2>1. Append(ord[Rec(l)], l) \in Seq(Lock)
    BY <1>2, <1>6, <1>9, AppendIs
  <2> QED BY <2>1 DEF Put
<1>16. /\ q \in Seq(Lock) /\ Len(q) = Len(ord[r]) + 1 /\ Len(ord[r]) \in Nat
       /\ \A n \in 1 .. Len(ord[r]) : q[n] = ord[r][n] /\ ord[r][n] \in Lock \ {l}
       /\ q[Len(q)] = l
  <2>1. \A n \in 1 .. Len(ord[r]) : ord[r][n] # l
    BY <1>6 DEF In
  <2> QED BY <1>2, <1>9, <2>1, AppendIs
<1>17. mustWait <=> \E j \in 1 .. Len(ord[r]) :
                      InUse(lk, ord[r][j]) /\ Incompatible(Wanted(t).mode, lk[ord[r][j]].mode)
  <2>1. /\ Distinct(ord[r]) /\ Line(lk, ord[r])
        /\ head[r] = At(ord[r], 1) /\ tail[r] = At(ord[r], Len(ord[r]))
    BY <1>9 DEF ListInv
  <2>2. Distinct(q) /\ Line(fields, q) /\ (IF tail[r] = NoLock THEN l ELSE head[r]) = At(q, 1)
    <3>1. /\ ord[r] \in Seq(Lock) /\ ~In(ord[r], l) /\ fields[l].next = NoLock
          /\ \A x \in Lock \ {l} :
               fields[x].next = IF x = At(ord[r], Len(ord[r])) THEN l ELSE lk[x].next
      BY <1>6, <1>9, <1>10, <2>1
    <3> DEFINE s == ord[r]
    <3>2. /\ s \in Seq(Lock) /\ ~In(s, l) /\ Distinct(s) /\ Line(lk, s) /\ fields[l].next = NoLock
          /\ \A x \in Lock \ {l} : fields[x].next = IF x = At(s, Len(s)) THEN l ELSE lk[x].next
      BY <2>1, <3>1
    <3> HIDE DEF s
    <3>3. LET z == Append(s, l) IN
           /\ Distinct(z) /\ Line(fields, z)
           /\ (IF At(s, Len(s)) = NoLock THEN l ELSE At(s, 1)) = At(z, 1)
           /\ l = At(z, Len(z))
      BY <1>2, <3>2, InsertList, SMTT(60)
    <3> QED BY <2>1, <3>3 DEF s
  <2>3. front[Rec(l)] = At(q, 1)
    BY <1>1, <1>5, <1>6, <2>2 DEF NewFront, Types
  <2>4. Linkable(fields)
    BY <1>10 DEF Linkable, Fields, Node
  <2> HIDE DEF q, front
  <2>5. From(fields, front[Rec(l)], l) = {q[j] : j \in 1 .. Len(ord[r])}
    <3>1. Len(q) \in 1 .. Len(q) /\ Len(q) - 1 = Len(ord[r])
      BY <1>16
    <3>2. \A n \in 1 .. Len(q) : From(fields, At(q, 1), q[n]) = {q[j] : j \in 1 .. n - 1}
      <4>1. q \in Seq(Lock) /\ Line(fields, q) /\ Distinct(q)
        BY <1>16, <2>2
      <4> QED BY <2>4, <4>1, FromHead
    <3> QED BY <1>16, <2>3, <3>1, <3>2
  <2>6. mustWait <=> \E j \in 1 .. Len(ord[r]) :
                       InUse(fields, q[j]) /\ Incompatible(fields[l].mode, fields[q[j]].mode)
    BY <2>5 DEF mustWait
  <2>7. ASSUME NEW j \in 1 .. Len(ord[r])
        PROVE  /\ q[j] = ord[r][j] /\ fields[q[j]].mode = lk[ord[r][j]].mode
               /\ InUse(fields, q[j]) <=> InUse(lk, ord[r][j])
    BY <1>10, <1>16 DEF InUse
  <2> QED BY <1>10, <2>6, <2>7
<1>18. ASSUME NEW x \in Lock \ {l}, Created(x), lk[x].state = "WAIT"
       PROVE  Owner(x) # t /\ (Owner(x) \in waitSet' <=> Owner(x) \in waitSet)
  <2>1. Owner(x) # t
    <3>1. ASSUME Owner(x) = t PROVE FALSE
      <4>1. In(deque[t], x)
        BY <1>1, <1>18, <3>1 DEF StateInv, InUse
      <4>2. PICK n \in 1 .. Len(deque[t]) : deque[t][n] = x
        BY <4>1 DEF In
      <4>3. lk[x].state = "ACTIVE"
        BY <1>1, <1>2, <1>3, <4>2 DEF StateInv
      <4> QED BY <1>18, <4>3
    <3> QED BY <3>1
  <2>2. waitSet' = waitSet \/ waitSet' = waitSet \cup {t}
    BY <1>26
  <2> QED BY <2>1, <2>2
<1>19. ASSUME NEW p \in Record, NEW n \in 1 .. Len(ord[p])
       PROVE  InUse(lk, ord[p][n])' =>
                (Blocked(lk, ord[p], n)' <=> lk'[ord[p][n]].state = "WAIT" /\ Owner(ord[p][n]) \in waitSet')
  <2>1. ListInv(ord[p], p) /\ ord[p] \in Seq(Lock) /\ Len(ord[p]) \in Nat
    BY <1>1 DEF QueueInv
  <2>2. ASSUME NEW m \in 1 .. Len(ord[p]) PROVE ord[p][m] \in Lock \ {l} /\ Created(ord[p][m])
    <3>1. ord[p][m] \in Lock /\ Created(ord[p][m]) /\ Rec(ord[p][m]) = p
      BY <2>1 DEF ListInv
    <3>2. ord[p][m] # l
      BY <1>6, <3>1 DEF In
    <3> QED BY <3>1, <3>2
  <2>3. ASSUME NEW m \in 1 .. Len(ord[p])
        PROVE  /\ lk'[ord[p][m]].mode = lk[ord[p][m]].mode
               /\ lk'[ord[p][m]].state = lk[ord[p][m]].state
               /\ InUse(lk, ord[p][m])' <=> InUse(lk, ord[p][m])
    BY <1>12, <2>2
  <2>4. Blocked(lk, ord[p], n)' <=> Blocked(lk, ord[p], n)
    <3>1. \A m \in 1 .. n - 1 : m \in 1 .. Len(ord[p])
      BY <2>1
    <3> QED BY <2>3, <3>1 DEF Blocked
  <2>5. InUse(lk, ord[p][n]) =>
          (Blocked(lk, ord[p], n) <=> lk[ord[p][n]].state = "WAIT" /\ Owner(ord[p][n]) \in waitSet)
    BY <1>1 DEF GrantInv
  <2>6. lk[ord[p][n]].state = "WAIT" =>
          (Owner(ord[p][n]) \in waitSet' <=> Owner(ord[p][n]) \in waitSet)
    BY <1>18, <2>2
  <2> QED BY <2>3, <2>4, <2>5, <2>6
<1>20. InUse(lk, l)' => (Blocked(lk, q, Len(q))' <=> lk'[l].state = "WAIT" /\ Owner(l) \in waitSet')
  <2>1. Blocked(lk, q, Len(q))' <=> mustWait
    <3>1. ASSUME NEW j \in 1 .. Len(ord[r])
          PROVE  /\ lk'[q[j]].mode = lk[ord[r][j]].mode
                 /\ InUse(lk, q[j])' <=> InUse(lk, ord[r][j])
      <4>1. q[j] = ord[r][j] /\ ord[r][j] \in Lock \ {l}
        BY <1>16
      <4> QED BY <1>12, <4>1
    <3>2. lk'[q[Len(q)]].mode = Wanted(t).mode /\ Len(q) - 1 = Len(ord[r])
      BY <1>11, <1>16
    <3> HIDE DEF q
    <3> QED BY <1>17, <3>1, <3>2 DEF Blocked
  <2> HIDE DEF q
  <2> QED BY <1>2, <1>26, <1>6, <1>11, <1>12, <2>1
<1>21. GrantInv(ord2)'
  <2>1. \A p \in Record : ord2[p] = IF p = r THEN q ELSE ord[p]
    BY <1>5, <1>6 DEF Put
  <2> HIDE DEF ord2
  <2>2. ASSUME NEW p \in Record, NEW n \in 1 .. Len(ord2[p])
        PROVE  LET x == ord2[p][n] IN
               InUse(lk, x)' => (Blocked(lk, ord2[p], n)' <=> lk'[x].state = "WAIT" /\ Owner(x) \in waitSet')
    <3>1. CASE p # r
      BY <1>19, <2>1, <3>1
    <3>2. CASE p = r /\ n = Len(q)
      BY <1>16, <1>20, <2>1, <3>2
    <3>3. CASE p = r /\ n # Len(q)
      <4>1. n \in 1 .. Len(ord[r]) /\ ord2[p] = q
        <5>1. ord2[p] = q
          BY <2>1, <3>3
        <5> HIDE DEF q
        <5> QED BY <1>16, <3>3, <5>1
      <4>2. q[n] = ord[r][n] /\ \A m \in 1 .. n - 1 : q[m] = ord[r][m]
        BY <1>16, <4>1
      <4>3. Blocked(lk, q, n)' <=> Blocked(lk, ord[r], n)'
        <5> HIDE DEF q
        <5> QED BY <4>2 DEF Blocked
      <4> HIDE DEF q
      <4> QED BY <1>5, <1>19, <4>1, <4>2, <4>3, SMTT(60)
    <3> QED BY <3>1, <3>2, <3>3
  <2> QED BY <2>2 DEF GrantInv
<1>22. DequeInv(t)' /\ StateInv(t)'
  <2> DEFINE N == Len(deque[t])
  <2>1. /\ deque'[t] \in Seq(Lock) /\ Len(deque'[t]) = N + 1 /\ N \in Nat
        /\ \A n \in 1 .. N : deque'[t][n] = deque[t][n]
        /\ deque'[t][N + 1] = l
        /\ \A x : In(deque'[t], x) <=> In(deque[t], x) \/ x = l
    <3>1. deque'[t] = Append(deque[t], l)
      BY <1>1, <1>7 DEF Types
    <3> QED BY <1>2, <1>3, <3>1, AppendIs
  <2>2. trx'[t] = trx[t] /\ released'[t] = 0 /\ Program(t)' = Program(t)
    BY <1>3, <1>7 DEF Program
  <2>3. conflict[t] = NoLock /\ t \notin waitSet
    BY <1>1, <1>2 DEF StateInv
  <2>4. \/ /\ st = "ACTIVE" /\ conflict'[t] = NoLock /\ t \notin waitSet'
           /\ pc'[t] = IF N + 1 = Len(Program(t)) THEN "release" ELSE "acquire"
        \/ st = "WAIT" /\ conflict'[t] = l /\ pc'[t] = "asleep"
        \/ st = "OBSOLETE" /\ conflict'[t] = NoLock /\ t \notin waitSet' /\ pc'[t] = "release"
    BY <1>1, <1>26, <2>3 DEF Types, Goto, Granted
  <2>5. ASSUME NEW n \in 1 .. N
        PROVE  LET x == deque[t][n] IN
               /\ x \in Lock \ {l} /\ Owner(x) = t /\ Created(x) /\ Created(x)'
               /\ Rec(x) = Program(t)[n].rec /\ lk'[x].mode = Program(t)[n].mode
               /\ lk'[x].state = "ACTIVE"
    <3>1. PICK x \in Lock : x = deque[t][n]
      BY <1>3
    <3>2. /\ Owner(x) = t /\ Created(x) /\ Rec(x) = Program(t)[n].rec
          /\ lk[x].mode = Program(t)[n].mode
      BY <1>1, <3>1 DEF DequeInv
    <3>3. lk[x].state = "ACTIVE"
      BY <1>1, <1>2, <1>3, <3>1 DEF StateInv
    <3>4. x # l
      <4>1. Program(t)[n].rec # Program(t)[N + 1].rec
        <5>1. n \in 1 .. Len(Program(t)) /\ N + 1 \in 1 .. Len(Program(t)) /\ n # N + 1
          BY <1>3, <1>4
        <5> QED BY <1>4, <5>1
      <4> QED BY <1>6, <3>2, <4>1 DEF Wanted
    <3>5. Created(x)' /\ lk'[x].mode = lk[x].mode /\ lk'[x].state = lk[x].state
      BY <1>8, <1>12, <3>2, <3>4
    <3> QED BY <1>7, <3>1, <3>2, <3>3, <3>4, <3>5 DEF Created
  <2>6. /\ Created(l)' /\ Rec(l) = Program(t)[N + 1].rec /\ lk'[l].mode = Program(t)[N + 1].mode
        /\ lk'[l].state = st
    BY <1>2, <1>6, <1>8, <1>11 DEF Wanted
  <2>7. N + 1 <= Len(Program(t)) /\ trx[t] <= Len(Programs[t])
    BY <1>3, <1>4
  <2>8. ASSUME NEW x \in Lock, Owner(x) = t, Created(x)', InUse(lk, x)' PROVE In(deque'[t], x)
    <3>1. CASE x = l
      BY <2>1, <3>1
    <3>2. CASE x # l
      <4>1. Created(x) /\ InUse(lk, x)
        BY <1>8, <1>12, <2>8, <3>2
      <4> QED BY <1>1, <2>1, <2>8, <4>1 DEF StateInv
    <3> QED BY <3>1, <3>2
  <2> HIDE DEF N
  <2>9. \A n \in 1 .. Len(deque'[t]) : n \in 1 .. N \/ n = N + 1
    BY <2>1
  <2>10. DequeInv(t)'
    <3>1. ASSUME NEW n \in 1 .. Len(deque'[t])
          PROVE  LET y == deque'[t][n] IN
                 /\ Owner(y) = t /\ y[3] <= saved'[Owner(y)][Rec(y)]
                 /\ Rec(y) = Program(t)[n].rec /\ lk'[y].mode = Program(t)[n].mode
      <4>1. CASE n \in 1 .. N
        BY <2>1, <2>5, <4>1 DEF Created
      <4>2. CASE n = N + 1
        BY <1>6, <2>1, <2>6, <4>2 DEF Created
      <4> QED BY <2>9, <4>1, <4>2
    <3>2. /\ pc'[t] # "done" /\ trx'[t] <= Len(Programs[t])
          /\ Len(deque'[t]) <= Len(Program(t)) /\ Len(deque'[t]) > 0
          /\ pc'[t] = "acquire" => Len(deque'[t]) < Len(Program(t))
          /\ released'[t] = 0
      BY <1>4, <2>1, <2>2, <2>4, <2>7
    <3> QED BY <2>1, <2>2, <3>1, <3>2 DEF DequeInv, Created
  <2>11. StateInv(t)'
    <3>1. conflict'[t] = IF pc'[t] = "asleep" THEN deque'[t][Len(deque'[t])] ELSE NoLock
      BY <2>1, <2>4
    <3>2. t \in waitSet' => pc'[t] = "asleep"
      BY <2>4
    <3>3. ASSUME NEW n \in 1 .. Len(deque'[t])
          PROVE  LET state == lk'[deque'[t][n]].state IN
                 /\ n <= released'[t] => state = "OBSOLETE"
                 /\ n > released'[t] /\ n < Len(deque'[t]) => state = "ACTIVE"
                 /\ n > released'[t] /\ n = Len(deque'[t]) =>
                      CASE pc'[t] = "acquire" -> state = "ACTIVE"
                        [] pc'[t] = "asleep" -> state = "WAIT"
                        [] OTHER -> state \in {"ACTIVE", "OBSOLETE"}
      <4>1. n > 0 /\ n # 0
        BY <2>1
      <4>2. CASE n \in 1 .. N
        BY <2>1, <2>2, <2>5, <4>1, <4>2
      <4>3. CASE n = N + 1
        BY <2>1, <2>2, <2>4, <2>6, <4>1, <4>3
      <4> QED BY <2>9, <4>2, <4>3
    <3> QED BY <2>8, <3>1, <3>2, <3>3 DEF StateInv
  <2> QED BY <2>10, <2>11
<1>23. ASSUME NEW u \in Thread \ {t} PROVE DequeInv(u)' /\ StateInv(u)'
  <2>1. /\ deque'[u] = deque[u] /\ trx'[u] = trx[u] /\ released'[u] = released[u]
    BY <1>1, <1>7 DEF Types
  <2>2. pc'[u] = pc[u] /\ conflict'[u] = conflict[u] /\ (u \in waitSet' => u \in waitSet)
    BY <1>1, <1>26 DEF Types, Goto, Granted
  <2>3. \A x \in Lock : Owner(x) = u => /\ Created(x)' <=> Created(x)
                                        /\ lk'[x].mode = lk[x].mode
                                        /\ lk'[x].state = lk[x].state
    BY <1>6, <1>8, <1>12
  <2> QED BY <1>1, <2>1, <2>2, <2>3, OtherThread
<1>24. Inv(ord2)'
  <2> HIDE DEF ord2
  <2> QED BY <1>13, <1>14, <1>21, <1>22, <1>23 DEF Inv
<1>25. Acquires(t, l, st)
  <2>1. \A x \in Lock : /\ Created(x)' <=> x = l \/ Created(x)
                        /\ x # l => lk'[x].mode = lk[x].mode /\ lk'[x].state = lk[x].state
    BY <1>8, <1>12
  <2>2. st # "WAIT" => UNCHANGED <<conflict, waitSet>>
    BY <1>26
  <2>3. st = "WAIT" => /\ conflict' = [conflict EXCEPT ![t] = l] /\ waitSet' = waitSet \cup {t}
                       /\ ~IsDeadlock2(t, fields, front, l)
    BY <1>26
  <2>4. st = "WAIT" => \A x \in Lock : /\ fields[x].next = lk'[x].next
                                       /\ fields[x].state # "OBSOLETE" <=> lk'[x].state # "OBSOLETE"
    BY <1>10, <1>11
  <2>5. st = "WAIT" =>
          /\ conflict' = [conflict EXCEPT ![t] = l] /\ waitSet' = waitSet \cup {t}
          /\ head' = NewFront(l) /\ ~IsDeadlock2(t, Linked(t, l), NewFront(l), l)
          /\ Linked(t, l) \in [Lock -> Fields]
          /\ \A x \in Lock : /\ Linked(t, l)[x].next = lk'[x].next
                             /\ Linked(t, l)[x].state # "OBSOLETE" <=> lk'[x].state # "OBSOLETE"
    BY <1>7, <1>10, <2>3, <2>4 DEF fields
  <2> QED BY <1>2, <1>5, <1>6, <1>11, <2>1, <2>2, <2>5 DEF Acquires
<1> QED
  <2> HIDE DEF ord2
  <2>1. ord2 \in [Record -> Seq(Lock)] /\ Inv(ord2)' /\ \E x \in {"ACTIVE", "WAIT", "OBSOLETE"} : Acquires(t, l, x)
    BY <1>15, <1>24, <1>25
  <2> QED BY <1>6, <2>1 DEF ord2

-----------------------------------------------------------------------------
(* The rest of AcquireLock, after the wait *)

\* What the thread changes that has slept.
Awakes(t) ==
  /\ t \notin waitSet /\ conflict[t] \in Lock
  /\ conflict' = [conflict EXCEPT ![t] = NoLock] /\ waitSet' = waitSet
  /\ \A x \in Lock : /\ Created(x)' <=> Created(x)
                     /\ lk'[x].mode = lk[x].mode
                     /\ InUse(lk, x)' <=> InUse(lk, x)
                     /\ x # conflict[t] => lk'[x].state = lk[x].state

\* A thread that returns from cond.wait() keeps the invariant: it was woken because nothing
\* incompatible is left before its lock.
LEMMA AwakeEffect ==
  ASSUME NEW ord \in [Record -> Seq(Lock)], Inv(ord), NEW t \in Thread, Awake(t)
  PROVE  Awakes(t) /\ Inv(ord)'
<1>1. /\ Types /\ QueueInv(ord) /\ GrantInv(ord)
      /\ \A u \in Thread : DequeInv(u) /\ StateInv(u)
  BY DEF Inv
<1>2. /\ pc[t] = "asleep" /\ t \notin waitSet
      /\ lk' = [lk EXCEPT ![conflict[t]].state = "ACTIVE"]
      /\ conflict' = [conflict EXCEPT ![t] = NoLock]
      /\ Granted(t, Len(deque[t]))
      /\ UNCHANGED <<head, tail, waitSet, saved, deque, trx, released>>
  BY DEF Awake
<1>3. /\ deque[t] \in Seq(Lock) /\ Len(deque[t]) \in Nat /\ Len(deque[t]) > 0
      /\ released[t] = 0 /\ conflict[t] = deque[t][Len(deque[t])]
      /\ Len(deque[t]) <= Len(Program(t)) /\ trx[t] <= Len(Programs[t])
  BY <1>1, <1>2 DEF DequeInv, StateInv, Types
<1>4. PICK c \in Lock : c = conflict[t]
  <2>1. Len(deque[t]) \in 1 .. Len(deque[t])
    BY <1>3
  <2> QED BY <1>3, <2>1
<1>5. Owner(c) = t /\ Created(c) /\ lk[c].state = "WAIT"
  <2>1. Len(deque[t]) \in 1 .. Len(deque[t]) /\ Len(deque[t]) > released[t]
    BY <1>3
  <2>2. Owner(c) = t /\ Created(c)
    BY <1>1, <1>3, <1>4, <2>1 DEF DequeInv
  <2>3. lk[c].state = "WAIT"
    BY <1>1, <1>2, <1>3, <1>4, <2>1 DEF StateInv
  <2> QED BY <2>2, <2>3
<1>6. /\ lk' \in [Lock -> Fields] /\ lk'[c].state = "ACTIVE"
      /\ lk'[c].mode = lk[c].mode /\ lk'[c].next = lk[c].next /\ lk'[c].headPass = lk[c].headPass
      /\ \A x \in Lock \ {c} : lk'[x] = lk[x]
  <2> DEFINE f == lk[c]
             g == lk'[c]
  <2>1. /\ f \in Fields /\ g = [f EXCEPT !.state = "ACTIVE"]
        /\ \A x \in Lock \ {c} : lk'[x] = lk[x]
        /\ lk' = [x \in Lock |-> lk'[x]]
    BY <1>1, <1>2, <1>4 DEF Types
  <2> HIDE DEF f, g
  <2>2. g \in Fields /\ g.state = "ACTIVE" /\ g.mode = f.mode /\ g.next = f.next
        /\ g.headPass = f.headPass
    BY <2>1 DEF Fields, State
  <2>3. \A x \in Lock : lk'[x] \in Fields
    BY <1>1, <2>1, <2>2 DEF Types, f, g
  <2>4. lk' \in [Lock -> Fields]
    BY <2>1, <2>3
  <2>5. \A x \in Lock \ {c} : lk'[x] = lk[x]
    BY <2>1
  <2> QED BY <2>2, <2>4, <2>5 DEF f, g
<1>7. \A x \in Lock : /\ lk'[x].mode = lk[x].mode /\ lk'[x].next = lk[x].next
                      /\ lk'[x].headPass = lk[x].headPass
                      /\ InUse(lk, x)' <=> InUse(lk, x)
                      /\ x # c => lk'[x].state = lk[x].state
                      /\ Created(x)' <=> Created(x)
  <2>1. \A x \in Lock : /\ InUse(lk, x)' <=> InUse(lk, x)
                        /\ Created(x)' <=> Created(x)
    BY <1>2, <1>5, <1>6 DEF InUse, Created
  <2> QED BY <1>6, <2>1
<1>8. Types'
  <2>1. pc' \in [Thread -> {"acquire", "asleep", "release", "done"}]
    BY <1>1, <1>2 DEF Types, Granted, Goto
  <2>2. conflict' \in [Thread -> Node]
    BY <1>1, <1>2 DEF Types, Node
  <2> QED BY <1>1, <1>2, <1>6, <2>1, <2>2 DEF Types
<1>9. QueueInv(ord)'
  <2>1. ASSUME NEW r \in Record PROVE ListInv(ord[r], r)'
    BY <1>1, <1>2, <1>7 DEF QueueInv, ListInv, Line
  <2>2. ASSUME NEW x \in Lock, Created(x)' PROVE LockInv(ord[Rec(x)], x)'
    BY <1>1, <1>7, <2>2 DEF QueueInv, LockInv
  <2> QED BY <2>1, <2>2 DEF QueueInv
<1>10. GrantInv(ord)'
  <2>1. ASSUME NEW r \in Record, NEW n \in 1 .. Len(ord[r])
        PROVE  InUse(lk, ord[r][n])' =>
                 (Blocked(lk, ord[r], n)' <=> lk'[ord[r][n]].state = "WAIT" /\ Owner(ord[r][n]) \in waitSet')
    <3>1. ord[r] \in Seq(Lock) /\ Len(ord[r]) \in Nat
      OBVIOUS
    <3>2. Blocked(lk, ord[r], n)' <=> Blocked(lk, ord[r], n)
      <4>1. \A m \in 1 .. n - 1 : m \in 1 .. Len(ord[r])
        BY <3>1
      <4>2. ASSUME NEW m \in 1 .. Len(ord[r])
            PROVE  /\ lk'[ord[r][m]].mode = lk[ord[r][m]].mode
                   /\ InUse(lk, ord[r][m])' <=> InUse(lk, ord[r][m])
        <5>1. ord[r][m] \in Lock
          BY <3>1
        <5> QED BY <1>7, <5>1
      <4> QED BY <4>1, <4>2 DEF Blocked
    <3>3. InUse(lk, ord[r][n]) =>
            (Blocked(lk, ord[r], n) <=> lk[ord[r][n]].state = "WAIT" /\ Owner(ord[r][n]) \in waitSet)
      BY <1>1 DEF GrantInv
    <3>4. PICK x \in Lock : x = ord[r][n]
      BY <3>1
    <3>5. lk'[x].state = "WAIT" /\ Owner(x) \in waitSet' <=> lk[x].state = "WAIT" /\ Owner(x) \in waitSet
      BY <1>2, <1>5, <1>6, <1>7
    <3> QED BY <1>7, <3>2, <3>3, <3>4, <3>5
  <2> QED BY <2>1 DEF GrantInv
<1>11. DequeInv(t)' /\ StateInv(t)'
  <2>1. /\ pc'[t] = IF Len(deque[t]) = Len(Program(t)) THEN "release" ELSE "acquire"
        /\ conflict'[t] = NoLock
    BY <1>1, <1>2 DEF Types, Granted, Goto
  <2>2. Program(t)' = Program(t)
    BY <1>2 DEF Program
  <2>3. Len(Program(t)) \in Nat
    BY <1>1, <1>3, ProgramIs
  <2>4. DequeInv(t)'
    <3>1. ASSUME NEW n \in 1 .. Len(deque[t])
          PROVE  LET y == deque[t][n] IN
                 /\ Owner(y) = t /\ y[3] <= saved'[Owner(y)][Rec(y)]
                 /\ Rec(y) = Program(t)[n].rec /\ lk'[y].mode = Program(t)[n].mode
      <4>1. deque[t][n] \in Lock
        BY <1>3
      <4> QED BY <1>1, <1>2, <1>7, <4>1 DEF DequeInv, Created
    <3> QED BY <1>2, <1>3, <2>1, <2>2, <2>3, <3>1 DEF DequeInv, Created
  <2>5. ASSUME NEW n \in 1 .. Len(deque[t]) PROVE lk'[deque[t][n]].state = "ACTIVE"
    <3>1. CASE n = Len(deque[t])
      BY <1>3, <1>4, <1>6, <3>1
    <3>2. CASE n # Len(deque[t])
      <4>1. n > released[t] /\ n < Len(deque[t]) /\ deque[t][n] \in Lock
        BY <1>3, <3>2
      <4>2. lk[deque[t][n]].state = "ACTIVE"
        BY <1>1, <4>1 DEF StateInv
      <4> QED BY <1>6, <4>1, <4>2
    <3> QED BY <3>1, <3>2
  <2>6. \A x \in Lock : Owner(x) = t /\ Created(x)' /\ InUse(lk, x)' => In(deque[t], x)
    BY <1>1, <1>7 DEF StateInv
  <2>7. StateInv(t)'
    <3>1. released'[t] = 0 /\ \A n \in 1 .. Len(deque[t]) : ~(n <= 0)
      BY <1>2, <1>3
    <3> QED BY <1>2, <2>1, <2>5, <2>6, <3>1 DEF StateInv
  <2> QED BY <2>4, <2>7
<1>12. ASSUME NEW u \in Thread \ {t} PROVE DequeInv(u)' /\ StateInv(u)'
  <2>1. /\ deque'[u] = deque[u] /\ trx'[u] = trx[u] /\ released'[u] = released[u]
        /\ pc'[u] = pc[u] /\ conflict'[u] = conflict[u] /\ (u \in waitSet' => u \in waitSet)
    BY <1>1, <1>2 DEF Types, Goto, Granted
  <2>2. \A x \in Lock : Owner(x) = u => /\ Created(x)' <=> Created(x)
                                        /\ lk'[x].mode = lk[x].mode
                                        /\ lk'[x].state = lk[x].state
    BY <1>5, <1>7
  <2> QED BY <1>1, <2>1, <2>2, OtherThread
<1>13. Awakes(t)
  BY <1>2, <1>4, <1>7 DEF Awakes
<1> QED BY <1>8, <1>9, <1>10, <1>11, <1>12, <1>13 DEF Inv

-----------------------------------------------------------------------------
(* ReleaseLock *)

\* The lock that is released.
LEMMA ReleasedIs ==
  ASSUME NEW ord \in [Record -> Seq(Lock)], Inv(ord), NEW t \in Thread, pc[t] = "release",
         NEW l, l = deque[t][released[t] + 1]
  PROVE  /\ released[t] + 1 \in 1 .. Len(deque[t]) /\ released[t] \in Nat /\ Len(deque[t]) \in Nat
         /\ l \in Lock /\ Owner(l) = t /\ Created(l) /\ lk[l].state \in {"ACTIVE", "OBSOLETE"}
         /\ Rec(l) \in Record /\ ord[Rec(l)] # << >>
<1> DEFINE i == released[t] + 1
<1>1. Types /\ QueueInv(ord) /\ DequeInv(t) /\ StateInv(t)
  BY DEF Inv
<1>2. /\ i \in 1 .. Len(deque[t]) /\ i > released[t] /\ deque[t] \in Seq(Lock)
      /\ released[t] \in Nat /\ Len(deque[t]) \in Nat
  BY <1>1 DEF Types, DequeInv
<1> HIDE DEF i
<1>3. l = deque[t][i]
  BY DEF i
<1>4. l \in Lock /\ Owner(l) = t /\ Created(l)
  BY <1>1, <1>2, <1>3 DEF DequeInv
<1>5. lk[l].state \in {"ACTIVE", "OBSOLETE"}
  BY <1>1, <1>2, <1>3 DEF StateInv
<1>6. Rec(l) \in Record /\ ord[Rec(l)] # << >>
  BY <1>1, <1>4, LockIs DEF QueueInv, LockInv
<1> QED BY <1>2, <1>4, <1>5, <1>6 DEF i

\* What the assignment of OBSOLETE to the state of that lock leaves alone.
LEMMA ReleasedFields ==
  ASSUME lk \in [Lock -> Fields], NEW l \in Lock
  PROVE  LET fields == [lk EXCEPT ![l].state = "OBSOLETE"] IN
         /\ fields \in [Lock -> Fields] /\ fields[l].state = "OBSOLETE"
         /\ \A x \in Lock :
              /\ fields[x].mode = lk[x].mode /\ fields[x].next = lk[x].next
              /\ fields[x].headPass = lk[x].headPass
              /\ x # l => fields[x].state = lk[x].state
              /\ InUse(fields, x) <=> InUse(lk, x) /\ x # l
<1> DEFINE fields == [lk EXCEPT ![l].state = "OBSOLETE"]
<1>1. /\ fields[l] = [lk[l] EXCEPT !.state = "OBSOLETE"] /\ lk[l] \in Fields
      /\ \A x \in Lock \ {l} : fields[x] = lk[x]
      /\ fields = [x \in Lock |-> fields[x]]
  OBVIOUS
<1> HIDE DEF fields
<1>2. /\ fields[l] \in Fields /\ fields[l].state = "OBSOLETE" /\ fields[l].mode = lk[l].mode
      /\ fields[l].next = lk[l].next /\ fields[l].headPass = lk[l].headPass
  BY <1>1 DEF Fields, State
<1>3. fields \in [Lock -> Fields]
  <2>1. \A x \in Lock : fields[x] \in Fields
    BY <1>1, <1>2
  <2> QED BY <1>1, <2>1
<1>4. \A x \in Lock :
         /\ fields[x].mode = lk[x].mode /\ fields[x].next = lk[x].next
         /\ fields[x].headPass = lk[x].headPass
         /\ x # l => fields[x].state = lk[x].state
         /\ InUse(fields, x) <=> InUse(lk, x) /\ x # l
  BY <1>1, <1>2 DEF InUse
<1> QED BY <1>2, <1>3, <1>4 DEF fields

\* The head moves to the k-th lock of the list, and passes those before it.
LEMMA HeadMoves ==
  ASSUME NEW ord \in [Record -> Seq(Lock)], Inv(ord), NEW r \in Record, ord[r] # << >>,
         NEW fields, Linkable(fields), \A x \in Lock : fields[x].next = lk[x].next
  PROVE  LET s == ord[r]
             h == NewHead(fields, r) IN
         \E k \in 1 .. Len(s) :
           /\ h = s[k] /\ (h = head[r] <=> k = 1)
           /\ InUse(fields, s[k]) \/ k = Len(s)
           /\ \A j \in 1 .. k - 1 : ~InUse(fields, s[j])
           /\ From(fields, head[r], h) = {s[j] : j \in 1 .. k - 1}
<1> DEFINE s == ord[r]
<1>1. /\ s \in Seq(Lock) /\ Len(s) \in Nat /\ Len(s) > 0
      /\ Distinct(s) /\ Line(lk, s) /\ head[r] = At(s, 1)
  BY DEF Inv, QueueInv, ListInv
<1> HIDE DEF s
<1>2. Line(fields, s) /\ At(s, 1) = s[1] /\ 1 \in 1 .. Len(s)
  <2>1. \A n \in 1 .. Len(s) : s[n] \in Lock
    BY <1>1
  <2> QED BY <1>1, <2>1 DEF Line, At
<1>3. PICK k \in 1 .. Len(s) :
           /\ Move(fields)[s[1]] = s[k]
           /\ InUse(fields, s[k]) \/ k = Len(s)
           /\ \A j \in 1 .. k - 1 : ~InUse(fields, s[j])
  BY <1>1, <1>2, HeadLine
<1>4. NewHead(fields, r) = s[k]
  BY <1>1, <1>2, <1>3, WalksAre
<1>5. s[k] = head[r] <=> k = 1
  BY <1>1, <1>2 DEF Distinct
<1>6. From(fields, head[r], s[k]) = {s[j] : j \in 1 .. k - 1}
  <2>1. \A n \in 1 .. Len(s) : From(fields, At(s, 1), s[n]) = {s[j] : j \in 1 .. n - 1}
    BY <1>1, <1>2, FromHead
  <2> QED BY <1>1, <2>1
<1> QED BY <1>3, <1>4, <1>5, <1>6 DEF s

\* Which locks are woken behind the k-th one.
LEMMA WokenIs ==
  ASSUME NEW fields \in [Lock -> Fields], NEW s \in Seq(Lock), Line(fields, s), Distinct(s),
         NEW k \in 1 .. Len(s)
  PROVE  /\ \A m \in Woken(fields, s[k]) : In(s, m)
         /\ \A n \in 1 .. Len(s) :
              s[n] \in Woken(fields, s[k]) <=>
                \/ n = k
                \/ /\ k < n /\ fields[s[k]].mode = "SHARED" /\ InUse(fields, s[n])
                   /\ \A j \in k + 1 .. n : ~Barrier(fields, s[j])
<1> DEFINE woken == Woken(fields, s[k])
           Rest(n) == /\ k < n /\ fields[s[k]].mode = "SHARED" /\ InUse(fields, s[n])
                      /\ \A j \in k + 1 .. n : ~Barrier(fields, s[j])
<1>1. Len(s) \in Nat /\ k \in Nat /\ s[k] \in Lock /\ k + 1 \in 1 .. Len(s) + 1
  OBVIOUS
<1>2. Linkable(fields)
  BY DEF Linkable, Fields, Node
<1>3. woken = {s[k]} \cup (IF fields[s[k]].mode = "SHARED" THEN Behind(fields)[At(s, k + 1)] ELSE {})
  BY WalksAre DEF Line
<1> HIDE DEF woken
<1>4. ASSUME NEW m \in woken PROVE \E n \in 1 .. Len(s) : m = s[n] /\ (n = k \/ Rest(n))
  <2>1. CASE m = s[k]
    BY <2>1
  <2>2. CASE m # s[k]
    <3>1. fields[s[k]].mode = "SHARED" /\ m \in Behind(fields)[At(s, k + 1)]
      BY <1>3, <2>2
    <3>2. \E n \in k + 1 .. Len(s) : /\ m = s[n] /\ InUse(fields, m)
                                     /\ \A j \in k + 1 .. n : ~Barrier(fields, s[j])
      BY <1>1, <1>2, <3>1, BehindOnly
    <3>3. \A n \in k + 1 .. Len(s) : n \in 1 .. Len(s) /\ k < n
      BY <1>1
    <3> QED BY <3>1, <3>2, <3>3
  <2> QED BY <2>1, <2>2
<1>5. ASSUME NEW n \in 1 .. Len(s), Rest(n) PROVE s[n] \in woken
  <2>1. k + 1 <= n
    BY <1>1, <1>5
  <2>2. s[n] \in Behind(fields)[At(s, k + 1)]
    BY <1>1, <1>2, <1>5, <2>1, BehindLine
  <2> QED BY <1>3, <1>5, <2>2
<1>6. ASSUME NEW n \in 1 .. Len(s), s[n] \in woken PROVE n = k \/ Rest(n)
  <2>1. PICK m \in 1 .. Len(s) : s[n] = s[m] /\ (m = k \/ Rest(m))
    BY <1>4, <1>6
  <2>2. m = n
    BY <2>1 DEF Distinct
  <2> QED BY <2>1, <2>2
<1>7. s[k] \in woken
  BY <1>3
<1> QED BY <1>4, <1>5, <1>6, <1>7 DEF In, woken

\* A thread waits for one lock.
LEMMA WaitsOnce ==
  ASSUME NEW t \in Thread, Types, DequeInv(t), StateInv(t), NEW l \in Lock, Created(l), Owner(l) = t,
         lk[l].state = "WAIT"
  PROVE  pc[t] = "asleep" /\ l = deque[t][Len(deque[t])] /\ l = conflict[t]
<1>1. In(deque[t], l)
  BY DEF StateInv, InUse
<1>2. PICK n \in 1 .. Len(deque[t]) : deque[t][n] = l
  BY <1>1 DEF In
<1>3. released[t] \in Nat /\ n \in Nat /\ Len(deque[t]) \in Nat
  BY DEF Types
<1>4. ~(n <= released[t]) /\ ~(n > released[t] /\ n < Len(deque[t]))
  BY <1>2 DEF StateInv
<1>5. n > released[t] /\ n = Len(deque[t])
  BY <1>3, <1>4
<1>6. pc[t] \in {"acquire", "asleep", "release", "done"}
  BY DEF Types
<1>7. pc[t] = "asleep"
  <2>1. CASE pc[t] = "acquire" \/ pc[t] = "release" \/ pc[t] = "done"
    <3>1. lk[l].state \in {"ACTIVE", "OBSOLETE"}
      BY <1>2, <1>5, <2>1 DEF StateInv
    <3> QED BY <3>1
  <2> QED BY <1>6, <2>1
<1> QED BY <1>2, <1>5, <1>7 DEF StateInv

\* The fields once the lock l is released.
WithoutLock(fields, l) ==
  /\ fields \in [Lock -> Fields]
  /\ \A x \in Lock : /\ fields[x].mode = lk[x].mode /\ fields[x].next = lk[x].next
                     /\ InUse(fields, x) <=> InUse(lk, x) /\ x # l

\* Nothing in use stands before the k-th lock, and it is in use or the last.
HeadAt(fields, s, k) ==
  /\ InUse(fields, s[k]) \/ k = Len(s)
  /\ \A j \in 1 .. k - 1 : ~InUse(fields, s[j])

\* The locks that are woken when the head has moved to the k-th.
WokenAt(fields, s, k) ==
  IF k = 1 \/ ~InUse(fields, s[k]) THEN {} ELSE Woken(fields, s[k])

\* Of the locks that stay in use, those are blocked by what is left that were and are not
\* woken. Who was blocked by the released lock alone is woken: had the head not moved, it
\* would stand before the released lock, be compatible with it and with the blocked one,
\* and so would these two be.
LEMMA ReleaseGrants ==
  ASSUME NEW ord \in [Record -> Seq(Lock)], Inv(ord), NEW r \in Record, NEW l \in Lock,
         lk[l].state \in {"ACTIVE", "OBSOLETE"}, NEW fields, WithoutLock(fields, l),
         NEW k \in 1 .. Len(ord[r]), HeadAt(fields, ord[r], k),
         NEW n \in 1 .. Len(ord[r]), InUse(fields, ord[r][n])
  PROVE  Blocked(fields, ord[r], n)
           <=> /\ lk[ord[r][n]].state = "WAIT" /\ Owner(ord[r][n]) \in waitSet
               /\ ord[r][n] \notin WokenAt(fields, ord[r], k)
<1>0. /\ fields \in [Lock -> Fields]
      /\ \A x \in Lock : /\ fields[x].mode = lk[x].mode /\ fields[x].next = lk[x].next
                         /\ InUse(fields, x) <=> InUse(lk, x) /\ x # l
      /\ InUse(fields, ord[r][k]) \/ k = Len(ord[r])
      /\ \A j \in 1 .. k - 1 : ~InUse(fields, ord[r][j])
  BY DEF WithoutLock, HeadAt
<1> DEFINE s == ord[r]
           x == s[n]
           woken == WokenAt(fields, s, k)
           Hinders(m) == InUse(fields, s[m]) /\ Incompatible(fields[x].mode, fields[s[m]].mode)
           blocked == \E m \in 1 .. n - 1 : Hinders(m)
           waits == lk[x].state = "WAIT" /\ Owner(x) \in waitSet
<1>1. s \in Seq(Lock) /\ Len(s) \in Nat /\ ListInv(s, r) /\ Distinct(s) /\ Line(lk, s)
  BY DEF Inv, QueueInv, ListInv
<1>2. \A m \in 1 .. Len(s) : s[m] \in Lock
  BY <1>1
<1>3. Line(fields, s)
  BY <1>0, <1>1, <1>2 DEF Line
<1>4. \A m \in 1 .. Len(s) : InUse(lk, s[m]) => (Blocked(lk, s, m) <=> lk[s[m]].state = "WAIT" /\ Owner(s[m]) \in waitSet)
  BY DEF Inv, GrantInv
<1>5. \A y \in Lock : fields[y].mode \in {"SHARED", "EXCLUSIVE"}
  BY <1>0 DEF Fields, Mode
<1>6. k # 1 /\ InUse(fields, s[k]) =>
        \A m \in 1 .. Len(s) :
              s[m] \in woken <=>
                \/ m = k
                \/ /\ k < m /\ fields[s[k]].mode = "SHARED" /\ InUse(fields, s[m])
                   /\ \A j \in k + 1 .. m : ~Barrier(fields, s[j])
  <2>1. \A m \in 1 .. Len(s) :
              s[m] \in Woken(fields, s[k]) <=>
                \/ m = k
                \/ /\ k < m /\ fields[s[k]].mode = "SHARED" /\ InUse(fields, s[m])
                   /\ \A j \in k + 1 .. m : ~Barrier(fields, s[j])
    BY <1>0, <1>1, <1>3, WokenIs
  <2> QED BY <2>1 DEF WokenAt
<1>7. k <= n /\ InUse(fields, s[k])
  <2>1. n \notin 1 .. k - 1
    BY <1>0
  <2>2. k <= n /\ (k = Len(s) => n = k)
    BY <1>1, <2>1
  <2> QED BY <1>0, <2>2
<1> HIDE DEF s
<1>8. Blocked(lk, s, n) <=> waits
  BY <1>0, <1>2, <1>4 DEF x, s
<1>9. blocked => Blocked(lk, s, n)
  BY <1>0, <1>1, <1>2 DEF Blocked, s
<1>10. \A m \in 1 .. n - 1 : m \in 1 .. Len(s) /\ m < n
  BY <1>1 DEF s
<1>11. ASSUME blocked PROVE x \notin woken
  <2>0. k = 1 => woken = {}
    BY DEF WokenAt
  <2>1. PICK m \in 1 .. n - 1 : Hinders(m)
    BY <1>11
  <2>2. k <= m /\ k < n
    BY <1>0, <1>1, <2>1 DEF s
  <2>3. ASSUME x \in woken PROVE FALSE
    <3>1. k # 1
      BY <2>0, <2>3
    <3>2. /\ fields[s[k]].mode = "SHARED" /\ \A j \in k + 1 .. n : ~Barrier(fields, s[j])
      BY <1>1, <1>6, <1>7, <2>2, <2>3, <3>1 DEF s
    <3>3. ASSUME NEW j \in k .. n, InUse(fields, s[j]) PROVE fields[s[j]].mode = "SHARED"
      <4>1. j = k \/ j \in k + 1 .. n
        BY <1>1
      <4>2. j \in 1 .. Len(s)
        BY <1>1 DEF s
      <4> QED BY <1>2, <1>5, <3>2, <3>3, <4>1, <4>2 DEF Barrier
    <3>4. m \in k .. n /\ n \in k .. n
      BY <1>1, <2>2
    <3>5. fields[x].mode = "SHARED" /\ fields[s[m]].mode = "SHARED"
      BY <2>1, <3>3, <3>4 DEF s
    <3> QED BY <2>1, <3>5 DEF Incompatible
  <2> QED BY <2>3
<1>12. ASSUME waits, ~blocked PROVE x \in woken
  <2>1. PICK i \in 1 .. n - 1 : InUse(lk, s[i]) /\ Incompatible(lk[x].mode, lk[s[i]].mode)
    BY <1>8, <1>12 DEF Blocked
  <2>2. i \in 1 .. Len(s) /\ i < n /\ x \in Lock /\ s[i] \in Lock /\ n \in 1 .. Len(s)
    BY <1>1, <1>2, <1>10 DEF s
  <2>3. s[i] = l
    BY <1>0, <1>12, <2>1, <2>2
  <2>4. ~Blocked(lk, s, i)
    <3>1. lk[s[i]].state = "ACTIVE"
      BY <2>1, <2>3 DEF InUse
    <3> QED BY <1>4, <2>1, <2>2, <3>1
  <2>5. ASSUME NEW m \in 1 .. n - 1, InUse(fields, s[m])
        PROVE  ~Incompatible(fields[x].mode, fields[s[m]].mode)
    BY <1>12, <2>5
  <2>6. k # 1
    <3>1. ASSUME k = 1 PROVE FALSE
      <4>1. s[k] # l /\ InUse(lk, s[k]) /\ k \in 1 .. Len(s) /\ k \in Nat /\ i \in Nat
        BY <1>0, <1>1, <1>2, <1>7 DEF s
      <4>2. k \in 1 .. i - 1 /\ k \in 1 .. n - 1
        BY <2>2, <2>3, <3>1, <4>1
      <4>3. ~Incompatible(lk[s[i]].mode, lk[s[k]].mode)
        BY <2>4, <4>1, <4>2 DEF Blocked
      <4>4. ~Incompatible(lk[x].mode, lk[s[k]].mode)
        BY <1>0, <1>2, <1>7, <2>2, <2>5, <4>1, <4>2
      <4> QED BY <2>1, <4>3, <4>4 DEF Incompatible
    <3> QED BY <3>1
  <2>7. CASE n = k
    BY <1>6, <1>7, <2>2, <2>6, <2>7
  <2>8. CASE n # k
    <3>1. k < n /\ k \in 1 .. n - 1
      BY <1>1, <1>7, <2>8
    <3>2. ~Incompatible(fields[x].mode, fields[s[k]].mode)
      BY <1>7, <2>5, <3>1
    <3>3. fields[s[k]].mode = "SHARED" /\ fields[x].mode = "SHARED"
      BY <1>2, <1>5, <1>10, <2>2, <3>1, <3>2 DEF Incompatible
    <3>4. ASSUME NEW j \in k + 1 .. n PROVE ~Barrier(fields, s[j])
      <4>1. CASE j = n
        BY <3>3, <4>1 DEF Barrier
      <4>2. CASE j # n
        <5>1. j \in 1 .. n - 1
          BY <1>1, <4>2
        <5> QED BY <2>5, <5>1 DEF Barrier, Incompatible
      <4> QED BY <4>1, <4>2
    <3>5. InUse(fields, s[n])
      BY DEF s
    <3> QED BY <1>6, <1>7, <2>2, <2>6, <3>1, <3>3, <3>4, <3>5
  <2> QED BY <2>7, <2>8
<1>13. blocked <=> waits /\ x \notin woken
  BY <1>8, <1>9, <1>11, <1>12
<1> QED BY <1>13 DEF s, Blocked

\* A list without the locks before the k-th.
LEMMA DropIs ==
  ASSUME NEW s \in Seq(Lock), NEW k \in 1 .. Len(s), Distinct(s), NEW old, Line(old, s)
  PROVE  LET q == SubSeq(s, k, Len(s)) IN
         /\ q \in Seq(Lock) /\ Len(q) = Len(s) - k + 1
         /\ \A n \in 1 .. Len(q) : q[n] = s[n + k - 1] /\ n + k - 1 \in k .. Len(s)
         /\ \A n \in k .. Len(s) : q[n - k + 1] = s[n] /\ n - k + 1 \in 1 .. Len(q)
         /\ Distinct(q) /\ Line(old, q)
         /\ At(q, 1) = s[k] /\ At(q, Len(q)) = At(s, Len(s))
         /\ \A x : In(q, x) <=> In(s, x) /\ \A j \in 1 .. k - 1 : s[j] # x
<1> DEFINE q == SubSeq(s, k, Len(s))
<1>1. Len(s) \in Nat /\ k \in Nat /\ k <= Len(s) /\ k >= 1
  OBVIOUS
<1>2. /\ q \in Seq(Lock) /\ Len(q) = Len(s) - k + 1
      /\ \A n \in 1 .. Len(q) : q[n] = s[n + k - 1]
  BY <1>1
<1> HIDE DEF q
<1>3. \A n \in 1 .. Len(q) : n + k - 1 \in k .. Len(s) /\ n + k - 1 \in 1 .. Len(s)
  BY <1>1, <1>2
<1>4. \A n \in k .. Len(s) : q[n - k + 1] = s[n] /\ n - k + 1 \in 1 .. Len(q)
  <2>1. ASSUME NEW n \in k .. Len(s) PROVE q[n - k + 1] = s[n] /\ n - k + 1 \in 1 .. Len(q)
    <3>1. n - k + 1 \in 1 .. Len(q) /\ (n - k + 1) + k - 1 = n
      BY <1>1, <1>2
    <3> QED BY <1>2, <3>1
  <2> QED BY <2>1
<1>5. Distinct(q)
  <2>1. ASSUME NEW m \in 1 .. Len(q), NEW n \in 1 .. Len(q), q[m] = q[n] PROVE m = n
    <3>1. m + k - 1 = n + k - 1
      BY <1>2, <1>3, <2>1 DEF Distinct
    <3> QED BY <1>1, <1>2, <3>1
  <2> QED BY <2>1 DEF Distinct
<1>6. Line(old, q)
  <2>1. ASSUME NEW n \in 1 .. Len(q) PROVE old[q[n]].next = At(q, n + 1)
    <3>1. old[q[n]].next = At(s, (n + k - 1) + 1)
      BY <1>2, <1>3 DEF Line
    <3>2. CASE n = Len(q)
      <4>1. (n + k - 1) + 1 \notin 1 .. Len(s) /\ n + 1 \notin 1 .. Len(q)
        BY <1>1, <1>2, <3>2
      <4> QED BY <3>1, <4>1 DEF At
    <3>3. CASE n # Len(q)
      <4>1. (n + k - 1) + 1 \in 1 .. Len(s) /\ n + 1 \in 1 .. Len(q) /\ (n + 1) + k - 1 = (n + k - 1) + 1
        <5>1. Len(q) \in Nat /\ n \in Nat /\ n < Len(q) /\ n >= 1
          BY <1>2, <3>3, SMTT(60)
        <5>2. n + k < Len(s) + 1 /\ n + k \in Nat /\ n + 1 \in Nat /\ n + 1 <= Len(q)
          BY <1>1, <1>2, <5>1
        <5> QED BY <1>1, <5>1, <5>2
      <4>2. q[n + 1] = s[(n + k - 1) + 1]
        BY <1>2, <4>1
      <4> QED BY <3>1, <4>1, <4>2 DEF At
    <3> QED BY <3>2, <3>3
  <2> QED BY <2>1 DEF Line
<1>7. At(q, 1) = s[k] /\ At(q, Len(q)) = At(s, Len(s))
  <2>1. 1 \in 1 .. Len(q) /\ Len(q) \in 1 .. Len(q) /\ 1 + k - 1 = k /\ Len(q) + k - 1 = Len(s)
        /\ Len(s) \in 1 .. Len(s)
    BY <1>1, <1>2
  <2> QED BY <1>2, <2>1 DEF At
<1>8. ASSUME NEW x PROVE In(q, x) <=> In(s, x) /\ \A j \in 1 .. k - 1 : s[j] # x
  <2>1. ASSUME In(q, x) PROVE In(s, x) /\ \A j \in 1 .. k - 1 : s[j] # x
    <3>1. PICK n \in 1 .. Len(q) : q[n] = x
      BY <2>1 DEF In
    <3>2. PICK i \in k .. Len(s) : i = n + k - 1
      BY <1>3
    <3>3. s[i] = x /\ i \in 1 .. Len(s)
      BY <1>1, <1>2, <3>1, <3>2
    <3>4. ASSUME NEW j \in 1 .. k - 1 PROVE s[j] # x
      <4>1. j \in 1 .. Len(s) /\ j # i
        BY <1>1, <3>2
      <4> QED BY <3>3, <4>1 DEF Distinct
    <3> QED BY <3>3, <3>4 DEF In
  <2>2. ASSUME In(s, x), \A j \in 1 .. k - 1 : s[j] # x PROVE In(q, x)
    <3>1. PICK n \in 1 .. Len(s) : s[n] = x
      BY <2>2 DEF In
    <3>2. n \in k .. Len(s)
      BY <1>1, <2>2, <3>1
    <3> QED BY <1>4, <3>1, <3>2 DEF In
  <2> QED BY <2>1, <2>2
<1> QED BY <1>2, <1>3, <1>4, <1>5, <1>6, <1>7, <1>8 DEF q

\* The lists once the head of r stands at its k-th lock.
Drop(ord, r, k) == [ord EXCEPT ![r] = SubSeq(@, k, Len(@))]

\* What ReleaseLock changes: l is no longer in use, and some wake up.
Releases(t, l) ==
  /\ pc[t] = "release" /\ l \in Lock /\ Owner(l) = t
  /\ conflict' = conflict /\ waitSet' \subseteq waitSet
  /\ \A x \in Lock : /\ Created(x)' <=> Created(x)
                     /\ lk'[x].mode = lk[x].mode
                     /\ InUse(lk, x)' <=> InUse(lk, x) /\ x # l

\* ReleaseLock keeps the invariant: it moves the head over locks that are not in use, and wakes
\* those that have nothing incompatible before them any more.
LEMMA ReleaseEffect ==
  ASSUME NEW ord \in [Record -> Seq(Lock)], Inv(ord), NEW t \in Thread, ReleaseLock(t),
         NEW l, l = deque[t][released[t] + 1]
  PROVE  /\ Releases(t, l) /\ Rec(l) \in Record
         /\ \E k \in 1 .. Len(ord[Rec(l)]) :
              /\ \A j \in 1 .. k - 1 : ~InUse(lk, ord[Rec(l)][j])'
              /\ Drop(ord, Rec(l), k) \in [Record -> Seq(Lock)] /\ Inv(Drop(ord, Rec(l), k))'
<1> DEFINE r == Rec(l)
           s == ord[r]
           fields == [lk EXCEPT ![l].state = "OBSOLETE"]
           h == NewHead(fields, r)
           passed == From(fields, head[r], h)
           woken == IF h = head[r] \/ ~InUse(fields, h) THEN {} ELSE Woken(fields, h)
<1>1. /\ Types /\ QueueInv(ord) /\ GrantInv(ord)
      /\ \A u \in Thread : DequeInv(u) /\ StateInv(u)
  BY DEF Inv
<1>2. /\ pc[t] = "release"
      /\ lk' = Flagged(fields, passed, woken)
      /\ head' = [head EXCEPT ![r] = h]
      /\ waitSet' = waitSet \ {Owner(m) : m \in {n \in woken : lk[n].state = "WAIT"}}
      /\ Released(t)
      /\ UNCHANGED <<tail, conflict, saved>>
  BY DEF ReleaseLock
<1>3. /\ released[t] + 1 \in 1 .. Len(deque[t]) /\ released[t] \in Nat /\ Len(deque[t]) \in Nat
      /\ l \in Lock /\ Owner(l) = t /\ Created(l) /\ lk[l].state \in {"ACTIVE", "OBSOLETE"}
      /\ r \in Record /\ s # << >>
      /\ fields \in [Lock -> Fields] /\ fields[l].state = "OBSOLETE"
      /\ \A x \in Lock :
           /\ fields[x].mode = lk[x].mode /\ fields[x].next = lk[x].next
           /\ fields[x].headPass = lk[x].headPass
           /\ x # l => fields[x].state = lk[x].state
           /\ InUse(fields, x) <=> InUse(lk, x) /\ x # l
  <2>1. l = deque[t][released[t] + 1] /\ pc[t] = "release" /\ Inv(ord) /\ ord \in [Record -> Seq(Lock)]
    BY <1>2
  <2>2. /\ released[t] + 1 \in 1 .. Len(deque[t]) /\ released[t] \in Nat /\ Len(deque[t]) \in Nat
        /\ l \in Lock /\ Owner(l) = t /\ Created(l) /\ lk[l].state \in {"ACTIVE", "OBSOLETE"}
        /\ Rec(l) \in Record /\ ord[Rec(l)] # << >>
    BY <2>1, ReleasedIs
  <2>3. lk \in [Lock -> Fields]
    BY <1>1 DEF Types
  <2>4. /\ fields \in [Lock -> Fields] /\ fields[l].state = "OBSOLETE"
        /\ \A x \in Lock :
             /\ fields[x].mode = lk[x].mode /\ fields[x].next = lk[x].next
             /\ fields[x].headPass = lk[x].headPass
             /\ x # l => fields[x].state = lk[x].state
             /\ InUse(fields, x) <=> InUse(lk, x) /\ x # l
    BY <2>2, <2>3, ReleasedFields
  <2> HIDE DEF fields
  <2> QED BY <2>2, <2>4
<1> HIDE DEF fields, r
<1>4. /\ s \in Seq(Lock) /\ Len(s) \in Nat /\ Distinct(s) /\ Line(lk, s)
      /\ head[r] = At(s, 1) /\ tail[r] = At(s, Len(s))
      /\ \A n \in 1 .. Len(s) : s[n] \in Lock /\ Rec(s[n]) = r /\ Created(s[n])
  BY <1>1, <1>3 DEF QueueInv, ListInv
<1>5. PICK k \in 1 .. Len(s) :
           /\ h = s[k] /\ (h = head[r] <=> k = 1)
           /\ InUse(fields, s[k]) \/ k = Len(s)
           /\ \A j \in 1 .. k - 1 : ~InUse(fields, s[j])
           /\ passed = {s[j] : j \in 1 .. k - 1}
  <2>1. Linkable(fields)
    BY <1>3 DEF Linkable, Fields, Node
  <2>2. \A x \in Lock : fields[x].next = lk[x].next
    BY <1>3
  <2> QED BY <1>3, <2>1, <2>2, HeadMoves
<1> HIDE DEF h, passed
<1>6. PICK w : w = woken
  OBVIOUS
<1>7. w = IF k = 1 \/ ~InUse(fields, s[k]) THEN {} ELSE Woken(fields, s[k])
  BY <1>5, <1>6
<1> HIDE DEF woken
<1>8. \A m \in w : In(s, m)
  <2>1. Line(fields, s)
    BY <1>3, <1>4 DEF Line
  <2> QED BY <1>3, <1>4, <1>7, <2>1, WokenIs
<1>9. /\ lk' \in [Lock -> Fields]
      /\ \A x \in Lock :
           /\ lk'[x].mode = lk[x].mode /\ lk'[x].next = lk[x].next
           /\ lk'[x].state = IF x = l THEN "OBSOLETE" ELSE lk[x].state
           /\ lk'[x].headPass <=> lk[x].headPass \/ x \in passed
           /\ InUse(lk, x)' <=> InUse(fields, x)
           /\ Created(x)' <=> Created(x)
  <2>1. lk' = [x \in Lock |-> [fields[x] EXCEPT !.headPass = @ \/ x \in passed, !.signal = @ \/ x \in woken]]
    BY <1>2 DEF Flagged
  <2>2. ASSUME NEW x \in Lock
        PROVE  /\ lk'[x] \in Fields
               /\ lk'[x].mode = fields[x].mode /\ lk'[x].next = fields[x].next
               /\ lk'[x].state = fields[x].state
               /\ lk'[x].headPass <=> fields[x].headPass \/ x \in passed
    <3> DEFINE f == fields[x]
               a == f.headPass \/ x \in passed
               b == f.signal \/ x \in woken
    <3>1. lk'[x] = [f EXCEPT !.headPass = a, !.signal = b] /\ f \in Fields
      BY <1>3, <2>1
    <3>2. a \in BOOLEAN /\ b \in BOOLEAN
      OBVIOUS
    <3> HIDE DEF f, a, b
    <3>3. /\ lk'[x] \in Fields /\ lk'[x].mode = f.mode /\ lk'[x].next = f.next
          /\ lk'[x].state = f.state /\ lk'[x].headPass = a
      BY <3>1, <3>2 DEF Fields
    <3> QED BY <3>3 DEF f, a
  <2>3. ASSUME NEW x \in Lock
        PROVE  /\ InUse(lk, x)' <=> InUse(fields, x)
               /\ Created(x)' <=> Created(x)
    BY <1>2, <2>2 DEF InUse, Created
  <2>4. lk' = [x \in Lock |-> lk'[x]]
    BY <2>1
  <2> QED BY <1>3, <2>2, <2>3, <2>4
<1> DEFINE q == SubSeq(s, k, Len(s))
           ord2 == [ord EXCEPT ![r] = q]
<1>10. /\ q \in Seq(Lock) /\ Len(q) = Len(s) - k + 1
       /\ \A n \in 1 .. Len(q) : q[n] = s[n + k - 1] /\ n + k - 1 \in k .. Len(s)
       /\ \A n \in k .. Len(s) : q[n - k + 1] = s[n] /\ n - k + 1 \in 1 .. Len(q)
       /\ Distinct(q) /\ Line(lk, q)
       /\ At(q, 1) = s[k] /\ At(q, Len(q)) = At(s, Len(s))
       /\ \A x : In(q, x) <=> In(s, x) /\ \A j \in 1 .. k - 1 : s[j] # x
  BY <1>4, DropIs
<1>11. ord2 \in [Record -> Seq(Lock)] /\ \A p \in Record : ord2[p] = IF p = r THEN q ELSE ord[p]
  BY <1>10
<1> HIDE DEF q, ord2
<1>12. QueueInv(ord2)'
  <2>1. head'[r] = s[k] /\ \A p \in Record \ {r} : head'[p] = head[p]
    BY <1>1, <1>2, <1>3, <1>5 DEF Types
  <2>2. ListInv(q, r)'
    <3>1. Line(lk', q)
      <4>1. \A n \in 1 .. Len(q) : q[n] \in Lock
        BY <1>10
      <4> QED BY <1>9, <1>10, <4>1 DEF Line
    <3>2. tail'[r] = At(q, Len(q)) /\ head'[r] = At(q, 1)
      BY <1>2, <1>4, <1>10, <2>1
    <3>3. ASSUME NEW n \in 1 .. Len(q) PROVE Rec(q[n]) = r /\ Created(q[n])'
      <4>1. PICK i \in k .. Len(s) : i = n + k - 1 /\ q[n] = s[i]
        BY <1>10
      <4>2. i \in 1 .. Len(s)
        BY <1>4
      <4> QED BY <1>4, <1>9, <4>1, <4>2
    <3> QED BY <1>10, <3>1, <3>2, <3>3 DEF ListInv, Line
  <2>3. ASSUME NEW p \in Record \ {r} PROVE ListInv(ord[p], p)'
    <3>1. ListInv(ord[p], p) /\ ord[p] \in Seq(Lock)
      BY <1>1 DEF QueueInv
    <3>2. \A n \in 1 .. Len(ord[p]) : ord[p][n] \in Lock
      BY <3>1
    <3> QED BY <1>2, <1>9, <2>1, <3>1, <3>2 DEF ListInv, Line
  <2>4. ASSUME NEW x \in Lock, Created(x)' PROVE LockInv(ord2[Rec(x)], x)'
    <3>1. LockInv(ord[Rec(x)], x) /\ Rec(x) \in Record
      BY <1>1, <1>9, <2>4, LockIs DEF QueueInv
    <3>2. CASE Rec(x) = r
      <4>1. ord2[Rec(x)] = q /\ q # << >>
        BY <1>10, <1>11, <3>1, <3>2
      <4>2. x \in passed <=> \E j \in 1 .. k - 1 : s[j] = x
        BY <1>5
      <4>3. In(q, x) <=> ~lk'[x].headPass
        BY <1>9, <1>10, <3>1, <3>2, <4>2 DEF LockInv
      <4>4. x \in passed => ~InUse(fields, x)
        BY <1>5
      <4>5. InUse(lk, x)' => ~lk'[x].headPass
        BY <1>3, <1>9, <3>1, <4>4 DEF LockInv
      <4> QED BY <4>1, <4>3, <4>5 DEF LockInv
    <3>3. CASE Rec(x) # r
      <4>1. x \notin passed
        <5>1. \A j \in 1 .. k - 1 : j \in 1 .. Len(s)
          BY <1>4
        <5> QED BY <1>4, <1>5, <3>3, <5>1
      <4>2. ord2[Rec(x)] = ord[Rec(x)]
        BY <1>11, <3>1, <3>3
      <4>3. (lk'[x].headPass <=> lk[x].headPass) /\ (InUse(lk, x)' => InUse(lk, x))
        BY <1>3, <1>9, <4>1
      <4> QED BY <3>1, <4>2, <4>3 DEF LockInv
    <3> QED BY <3>2, <3>3
  <2>5. \A p \in Record : ListInv(ord2[p], p)'
    BY <1>11, <2>2, <2>3
  <2> QED BY <2>4, <2>5 DEF QueueInv
<1>13. ASSUME NEW x \in Lock, Created(x), lk[x].state = "WAIT"
       PROVE  Owner(x) \in waitSet' <=> Owner(x) \in waitSet /\ x \notin w
  <2>1. ASSUME NEW m \in w, lk[m].state = "WAIT", Owner(m) = Owner(x) PROVE m = x
    <3>1. m \in Lock /\ Created(m)
      BY <1>4, <1>8 DEF In
    <3>2. Owner(x) \in Thread
      BY LockIs
    <3> QED BY <1>1, <1>13, <2>1, <3>1, <3>2, WaitsOnce
  <2>2. Owner(x) \in {Owner(m) : m \in {n \in w : lk[n].state = "WAIT"}} <=> x \in w
    BY <1>13, <2>1
  <2> QED BY <1>2, <1>6, <2>2
<1>14. GrantInv(ord2)'
  <2>1. ASSUME NEW p \in Record, NEW n \in 1 .. Len(ord[p]), InUse(lk, ord[p][n])'
        PROVE  Blocked(lk, ord[p], n)' <=> lk'[ord[p][n]].state = "WAIT" /\ Owner(ord[p][n]) \in waitSet'
    <3>1. /\ ord[p] \in Seq(Lock) /\ Len(ord[p]) \in Nat
          /\ \A m \in 1 .. Len(ord[p]) : ord[p][m] \in Lock /\ Rec(ord[p][m]) = p /\ Created(ord[p][m])
      BY <1>1 DEF QueueInv, ListInv
    <3>2. \A m \in 1 .. n - 1 : m \in 1 .. Len(ord[p])
      BY <3>1
    <3>3. PICK x \in Lock : x = ord[p][n]
      BY <3>1
    <3>4. x # l /\ lk'[x].state = lk[x].state /\ InUse(fields, x) /\ InUse(lk, x) /\ Created(x)
      BY <1>3, <1>9, <2>1, <3>1, <3>3
    <3>5. lk'[x].state = "WAIT" /\ Owner(x) \in waitSet'
            <=> lk[x].state = "WAIT" /\ Owner(x) \in waitSet /\ x \notin w
      BY <1>13, <3>4
    <3>6. CASE p = r
      <4>1. Blocked(fields, s, n) <=> lk[x].state = "WAIT" /\ Owner(x) \in waitSet /\ x \notin w
        <5>1. WithoutLock(fields, l) /\ HeadAt(fields, s, k) /\ w = WokenAt(fields, s, k)
          BY <1>3, <1>5, <1>7 DEF WithoutLock, HeadAt, WokenAt
        <5>2. r \in Record /\ l \in Lock /\ lk[l].state \in {"ACTIVE", "OBSOLETE"}
          BY <1>3
        <5>3. /\ k \in 1 .. Len(ord[r]) /\ n \in 1 .. Len(ord[r]) /\ InUse(fields, ord[r][n])
              /\ x = s[n]
          BY <3>3, <3>4, <3>6
        <5>4. Blocked(fields, s, n) <=> /\ lk[s[n]].state = "WAIT" /\ Owner(s[n]) \in waitSet
                                        /\ s[n] \notin WokenAt(fields, s, k)
          BY <5>1, <5>2, <5>3, ReleaseGrants
        <5> QED BY <5>1, <5>3, <5>4
      <4>2. ASSUME NEW m \in 1 .. n - 1
            PROVE  /\ InUse(lk, ord[p][m])' <=> InUse(fields, s[m])
                   /\ lk'[ord[p][m]].mode = fields[s[m]].mode
        BY <1>3, <1>9, <3>1, <3>2, <3>6
      <4>3. Blocked(lk, ord[p], n)' <=> Blocked(fields, s, n)
        <5>1. lk'[ord[p][n]].mode = fields[s[n]].mode
          BY <1>3, <1>9, <3>3, <3>6
        <5> QED BY <4>2, <5>1 DEF Blocked
      <4> QED BY <3>3, <3>5, <4>1, <4>3
    <3>7. CASE p # r
      <4>1. x \notin w
        BY <1>4, <1>8, <3>1, <3>3, <3>7 DEF In
      <4>2. Blocked(lk, ord[p], n) <=> lk[x].state = "WAIT" /\ Owner(x) \in waitSet
        BY <1>1, <3>3, <3>4 DEF GrantInv
      <4>3. ASSUME NEW m \in 1 .. Len(ord[p])
            PROVE  /\ InUse(lk, ord[p][m])' <=> InUse(lk, ord[p][m])
                   /\ lk'[ord[p][m]].mode = lk[ord[p][m]].mode
        <5>1. ord[p][m] \in Lock /\ ord[p][m] # l
          BY <3>1, <3>7 DEF r
        <5> QED BY <1>3, <1>9, <5>1
      <4>4. Blocked(lk, ord[p], n)' <=> Blocked(lk, ord[p], n)
        BY <3>2, <4>3 DEF Blocked
      <4> QED BY <3>3, <3>5, <4>1, <4>2, <4>4
    <3> QED BY <3>6, <3>7
  <2>2. ASSUME NEW n \in 1 .. Len(q), InUse(lk, q[n])'
        PROVE  Blocked(lk, q, n)' <=> lk'[q[n]].state = "WAIT" /\ Owner(q[n]) \in waitSet'
    <3>1. PICK i \in 1 .. Len(s) : i = n + k - 1
      BY <1>4, <1>10
    <3>2. q[n] = s[i] /\ n \in Nat /\ k \in Nat /\ i \in Nat /\ k >= 1 /\ n >= 1 /\ i <= Len(s)
      <4>1. Len(q) \in Nat /\ Len(s) \in Nat
        BY <1>4, <1>10
      <4>2. q[n] = s[i]
        BY <1>10, <3>1
      <4> QED BY <4>1, <4>2
    <3>3. Blocked(lk, q, n)' <=> Blocked(lk, s, i)'
      <4>1. ASSUME NEW m \in 1 .. n - 1 PROVE m + k - 1 \in 1 .. i - 1 /\ q[m] = s[m + k - 1]
        <5>1. m \in 1 .. Len(q)
          BY <1>10, <3>2
        <5>2. q[m] = s[m + k - 1]
          BY <1>10, <5>1
        <5>3. m + k - 1 \in 1 .. i - 1
          BY <3>1, <3>2
        <5> QED BY <5>2, <5>3
      <4>2. ASSUME NEW j \in 1 .. i - 1, InUse(lk, s[j])'
            PROVE  j - k + 1 \in 1 .. n - 1 /\ q[j - k + 1] = s[j]
        <5>1. j \in 1 .. Len(s) /\ s[j] \in Lock /\ InUse(fields, s[j])
          BY <1>4, <1>9, <3>1, <3>2, <4>2
        <5>2. j \in k .. Len(s)
          BY <1>5, <3>2, <5>1
        <5> QED BY <1>10, <3>1, <3>2, <5>2
      <4> QED BY <3>2, <4>1, <4>2 DEF Blocked
    <3> QED BY <1>3, <2>1, <2>2, <3>2, <3>3
  <2>3. ASSUME NEW p \in Record, NEW n \in 1 .. Len(ord2[p]), InUse(lk, ord2[p][n])'
        PROVE  Blocked(lk, ord2[p], n)' <=> lk'[ord2[p][n]].state = "WAIT" /\ Owner(ord2[p][n]) \in waitSet'
    <3>1. CASE p = r
      BY <1>11, <2>2, <2>3, <3>1
    <3>2. CASE p # r
      BY <1>11, <2>1, <2>3, <3>2
    <3> QED BY <3>1, <3>2
  <2> QED BY <2>3 DEF GrantInv
<1>15. Types'
  <2>1. /\ released' \in [Thread -> Nat] /\ deque' \in [Thread -> Seq(Lock)]
        /\ trx' \in [Thread -> Nat \ {0}]
        /\ pc' \in [Thread -> {"acquire", "asleep", "release", "done"}]
    <3>1. /\ released \in [Thread -> Nat] /\ deque \in [Thread -> Seq(Lock)]
          /\ trx \in [Thread -> Nat \ {0}]
          /\ pc \in [Thread -> {"acquire", "asleep", "release", "done"}]
      BY <1>1 DEF Types
    <3>2. CASE released[t] + 1 < Len(deque[t])
      <4>1. released' = [released EXCEPT ![t] = @ + 1] /\ deque' = deque /\ trx' = trx /\ pc' = pc
        BY <1>2, <3>2 DEF Released
      <4>2. released' \in [Thread -> Nat]
        BY <3>1, <4>1
      <4> QED BY <3>1, <4>1, <4>2
    <3>3. CASE ~(released[t] + 1 < Len(deque[t]))
      <4>1. /\ released' = [released EXCEPT ![t] = 0] /\ deque' = [deque EXCEPT ![t] = << >>]
            /\ trx' = [trx EXCEPT ![t] = @ + 1]
            /\ pc' = [pc EXCEPT ![t] = IF trx[t] = Len(Programs[t]) THEN "done" ELSE "acquire"]
        BY <1>2, <3>3 DEF Released, Goto
      <4>2. released' \in [Thread -> Nat] /\ deque' \in [Thread -> Seq(Lock)]
        BY <3>1, <4>1
      <4>3. trx' \in [Thread -> Nat \ {0}]
        BY <3>1, <4>1
      <4>4. pc' \in [Thread -> {"acquire", "asleep", "release", "done"}]
        BY <3>1, <4>1
      <4> QED BY <4>2, <4>3, <4>4
    <3> QED BY <3>2, <3>3
  <2>2. head' \in [Record -> Node]
    BY <1>1, <1>2, <1>4, <1>5 DEF Types, Node
  <2>3. waitSet' \subseteq Thread
    BY <1>1, <1>2 DEF Types
  <2> QED BY <1>1, <1>2, <1>9, <2>1, <2>2, <2>3 DEF Types
<1>16. DequeInv(t)' /\ StateInv(t)'
  <2>1. /\ conflict'[t] = NoLock /\ t \notin waitSet'
        /\ trx[t] <= Len(Programs[t]) /\ Len(deque[t]) <= Len(Program(t))
        /\ released[t] < Len(deque[t]) /\ deque[t] \in Seq(Lock)
    BY <1>1, <1>2 DEF DequeInv, StateInv, Types
  <2>2. /\ \A x \in Lock : Owner(x) = t /\ Created(x)' /\ InUse(lk, x)' => In(deque[t], x) /\ x # l
    BY <1>1, <1>3, <1>9 DEF StateInv
  <2>3. l = deque[t][released[t] + 1]
    OBVIOUS
  <2>4. CASE released[t] + 1 < Len(deque[t])
    <3>1. /\ released'[t] = released[t] + 1 /\ deque'[t] = deque[t] /\ trx'[t] = trx[t]
          /\ pc'[t] = "release" /\ Program(t)' = Program(t)
      BY <1>1, <1>2, <2>4 DEF Released, Types, Program
    <3>2. ASSUME NEW n \in 1 .. Len(deque[t])
          PROVE  LET y == deque[t][n] IN
                 /\ Owner(y) = t /\ y[3] <= saved'[Owner(y)][Rec(y)]
                 /\ Rec(y) = Program(t)[n].rec /\ lk'[y].mode = Program(t)[n].mode
                 /\ lk'[y].state = IF y = l THEN "OBSOLETE" ELSE lk[y].state
      <4>1. deque[t][n] \in Lock
        BY <2>1
      <4> QED BY <1>1, <1>2, <1>9, <4>1 DEF DequeInv, Created
    <3>3. DequeInv(t)'
      BY <1>3, <2>1, <2>4, <3>1, <3>2 DEF DequeInv, Created
    <3>4. ASSUME NEW n \in 1 .. Len(deque[t])
          PROVE  LET state == lk'[deque[t][n]].state IN
                 /\ n <= released[t] + 1 => state = "OBSOLETE"
                 /\ n > released[t] + 1 /\ n < Len(deque[t]) => state = "ACTIVE"
                 /\ n > released[t] + 1 /\ n = Len(deque[t]) => state \in {"ACTIVE", "OBSOLETE"}
      <4>1. CASE n = released[t] + 1
        BY <1>3, <2>3, <3>2, <4>1
      <4>2. CASE n # released[t] + 1
        <5>1. /\ n <= released[t] => lk[deque[t][n]].state = "OBSOLETE"
              /\ n > released[t] /\ n < Len(deque[t]) => lk[deque[t][n]].state = "ACTIVE"
              /\ n > released[t] /\ n = Len(deque[t]) => lk[deque[t][n]].state \in {"ACTIVE", "OBSOLETE"}
          BY <1>1, <1>2 DEF StateInv
        <5>2. deque[t][n] # l
          <6>1. n \in 1 .. Len(Program(t)) /\ released[t] + 1 \in 1 .. Len(Program(t))
            BY <1>1, <1>3, <2>1, ProgramIs
          <6>2. Program(t)[n].rec # Program(t)[released[t] + 1].rec
            BY <1>1, <2>1, <4>2, <6>1, ProgramIs
          <6>3. Rec(deque[t][n]) = Program(t)[n].rec /\ Rec(l) = Program(t)[released[t] + 1].rec
            BY <1>1, <1>3 DEF DequeInv
          <6> QED BY <6>2, <6>3
        <5> QED BY <1>3, <3>2, <4>2, <5>1, <5>2
      <4> QED BY <4>1, <4>2
    <3>5. StateInv(t)'
      BY <2>1, <2>2, <3>1, <3>4 DEF StateInv
    <3> QED BY <3>3, <3>5
  <2>5. CASE ~(released[t] + 1 < Len(deque[t]))
    <3>1. /\ released'[t] = 0 /\ deque'[t] = << >> /\ trx'[t] = trx[t] + 1
          /\ pc'[t] = IF trx[t] = Len(Programs[t]) THEN "done" ELSE "acquire"
      BY <1>1, <1>2, <2>5 DEF Released, Goto, Types
    <3>2. pc'[t] = "acquire" => trx'[t] <= Len(Programs[t]) /\ Len(Program(t)') > 0
      <4>1. ASSUME trx[t] # Len(Programs[t]) PROVE trx'[t] <= Len(Programs[t])
        <5>1. trx[t] \in Nat /\ Programs[t] \in Seq(Seq(Request))
          BY <1>1, ProgramAssumption DEF Types
        <5>2. Len(Programs[t]) \in Nat
          BY <5>1
        <5> QED BY <2>1, <3>1, <4>1, <5>1, <5>2
      <4>2. ASSUME trx'[t] <= Len(Programs[t]) PROVE Len(Program(t)') > 0
        <5>1. Programs[t] \in Seq(Seq(Request)) /\ trx'[t] \in 1 .. Len(Programs[t])
          BY <1>15, <4>2, ProgramAssumption DEF Types
        <5> DEFINE p == Programs[t][trx'[t]]
        <5>2. p \in Seq(Request)
          BY <5>1
        <5>3. p # << >>
          BY <5>1, ProgramAssumption
        <5> HIDE DEF p
        <5>4. Len(p) > 0
          BY <5>2, <5>3
        <5> QED BY <5>4 DEF p, Program
      <4> QED BY <3>1, <4>1, <4>2
    <3>3. DequeInv(t)'
      BY <3>1, <3>2 DEF DequeInv
    <3>4. ASSUME NEW x \in Lock, Owner(x) = t, Created(x)', InUse(lk, x)' PROVE FALSE
      <4>1. In(deque[t], x) /\ x # l /\ InUse(lk, x)
        BY <1>3, <1>9, <2>2, <3>4
      <4>2. PICK n \in 1 .. Len(deque[t]) : deque[t][n] = x
        BY <4>1 DEF In
      <4>3. n # released[t] + 1
        BY <4>1, <4>2
      <4>4. n <= released[t]
        BY <1>3, <2>1, <2>5, <4>3
      <4>5. lk[x].state = "OBSOLETE"
        BY <1>1, <4>2, <4>4 DEF StateInv
      <4> QED BY <4>1, <4>5 DEF InUse
    <3>5. StateInv(t)'
      BY <2>1, <3>1, <3>4 DEF StateInv
    <3> QED BY <3>3, <3>5
  <2> QED BY <2>4, <2>5
<1>17. ASSUME NEW u \in Thread \ {t} PROVE DequeInv(u)' /\ StateInv(u)'
  <2>1. /\ deque'[u] = deque[u] /\ trx'[u] = trx[u] /\ released'[u] = released[u]
        /\ pc'[u] = pc[u] /\ conflict'[u] = conflict[u] /\ (u \in waitSet' => u \in waitSet)
    BY <1>1, <1>2 DEF Types, Goto, Released
  <2>2. \A x \in Lock : Owner(x) = u => /\ Created(x)' <=> Created(x)
                                        /\ lk'[x].mode = lk[x].mode
                                        /\ lk'[x].state = lk[x].state
    BY <1>3, <1>9
  <2> QED BY <1>1, <2>1, <2>2, OtherThread
<1>18. Inv(ord2)'
  BY <1>12, <1>14, <1>15, <1>16, <1>17 DEF Inv
<1>19. Releases(t, l)
  BY <1>2, <1>3, <1>9 DEF Releases
<1>20. \A j \in 1 .. k - 1 : ~InUse(lk, s[j])'
  <2>1. ASSUME NEW j \in 1 .. k - 1 PROVE ~InUse(lk, s[j])'
    <3>1. j \in 1 .. Len(s)
      BY <1>4
    <3> QED BY <1>4, <1>5, <1>9, <3>1
  <2> QED BY <2>1
<1>21. ord2 = Drop(ord, r, k)
  BY DEF ord2, q, Drop
<1> QED BY <1>3, <1>11, <1>18, <1>19, <1>20, <1>21 DEF r

-----------------------------------------------------------------------------
(* The invariant is inductive, and gives the types, the lists and the wakeups *)

\* The invariant is inductive.
LEMMA NextInv == IInv /\ [Next]_vars => IInv'
<1> SUFFICES ASSUME NEW ord \in [Record -> Seq(Lock)], Inv(ord), [Next]_vars PROVE IInv'
  BY DEF IInv
<1>1. ASSUME NEW t \in Thread, AcquireLock(t) PROVE IInv'
  <2>1. PICK r : r = Wanted(t).rec
    OBVIOUS
  <2>2. PICK l : l = NewLock(t, r)
    OBVIOUS
  <2>3. Put(ord, l) \in [Record -> Seq(Lock)] /\ Inv(Put(ord, l))'
    BY <1>1, <2>1, <2>2, AcquireEffect
  <2> QED BY <2>3 DEF IInv
<1>2. ASSUME NEW t \in Thread, Awake(t) PROVE IInv'
  BY <1>2, AwakeEffect DEF IInv
<1>3. ASSUME NEW t \in Thread, ReleaseLock(t) PROVE IInv'
  <2>1. PICK l : l = deque[t][released[t] + 1]
    OBVIOUS
  <2>2. PICK k \in 1 .. Len(ord[Rec(l)]) :
          Drop(ord, Rec(l), k) \in [Record -> Seq(Lock)] /\ Inv(Drop(ord, Rec(l), k))'
    BY <1>3, <2>1, ReleaseEffect
  <2> QED BY <2>2 DEF IInv
<1>4. CASE UNCHANGED vars
  <2>1. Inv(ord)'
    BY <1>4 DEF vars, Inv, Types, QueueInv, ListInv, LockInv, Line, Created, InUse, GrantInv, Blocked,
                DequeInv, StateInv, Program
  <2> QED BY <2>1 DEF IInv
<1> QED BY <1>1, <1>2, <1>3, <1>4 DEF Next, Step, Done

\* A lock of a running transaction that is in use stands in the list of its record.
LEMMA LiveIs ==
  ASSUME NEW ord, Inv(ord), NEW t \in Thread, NEW l \in Live(t)
  PROVE  /\ l \in Lock /\ Owner(l) = t /\ Created(l) /\ InUse(lk, l) /\ Rec(l) \in Record
         /\ In(ord[Rec(l)], l)
<1>1. PICK n \in 1 .. Len(deque[t]) : l = deque[t][n]
  BY DEF Live
<1>2. l \in Lock /\ Owner(l) = t /\ Created(l) /\ InUse(lk, l)
  BY <1>1 DEF Live, Inv, Types, DequeInv
<1>3. LockInv(ord[Rec(l)], l)
  BY <1>2 DEF Inv, QueueInv
<1> QED BY <1>2, <1>3, LockIs DEF LockInv

\* What the walks see of the lists.
LEMMA ListsAre ==
  ASSUME NEW ord \in [Record -> Seq(Lock)], Inv(ord), NEW r \in Record
  PROVE  LET s == ord[r] IN
         /\ s \in Seq(Lock) /\ Len(s) \in Nat
         /\ \A n \in 1 .. Len(s) : s[n] \in Lock /\ Rec(s[n]) = r /\ Created(s[n])
         /\ Chain(r) = {s[j] : j \in 1 .. Len(s)}
         /\ \A n \in 1 .. Len(s) :
              /\ From(lk, head[r], s[n]) = {s[j] : j \in 1 .. n - 1}
              /\ Before(s[n]) = {m \in {s[j] : j \in 1 .. n - 1} : InUse(lk, m)}
<1> DEFINE s == ord[r]
<1>1. /\ s \in Seq(Lock) /\ Len(s) \in Nat /\ Distinct(s) /\ Line(lk, s) /\ head[r] = At(s, 1)
      /\ \A n \in 1 .. Len(s) : s[n] \in Lock /\ Rec(s[n]) = r /\ Created(s[n])
  BY DEF Inv, QueueInv, ListInv
<1>2. Linkable(lk)
  BY DEF Inv, Types, Linkable, Fields, Node
<1> HIDE DEF s
<1>3. /\ From(lk, At(s, 1), NoLock) = {s[j] : j \in 1 .. Len(s)}
      /\ \A n \in 1 .. Len(s) : From(lk, At(s, 1), s[n]) = {s[j] : j \in 1 .. n - 1}
  BY <1>1, <1>2, FromHead
<1>4. Chain(r) = {s[j] : j \in 1 .. Len(s)}
  BY <1>1, <1>3 DEF Chain
<1>5. ASSUME NEW n \in 1 .. Len(s) PROVE Before(s[n]) = {m \in {s[j] : j \in 1 .. n - 1} : InUse(lk, m)}
  <2>1. From(lk, head[Rec(s[n])], s[n]) = {s[j] : j \in 1 .. n - 1}
    BY <1>1, <1>3
  <2> QED BY <2>1 DEF Before
<1> QED BY <1>1, <1>3, <1>4, <1>5 DEF s

\* A thread waits for the last lock of its deque.
LEMMA ConflictIs ==
  ASSUME NEW ord \in [Record -> Seq(Lock)], Inv(ord), NEW t \in Thread, conflict[t] # NoLock
  PROVE  /\ pc[t] = "asleep" /\ conflict[t] \in Live(t) /\ lk[conflict[t]].state = "WAIT"
<1>1. Types /\ DequeInv(t) /\ StateInv(t)
  BY DEF Inv
<1>2. pc[t] = "asleep" /\ conflict[t] = deque[t][Len(deque[t])]
  BY <1>1 DEF StateInv
<1>3. Len(deque[t]) \in 1 .. Len(deque[t]) /\ released[t] = 0 /\ Len(deque[t]) > 0
  BY <1>1, <1>2 DEF Types, DequeInv
<1>4. lk[conflict[t]].state = "WAIT"
  BY <1>1, <1>2, <1>3 DEF StateInv
<1> QED BY <1>2, <1>3, <1>4 DEF Live, InUse

\* The invariant has the types,
LEMMA TypesHold == IInv => TypeOK
<1> SUFFICES ASSUME NEW ord \in [Record -> Seq(Lock)], Inv(ord) PROVE TypeOK
  BY DEF IInv
<1>1. Types /\ \A t \in Thread : DequeInv(t)
  BY DEF Inv
<1>2. ASSUME NEW t \in Thread, pc[t] = "release" PROVE released[t] \in 0 .. Len(deque[t]) - 1
  <2>1. released[t] \in Nat /\ Len(deque[t]) \in Nat /\ released[t] < Len(deque[t])
    BY <1>1, <1>2 DEF Types, DequeInv
  <2> QED BY <2>1
<1>3. trx \in [Thread -> Nat]
  BY <1>1 DEF Types
<1> QED BY <1>1, <1>2, <1>3 DEF Types, TypeOK, Node

\* keeps the lists intact,
LEMMA ListsHold == IInv => ListIntact
<1> SUFFICES ASSUME NEW ord \in [Record -> Seq(Lock)], Inv(ord) PROVE ListIntact
  BY DEF IInv
<1>1. ASSUME NEW t \in Thread, NEW l \in Live(t) PROVE l \in Chain(Rec(l))
  <2>1. In(ord[Rec(l)], l) /\ Rec(l) \in Record
    BY LiveIs
  <2>2. Chain(Rec(l)) = {ord[Rec(l)][j] : j \in 1 .. Len(ord[Rec(l)])}
    BY <2>1, ListsAre
  <2> QED BY <2>1, <2>2 DEF In
<1>2. ASSUME NEW r \in Record, NEW l \in Chain(r) PROVE Rec(l) = r /\ ~lk[l].headPass
  <2>1. PICK n \in 1 .. Len(ord[r]) : l = ord[r][n]
    BY ListsAre
  <2>2. l \in Lock /\ Rec(l) = r /\ Created(l) /\ In(ord[r], l)
    BY <2>1, ListsAre DEF In
  <2>3. LockInv(ord[r], l)
    BY <2>2 DEF Inv, QueueInv
  <2> QED BY <2>2, <2>3 DEF LockInv
<1>3. ASSUME NEW r \in Record, tail[r] # NoLock PROVE tail[r] \in Chain(r) /\ lk[tail[r]].next = NoLock
  <2>1. ListInv(ord[r], r) /\ Len(ord[r]) \in Nat
    BY DEF Inv, QueueInv
  <2>2. Len(ord[r]) \in 1 .. Len(ord[r]) /\ tail[r] = ord[r][Len(ord[r])]
    BY <1>3, <2>1 DEF ListInv, At
  <2>3. lk[tail[r]].next = At(ord[r], Len(ord[r]) + 1)
    BY <2>1, <2>2 DEF ListInv, Line
  <2>4. At(ord[r], Len(ord[r]) + 1) = NoLock
    BY <2>1 DEF At
  <2> QED BY <2>2, <2>3, <2>4, ListsAre
<1> QED BY <1>1, <1>2, <1>3 DEF ListIntact

\* and leaves nobody asleep behind compatible locks only.
LEMMA WakeupsHold == IInv => NoLostWakeup
<1> SUFFICES ASSUME NEW ord \in [Record -> Seq(Lock)], Inv(ord), NEW t \in waitSet
             PROVE  \E m \in Before(conflict[t]) : Incompatible(lk[conflict[t]].mode, lk[m].mode)
  BY DEF IInv, NoLostWakeup
<1>1. t \in Thread /\ Types /\ DequeInv(t) /\ StateInv(t)
  BY DEF Inv, Types
<1>2. pc[t] = "asleep" /\ Len(deque[t]) \in 1 .. Len(deque[t])
  BY <1>1 DEF StateInv, DequeInv, Types
<1>3. conflict[t] # NoLock
  BY <1>1, <1>2, NoLockAssumption DEF StateInv, Types
<1> DEFINE l == conflict[t]
           s == ord[Rec(l)]
<1>4. l \in Live(t) /\ lk[l].state = "WAIT"
  BY <1>1, <1>3, ConflictIs
<1> HIDE DEF l
<1>5. l \in Lock /\ Owner(l) = t /\ InUse(lk, l) /\ Rec(l) \in Record /\ In(s, l)
  BY <1>1, <1>4, LiveIs
<1>6. PICK n \in 1 .. Len(s) : l = s[n]
  BY <1>5 DEF In
<1>7. Blocked(lk, s, n)
  BY <1>4, <1>5, <1>6 DEF Inv, GrantInv
<1>8. Before(s[n]) = {m \in {s[j] : j \in 1 .. n - 1} : InUse(lk, m)}
  BY <1>5, ListsAre
<1> QED BY <1>6, <1>7, <1>8 DEF Blocked, l

\* Every variable of AcquireLock and ReleaseLock under the global mutex keeps its type, and
\* Commit() and Abort() release no more locks than the transaction has.
THEOREM TypeCorrect == Spec => []TypeOK
BY InitInv, NextInv, TypesHold, PTL DEF Spec

\* Whatever the threads insert, release and use again, a lock in use stays reachable from the
\* head of its record, the tail is the last lock, and no list leads to a lock the head has passed:
\* the pointer walks of AcquireLock, IsDeadlock2 and ReleaseLock never meet a nullptr.
THEOREM ListsStayIntact == Spec => []ListIntact
BY InitInv, NextInv, ListsHold, PTL DEF Spec

\* ReleaseLock signals everyone whose lock it unblocks: who is inside cond.wait() always has an
\* incompatible lock in use before its own.
THEOREM NoWakeupIsLost == Spec => []NoLostWakeup
BY InitInv, NextInv, WakeupsHold, PTL DEF Spec

-----------------------------------------------------------------------------
(* What the other properties take from the invariant *)

Using(l) == Created(l) /\ InUse(lk, l)

\* Who is in use has a place in its list, and stands behind those in use before it. A thread
\* has one lock in use of a record, and waits for its only lock in WAIT.
View(ord) ==
  /\ \A r \in Record : \A n \in 1 .. Len(ord[r]) :
       ord[r][n] \in Lock /\ Rec(ord[r][n]) = r /\ Created(ord[r][n])
  /\ \A l \in Lock : Using(l) =>
       \E n \in 1 .. Len(ord[Rec(l)]) :
         /\ ord[Rec(l)][n] = l
         /\ Before(l) = {m \in {ord[Rec(l)][j] : j \in 1 .. n - 1} : InUse(lk, m)}
         /\ \A j \in 1 .. n - 1 : ord[Rec(l)][j] # l
  /\ \A l \in Lock : Using(l) => From(lk, head[Rec(l)], l) \subseteq Lock
  /\ \A t \in Thread : Live(t) = {l \in Lock : Using(l) /\ Owner(l) = t}
  /\ \A l, m \in Lock : Using(l) /\ Using(m) /\ Owner(l) = Owner(m) /\ Rec(l) = Rec(m) => l = m
  /\ \A l \in Lock : Using(l) /\ lk[l].state = "WAIT" => conflict[Owner(l)] = l
  /\ \A t \in Thread :
       /\ conflict[t] # NoLock =>
            /\ conflict[t] \in Lock /\ Using(conflict[t]) /\ Owner(conflict[t]) = t
            /\ lk[conflict[t]].state = "WAIT" /\ pc[t] = "asleep"
       /\ t \in waitSet => conflict[t] # NoLock
  /\ waitSet \subseteq Thread

\* The invariant gives this view.
LEMMA ViewHolds == \A ord \in [Record -> Seq(Lock)] : Inv(ord) => View(ord)
<1> SUFFICES ASSUME NEW ord \in [Record -> Seq(Lock)], Inv(ord) PROVE View(ord)
  OBVIOUS
<1>1. Types /\ QueueInv(ord) /\ \A t \in Thread : DequeInv(t) /\ StateInv(t)
  BY DEF Inv
<1>2. ASSUME NEW r \in Record, NEW n \in 1 .. Len(ord[r])
      PROVE  ord[r][n] \in Lock /\ Rec(ord[r][n]) = r /\ Created(ord[r][n])
  BY ListsAre
<1>3. ASSUME NEW t \in Thread PROVE Live(t) = {l \in Lock : Using(l) /\ Owner(l) = t}
  <2>1. ASSUME NEW l \in Live(t) PROVE l \in Lock /\ Using(l) /\ Owner(l) = t
    BY LiveIs DEF Using
  <2>2. ASSUME NEW l \in Lock, Using(l), Owner(l) = t PROVE l \in Live(t)
    <3>1. In(deque[t], l) /\ InUse(lk, l)
      BY <1>1, <2>2 DEF StateInv, Using
    <3> QED BY <3>1 DEF In, Live
  <2> QED BY <2>1, <2>2
<1>4. ASSUME NEW l \in Lock, Using(l)
      PROVE  \E n \in 1 .. Len(ord[Rec(l)]) :
               /\ ord[Rec(l)][n] = l
               /\ Before(l) = {m \in {ord[Rec(l)][j] : j \in 1 .. n - 1} : InUse(lk, m)}
               /\ \A j \in 1 .. n - 1 : ord[Rec(l)][j] # l
  <2>1. Rec(l) \in Record /\ Owner(l) \in Thread
    BY LockIs
  <2>2. In(ord[Rec(l)], l)
    BY <1>3, <1>4, <2>1, LiveIs
  <2>3. PICK n \in 1 .. Len(ord[Rec(l)]) : ord[Rec(l)][n] = l
    BY <2>2 DEF In
  <2>4. Before(l) = {m \in {ord[Rec(l)][j] : j \in 1 .. n - 1} : InUse(lk, m)}
    BY <2>1, <2>3, ListsAre
  <2>5. \A j \in 1 .. n - 1 : ord[Rec(l)][j] # l
    <3>1. Distinct(ord[Rec(l)]) /\ Len(ord[Rec(l)]) \in Nat
      BY <1>1, <2>1, ListsAre DEF QueueInv, ListInv
    <3> QED BY <2>3, <3>1 DEF Distinct
  <2> QED BY <2>3, <2>4, <2>5
<1>9. ASSUME NEW l \in Lock, Using(l) PROVE From(lk, head[Rec(l)], l) \subseteq Lock
  <2>1. Rec(l) \in Record
    BY LockIs
  <2>2. PICK n \in 1 .. Len(ord[Rec(l)]) : ord[Rec(l)][n] = l
    BY <1>4, <1>9
  <2>3. From(lk, head[Rec(l)], l) = {ord[Rec(l)][j] : j \in 1 .. n - 1} /\ Len(ord[Rec(l)]) \in Nat
    BY <2>1, <2>2, ListsAre
  <2> QED BY <1>2, <2>1, <2>2, <2>3
<1>5. ASSUME NEW l \in Lock, NEW m \in Lock, Using(l), Using(m), Owner(l) = Owner(m), Rec(l) = Rec(m)
      PROVE  l = m
  <2>1. PICK t \in Thread : t = Owner(l)
    BY LockIs
  <2>2. l \in Live(t) /\ m \in Live(t)
    BY <1>3, <1>5, <2>1
  <2>3. PICK i \in 1 .. Len(deque[t]) : l = deque[t][i]
    BY <2>2 DEF Live
  <2>4. PICK j \in 1 .. Len(deque[t]) : m = deque[t][j]
    BY <2>2 DEF Live
  <2>5. /\ Rec(l) = Program(t)[i].rec /\ Rec(m) = Program(t)[j].rec
        /\ trx[t] <= Len(Programs[t]) /\ Len(deque[t]) <= Len(Program(t)) /\ Len(deque[t]) \in Nat
    BY <1>1, <2>3, <2>4 DEF DequeInv, Types
  <2>6. i \in 1 .. Len(Program(t)) /\ j \in 1 .. Len(Program(t))
    BY <1>1, <2>5, ProgramIs
  <2>7. i = j
    BY <1>1, <1>5, <2>5, <2>6, ProgramIs
  <2> QED BY <2>3, <2>4, <2>7
<1>6. ASSUME NEW l \in Lock, Using(l), lk[l].state = "WAIT" PROVE conflict[Owner(l)] = l
  <2>1. Owner(l) \in Thread
    BY LockIs
  <2> QED BY <1>1, <1>6, <2>1, WaitsOnce DEF Using
<1>7. ASSUME NEW t \in Thread, conflict[t] # NoLock
      PROVE  /\ conflict[t] \in Lock /\ Using(conflict[t]) /\ Owner(conflict[t]) = t
             /\ lk[conflict[t]].state = "WAIT" /\ pc[t] = "asleep"
  BY <1>3, <1>7, ConflictIs
<1>8. ASSUME NEW t \in Thread, t \in waitSet PROVE conflict[t] # NoLock
  <2>1. pc[t] = "asleep" /\ Len(deque[t]) \in 1 .. Len(deque[t]) /\ deque[t] \in Seq(Lock)
    BY <1>1, <1>8 DEF StateInv, DequeInv, Types
  <2> QED BY <1>1, <2>1, NoLockAssumption DEF StateInv
<1> QED BY <1>1, <1>2, <1>3, <1>4, <1>5, <1>6, <1>7, <1>8, <1>9 DEF View, Types

\* The same in the next state.
LEMMA ViewNext == (\A ord \in [Record -> Seq(Lock)] : Inv(ord) => View(ord))'
BY ViewHolds, PTL

\* Who stands before a lock is in use, in the same list.
LEMMA BeforeIs ==
  ASSUME NEW ord \in [Record -> Seq(Lock)], View(ord), NEW l \in Lock, Using(l), NEW m \in Before(l)
  PROVE  m \in Lock /\ Using(m) /\ Rec(m) = Rec(l) /\ m # l /\ Owner(m) \in Thread /\ Owner(m) # Owner(l)
<1>1. PICK n \in 1 .. Len(ord[Rec(l)]) :
         /\ ord[Rec(l)][n] = l
         /\ Before(l) = {x \in {ord[Rec(l)][j] : j \in 1 .. n - 1} : InUse(lk, x)}
         /\ \A j \in 1 .. n - 1 : ord[Rec(l)][j] # l
  BY DEF View
<1>2. Rec(l) \in Record /\ ord[Rec(l)] \in Seq(Lock) /\ Len(ord[Rec(l)]) \in Nat
  BY LockIs
<1>3. PICK j \in 1 .. n - 1 : m = ord[Rec(l)][j] /\ InUse(lk, m)
  BY <1>1
<1>4. j \in 1 .. Len(ord[Rec(l)])
  BY <1>2
<1>5. m \in Lock /\ Using(m) /\ Rec(m) = Rec(l) /\ m # l
  BY <1>1, <1>2, <1>3, <1>4 DEF View, Using
<1>6. Owner(m) \in Thread /\ Owner(m) # Owner(l)
  BY <1>5, LockIs DEF View
<1> QED BY <1>5, <1>6

\* A new lock stands behind all that are in use; nobody else is moved.
LEMMA AcquireOrder ==
  ASSUME NEW ord \in [Record -> Seq(Lock)], View(ord), NEW t \in Thread, NEW l \in Lock, NEW st,
         Acquires(t, l, st), ~In(ord[Rec(l)], l), View(Put(ord, l))'
  PROVE  /\ ~Using(l)
         /\ \A x \in Lock : Using(x)' <=> Using(x) \/ (x = l /\ st # "OBSOLETE")
         /\ \A x \in Lock : Using(x) => x # l /\ Before(x)' = Before(x)
         /\ st # "OBSOLETE" => Before(l)' = {m \in Lock : Using(m) /\ Rec(m) = Rec(l)}
<1>1. ~Using(l)
  BY DEF Acquires, Using, Recyclable, InUse
<1>2. ASSUME NEW x \in Lock PROVE Using(x)' <=> Using(x) \/ (x = l /\ st # "OBSOLETE")
  <2>1. CASE x = l
    BY <1>1, <2>1 DEF Acquires, Using, InUse
  <2>2. CASE x # l
    BY <2>2 DEF Acquires, Using, InUse
  <2> QED BY <2>1, <2>2
<1>3. ASSUME NEW x \in Lock, x # l PROVE InUse(lk, x)' <=> InUse(lk, x)
  BY <1>3 DEF Acquires, InUse
<1> DEFINE ord2 == Put(ord, l)
<1>4. \A r \in Record : /\ ord[r] \in Seq(Lock) /\ Len(ord[r]) \in Nat
                        /\ ord2[r] = IF r = Rec(l) THEN Append(ord[r], l) ELSE ord[r]
  BY DEF Put
<1>5. ASSUME NEW r \in Record
      PROVE  /\ Len(ord2[r]) = IF r = Rec(l) THEN Len(ord[r]) + 1 ELSE Len(ord[r])
             /\ \A n \in 1 .. Len(ord[r]) : ord2[r][n] = ord[r][n]
             /\ r = Rec(l) => ord2[r][Len(ord[r]) + 1] = l
  <2>1. CASE r = Rec(l)
    <3>1. ord[r] \in Seq(Lock) /\ Len(ord[r]) \in Nat /\ ord2[r] = Append(ord[r], l)
      BY <1>4, <2>1
    <3> HIDE DEF ord2
    <3> QED BY <2>1, <3>1, AppendIs
  <2>2. CASE r # Rec(l)
    BY <1>4, <2>2
  <2> QED BY <2>1, <2>2
<1>6. ASSUME NEW x \in Lock, Using(x)'
      PROVE  \E n \in 1 .. Len(ord2[Rec(x)]) :
               /\ ord2[Rec(x)][n] = x
               /\ Before(x)' = {m \in {ord2[Rec(x)][j] : j \in 1 .. n - 1} : InUse(lk, m)'}
               /\ \A j \in 1 .. n - 1 : ord2[Rec(x)][j] # x
  BY <1>6 DEF View
<1> HIDE DEF ord2
<1>7. ASSUME NEW x \in Lock, Using(x) PROVE x # l /\ Before(x)' = Before(x)
  <2> DEFINE r == Rec(x)
  <2>1. x # l /\ r \in Record /\ Using(x)'
    BY <1>1, <1>2, <1>7, LockIs
  <2>2. PICK n \in 1 .. Len(ord[r]) :
          /\ ord[r][n] = x
          /\ Before(x) = {m \in {ord[r][j] : j \in 1 .. n - 1} : InUse(lk, m)}
          /\ \A j \in 1 .. n - 1 : ord[r][j] # x
    BY <1>7 DEF View
  <2>3. PICK i \in 1 .. Len(ord2[r]) :
          /\ ord2[r][i] = x
          /\ Before(x)' = {m \in {ord2[r][j] : j \in 1 .. i - 1} : InUse(lk, m)'}
          /\ \A j \in 1 .. i - 1 : ord2[r][j] # x
    BY <1>6, <2>1
  <2>4. n \in Nat /\ i \in Nat /\ Len(ord[r]) \in Nat /\ Len(ord2[r]) \in Nat
        /\ n \in 1 .. Len(ord2[r])
    BY <1>4, <1>5, <2>1
  <2>5. i = n
    <3>1. ~(n \in 1 .. i - 1)
      BY <1>5, <2>1, <2>2, <2>3
    <3>2. ~(i \in 1 .. n - 1)
      <4>1. ASSUME i \in 1 .. n - 1 PROVE FALSE
        <5>1. i \in 1 .. Len(ord[r])
          BY <2>4, <4>1
        <5> QED BY <1>5, <2>1, <2>2, <2>3, <4>1, <5>1
      <4> QED BY <4>1
    <3> QED BY <2>4, <3>1, <3>2
  <2>6. ASSUME NEW j \in 1 .. n - 1
        PROVE  ord2[r][j] = ord[r][j] /\ (InUse(lk, ord[r][j])' <=> InUse(lk, ord[r][j]))
    <3>1. j \in 1 .. Len(ord[r])
      BY <2>4
    <3>2. ord[r][j] \in Lock /\ ord2[r][j] = ord[r][j]
      BY <1>4, <1>5, <2>1, <3>1
    <3>3. ord[r][j] # l
      BY <2>1, <3>1 DEF In, View
    <3> QED BY <1>3, <3>2, <3>3
  <2> QED BY <2>1, <2>2, <2>3, <2>5, <2>6
<1>8. ASSUME st # "OBSOLETE" PROVE Before(l)' = {m \in Lock : Using(m) /\ Rec(m) = Rec(l)}
  <2> DEFINE r == Rec(l)
  <2>1. r \in Record /\ Using(l)'
    BY <1>2, <1>8, LockIs
  <2>2. PICK i \in 1 .. Len(ord2[r]) :
          /\ ord2[r][i] = l
          /\ Before(l)' = {m \in {ord2[r][j] : j \in 1 .. i - 1} : InUse(lk, m)'}
          /\ \A j \in 1 .. i - 1 : ord2[r][j] # l
    BY <1>6, <2>1
  <2>3. \A j \in 1 .. Len(ord[r]) : ord2[r][j] = ord[r][j] /\ ord[r][j] \in Lock \ {l}
    BY <1>4, <1>5, <2>1 DEF In
  <2>4. i = Len(ord[r]) + 1 /\ i - 1 = Len(ord[r])
    BY <1>4, <1>5, <2>1, <2>2, <2>3
  <2>5. Before(l)' = {m \in {ord[r][j] : j \in 1 .. Len(ord[r])} : InUse(lk, m)}
    <3>1. \A j \in 1 .. Len(ord[r]) : InUse(lk, ord[r][j])' <=> InUse(lk, ord[r][j])
      BY <1>3, <2>3
    <3> QED BY <2>2, <2>3, <2>4, <3>1
  <2>6. ASSUME NEW m \in Lock, Using(m), Rec(m) = r PROVE \E j \in 1 .. Len(ord[r]) : m = ord[r][j]
    BY <2>6 DEF View
  <2>7. ASSUME NEW j \in 1 .. Len(ord[r]), InUse(lk, ord[r][j])
        PROVE  ord[r][j] \in Lock /\ Using(ord[r][j]) /\ Rec(ord[r][j]) = r
    BY <2>1, <2>7 DEF View, Using
  <2> QED BY <2>5, <2>6, <2>7 DEF Using
<1> QED BY <1>1, <1>2, <1>7, <1>8

\* Who stays in use stands behind the same locks, but for the released one.
LEMMA ReleaseOrder ==
  ASSUME NEW ord \in [Record -> Seq(Lock)], View(ord), NEW t \in Thread, NEW l \in Lock,
         Releases(t, l), NEW r \in Record, NEW k \in 1 .. Len(ord[r]),
         \A j \in 1 .. k - 1 : ~InUse(lk, ord[r][j])', View(Drop(ord, r, k))'
  PROVE  /\ \A x \in Lock : Using(x)' <=> Using(x) /\ x # l
         /\ \A x \in Lock : Using(x)' => Before(x)' = Before(x) \ {l}
<1>1. \A x \in Lock : Using(x)' <=> Using(x) /\ x # l
  BY DEF Releases, Using
<1>2. \A x \in Lock : InUse(lk, x)' <=> InUse(lk, x) /\ x # l
  BY DEF Releases
<1> DEFINE ord2 == Drop(ord, r, k)
           q == SubSeq(ord[r], k, Len(ord[r]))
<1>3. \A p \in Record : /\ ord[p] \in Seq(Lock) /\ Len(ord[p]) \in Nat
                        /\ ord2[p] = IF p = r THEN q ELSE ord[p]
  BY DEF Drop
<1>4. /\ Len(q) = Len(ord[r]) - k + 1 /\ k \in Nat /\ k >= 1 /\ k <= Len(ord[r])
      /\ \A n \in 1 .. Len(q) : q[n] = ord[r][n + k - 1]
  BY <1>3
<1> HIDE DEF q
<1>5. ASSUME NEW x \in Lock, Using(x)'
      PROVE  \E n \in 1 .. Len(ord2[Rec(x)]) :
               /\ ord2[Rec(x)][n] = x
               /\ Before(x)' = {m \in {ord2[Rec(x)][j] : j \in 1 .. n - 1} : InUse(lk, m)'}
               /\ \A j \in 1 .. n - 1 : ord2[Rec(x)][j] # x
  BY <1>5 DEF View
<1> HIDE DEF ord2
<1>6. ASSUME NEW x \in Lock, Using(x)' PROVE Before(x)' = Before(x) \ {l}
  <2> DEFINE p == Rec(x)
             s == ord[p]
  <2>1. p \in Record /\ Using(x) /\ s \in Seq(Lock) /\ Len(s) \in Nat
    BY <1>1, <1>3, <1>6, LockIs
  <2>2. PICK n \in 1 .. Len(s) :
          /\ s[n] = x
          /\ Before(x) = {m \in {s[j] : j \in 1 .. n - 1} : InUse(lk, m)}
          /\ \A j \in 1 .. n - 1 : s[j] # x
    BY <2>1 DEF View
  <2>3. PICK i \in 1 .. Len(ord2[p]) :
          /\ ord2[p][i] = x
          /\ Before(x)' = {m \in {ord2[p][j] : j \in 1 .. i - 1} : InUse(lk, m)'}
          /\ \A j \in 1 .. i - 1 : ord2[p][j] # x
    BY <1>5, <1>6
  <2> HIDE DEF s
  <2>4. \A j \in 1 .. n - 1 : j \in 1 .. Len(s) /\ s[j] \in Lock
    BY <2>1
  <2>5. ASSUME NEW m PROVE m \in Before(x)' <=> \E j \in 1 .. n - 1 : m = s[j] /\ InUse(lk, s[j])'
    <3>1. CASE p # r
      <4>1. ord2[p] = s
        BY <1>3, <2>1, <3>1 DEF s
      <4>2. i = n
        BY <2>1, <2>2, <2>3, <4>1
      <4> QED BY <2>3, <4>1, <4>2
    <3>2. CASE p = r
      <4>1. ord2[p] = q /\ s = ord[r]
        BY <1>3, <2>1, <3>2 DEF s
      <4>2. /\ i \in Nat /\ i >= 1 /\ i <= Len(s) - k + 1 /\ i + k - 1 \in 1 .. Len(s)
            /\ n \in Nat /\ n >= 1 /\ n <= Len(s)
        BY <1>4, <2>1, <4>1
      <4>3. s[i + k - 1] = x
        BY <1>4, <2>3, <4>1
      <4>4. ASSUME NEW j \in 1 .. i - 1 PROVE q[j] = s[j + k - 1] /\ j + k - 1 \in 1 .. Len(s)
        <5>1. j \in 1 .. Len(q)
          BY <1>4, <4>1, <4>2
        <5> QED BY <1>4, <4>1, <4>2, <5>1
      <4>5. i + k - 1 = n
        <5>1. ~(i + k - 1 < n)
          <6>1. ASSUME i + k - 1 < n PROVE FALSE
            <7>1. i + k - 1 \in 1 .. n - 1
              BY <4>2, <6>1
            <7> QED BY <2>2, <4>3, <7>1
          <6> QED BY <6>1
        <5>2. ~(n < k)
          <6>1. ASSUME n < k PROVE FALSE
            <7>1. n \in 1 .. k - 1
              BY <1>4, <4>2, <6>1
            <7>2. ~InUse(lk, x)'
              BY <2>2, <4>1, <7>1
            <7> QED BY <1>6, <7>2 DEF Using
          <6> QED BY <6>1
        <5>3. ~(k <= n /\ n < i + k - 1)
          <6>1. ASSUME k <= n, n < i + k - 1 PROVE FALSE
            <7>1. n - k + 1 \in 1 .. i - 1 /\ (n - k + 1) + k - 1 = n
              BY <1>4, <4>2, <6>1
            <7>2. q[n - k + 1] = s[n]
              BY <4>4, <7>1
            <7> QED BY <2>2, <2>3, <4>1, <7>1, <7>2
          <6> QED BY <6>1
        <5> QED BY <1>4, <4>2, <5>1, <5>2, <5>3
      <4>6. ASSUME m \in Before(x)' PROVE \E j \in 1 .. n - 1 : m = s[j] /\ InUse(lk, s[j])'
        <5>1. PICK j \in 1 .. i - 1 : m = q[j] /\ InUse(lk, m)'
          BY <2>3, <4>1, <4>6
        <5>2. j + k - 1 \in 1 .. n - 1
          BY <1>4, <4>2, <4>5
        <5> QED BY <4>4, <5>1, <5>2
      <4>7. ASSUME NEW j \in 1 .. n - 1, m = s[j], InUse(lk, s[j])' PROVE m \in Before(x)'
        <5>1. j \notin 1 .. k - 1
          BY <4>1, <4>7
        <5>2. j - k + 1 \in 1 .. i - 1 /\ (j - k + 1) + k - 1 = j
          BY <1>4, <4>2, <4>5, <5>1
        <5>3. q[j - k + 1] = s[j]
          BY <4>4, <5>2
        <5> QED BY <2>3, <4>1, <4>7, <5>2, <5>3
      <4> QED BY <4>6, <4>7
    <3> QED BY <3>1, <3>2
  <2>6. ASSUME NEW m PROVE m \in Before(x)' <=> m \in Before(x) \ {l}
    <3>1. \A j \in 1 .. n - 1 : InUse(lk, s[j])' <=> InUse(lk, s[j]) /\ s[j] # l
      BY <1>2, <2>4
    <3> QED BY <2>2, <2>5, <3>1
  <2> QED BY <2>6
<1> QED BY <1>1, <1>6

\* Nobody is moved when a thread awakes.
LEMMA AwakeOrder ==
  ASSUME NEW ord \in [Record -> Seq(Lock)], View(ord), NEW t \in Thread, Awakes(t), View(ord)'
  PROVE  /\ \A x \in Lock : Using(x)' <=> Using(x)
         /\ \A x \in Lock : Using(x) => Before(x)' = Before(x)
<1>1. \A x \in Lock : (Using(x)' <=> Using(x)) /\ (InUse(lk, x)' <=> InUse(lk, x))
  BY DEF Awakes, Using
<1>2. ASSUME NEW x \in Lock, Using(x) PROVE Before(x)' = Before(x)
  <2> DEFINE s == ord[Rec(x)]
  <2>1. s \in Seq(Lock) /\ Len(s) \in Nat /\ Using(x)'
    BY <1>1, <1>2, LockIs
  <2>2. PICK n \in 1 .. Len(s) :
          /\ s[n] = x
          /\ Before(x) = {m \in {s[j] : j \in 1 .. n - 1} : InUse(lk, m)}
          /\ \A j \in 1 .. n - 1 : s[j] # x
    BY <1>2 DEF View
  <2>3. PICK i \in 1 .. Len(s) :
          /\ s[i] = x
          /\ Before(x)' = {m \in {s[j] : j \in 1 .. i - 1} : InUse(lk, m)'}
          /\ \A j \in 1 .. i - 1 : s[j] # x
    BY <2>1 DEF View
  <2> HIDE DEF s
  <2>4. i = n
    BY <2>1, <2>2, <2>3
  <2>5. \A j \in 1 .. n - 1 : s[j] \in Lock
    BY <2>1
  <2> QED BY <1>1, <2>2, <2>3, <2>4, <2>5
<1> QED BY <1>1, <1>2

-----------------------------------------------------------------------------
(* No deadlock is missed *)

\* Who is reached in one more step along the conflict locks.
Follow(fields, front, S) ==
  S \cup UNION {WaitsBehind(fields, front, conflict[u]) : u \in {v \in S : conflict[v] # NoLock}}

\* The steps of IsDeadlock2's search, up to n of them.
Search(fields, front, l, n) ==
  CHOOSE reach : reach =
    [k \in 0 .. n |-> IF k = 0 THEN WaitsBehind(fields, front, l)
                      ELSE Follow(fields, front, reach[k - 1])]

\* The search goes on for any number of steps.
LEMMA SearchIs ==
  ASSUME NEW fields, NEW front, NEW l, NEW n \in Nat
  PROVE  LET reach == Search(fields, front, l, n) IN
         /\ reach[0] = WaitsBehind(fields, front, l)
         /\ \A k \in 1 .. n : reach[k] = Follow(fields, front, reach[k - 1])
<1> DEFINE G(f, i) == [k \in 0 .. i |-> IF k = 0 THEN WaitsBehind(fields, front, l)
                                        ELSE Follow(fields, front, f[k - 1])]
           Short == {i \in Nat : ~\E f : f = G(f, i)}
<1>1. Short = {}
  <2> SUFFICES ASSUME Short # {} PROVE FALSE
    OBVIOUS
  <2>1. PICK i \in Short : \A j \in Short : i <= j
    <3> HIDE DEF Short
    <3>1. Short \in SUBSET Nat
      BY DEF Short
    <3> QED BY <3>1, Least
  <2>2. i \in Nat /\ ~\E f : f = G(f, i)
    BY <2>1
  <2>3. CASE i = 0
    <3> DEFINE f == [k \in 0 .. 0 |-> WaitsBehind(fields, front, l)]
    <3>1. f = G(f, 0)
      OBVIOUS
    <3> QED BY <2>2, <2>3, <3>1
  <2>4. CASE i # 0
    <3>1. i - 1 \in Nat /\ i - 1 \notin Short
      <4> HIDE DEF Short
      <4>1. i - 1 \in Nat /\ ~(i <= i - 1)
        BY <2>2, <2>4
      <4> QED BY <2>1, <4>1
    <3>2. PICK g : g = G(g, i - 1)
      BY <3>1
    <3> DEFINE f == [k \in 0 .. i |-> IF k = i THEN Follow(fields, front, g[i - 1]) ELSE g[k]]
    <3>3. ASSUME NEW k \in 0 .. i
          PROVE  f[k] = IF k = 0 THEN WaitsBehind(fields, front, l) ELSE Follow(fields, front, f[k - 1])
      <4>1. CASE k = i
        <5>1. k - 1 \in 0 .. i /\ k - 1 # i
          BY <2>2, <2>4, <4>1
        <5>2. f[k] = Follow(fields, front, g[i - 1]) /\ f[k - 1] = g[i - 1]
          BY <4>1, <5>1
        <5> QED BY <2>4, <4>1, <5>2
      <4>2. CASE k # i
        <5>1. k \in 0 .. i - 1 /\ (k # 0 => k - 1 \in 0 .. i /\ k - 1 # i)
          BY <2>2, <2>4, <4>2
        <5>2. f[k] = g[k] /\ (k # 0 => f[k - 1] = g[k - 1])
          BY <4>2, <5>1
        <5>3. g[k] = IF k = 0 THEN WaitsBehind(fields, front, l) ELSE Follow(fields, front, g[k - 1])
          BY <3>2, <5>1
        <5> QED BY <5>2, <5>3
      <4> QED BY <4>1, <4>2
    <3>4. f = [k \in 0 .. i |-> f[k]]
      OBVIOUS
    <3> HIDE DEF f
    <3>5. f = G(f, i)
      BY <3>3, <3>4
    <3> QED BY <2>2, <3>5
  <2> QED BY <2>3, <2>4
<1>2. \E f : f = G(f, n)
  BY <1>1
<1> DEFINE reach == CHOOSE f : f = G(f, n)
<1>3. reach = G(reach, n) /\ Search(fields, front, l, n) = reach
  BY <1>2 DEF Search
<1> HIDE DEF reach
<1>4. reach[0] = WaitsBehind(fields, front, l)
  BY <1>3
<1>5. \A k \in 1 .. n : reach[k] = Follow(fields, front, reach[k - 1])
  BY <1>3
<1> QED BY <1>3, <1>4, <1>5

\* After as many steps as there are threads the search has come to an end: where it does not
\* find the thread, what it has found is closed under waiting.
LEMMA SearchEnds ==
  ASSUME NEW fields, NEW front, NEW l, NEW t \in Thread, ~IsDeadlock2(t, fields, front, l),
         WaitsBehind(fields, front, l) \subseteq Thread,
         \A u \in Thread : conflict[u] # NoLock => WaitsBehind(fields, front, conflict[u]) \subseteq Thread
  PROVE  \E C \in SUBSET Thread :
           /\ t \notin C /\ WaitsBehind(fields, front, l) \subseteq C
           /\ \A u \in C : conflict[u] # NoLock => WaitsBehind(fields, front, conflict[u]) \subseteq C
<1> DEFINE N == Cardinality(Thread)
           reach == Search(fields, front, l, N)
           F(S) == Follow(fields, front, S)
<1>1. N \in Nat /\ IsFiniteSet(Thread)
  BY ThreadAssumption, FS_CardinalityType
<1>2. t \notin reach[N]
  BY DEF IsDeadlock2, Search, Follow
<1>3. reach[0] = WaitsBehind(fields, front, l) /\ \A k \in 1 .. N : reach[k] = F(reach[k - 1])
  BY <1>1, SearchIs
<1> HIDE DEF reach, N
<1>4. \A S \in SUBSET Thread : S \subseteq F(S) /\ F(S) \subseteq Thread
  BY DEF Follow
<1> HIDE DEF F
<1>5. ASSUME NEW k \in 0 .. N
      PROVE  /\ reach[k] \in SUBSET Thread /\ WaitsBehind(fields, front, l) \subseteq reach[k]
             /\ F(reach[k]) = reach[k] \/ Cardinality(reach[k]) >= k
  <2> DEFINE Ok(i) == /\ reach[i] \in SUBSET Thread /\ WaitsBehind(fields, front, l) \subseteq reach[i]
                      /\ F(reach[i]) = reach[i] \/ Cardinality(reach[i]) >= i
             Not == {i \in 0 .. N : ~Ok(i)}
  <2>1. Not = {}
    <3> SUFFICES ASSUME Not # {} PROVE FALSE
      OBVIOUS
    <3>1. PICK i \in Not : \A j \in Not : i <= j
      <4>1. Not \in SUBSET Nat
        BY <1>1
      <4> HIDE DEF Not
      <4> QED BY <4>1, Least
    <3>2. i \in 0 .. N /\ i \in Nat /\ ~Ok(i)
      BY <1>1, <3>1
    <3>3. Ok(0)
      <4>1. reach[0] \in SUBSET Thread
        BY <1>3
      <4>2. Cardinality(reach[0]) \in Nat
        BY <1>1, <4>1, FS_Subset, FS_CardinalityType
      <4> QED BY <1>3, <4>1, <4>2
    <3>4. i \in 1 .. N /\ i - 1 \in 0 .. N /\ i - 1 \in Nat
      <4>1. i # 0
        BY <3>2, <3>3
      <4> QED BY <1>1, <3>2, <4>1
    <3>5. Ok(i - 1)
      BY <3>1, <3>4
    <3> DEFINE S == reach[i - 1]
    <3>6. reach[i] = F(S) /\ S \in SUBSET Thread /\ WaitsBehind(fields, front, l) \subseteq S
          /\ (F(S) = S \/ Cardinality(S) >= i - 1)
      BY <1>3, <3>4, <3>5
    <3> HIDE DEF S
    <3>7. S \subseteq F(S) /\ F(S) \in SUBSET Thread
      BY <1>4, <3>6
    <3>8. CASE F(S) = S
      BY <3>2, <3>6, <3>8
    <3>9. CASE F(S) # S
      <4>1. IsFiniteSet(F(S)) /\ IsFiniteSet(S)
        BY <1>1, <3>6, <3>7, FS_Subset
      <4>2. Cardinality(S) < Cardinality(F(S)) /\ Cardinality(S) \in Nat /\ Cardinality(F(S)) \in Nat
        BY <3>7, <3>9, <4>1, FS_Subset, FS_CardinalityType
      <4>3. Cardinality(F(S)) >= i
        BY <3>2, <3>6, <3>9, <4>2
      <4> QED BY <3>2, <3>6, <3>7, <4>3
    <3> QED BY <3>8, <3>9
  <2> QED BY <2>1
<1>6. /\ reach[N] \in SUBSET Thread /\ WaitsBehind(fields, front, l) \subseteq reach[N]
      /\ F(reach[N]) = reach[N] \/ Cardinality(reach[N]) >= N
  BY <1>1, <1>5
<1>7. F(reach[N]) = reach[N]
  <2>1. ASSUME Cardinality(reach[N]) >= N PROVE FALSE
    <3>1. Cardinality(reach[N]) <= N /\ Cardinality(reach[N]) \in Nat /\ (Cardinality(reach[N]) = N => reach[N] = Thread)
      BY <1>1, <1>6, FS_Subset, FS_CardinalityType DEF N
    <3> QED BY <1>1, <1>2, <2>1, <3>1
  <2> QED BY <1>6, <2>1
<1>8. \A u \in reach[N] : conflict[u] # NoLock => WaitsBehind(fields, front, conflict[u]) \subseteq reach[N]
  BY <1>7 DEF F, Follow
<1> QED BY <1>2, <1>6, <1>8

\* The walk sees nothing but the links.
LEMMA FromSame ==
  ASSUME NEW f, NEW g, \A x \in Lock : f[x].next = g[x].next
  PROVE  \A l, last : From(f, l, last) = From(g, l, last)
<1> SUFFICES ASSUME NEW l, NEW last PROVE From(f, l, last) = From(g, l, last)
  OBVIOUS
<1>1. \A w : [m \in Lock \cup {NoLock} |-> IF m \in {last, NoLock} THEN {} ELSE {m} \cup w[f[m].next]]
           = [m \in Lock \cup {NoLock} |-> IF m \in {last, NoLock} THEN {} ELSE {m} \cup w[g[m].next]]
  OBVIOUS
<1> QED BY <1>1 DEF From

\* What IsDeadlock2 sees behind a lock that is in use afterwards.
LEMMA WaitsBehindIs ==
  ASSUME NEW ord, View(ord)', NEW t, NEW l, Acquires(t, l, "WAIT"), NEW c \in Lock, Using(c)'
  PROVE  WaitsBehind(Linked(t, l), NewFront(l), c) = {Owner(m) : m \in Before(c)'}
<1> DEFINE fields == Linked(t, l)
<1>1. head' = NewFront(l) /\ fields \in [Lock -> Fields]
      /\ \A x \in Lock : /\ fields[x].next = lk'[x].next
                         /\ fields[x].state # "OBSOLETE" <=> lk'[x].state # "OBSOLETE"
  BY DEF Acquires
<1> HIDE DEF fields
<1>2. From(fields, head'[Rec(c)], c) = From(lk', head'[Rec(c)], c)
  BY <1>1, FromSame
<1>3. From(lk', head'[Rec(c)], c) \subseteq Lock
  BY DEF View
<1>4. Before(c)' = {m \in From(lk', head'[Rec(c)], c) : InUse(lk, m)'}
  BY DEF Before
<1>5. \A m \in Lock : InUse(fields, m) <=> InUse(lk, m)'
  BY <1>1 DEF InUse
<1>6. {m \in From(fields, head'[Rec(c)], c) : InUse(fields, m)} = Before(c)'
  BY <1>2, <1>3, <1>4, <1>5
<1> QED BY <1>1, <1>6 DEF WaitsBehind, fields

\* D sleeps behind itself.
Stuck(D) ==
  /\ D # {} /\ D \subseteq waitSet
  /\ \A t \in D : \E m \in Before(conflict[t]) : Owner(m) \in D

\* NoMissedDeadlock says that no such set is.
LEMMA StuckIs == NoMissedDeadlock <=> ~\E D : Stuck(D)
BY DEF NoMissedDeadlock, Stuck

\* Where the waiting threads stand behind no more locks than before, no deadlock comes about.
LEMMA StaysFree ==
  ASSUME NoMissedDeadlock, waitSet' \subseteq waitSet,
         \A t \in waitSet' : conflict'[t] = conflict[t] /\ Before(conflict[t])' \subseteq Before(conflict[t])
  PROVE  NoMissedDeadlock'
<1>1. ASSUME NEW D, Stuck(D)' PROVE Stuck(D)
  <2>1. D # {} /\ D \subseteq waitSet'
    BY <1>1 DEF Stuck
  <2>2. ASSUME NEW t \in D PROVE \E m \in Before(conflict[t]) : Owner(m) \in D
    <3>1. PICK m \in Before(conflict[t])' : Owner(m) \in D
      BY <1>1 DEF Stuck
    <3>2. conflict'[t] = conflict[t] /\ Before(conflict[t])' \subseteq Before(conflict[t])
      BY <2>1
    <3> QED BY <3>1, <3>2
  <2> QED BY <2>1, <2>2 DEF Stuck
<1>2. ~\E D : Stuck(D)
  BY StuckIs
<1>3. ~\E D : Stuck(D)'
  BY <1>1, <1>2
<1> QED BY <1>3 DEF NoMissedDeadlock, Stuck

\* A thread that goes to sleep closes no cycle: its search would have found it.
LEMMA SleepsFree ==
  ASSUME NEW ord \in [Record -> Seq(Lock)], View(ord), NEW t \in Thread, NEW l \in Lock,
         Acquires(t, l, "WAIT"), ~In(ord[Rec(l)], l), View(Put(ord, l))',
         conflict \in [Thread -> Node], NoMissedDeadlock
  PROVE  NoMissedDeadlock'
<1> DEFINE W(c) == WaitsBehind(Linked(t, l), NewFront(l), c)
<1>1. /\ conflict' = [conflict EXCEPT ![t] = l] /\ waitSet' = waitSet \cup {t}
      /\ ~IsDeadlock2(t, Linked(t, l), NewFront(l), l) /\ Owner(l) = t
  BY DEF Acquires
<1>2. /\ \A x \in Lock : Using(x)' <=> Using(x) \/ x = l
      /\ \A x \in Lock : Using(x) => x # l /\ Before(x)' = Before(x)
  BY AcquireOrder
<1>3. conflict'[t] = l /\ \A u \in Thread : u # t => conflict'[u] = conflict[u]
  BY <1>1
<1>4. ASSUME NEW c \in Lock, Using(c)'
      PROVE  W(c) = {Owner(m) : m \in Before(c)'} /\ W(c) \subseteq Thread
  <2>1. W(c) = {Owner(m) : m \in Before(c)'}
    BY <1>4, WaitsBehindIs
  <2>2. PICK n \in 1 .. Len(Put(ord, l)[Rec(c)]) :
          Before(c)' = {m \in {Put(ord, l)[Rec(c)][j] : j \in 1 .. n - 1} : InUse(lk, m)'}
    BY <1>4 DEF View
  <2>3. \A m \in Before(c)' : m \in Lock
    <3> DEFINE q == Put(ord, l)[Rec(c)]
    <3>1. Rec(c) \in Record /\ Len(q) \in Nat
      <4>1. Rec(c) \in Record /\ Rec(l) \in Record
        BY LockIs
      <4>2. ord[Rec(c)] \in Seq(Lock) /\ q = IF Rec(c) = Rec(l) THEN Append(ord[Rec(c)], l) ELSE ord[Rec(c)]
        BY <4>1 DEF Put
      <4>3. q \in Seq(Lock)
        BY <4>2, AppendIs
      <4> QED BY <4>1, <4>3
    <3>2. \A j \in 1 .. Len(q) : q[j] \in Lock
      BY <3>1 DEF View
    <3> HIDE DEF q
    <3> QED BY <2>2, <3>1, <3>2 DEF q
  <2> QED BY <2>1, <2>3, LockIs
<1>5. Using(l)'
  BY <1>2
<1>6. W(l) \subseteq Thread /\ \A u \in Thread : conflict[u] # NoLock => W(conflict[u]) \subseteq Thread
  <2> HIDE DEF W
  <2>1. W(l) \subseteq Thread
    BY <1>4, <1>5
  <2>2. ASSUME NEW u \in Thread, conflict[u] # NoLock PROVE W(conflict[u]) \subseteq Thread
    <3>1. PICK c \in Lock : c = conflict[u] /\ Using(c)
      BY <2>2 DEF View
    <3>2. W(c) \subseteq Thread
      BY <1>2, <1>4, <3>1
    <3> QED BY <3>1, <3>2
  <2> QED BY <2>1, <2>2
<1>7. PICK C \in SUBSET Thread :
         /\ t \notin C /\ W(l) \subseteq C
         /\ \A u \in C : conflict[u] # NoLock => W(conflict[u]) \subseteq C
  <2> DEFINE fields == Linked(t, l)
             front == NewFront(l)
  <2>1. /\ ~IsDeadlock2(t, fields, front, l) /\ WaitsBehind(fields, front, l) \subseteq Thread
        /\ \A u \in Thread : conflict[u] # NoLock => WaitsBehind(fields, front, conflict[u]) \subseteq Thread
    BY <1>1, <1>6
  <2> HIDE DEF fields, front, W
  <2>2. PICK C \in SUBSET Thread :
           /\ t \notin C /\ WaitsBehind(fields, front, l) \subseteq C
           /\ \A u \in C : conflict[u] # NoLock => WaitsBehind(fields, front, conflict[u]) \subseteq C
    BY <2>1, SearchEnds
  <2>3. \A c : WaitsBehind(fields, front, c) = W(c)
    BY DEF W, fields, front
  <2> QED BY <2>2, <2>3
<1> HIDE DEF W
<1>8. ASSUME NEW D, Stuck(D)' PROVE FALSE
  <2>1. D # {} /\ D \subseteq waitSet \cup {t} /\ D \subseteq Thread
    BY <1>1, <1>8 DEF Stuck, View
  <2>2. ASSUME NEW u \in D, u # t
        PROVE  /\ u \in waitSet /\ u \in Thread /\ conflict[u] # NoLock /\ conflict[u] \in Lock
               /\ Using(conflict[u]) /\ Using(conflict[u])'
               /\ \E m \in Before(conflict[u]) : Owner(m) \in D /\ Owner(m) \in W(conflict[u])
    <3>1. u \in waitSet /\ u \in Thread
      BY <2>1, <2>2
    <3>2. conflict[u] # NoLock /\ conflict[u] \in Lock /\ Using(conflict[u])
      BY <3>1 DEF View
    <3>3. Using(conflict[u]) /\ conflict'[u] = conflict[u] /\ Before(conflict[u])' = Before(conflict[u])
      <4>1. PICK c \in Lock : c = conflict[u]
        BY <3>2
      <4>2. Before(c)' = Before(c) /\ conflict'[u] = c
        BY <1>2, <1>3, <2>2, <3>1, <3>2, <4>1
      <4>3. Before(conflict[u])' = Before(c)'
        BY <4>2 DEF Before
      <4> QED BY <3>2, <4>1, <4>2, <4>3
    <3>4. PICK m \in Before(conflict[u])' : Owner(m) \in D
      BY <1>8 DEF Stuck
    <3>5. PICK c \in Lock : c = conflict[u] /\ Using(c) /\ c = conflict'[u] /\ Using(c)'
      BY <1>2, <3>2, <3>3
    <3>6. W(c) = {Owner(x) : x \in Before(c)'} /\ Before(c)' = Before(c)
      BY <1>2, <1>4, <3>5
    <3>7. m \in Before(c)
      BY <3>3, <3>4, <3>5
    <3> QED BY <3>1, <3>2, <3>4, <3>5, <3>6, <3>7
  <2>3. CASE t \notin D
    <3>1. Stuck(D)
      BY <2>1, <2>2, <2>3 DEF Stuck
    <3> QED BY <3>1, StuckIs
  <2>4. CASE t \in D
    <3>1. D \cap C # {}
      <4>1. PICK m \in Before(conflict[t])' : Owner(m) \in D
        BY <1>8, <2>4 DEF Stuck
      <4>2. Before(conflict[t])' = Before(l)'
        BY <1>3 DEF Before
      <4>3. Owner(m) \in W(l)
        BY <1>4, <1>5, <4>1, <4>2
      <4> QED BY <1>7, <4>1, <4>3
    <3>2. ASSUME NEW u \in D \cap C PROVE u \in waitSet /\ \E m \in Before(conflict[u]) : Owner(m) \in D \cap C
      BY <1>7, <2>2, <3>2
    <3>3. Stuck(D \cap C)
      BY <3>1, <3>2 DEF Stuck
    <3> QED BY <3>3, StuckIs
  <2> QED BY <2>3, <2>4
<1> QED BY <1>8 DEF NoMissedDeadlock, Stuck

\* No step closes a cycle of sleeping threads.
LEMMA FreeNext ==
  ASSUME NEW ord \in [Record -> Seq(Lock)], Inv(ord), NoMissedDeadlock, [Next]_vars
  PROVE  NoMissedDeadlock'
<1>1. View(ord) /\ conflict \in [Thread -> Node] /\ waitSet \subseteq Thread
  BY ViewHolds DEF Inv, Types
<1>2. ASSUME NEW t \in waitSet PROVE t \in Thread /\ conflict[t] \in Lock /\ Using(conflict[t])
  BY <1>1 DEF View
<1>3. ASSUME NEW t \in Thread, AcquireLock(t) PROVE NoMissedDeadlock'
  <2>1. PICK r : r = Wanted(t).rec
    OBVIOUS
  <2>2. PICK l : l = NewLock(t, r)
    OBVIOUS
  <2>3. /\ \E st \in {"ACTIVE", "WAIT", "OBSOLETE"} : Acquires(t, l, st)
        /\ Rec(l) = r /\ ~In(ord[r], l)
        /\ Put(ord, l) \in [Record -> Seq(Lock)] /\ Inv(Put(ord, l))'
    BY <1>3, <2>1, <2>2, AcquireEffect
  <2>4. PICK st \in {"ACTIVE", "WAIT", "OBSOLETE"} : Acquires(t, l, st)
    BY <2>3
  <2>5. View(Put(ord, l))' /\ l \in Lock /\ ~In(ord[Rec(l)], l)
    BY <2>3, <2>4, ViewNext DEF Acquires
  <2>6. CASE st = "WAIT"
    BY <1>1, <2>4, <2>5, <2>6, SleepsFree
  <2>7. CASE st # "WAIT"
    <3>1. conflict' = conflict /\ waitSet' = waitSet
      BY <2>4, <2>7 DEF Acquires
    <3>2. \A x \in Lock : Using(x) => Before(x)' = Before(x)
      BY <1>1, <2>4, <2>5, AcquireOrder
    <3>3. ASSUME NEW u \in waitSet' PROVE conflict'[u] = conflict[u] /\ Before(conflict[u])' \subseteq Before(conflict[u])
      <4>1. PICK c \in Lock : c = conflict[u] /\ Using(c)
        BY <1>2, <3>1
      <4>2. Before(c)' = Before(c)
        BY <3>2, <4>1
      <4>3. Before(conflict[u])' = Before(c)'
        BY <3>1, <4>1 DEF Before
      <4> QED BY <3>1, <4>1, <4>2, <4>3
    <3> QED BY <3>1, <3>3, StaysFree
  <2> QED BY <2>6, <2>7
<1>4. ASSUME NEW t \in Thread, Awake(t) PROVE NoMissedDeadlock'
  <2>1. Awakes(t) /\ Inv(ord)'
    BY <1>4, AwakeEffect
  <2>2. View(ord)'
    BY <2>1, ViewNext
  <2>3. t \notin waitSet /\ conflict' = [conflict EXCEPT ![t] = NoLock] /\ waitSet' = waitSet
    BY <2>1 DEF Awakes
  <2>4. \A x \in Lock : Using(x) => Before(x)' = Before(x)
    BY <1>1, <2>1, <2>2, AwakeOrder
  <2>5. ASSUME NEW u \in waitSet' PROVE conflict'[u] = conflict[u] /\ Before(conflict[u])' \subseteq Before(conflict[u])
    <3>1. PICK c \in Lock : c = conflict[u] /\ Using(c)
      BY <1>2, <2>3
    <3>2. conflict'[u] = conflict[u]
      BY <1>1, <2>3
    <3>3. Before(conflict[u])' = Before(c)'
      BY <3>1, <3>2 DEF Before
    <3> QED BY <2>4, <3>1, <3>2, <3>3
  <2> QED BY <2>3, <2>5, StaysFree
<1>5. ASSUME NEW t \in Thread, ReleaseLock(t) PROVE NoMissedDeadlock'
  <2>1. PICK l : l = deque[t][released[t] + 1]
    OBVIOUS
  <2>2. /\ Releases(t, l) /\ Rec(l) \in Record
        /\ \E k \in 1 .. Len(ord[Rec(l)]) :
             /\ \A j \in 1 .. k - 1 : ~InUse(lk, ord[Rec(l)][j])'
             /\ Drop(ord, Rec(l), k) \in [Record -> Seq(Lock)] /\ Inv(Drop(ord, Rec(l), k))'
    BY <1>5, <2>1, ReleaseEffect
  <2>3. PICK k \in 1 .. Len(ord[Rec(l)]) :
             /\ \A j \in 1 .. k - 1 : ~InUse(lk, ord[Rec(l)][j])'
             /\ Drop(ord, Rec(l), k) \in [Record -> Seq(Lock)] /\ Inv(Drop(ord, Rec(l), k))'
    BY <2>2
  <2>4. View(Drop(ord, Rec(l), k))' /\ l \in Lock
    BY <2>2, <2>3, ViewNext DEF Releases
  <2>5. \A x \in Lock : Using(x)' => Before(x)' = Before(x) \ {l}
    BY <1>1, <2>2, <2>3, <2>4, ReleaseOrder
  <2>6. conflict' = conflict /\ waitSet' \subseteq waitSet
    BY <2>2 DEF Releases
  <2>7. ASSUME NEW u \in waitSet' PROVE conflict'[u] = conflict[u] /\ Before(conflict[u])' \subseteq Before(conflict[u])
    <3>1. u \in Thread /\ conflict'[u] # NoLock
      BY <2>4 DEF View
    <3>2. conflict'[u] \in Lock /\ Using(conflict[u])'
      BY <2>4, <3>1 DEF View
    <3>3. PICK c \in Lock : c = conflict[u]
      BY <2>6, <3>2
    <3>4. Using(c)' /\ Before(conflict[u])' = Before(c)'
      BY <2>6, <3>2, <3>3 DEF Before, Using, Created, InUse
    <3> QED BY <2>5, <2>6, <3>3, <3>4
  <2> QED BY <2>6, <2>7, StaysFree
<1>6. CASE UNCHANGED vars
  BY <1>6 DEF vars, NoMissedDeadlock, Before, InUse
<1> QED BY <1>3, <1>4, <1>5, <1>6 DEF Next, Step, Done

\* IsDeadlock2 misses no deadlock: the threads inside cond.wait() never stand behind each other
\* in a cycle, for every number of threads, records and transactions.
THEOREM NoDeadlockIsMissed == Spec => []NoMissedDeadlock
<1> DEFINE Free == IInv /\ NoMissedDeadlock
<1>1. Init => Free
  <2>1. Init => NoMissedDeadlock
    BY DEF Init, NoMissedDeadlock
  <2> QED BY <2>1, InitInv
<1>2. Free /\ [Next]_vars => Free'
  BY NextInv, FreeNext DEF IInv
<1> QED BY <1>1, <1>2, PTL DEF Spec

-----------------------------------------------------------------------------
(* The promise of LockService *)

\* What a request in the line of LockService is here: the lock of the thread that is in use.
Stands(t, r, l) == Using(l) /\ Owner(l) = t /\ Rec(l) = r

\* The mapping, request by request.
Mapped ==
  /\ \A r \in Record : \A t \in Thread :
       /\ \A l \in Lock : Stands(t, r, l) =>
            LineMode[r][t] = lk[l].mode /\ LineAhead[r][t] = {Owner(m) : m \in Before(l)}
       /\ (\A l \in Lock : ~Stands(t, r, l)) => LineMode[r][t] = "NONE" /\ LineAhead[r][t] = {}
  /\ LineMode = [r \in Record |-> [t \in Thread |-> LineMode[r][t]]]
  /\ LineAhead = [r \in Record |-> [t \in Thread |-> LineAhead[r][t]]]
  /\ LineAsks = [t \in Thread |-> IF conflict[t] = NoLock THEN NoLock ELSE Rec(conflict[t])]
  /\ \A l \in Lock : lk[l].mode \in Mode

\* Who is not asleep, or is woken, has only compatible locks before it.
Allowed ==
  \A l \in Lock : Using(l) /\ ~(lk[l].state = "WAIT" /\ Owner(l) \in waitSet) =>
    \A m \in Before(l) : ~Incompatible(lk[l].mode, lk[m].mode)

\* The invariant gives the mapping, and says who may have a lock.
LEMMA MappedHolds ==
  \A ord \in [Record -> Seq(Lock)] : Inv(ord) => Mapped /\ Allowed
<1> SUFFICES ASSUME NEW ord \in [Record -> Seq(Lock)], Inv(ord) PROVE Mapped /\ Allowed
  OBVIOUS
<1>1. View(ord)
  BY ViewHolds
<1>2. lk \in [Lock -> Fields] /\ GrantInv(ord)
  BY DEF Inv, Types
<1>3. ASSUME NEW r \in Record, NEW t \in Thread PROVE Locks(t, r) = {l \in Lock : Stands(t, r, l)}
  BY <1>1 DEF View, Locks, Stands
<1>4. ASSUME NEW r \in Record, NEW t \in Thread, NEW l \in Lock, Stands(t, r, l)
      PROVE  LineMode[r][t] = lk[l].mode /\ LineAhead[r][t] = {Owner(m) : m \in Before(l)}
  <2>1. \A m \in Lock : Stands(t, r, m) => m = l
    BY <1>1, <1>4 DEF View, Stands
  <2>2. Locks(t, r) = {l}
    BY <1>3, <1>4, <2>1
  <2> QED BY <2>2 DEF LineMode, LineAhead
<1>5. ASSUME NEW r \in Record, NEW t \in Thread, \A l \in Lock : ~Stands(t, r, l)
      PROVE  LineMode[r][t] = "NONE" /\ LineAhead[r][t] = {}
  <2>1. Locks(t, r) = {}
    BY <1>3, <1>5
  <2> QED BY <2>1 DEF LineMode, LineAhead
<1>6. /\ LineMode = [r \in Record |-> [t \in Thread |-> LineMode[r][t]]]
      /\ LineAhead = [r \in Record |-> [t \in Thread |-> LineAhead[r][t]]]
  BY DEF LineMode, LineAhead
<1>7. \A l \in Lock : lk[l].mode \in Mode
  BY <1>2 DEF Fields
<1>8. Mapped
  BY <1>4, <1>5, <1>6, <1>7 DEF Mapped, LineAsks
<1>9. ASSUME NEW l \in Lock, Using(l), ~(lk[l].state = "WAIT" /\ Owner(l) \in waitSet), NEW m \in Before(l)
      PROVE  ~Incompatible(lk[l].mode, lk[m].mode)
  <2> DEFINE s == ord[Rec(l)]
  <2>1. Rec(l) \in Record
    BY LockIs
  <2>2. PICK n \in 1 .. Len(s) :
          s[n] = l /\ Before(l) = {x \in {s[j] : j \in 1 .. n - 1} : InUse(lk, x)}
    BY <1>1, <1>9 DEF View
  <2>3. ~Blocked(lk, s, n)
    BY <1>2, <1>9, <2>1, <2>2 DEF GrantInv, Using
  <2> HIDE DEF s
  <2> QED BY <2>2, <2>3 DEF Blocked
<1> QED BY <1>8, <1>9 DEF Allowed

\* The same in the next state.
LEMMA MappedNext == (\A ord \in [Record -> Seq(Lock)] : Inv(ord) => Mapped /\ Allowed)'
BY MappedHolds, PTL

\* The requests of a line are the locks in use.
LEMMA LineIs ==
  ASSUME Mapped, NEW r \in Record
  PROVE  Service!Line(r) = {t \in Thread : \E l \in Lock : Stands(t, r, l)}
<1>1. ASSUME NEW t \in Thread PROVE LineMode[r][t] # "NONE" <=> \E l \in Lock : Stands(t, r, l)
  <2>1. ASSUME NEW l \in Lock, Stands(t, r, l) PROVE LineMode[r][t] # "NONE"
    <3>1. LineMode[r][t] = lk[l].mode /\ lk[l].mode \in Mode
      BY <2>1 DEF Mapped
    <3> QED BY <3>1 DEF Mode
  <2>2. ASSUME ~\E l \in Lock : Stands(t, r, l) PROVE LineMode[r][t] = "NONE"
    BY <2>2 DEF Mapped
  <2> QED BY <2>1, <2>2
<1> QED BY <1>1 DEF Service!Line

\* Two locks agree exactly when both are SHARED.
LEMMA CompatibleIs ==
  ASSUME NEW m \in Mode, NEW n \in Mode
  PROVE  Service!Compatible(m, n) <=> ~Incompatible(n, m)
BY DEF Mode, Service!Compatible, Incompatible

\* The line of the next state.
LEMMA LineNext ==
  \A r \in Record : Mapped' => Service!Line(r)' = {t \in Thread : \E l \in Lock : Stands(t, r, l)'}
<1>1. \A r \in Record : Mapped => Service!Line(r) = {t \in Thread : \E l \in Lock : Stands(t, r, l)}
  BY LineIs
<1>2. (\A r \in Record : Mapped => Service!Line(r) = {t \in Thread : \E l \in Lock : Stands(t, r, l)})'
  BY <1>1, PTL
<1> QED BY <1>2

\* Where the same locks are in use, behind the same others, the lines are as before.
LEMMA SameLines ==
  ASSUME Mapped, Mapped',
         \A x \in Lock : (Using(x)' <=> Using(x)) /\ (Using(x) => lk'[x].mode = lk[x].mode /\ Before(x)' = Before(x))
  PROVE  LineMode' = LineMode /\ LineAhead' = LineAhead
<1>1. ASSUME NEW r \in Record, NEW t \in Thread
      PROVE  LineMode'[r][t] = LineMode[r][t] /\ LineAhead'[r][t] = LineAhead[r][t]
  <2>1. CASE \E l \in Lock : Stands(t, r, l)
    <3>1. PICK l \in Lock : Stands(t, r, l)
      BY <2>1
    <3>2. Stands(t, r, l)' /\ lk'[l].mode = lk[l].mode /\ Before(l)' = Before(l)
      BY <3>1 DEF Stands
    <3>3. LineMode[r][t] = lk[l].mode /\ LineAhead[r][t] = {Owner(m) : m \in Before(l)}
      BY <3>1 DEF Mapped
    <3>4. LineMode'[r][t] = lk'[l].mode /\ LineAhead'[r][t] = {Owner(m) : m \in Before(l)'}
      BY <3>2 DEF Mapped
    <3> QED BY <3>2, <3>3, <3>4
  <2>2. CASE ~\E l \in Lock : Stands(t, r, l)
    <3>1. \A l \in Lock : ~Stands(t, r, l) /\ ~Stands(t, r, l)'
      BY <2>2 DEF Stands
    <3>2. LineMode[r][t] = "NONE" /\ LineAhead[r][t] = {}
      BY <3>1 DEF Mapped
    <3>3. LineMode'[r][t] = "NONE" /\ LineAhead'[r][t] = {}
      BY <3>1 DEF Mapped
    <3> QED BY <3>2, <3>3
  <2> QED BY <2>1, <2>2
<1>2. /\ LineMode = [r \in Record |-> [t \in Thread |-> LineMode[r][t]]]
      /\ LineAhead = [r \in Record |-> [t \in Thread |-> LineAhead[r][t]]]
      /\ LineMode' = [r \in Record |-> [t \in Thread |-> LineMode'[r][t]]]
      /\ LineAhead' = [r \in Record |-> [t \in Thread |-> LineAhead'[r][t]]]
  BY DEF Mapped
<1> QED BY <1>1, <1>2

\* The thread that AcquireLock serves joins the line, and stands in nobody's way.
LEMMA AcquireJoins ==
  ASSUME NEW ord \in [Record -> Seq(Lock)], View(ord), NEW t \in Thread, NEW l \in Lock,
         NEW st \in {"ACTIVE", "WAIT"}, Acquires(t, l, st), ~In(ord[Rec(l)], l),
         View(Put(ord, l))', Mapped, Mapped', conflict \in [Thread -> Node]
  PROVE  /\ Service!Join(t, Rec(l), Wanted(t).mode) /\ Rec(l) \in Record
         /\ LineAhead'[Rec(l)][t] = Service!Line(Rec(l))
         /\ LineAsks' = IF st = "WAIT" THEN [LineAsks EXCEPT ![t] = Rec(l)] ELSE LineAsks
<1> DEFINE r == Rec(l)
           m == Wanted(t).mode
<1>1. /\ pc[t] = "acquire" /\ Owner(l) = t /\ r \in Record
      /\ lk'[l].mode = m /\ \A x \in Lock : x # l => lk'[x].mode = lk[x].mode
      /\ st = "ACTIVE" => conflict' = conflict
      /\ st = "WAIT" => conflict' = [conflict EXCEPT ![t] = l]
  BY LockIs DEF Acquires
<1>2. /\ ~Using(l) /\ \A x \in Lock : Using(x)' <=> Using(x) \/ x = l
      /\ \A x \in Lock : Using(x) => x # l /\ Before(x)' = Before(x)
      /\ Before(l)' = {x \in Lock : Using(x) /\ Rec(x) = r}
  BY AcquireOrder
<1>3. conflict[t] = NoLock
  BY <1>1 DEF View
<1>4. ASSUME NEW x \in Lock PROVE ~Stands(t, r, x)
  <2>1. ASSUME Stands(t, r, x) PROVE FALSE
    <3>1. Using(x) /\ Using(x)' /\ Using(l)' /\ Owner(x) = Owner(l) /\ Rec(x) = Rec(l)
      BY <1>1, <1>2, <2>1 DEF Stands
    <3>2. x = l
      BY <3>1 DEF View
    <3> QED BY <1>2, <3>1, <3>2
  <2> QED BY <2>1
<1>5. Service!Line(r) = {u \in Thread : \E x \in Lock : Stands(u, r, x)}
  BY <1>1, LineIs
<1>6. LineAhead'[r][t] = Service!Line(r) /\ LineMode'[r][t] = m
  <2>1. Stands(t, r, l)'
    BY <1>1, <1>2 DEF Stands
  <2>2. LineMode'[r][t] = lk'[l].mode /\ LineAhead'[r][t] = {Owner(x) : x \in Before(l)'}
    BY <1>1, <2>1 DEF Mapped
  <2>3. {Owner(x) : x \in Before(l)'} = {u \in Thread : \E x \in Lock : Stands(u, r, x)}
    BY <1>2, LockIs DEF Stands
  <2> QED BY <1>1, <1>5, <2>2, <2>3
<1>7. ASSUME NEW p \in Record, NEW u \in Thread, ~(p = r /\ u = t)
      PROVE  LineMode'[p][u] = LineMode[p][u] /\ LineAhead'[p][u] = LineAhead[p][u]
  <2>1. \A x \in Lock : Stands(u, p, x)' <=> Stands(u, p, x)
    BY <1>1, <1>2, <1>7 DEF Stands
  <2>2. CASE \E x \in Lock : Stands(u, p, x)
    <3>1. PICK x \in Lock : Stands(u, p, x)
      BY <2>2
    <3>2. Stands(u, p, x)' /\ lk'[x].mode = lk[x].mode /\ Before(x)' = Before(x)
      BY <1>1, <1>2, <2>1, <3>1 DEF Stands
    <3>3. LineMode[p][u] = lk[x].mode /\ LineAhead[p][u] = {Owner(y) : y \in Before(x)}
      BY <3>1 DEF Mapped
    <3>4. LineMode'[p][u] = lk'[x].mode /\ LineAhead'[p][u] = {Owner(y) : y \in Before(x)'}
      BY <3>2 DEF Mapped
    <3> QED BY <3>2, <3>3, <3>4
  <2>3. CASE ~\E x \in Lock : Stands(u, p, x)
    <3>1. LineMode[p][u] = "NONE" /\ LineAhead[p][u] = {}
      BY <2>3 DEF Mapped
    <3>2. LineMode'[p][u] = "NONE" /\ LineAhead'[p][u] = {}
      BY <2>1, <2>3 DEF Mapped
    <3> QED BY <3>1, <3>2
  <2> QED BY <2>2, <2>3
<1>8. /\ LineMode = [p \in Record |-> [u \in Thread |-> LineMode[p][u]]]
      /\ LineAhead = [p \in Record |-> [u \in Thread |-> LineAhead[p][u]]]
      /\ LineMode' = [p \in Record |-> [u \in Thread |-> LineMode'[p][u]]]
      /\ LineAhead' = [p \in Record |-> [u \in Thread |-> LineAhead'[p][u]]]
      /\ LineAsks = [u \in Thread |-> IF conflict[u] = NoLock THEN NoLock ELSE Rec(conflict[u])]
      /\ LineAsks' = [u \in Thread |-> IF conflict'[u] = NoLock THEN NoLock ELSE Rec(conflict'[u])]
  BY DEF Mapped
<1>9. LineMode' = [LineMode EXCEPT ![r][t] = m]
  <2> HIDE DEF m, r
  <2> QED BY <1>1, <1>6, <1>7, <1>8
<1>10. LineAhead' = [LineAhead EXCEPT ![r][t] = Service!Line(r)]
  <2> HIDE DEF m, r
  <2>1. PICK line : line = Service!Line(r)
    OBVIOUS
  <2>2. LineAhead' = [LineAhead EXCEPT ![r][t] = line]
    BY <1>1, <1>6, <1>7, <1>8, <2>1
  <2> QED BY <2>1, <2>2
<1>11. LineAsks[t] = NoLock /\ t \notin Service!Line(r)
  BY <1>3, <1>4, <1>5, <1>8
<1>12. LineAsks' = IF st = "WAIT" THEN [LineAsks EXCEPT ![t] = r] ELSE LineAsks
  <2>1. CASE st = "WAIT"
    <3>1. conflict'[t] = l /\ l # NoLock /\ \A u \in Thread : u # t => conflict'[u] = conflict[u]
      BY <1>1, <2>1, NoLockAssumption
    <3> QED BY <1>8, <2>1, <3>1
  <2>2. CASE st = "ACTIVE"
    BY <1>1, <1>8, <2>2
  <2> QED BY <2>1, <2>2
<1>13. Service!Join(t, r, m)
  <2> HIDE DEF m, r
  <2> QED BY <1>9, <1>10, <1>11 DEF Service!Join
<1> QED BY <1>1, <1>6, <1>12, <1>13

\* The lock that is released leaves the line, and nobody else moves.
LEMMA ReleaseLeaves ==
  ASSUME NEW ord \in [Record -> Seq(Lock)], View(ord), NEW t \in Thread, NEW l \in Lock,
         Releases(t, l), NEW k \in 1 .. Len(ord[Rec(l)]),
         \A j \in 1 .. k - 1 : ~InUse(lk, ord[Rec(l)][j])', View(Drop(ord, Rec(l), k))',
         Mapped, Mapped', conflict \in [Thread -> Node]
  PROVE  \/ Service!Release(t, Rec(l)) /\ Rec(l) \in Record
         \/ LineMode' = LineMode /\ LineAhead' = LineAhead /\ LineAsks' = LineAsks
<1> DEFINE r == Rec(l)
<1>1. /\ pc[t] = "release" /\ Owner(l) = t /\ r \in Record /\ conflict' = conflict
      /\ \A x \in Lock : lk'[x].mode = lk[x].mode
  BY LockIs DEF Releases
<1>2. /\ \A x \in Lock : Using(x)' <=> Using(x) /\ x # l
      /\ \A x \in Lock : Using(x)' => Before(x)' = Before(x) \ {l}
  BY <1>1, ReleaseOrder
<1>3. LineAsks' = LineAsks
  BY <1>1 DEF LineAsks
<1>4. CASE ~Using(l)
  <2>1. ASSUME NEW x \in Lock, Using(x) PROVE Before(x)' = Before(x)
    <3>1. Before(x)' = Before(x) \ {l}
      BY <1>2, <1>4, <2>1
    <3>2. l \notin Before(x)
      BY <1>4, <2>1, BeforeIs
    <3> QED BY <3>1, <3>2
  <2>2. LineMode' = LineMode /\ LineAhead' = LineAhead
    BY <1>1, <1>2, <1>4, <2>1, SameLines
  <2> QED BY <1>3, <2>2
<1>5. CASE Using(l)
  <2>1. ASSUME NEW x \in Lock PROVE Stands(t, r, x) <=> x = l
    BY <1>1, <1>5 DEF Stands, View
  <2>2. conflict[t] = NoLock
    BY <1>1 DEF View
  <2>3. LineMode'[r][t] = "NONE" /\ LineAhead'[r][t] = {}
    <3>1. \A x \in Lock : ~Stands(t, r, x)'
      BY <1>2, <2>1 DEF Stands
    <3> QED BY <1>1, <3>1 DEF Mapped
  <2>4. ASSUME NEW p \in Record, NEW u \in Thread, ~(p = r /\ u = t)
        PROVE  /\ LineMode'[p][u] = LineMode[p][u]
               /\ LineAhead'[p][u] = IF p = r THEN LineAhead[p][u] \ {t} ELSE LineAhead[p][u]
    <3>1. \A x \in Lock : Stands(u, p, x)' <=> Stands(u, p, x)
      BY <1>1, <1>2, <2>4 DEF Stands
    <3>2. CASE \E x \in Lock : Stands(u, p, x)
      <4>1. PICK x \in Lock : Stands(u, p, x)
        BY <3>2
      <4>2. Stands(u, p, x)' /\ lk'[x].mode = lk[x].mode /\ Before(x)' = Before(x) \ {l}
            /\ Using(x) /\ Rec(x) = p
        BY <1>1, <1>2, <3>1, <4>1 DEF Stands
      <4>3. LineMode[p][u] = lk[x].mode /\ LineAhead[p][u] = {Owner(y) : y \in Before(x)}
        BY <4>1 DEF Mapped
      <4>4. LineMode'[p][u] = lk'[x].mode /\ LineAhead'[p][u] = {Owner(y) : y \in Before(x)'}
        BY <4>2 DEF Mapped
      <4>5. ASSUME NEW y \in Before(x) PROVE y \in Lock /\ Using(y) /\ Rec(y) = p
        BY <4>2, BeforeIs
      <4>6. CASE p # r
        <5>1. Before(x)' = Before(x)
          BY <4>2, <4>5, <4>6
        <5> QED BY <4>2, <4>3, <4>4, <4>6, <5>1
      <4>7. CASE p = r
        <5>1. \A y \in Before(x) : Owner(y) = t <=> y = l
          BY <1>1, <2>1, <4>5, <4>7 DEF Stands
        <5>2. {Owner(y) : y \in Before(x) \ {l}} = {Owner(y) : y \in Before(x)} \ {t}
          BY <5>1
        <5> QED BY <4>2, <4>3, <4>4, <4>7, <5>2
      <4> QED BY <4>6, <4>7
    <3>3. CASE ~\E x \in Lock : Stands(u, p, x)
      <4>1. LineMode[p][u] = "NONE" /\ LineAhead[p][u] = {}
        BY <3>3 DEF Mapped
      <4>2. LineMode'[p][u] = "NONE" /\ LineAhead'[p][u] = {}
        BY <3>1, <3>3 DEF Mapped
      <4> QED BY <4>1, <4>2
    <3> QED BY <3>2, <3>3
  <2>5. /\ LineMode = [p \in Record |-> [u \in Thread |-> LineMode[p][u]]]
        /\ LineAhead = [p \in Record |-> [u \in Thread |-> LineAhead[p][u]]]
        /\ LineMode' = [p \in Record |-> [u \in Thread |-> LineMode'[p][u]]]
        /\ LineAhead' = [p \in Record |-> [u \in Thread |-> LineAhead'[p][u]]]
    BY DEF Mapped
  <2>6. LineMode' = [LineMode EXCEPT ![r][t] = "NONE"]
    <3> HIDE DEF r
    <3>1. \A p \in Record : \A u \in Thread :
            LineMode'[p][u] = IF p = r /\ u = t THEN "NONE" ELSE LineMode[p][u]
      BY <2>3, <2>4
    <3> QED BY <1>1, <2>5, <3>1
  <2>7. LineAhead' = [LineAhead EXCEPT ![r] = [u \in Thread |-> IF u = t THEN {} ELSE @[u] \ {t}]]
    <3> HIDE DEF r
    <3>1. \A p \in Record : \A u \in Thread :
            LineAhead'[p][u] = IF p = r THEN IF u = t THEN {} ELSE LineAhead[p][u] \ {t}
                               ELSE LineAhead[p][u]
      BY <2>3, <2>4
    <3>2. \A p \in Record : /\ LineAhead[p] = [u \in Thread |-> LineAhead[p][u]]
                            /\ LineAhead'[p] = [u \in Thread |-> LineAhead'[p][u]]
      BY <2>5
    <3>3. LineAhead'[r] = [u \in Thread |-> IF u = t THEN {} ELSE LineAhead[r][u] \ {t}]
      BY <1>1, <3>1, <3>2
    <3>4. ASSUME NEW p \in Record, p # r PROVE LineAhead'[p] = LineAhead[p]
      BY <3>1, <3>2, <3>4
    <3>5. /\ LineAhead = [p \in Record |-> LineAhead[p]] /\ LineAhead' = [p \in Record |-> LineAhead'[p]]
      BY <2>5
    <3> QED BY <1>1, <3>3, <3>4, <3>5
  <2> HIDE DEF r
  <2>8. t \in Service!Holders(r)
    <3>1. t \in Service!Line(r)
      BY <1>1, <2>1, LineIs
    <3>2. LineAsks[t] # r
      BY <1>1, <2>2, NoLockAssumption DEF LineAsks
    <3> QED BY <3>1, <3>2 DEF Service!Holders
  <2>9. Service!Release(t, r)
    BY <1>3, <2>6, <2>7, <2>8 DEF Service!Release, Service!Leave
  <2> QED BY <1>1, <2>9 DEF r
<1> QED BY <1>4, <1>5

\* Every step is a step of LockService, or changes nothing it tells apart.
LEMMA ServiceNext ==
  ASSUME NEW ord \in [Record -> Seq(Lock)], Inv(ord), [Next]_vars
  PROVE  [Service!Next]_(Service!vars)
<1> SUFFICES Service!Next \/ (LineMode' = LineMode /\ LineAhead' = LineAhead /\ LineAsks' = LineAsks)
  BY DEF Service!vars
<1>1. View(ord) /\ Mapped /\ conflict \in [Thread -> Node]
  BY ViewHolds, MappedHolds DEF Inv, Types
<1>2. ASSUME NEW t \in Thread, AcquireLock(t)
      PROVE  Service!Next \/ (LineMode' = LineMode /\ LineAhead' = LineAhead /\ LineAsks' = LineAsks)
  <2>1. PICK r : r = Wanted(t).rec
    OBVIOUS
  <2>2. PICK l : l = NewLock(t, r)
    OBVIOUS
  <2>3. /\ \E st \in {"ACTIVE", "WAIT", "OBSOLETE"} : Acquires(t, l, st)
        /\ Rec(l) = r /\ ~In(ord[r], l)
        /\ Put(ord, l) \in [Record -> Seq(Lock)] /\ Inv(Put(ord, l))'
    BY <1>2, <2>1, <2>2, AcquireEffect
  <2>4. PICK st \in {"ACTIVE", "WAIT", "OBSOLETE"} : Acquires(t, l, st)
    BY <2>3
  <2>5. View(Put(ord, l))' /\ Mapped' /\ Allowed' /\ l \in Lock /\ ~In(ord[Rec(l)], l)
        /\ Rec(l) \in Record /\ Owner(l) = t /\ Wanted(t).mode \in Mode
    BY <2>3, <2>4, ViewNext, MappedNext, LockIs DEF Acquires
  <2>6. CASE st = "OBSOLETE"
    <3>1. conflict' = conflict /\ \A x \in Lock : x # l => lk'[x].mode = lk[x].mode
      BY <2>4, <2>6 DEF Acquires
    <3>2. /\ \A x \in Lock : Using(x)' <=> Using(x)
          /\ \A x \in Lock : Using(x) => x # l /\ Before(x)' = Before(x)
      BY <1>1, <2>4, <2>5, <2>6, AcquireOrder
    <3>3. LineMode' = LineMode /\ LineAhead' = LineAhead
      BY <1>1, <2>5, <3>1, <3>2, SameLines
    <3> QED BY <3>1, <3>3 DEF LineAsks
  <2>7. CASE st # "OBSOLETE"
    <3>1. st \in {"ACTIVE", "WAIT"}
      BY <2>7
    <3>2. /\ Service!Join(t, Rec(l), Wanted(t).mode)
          /\ LineAhead'[Rec(l)][t] = Service!Line(Rec(l))
          /\ LineAsks' = IF st = "WAIT" THEN [LineAsks EXCEPT ![t] = Rec(l)] ELSE LineAsks
      BY <1>1, <2>4, <2>5, <3>1, AcquireJoins
    <3>3. CASE st = "WAIT"
      <4>1. Service!Request(t, Rec(l), Wanted(t).mode)
        BY <3>2, <3>3 DEF Service!Request
      <4> QED BY <2>5, <4>1 DEF Service!Next, Mode, Service!Mode
    <3>4. CASE st = "ACTIVE"
      <4>1. ASSUME NEW u \in Service!Line(Rec(l))
            PROVE  Service!Compatible(LineMode[Rec(l)][u], Wanted(t).mode)
        <5>1. u \in Thread /\ \E x \in Lock : Stands(u, Rec(l), x)
          BY <1>1, <2>5, LineIs
        <5>2. PICK x \in Lock : Stands(u, Rec(l), x)
          BY <5>1
        <5>3. /\ Before(l)' = {m \in Lock : Using(m) /\ Rec(m) = Rec(l)}
              /\ Using(l)' /\ x # l
          BY <1>1, <2>4, <2>5, <3>4, <5>2, AcquireOrder DEF Stands
        <5>4. x \in Before(l)'
          BY <5>2, <5>3 DEF Stands
        <5>5. lk'[l].state = "ACTIVE" /\ lk'[l].mode = Wanted(t).mode /\ lk'[x].mode = lk[x].mode
          BY <2>4, <3>4, <5>3 DEF Acquires
        <5>6. ~Incompatible(lk'[l].mode, lk'[x].mode)
          BY <2>5, <5>3, <5>4, <5>5 DEF Allowed
        <5>7. LineMode[Rec(l)][u] = lk[x].mode /\ lk[x].mode \in Mode
          BY <1>1, <2>5, <5>1, <5>2 DEF Mapped
        <5> QED BY <2>5, <5>5, <5>6, <5>7, CompatibleIs
      <4>2. Service!Take(t, Rec(l), Wanted(t).mode)
        BY <3>2, <3>4, <4>1 DEF Service!Take, Service!Free
      <4> QED BY <2>5, <4>2 DEF Service!Next, Mode, Service!Mode
    <3> QED BY <3>1, <3>3, <3>4
  <2> QED BY <2>6, <2>7
<1>3. ASSUME NEW t \in Thread, Awake(t)
      PROVE  Service!Next \/ (LineMode' = LineMode /\ LineAhead' = LineAhead /\ LineAsks' = LineAsks)
  <2>1. Awakes(t) /\ View(ord)' /\ Mapped'
    BY <1>3, AwakeEffect, ViewNext, MappedNext
  <2>2. /\ t \notin waitSet /\ conflict' = [conflict EXCEPT ![t] = NoLock]
        /\ \A x \in Lock : lk'[x].mode = lk[x].mode
    BY <2>1 DEF Awakes
  <2>3. PICK c \in Lock : c = conflict[t]
    BY <2>1 DEF Awakes
  <2>4. Using(c) /\ Owner(c) = t /\ Rec(c) \in Record /\ c # NoLock
    BY <1>1, <2>3, LockIs, NoLockAssumption DEF View
  <2>5. LineMode' = LineMode /\ LineAhead' = LineAhead
    BY <1>1, <2>1, <2>2, AwakeOrder, SameLines
  <2>6. LineAsks[t] = Rec(c) /\ Rec(c) # NoLock
    BY <2>3, <2>4, NoLockAssumption DEF LineAsks
  <2>7. LineAsks' = [LineAsks EXCEPT ![t] = NoLock]
    <3>1. conflict'[t] = NoLock /\ \A u \in Thread : u # t => conflict'[u] = conflict[u]
      BY <1>1, <2>2
    <3> QED BY <3>1 DEF LineAsks
  <2>8. Stands(t, Rec(c), c)
    BY <2>4 DEF Stands
  <2>9. LineMode[Rec(c)][t] = lk[c].mode /\ LineAhead[Rec(c)][t] = {Owner(m) : m \in Before(c)}
        /\ \A x \in Lock : lk[x].mode \in Mode
    BY <1>1, <2>4, <2>8 DEF Mapped
  <2>10. ASSUME NEW u \in LineAhead[Rec(c)][t]
         PROVE  Service!Compatible(LineMode[Rec(c)][u], LineMode[Rec(c)][t])
    <3>1. PICK m \in Before(c) : u = Owner(m)
      BY <2>9
    <3>2. m \in Lock /\ Using(m) /\ Rec(m) = Rec(c) /\ u \in Thread
      BY <1>1, <2>4, <3>1, BeforeIs
    <3>3. LineMode[Rec(c)][u] = lk[m].mode
      BY <1>1, <2>4, <3>1, <3>2 DEF Mapped, Stands
    <3>4. ~Incompatible(lk[c].mode, lk[m].mode)
      <4>1. Allowed
        BY MappedHolds
      <4> QED BY <2>2, <2>4, <3>1, <4>1 DEF Allowed
    <3> QED BY <2>9, <3>2, <3>3, <3>4, CompatibleIs
  <2>11. Service!Grant(t)
    BY <2>5, <2>6, <2>7, <2>10 DEF Service!Grant, Service!Free
  <2> QED BY <2>11 DEF Service!Next
<1>4. ASSUME NEW t \in Thread, ReleaseLock(t)
      PROVE  Service!Next \/ (LineMode' = LineMode /\ LineAhead' = LineAhead /\ LineAsks' = LineAsks)
  <2>1. PICK l : l = deque[t][released[t] + 1]
    OBVIOUS
  <2>2. /\ Releases(t, l) /\ Rec(l) \in Record
        /\ \E k \in 1 .. Len(ord[Rec(l)]) :
             /\ \A j \in 1 .. k - 1 : ~InUse(lk, ord[Rec(l)][j])'
             /\ Drop(ord, Rec(l), k) \in [Record -> Seq(Lock)] /\ Inv(Drop(ord, Rec(l), k))'
    BY <1>4, <2>1, ReleaseEffect
  <2>3. PICK k \in 1 .. Len(ord[Rec(l)]) :
             /\ \A j \in 1 .. k - 1 : ~InUse(lk, ord[Rec(l)][j])'
             /\ Drop(ord, Rec(l), k) \in [Record -> Seq(Lock)] /\ Inv(Drop(ord, Rec(l), k))'
    BY <2>2
  <2>4. View(Drop(ord, Rec(l), k))' /\ Mapped' /\ l \in Lock
    BY <2>2, <2>3, ViewNext, MappedNext DEF Releases
  <2>5. \/ Service!Release(t, Rec(l)) /\ Rec(l) \in Record
        \/ LineMode' = LineMode /\ LineAhead' = LineAhead /\ LineAsks' = LineAsks
    BY <1>1, <2>2, <2>3, <2>4, ReleaseLeaves
  <2> QED BY <2>5 DEF Service!Next
<1>5. CASE UNCHANGED vars
  BY <1>5 DEF vars, LineMode, LineAhead, LineAsks, Locks, Live, Before, InUse
<1> QED BY <1>2, <1>3, <1>4, <1>5 DEF Next, Step, Done

\* The lock table under the global mutex keeps the promise of LockService: AcquireLock grants in
\* the order of arrival and over compatible requests only, a refused request leaves no trace, and
\* ReleaseLock takes away exactly the lock it is given.
THEOREM KeepsThePromise == Spec => ImplementsService
<1>1. Init => Service!Init
  <2> SUFFICES ASSUME Init PROVE Service!Init
    OBVIOUS
  <2>1. \A t \in Thread : deque[t] = << >> /\ conflict[t] = NoLock
    BY DEF Init
  <2>2. \A t \in Thread : \A r : Locks(t, r) = {}
    BY <2>1 DEF Locks, Live
  <2> QED BY <2>1, <2>2 DEF Service!Init, LineMode, LineAhead, LineAsks
<1>2. IInv /\ [Next]_vars => [Service!Next]_(Service!vars)
  BY ServiceNext DEF IInv
<1> QED BY <1>1, <1>2, InitInv, NextInv, PTL DEF Spec, ImplementsService, Service!Spec

\* Two transactions never hold incompatible locks on one record.
MutualExclusion ==
  \A t, u \in Thread : \A l \in Live(t) : \A m \in Live(u) :
    /\ t # u /\ Rec(l) = Rec(m)
    /\ lk[l].state = "ACTIVE" /\ lk[m].state = "ACTIVE"
    => ~Incompatible(lk[l].mode, lk[m].mode)

\* Of two locks of a record in use one stands before the other.
LEMMA ExclusionHolds == IInv => MutualExclusion
<1> SUFFICES ASSUME NEW ord \in [Record -> Seq(Lock)], Inv(ord),
                    NEW t \in Thread, NEW u \in Thread, NEW l \in Live(t), NEW m \in Live(u),
                    t # u, Rec(l) = Rec(m), lk[l].state = "ACTIVE", lk[m].state = "ACTIVE"
             PROVE  ~Incompatible(lk[l].mode, lk[m].mode)
  BY DEF IInv, MutualExclusion
<1>1. View(ord) /\ Allowed
  BY ViewHolds, MappedHolds
<1>2. /\ l \in Lock /\ Using(l) /\ Owner(l) = t /\ m \in Lock /\ Using(m) /\ Owner(m) = u
      /\ Rec(l) \in Record /\ l # m
  BY LiveIs DEF Using
<1> DEFINE s == ord[Rec(l)]
<1>3. PICK i \in 1 .. Len(s) : s[i] = l /\ Before(l) = {x \in {s[j] : j \in 1 .. i - 1} : InUse(lk, x)}
  BY <1>1, <1>2 DEF View
<1>4. PICK j \in 1 .. Len(s) : s[j] = m /\ Before(m) = {x \in {s[n] : n \in 1 .. j - 1} : InUse(lk, x)}
  BY <1>1, <1>2 DEF View
<1>5. Len(s) \in Nat
  BY <1>2
<1> HIDE DEF s
<1>6. m \in Before(l) \/ l \in Before(m)
  <2>1. i \in 1 .. j - 1 \/ j \in 1 .. i - 1
    BY <1>2, <1>3, <1>4, <1>5
  <2> QED BY <1>2, <1>3, <1>4, <2>1 DEF Using
<1>7. ~Incompatible(lk[l].mode, lk[m].mode) \/ ~Incompatible(lk[m].mode, lk[l].mode)
  BY <1>1, <1>2, <1>6 DEF Allowed
<1> QED BY <1>7 DEF Incompatible

\* AcquireLock never lets two transactions hold incompatible locks on one record.
THEOREM LocksExclude == Spec => []MutualExclusion
BY InitInv, NextInv, ExclusionHolds, PTL DEF Spec
=============================================================================
