-------------------------- MODULE BlockLists_proofs --------------------------
(***************************************************************************)
(* Proofs about BlockLists, for every number of threads and blocks: the    *)
(* two lists that are filled without a mutex keep their links, and the     *)
(* free list its count.                                                    *)
(*                                                                         *)
(* Links are read off the histories latches and pages, the order of the    *)
(* exchanges. What makes LatchesLinked and PagesLinked inductive is that a *)
(* thread in the middle of an insertion has the neighbour of its element   *)
(* in that order in other, and that no two threads have the same element.  *)
(***************************************************************************)
EXTENDS BlockLists, FiniteSetTheorems, SequenceTheorems, TLAPS

\* No element occurs twice.
Distinct(list) == \A m, n \in 1 .. Len(list) : list[m] = list[n] => m = n

\* Where a thread has yet to link an element of rw_lock_list, and of the free list.
Pushing == {"push_next", "push_back"}
Appending == {"append_link", "append_prev"}

\* Each thread inserts an element of its own, that is in the lists as far as it has got.
ThreadInv ==
  /\ \A t \in Thread : at[t] = "out" <=> elem[t] = Sentinel
  /\ \A t, u \in Thread : elem[t] = elem[u] /\ elem[t] # Sentinel => t = u
  /\ \A t \in Thread : at[t] # "out" => InList(latches, elem[t])
  /\ \A t \in Thread :
       at[t] \in Pushing \cup {"append_end"} => ~InList(pages, elem[t])
  /\ \A t \in Thread :
       at[t] \in Appending \cup {"append_count"} => InList(pages, elem[t])

\* prev_begin is what stands behind the element, whatever was pushed before it since.
LatchInv ==
  /\ Distinct(latches)
  /\ \A t \in Thread : at[t] \in Pushing =>
       \A n \in 1 .. Len(latches) : latches[n] = elem[t] => other[t] = At(latches, n + 1)
  /\ LatchesLinked

\* prev_end is what stands before the element, whatever was appended since.
PageInv ==
  /\ Distinct(pages)
  /\ \A t \in Thread : at[t] \in Appending =>
       \A n \in 1 .. Len(pages) : pages[n] = elem[t] => other[t] = At(pages, n - 1)
  /\ PagesLinked

\* The inductive invariant.
IInv == TypeOK /\ ThreadInv /\ LatchInv /\ PageInv

-----------------------------------------------------------------------------
\* The n-th element of a list is a block that is in the list.
LEMMA AtElement ==
  ASSUME NEW list \in Seq(Block), NEW n \in 1 .. Len(list)
  PROVE  At(list, n) = list[n] /\ list[n] \in Block /\ InList(list, list[n])
BY DEF At, InList

\* Beyond its elements a list has the sentinel.
LEMMA AtEnd ==
  ASSUME NEW list \in Seq(Block), NEW n \in Int, n \notin 1 .. Len(list)
  PROVE  At(list, n) = Sentinel
BY DEF At

\* What <<b>> \o list is: b, and then the list.
LEMMA PushedFront ==
  ASSUME NEW list \in Seq(Block), NEW b \in Block, NEW new, new = <<b>> \o list
  PROVE  /\ new \in Seq(Block) /\ Len(new) = Len(list) + 1 /\ new[1] = b
         /\ \A n \in 1 .. Len(list) : new[n + 1] = list[n]
         /\ \A c : InList(new, c) <=> c = b \/ InList(list, c)
<1>1. new \in Seq(Block) /\ Len(new) = Len(list) + 1 /\ new[1] = b
  OBVIOUS
<1>2. \A n \in 1 .. Len(list) : new[n + 1] = list[n]
  OBVIOUS
<1>3. ASSUME NEW c, InList(new, c) PROVE c = b \/ InList(list, c)
  <2>1. PICK n \in 1 .. Len(new) : new[n] = c
    BY <1>3 DEF InList
  <2>2. CASE n = 1
    BY <2>1, <2>2, <1>1
  <2>3. CASE n # 1
    <3>1. n - 1 \in 1 .. Len(list) /\ n = (n - 1) + 1
      BY <2>3, <1>1
    <3>2. new[n] = list[n - 1]
      BY <3>1, <1>2
    <3> QED BY <3>1, <3>2, <2>1 DEF InList
  <2> QED BY <2>2, <2>3
<1>4. ASSUME NEW c, c = b \/ InList(list, c) PROVE InList(new, c)
  <2>1. CASE c = b
    BY <2>1, <1>1 DEF InList
  <2>2. CASE InList(list, c)
    <3>1. PICK n \in 1 .. Len(list) : list[n] = c
      BY <2>2 DEF InList
    <3>2. n + 1 \in 1 .. Len(new) /\ new[n + 1] = c
      BY <3>1, <1>1, <1>2
    <3> QED BY <3>2 DEF InList
  <2> QED BY <1>4, <2>1, <2>2
<1> QED BY <1>1, <1>2, <1>3, <1>4

\* What Append(list, b) is: the list, and then b.
LEMMA Appended ==
  ASSUME NEW list \in Seq(Block), NEW b \in Block, NEW new, new = Append(list, b)
  PROVE  /\ new \in Seq(Block) /\ Len(new) = Len(list) + 1 /\ new[Len(list) + 1] = b
         /\ \A n \in 1 .. Len(list) : new[n] = list[n]
         /\ \A c : InList(new, c) <=> c = b \/ InList(list, c)
<1>1. new \in Seq(Block) /\ Len(new) = Len(list) + 1 /\ new[Len(list) + 1] = b
  OBVIOUS
<1>2. \A n \in 1 .. Len(list) : new[n] = list[n]
  OBVIOUS
<1>3. ASSUME NEW c, InList(new, c) PROVE c = b \/ InList(list, c)
  BY <1>1, <1>2, <1>3 DEF InList
<1>4. ASSUME NEW c, c = b \/ InList(list, c) PROVE InList(new, c)
  BY <1>1, <1>2, <1>4 DEF InList
<1> QED BY <1>1, <1>2, <1>3, <1>4

\* What Without(list, list[k]) is: the elements after the k-th move up by one.
LEMMA Removed ==
  ASSUME NEW list \in Seq(Block), NEW k \in 1 .. Len(list), Distinct(list),
         NEW new, new = Without(list, list[k])
  PROVE  /\ new \in Seq(Block) /\ Len(new) = Len(list) - 1
         /\ \A n \in 1 .. k - 1 : new[n] = list[n]
         /\ \A n \in k .. Len(list) - 1 : new[n] = list[n + 1]
         /\ \A c : InList(new, c) <=> c # list[k] /\ InList(list, c)
<1> DEFINE a == SubSeq(list, 1, k - 1)
           z == SubSeq(list, k + 1, Len(list))
<1>1. new = a \o z
  <2>1. k = CHOOSE m \in 1 .. Len(list) : list[m] = list[k]
    BY DEF Distinct
  <2> QED BY <2>1 DEF Without, InList
<1>2. a \in Seq(Block) /\ Len(a) = k - 1 /\ \A n \in 1 .. k - 1 : a[n] = list[n]
  OBVIOUS
<1>3. z \in Seq(Block) /\ Len(z) = Len(list) - k /\ \A n \in 1 .. Len(list) - k : z[n] = list[n + k]
  OBVIOUS
<1> HIDE DEF a, z
<1>4. new \in Seq(Block) /\ Len(new) = Len(list) - 1
  <2>1. new \in Seq(Block) /\ Len(new) = Len(a) + Len(z)
    BY <1>1, <1>2, <1>3, ConcatProperties
  <2>2. Len(a) = k - 1 /\ Len(z) = Len(list) - k /\ Len(list) \in Nat
    BY <1>2, <1>3
  <2> QED BY <2>1, <2>2
<1>5. \A n \in 1 .. k - 1 : new[n] = list[n]
  BY <1>1, <1>2, <1>3
<1>6. \A n \in k .. Len(list) - 1 : new[n] = list[n + 1]
  <2> SUFFICES ASSUME NEW n \in k .. Len(list) - 1 PROVE new[n] = list[n + 1]
    OBVIOUS
  <2>1. n - (k - 1) \in 1 .. Len(list) - k /\ (n - (k - 1)) + k = n + 1
    OBVIOUS
  <2>2. new[n] = z[n - (k - 1)]
    <3>1. n \in 1 .. Len(a) + Len(z) /\ n > Len(a) /\ n - Len(a) = n - (k - 1)
      BY <1>2, <1>3
    <3> QED BY <3>1, <1>1, <1>2, <1>3
  <2>3. z[n - (k - 1)] = list[(n - (k - 1)) + k]
    BY <2>1, <1>3
  <2> QED BY <2>1, <2>2, <2>3
<1>7. ASSUME NEW c, InList(new, c) PROVE c # list[k] /\ InList(list, c)
  <2>1. PICK n \in 1 .. Len(list) - 1 : new[n] = c
    BY <1>4, <1>7 DEF InList
  <2>2. CASE n < k
    BY <2>1, <2>2, <1>5 DEF InList, Distinct
  <2>3. CASE n >= k
    BY <2>1, <2>3, <1>6 DEF InList, Distinct
  <2> QED BY <2>2, <2>3
<1>8. ASSUME NEW c, c # list[k], InList(list, c) PROVE InList(new, c)
  <2>1. PICK n \in 1 .. Len(list) : list[n] = c
    BY <1>8 DEF InList
  <2>2. CASE n < k
    BY <2>1, <2>2, <1>4, <1>5 DEF InList
  <2>3. CASE n > k
    <3>1. n - 1 \in k .. Len(list) - 1 /\ n = (n - 1) + 1
      BY <2>3
    <3>2. new[n - 1] = c
      BY <3>1, <2>1, <1>6
    <3> QED BY <3>1, <3>2, <1>4 DEF InList
  <2> QED BY <2>1, <2>2, <2>3, <1>8
<1> QED BY <1>4, <1>5, <1>6, <1>7, <1>8

-----------------------------------------------------------------------------
\* The lists are empty when create() begins.
LEMMA InitInv ==
  ASSUME Sentinel \notin Block
  PROVE  Init => IInv
<1> SUFFICES ASSUME Init PROVE IInv
  OBVIOUS
<1>1. TypeOK
  BY DEF Init, TypeOK, Node
<1>2. latches = << >> /\ pages = << >> /\ Len(latches) = 0 /\ Len(pages) = 0
  BY DEF Init
<1>3. ThreadInv
  BY DEF Init, ThreadInv, Pushing, Appending
<1>4. LatchInv
  BY <1>2 DEF Init, LatchInv, Distinct, LatchesLinked, At, Node, Pushing
<1>5. PageInv
  <2>1. {b \in Block : InList(pages, b) /\ ~\E t \in Thread : elem[t] = b} = {}
    BY <1>2 DEF InList
  <2>2. number = 0
    BY DEF Init
  <2>3. end = At(pages, Len(pages))
    BY <1>2 DEF Init, At
  <2>4. Distinct(pages) /\ \A t \in Thread : at[t] \notin Appending
    BY <1>2 DEF Init, Distinct, Appending
  <2> QED BY <1>2, <2>1, <2>2, <2>3, <2>4, FS_EmptySet DEF PageInv, PagesLinked
<1> QED BY <1>1, <1>3, <1>4, <1>5 DEF IInv

\* Nothing of rw_lock_list has changed, and nobody has begun or ended to push.
LEMMA LatchSame ==
  ASSUME LatchInv, UNCHANGED rwList,
         \A t \in Thread :
           /\ at'[t] \in Pushing <=> at[t] \in Pushing
           /\ at[t] \in Pushing => at'[t] = at[t] /\ elem'[t] = elem[t] /\ other'[t] = other[t]
  PROVE  LatchInv'
<1>1. latches' = latches /\ next' = next /\ prev' = prev
  BY DEF rwList
<1>2. \A b, P : P \subseteq Pushing => (Inserting(b, P)' <=> Inserting(b, P))
  BY DEF Inserting
<1>3. LatchesLinked'
  <2>1. \A b : /\ Inserting(b, {"push_next"})' <=> Inserting(b, {"push_next"})
               /\ Inserting(b, {"push_next", "push_back"})' <=> Inserting(b, {"push_next", "push_back"})
    BY <1>2 DEF Pushing
  <2> QED BY <1>1, <2>1 DEF LatchInv, LatchesLinked, At
<1>4. Distinct(latches)'
  BY <1>1 DEF LatchInv, Distinct
<1>5. ASSUME NEW t \in Thread, at'[t] \in Pushing, NEW n \in 1 .. Len(latches'), latches'[n] = elem'[t]
      PROVE  other'[t] = At(latches', n + 1)
  BY <1>1, <1>5 DEF LatchInv, At
<1> QED BY <1>3, <1>4, <1>5 DEF LatchInv, At

\* The same of the free list; nobody has begun or ended with a page that is in it.
LEMMA PageSame ==
  ASSUME PageInv, UNCHANGED freeList,
         \A t \in Thread :
           /\ at'[t] \in Appending <=> at[t] \in Appending
           /\ at[t] \in Appending => at'[t] = at[t] /\ elem'[t] = elem[t] /\ other'[t] = other[t],
         \A b \in Block : InList(pages, b) =>
           ((\E t \in Thread : elem'[t] = b) <=> (\E t \in Thread : elem[t] = b))
  PROVE  PageInv'
<1>1. pages' = pages /\ after' = after /\ before' = before /\ start' = start /\ end' = end
      /\ number' = number
  BY DEF freeList
<1>2. \A b, P : P \subseteq Appending => (Inserting(b, P)' <=> Inserting(b, P))
  BY DEF Inserting
<1>3. {b \in Block : InList(pages', b) /\ ~\E t \in Thread : elem'[t] = b}
        = {b \in Block : InList(pages, b) /\ ~\E t \in Thread : elem[t] = b}
  BY <1>1 DEF InList
<1>4. PagesLinked'
  <2>1. \A b : /\ Inserting(b, {"append_link"})' <=> Inserting(b, {"append_link"})
               /\ Inserting(b, {"append_link", "append_prev"})'
                    <=> Inserting(b, {"append_link", "append_prev"})
    BY <1>2 DEF Appending
  <2>2. end' = At(pages, Len(pages))'
    BY <1>1 DEF PageInv, PagesLinked, At
  <2>3. (\A n \in 0 .. Len(pages) - 1 :
           \/ Inserting(pages[n + 1], {"append_link"})
           \/ (IF n = 0 THEN start ELSE after[pages[n]]) = pages[n + 1])'
    BY <1>1, <2>1 DEF PageInv, PagesLinked
  <2>4. (\A n \in 1 .. Len(pages) :
           \/ Inserting(pages[n], {"append_link", "append_prev"})
           \/ before[pages[n]] = At(pages, n - 1))'
    BY <1>1, <2>1 DEF PageInv, PagesLinked, At
  <2>5. (pages # << >> => after[end] = Sentinel)'
    BY <1>1 DEF PageInv, PagesLinked
  <2>6. (number = Cardinality({b \in Block : InList(pages, b) /\ ~\E t \in Thread : elem[t] = b}))'
    BY <1>1, <1>3 DEF PageInv, PagesLinked, InList
  <2> QED BY <2>2, <2>3, <2>4, <2>5, <2>6 DEF PagesLinked
<1>5. Distinct(pages)'
  BY <1>1 DEF PageInv, Distinct
<1>6. ASSUME NEW t \in Thread, at'[t] \in Appending, NEW n \in 1 .. Len(pages'), pages'[n] = elem'[t]
      PROVE  other'[t] = At(pages', n - 1)
  BY <1>1, <1>6 DEF PageInv, At
<1> QED BY <1>4, <1>5, <1>6 DEF PageInv, At

\* A thread within an insertion has a block, and no other thread has that one.
LEMMA Elements ==
  ASSUME TypeOK, ThreadInv, NEW t \in Thread, at[t] # "out"
  PROVE  elem[t] \in Block /\ InList(latches, elem[t])
         /\ \A u \in Thread \ {t} : elem[u] # elem[t]
BY DEF TypeOK, ThreadInv, Node

\* The exchange of atomic_push_front puts a new block before all others; the links it
\* leaves open are those of that block, and of the one that was the first.
LEMMA PushInv ==
  ASSUME Sentinel \notin Block, IInv, NEW t \in Thread, NEW b \in Block, Push(t, b)
  PROVE  IInv'
<1>1. TypeOK /\ ThreadInv /\ LatchInv /\ PageInv
  BY DEF IInv
<1>2. at[t] = "out" /\ ~InList(latches, b) /\ ~InList(pages, b) /\ UNCHANGED freeList
  BY DEF Push
<1>3. /\ elem'[t] = b /\ at'[t] = "push_next" /\ other'[t] = next[Sentinel]
      /\ \A u \in Thread \ {t} : elem'[u] = elem[u] /\ at'[u] = at[u] /\ other'[u] = other[u]
  BY <1>1 DEF Push, Goto, TypeOK
<1>4. latches \in Seq(Block) /\ latches' = <<b>> \o latches
  BY <1>1 DEF Push, TypeOK
<1>5. /\ latches' \in Seq(Block) /\ Len(latches') = Len(latches) + 1 /\ latches'[1] = b
      /\ \A n \in 1 .. Len(latches) : latches'[n + 1] = latches[n]
      /\ \A c : InList(latches', c) <=> c = b \/ InList(latches, c)
  <2>1. \A new : new = <<b>> \o latches =>
          /\ new \in Seq(Block) /\ Len(new) = Len(latches) + 1 /\ new[1] = b
          /\ \A n \in 1 .. Len(latches) : new[n + 1] = latches[n]
          /\ \A c : InList(new, c) <=> c = b \/ InList(latches, c)
    BY <1>4, PushedFront
  <2> QED BY <2>1, <1>4
<1>6. /\ next'[Sentinel] = b /\ \A c \in Block : next'[c] = next[c]
      /\ prev'[b] = Sentinel /\ \A c \in Node \ {b} : prev'[c] = prev[c]
  BY <1>1 DEF Push, TypeOK, Node
<1>7. TypeOK'
  <2>1. next' \in [Node -> Node] /\ prev' \in [Node -> Node]
    BY <1>1 DEF Push, TypeOK, Node
  <2>2. elem' \in [Thread -> Node] /\ other' \in [Thread -> Node]
    BY <1>1 DEF Push, TypeOK, Node
  <2>3. at' \in [Thread -> {"out", "push_next", "push_back", "append_end", "append_link",
                            "append_prev", "append_count"}]
    BY <1>1 DEF Push, Goto, TypeOK
  <2> QED BY <1>1, <1>2, <1>5, <2>1, <2>2, <2>3 DEF TypeOK, freeList
<1>8. ThreadInv'
  <2>1. pages' = pages
    BY <1>2 DEF freeList
  <2>2. \A u \in Thread \ {t} : elem[u] # b
    BY <1>1, <1>2 DEF ThreadInv
  <2>3. \A u \in Thread : at'[u] = "out" <=> elem'[u] = Sentinel
    BY <1>1, <1>3 DEF ThreadInv
  <2>4. \A u, v \in Thread : elem'[u] = elem'[v] /\ elem'[u] # Sentinel => u = v
    BY <1>1, <1>3, <2>2 DEF ThreadInv
  <2>5. \A u \in Thread : at'[u] # "out" => InList(latches', elem'[u])
    BY <1>1, <1>3, <1>5 DEF ThreadInv
  <2>6. \A u \in Thread : at'[u] \in Pushing \cup {"append_end"} => ~InList(pages, elem'[u])
    BY <1>1, <1>2, <1>3 DEF ThreadInv
  <2>7. \A u \in Thread : at'[u] \in Appending \cup {"append_count"} => InList(pages, elem'[u])
    BY <1>1, <1>3 DEF ThreadInv, Appending
  <2> QED BY <2>1, <2>3, <2>4, <2>5, <2>6, <2>7 DEF ThreadInv, InList
<1>9. \A n \in 1 .. Len(latches) + 1 : At(latches', n + 1) = At(latches, n)
  BY <1>4, <1>5 DEF At
<1>10. \A n \in 1 .. Len(latches) : latches[n] \in Block /\ latches[n] # b
  BY <1>2, <1>4, AtElement
<1> DEFINE Ins(c, P) == \E u \in Thread : at'[u] \in P /\ elem'[u] = c
<1> HIDE DEF Ins
<1>11. ASSUME NEW c, c # b, NEW P \in SUBSET Pushing, Inserting(c, P) PROVE Ins(c, P)
  BY <1>2, <1>3, <1>11 DEF Inserting, Pushing, Ins
<1>12. Ins(b, {"push_next"}) /\ Ins(b, {"push_next", "push_back"})
  BY <1>3 DEF Ins
<1>13. {"push_next"} \in SUBSET Pushing /\ {"push_next", "push_back"} \in SUBSET Pushing
  BY DEF Pushing
<1>14. LatchInv'
  <2>1. Distinct(latches')
    <3> SUFFICES ASSUME NEW m \in 1 .. Len(latches'), NEW n \in 1 .. Len(latches'),
                        latches'[m] = latches'[n]
                 PROVE  m = n
      BY DEF Distinct
    <3>1. \A x \in 1 .. Len(latches') : x # 1 => x - 1 \in 1 .. Len(latches)
                                                 /\ latches'[x] = latches[x - 1]
      BY <1>4, <1>5
    <3>2. CASE m = 1 \/ n = 1
      BY <3>1, <3>2, <1>5, <1>10
    <3>3. CASE m # 1 /\ n # 1
      <4>1. m - 1 = n - 1
        BY <3>1, <3>3, <1>1 DEF LatchInv, Distinct
      <4> QED BY <4>1
    <3> QED BY <3>2, <3>3
  <2>2. ASSUME NEW u \in Thread, at'[u] \in Pushing, NEW n \in 1 .. Len(latches'), latches'[n] = elem'[u]
        PROVE  other'[u] = At(latches', n + 1)
    <3>1. CASE u = t
      <4>1. n = 1
        BY <3>1, <2>1, <2>2, <1>3, <1>4, <1>5 DEF Distinct
      <4>2. other'[t] = At(latches, 1)
        BY <1>1, <1>3 DEF LatchInv, LatchesLinked
      <4> QED BY <3>1, <4>1, <4>2, <1>4, <1>9
    <3>2. CASE u # t
      <4>1. elem[u] # b /\ at[u] \in Pushing /\ elem'[u] = elem[u] /\ other'[u] = other[u]
        BY <3>2, <2>2, <1>1, <1>2, <1>3 DEF ThreadInv, Pushing
      <4>2. n # 1
        BY <4>1, <2>2, <1>5
      <4> DEFINE m == n - 1
      <4>3. m \in 1 .. Len(latches) /\ n = m + 1 /\ latches[m] = elem[u]
        BY <4>1, <4>2, <2>2, <1>4, <1>5
      <4> HIDE DEF m
      <4>4. other[u] = At(latches, m + 1)
        BY <4>1, <4>3, <1>1 DEF LatchInv
      <4>5. At(latches', (m + 1) + 1) = At(latches, m + 1)
        BY <4>3, <1>4, <1>9
      <4> QED BY <4>1, <4>3, <4>4, <4>5
    <3> QED BY <3>1, <3>2
  <2>3. LatchesLinked'
    <3>1. next'[Sentinel] = At(latches', 1)
      BY <1>5, <1>6 DEF At
    <3>2. ASSUME NEW n \in 1 .. Len(latches')
          PROVE  Ins(latches'[n], {"push_next"}) \/ next'[latches'[n]] = At(latches', n + 1)
      <4>1. CASE n = 1
        BY <4>1, <1>5, <1>12
      <4>2. CASE n # 1
        <5> DEFINE m == n - 1
        <5>1. m \in 1 .. Len(latches) /\ n = m + 1 /\ latches'[n] = latches[m]
          BY <4>2, <1>4, <1>5
        <5> HIDE DEF m
        <5>2. Inserting(latches[m], {"push_next"}) \/ next[latches[m]] = At(latches, m + 1)
          BY <5>1, <1>1 DEF LatchInv, LatchesLinked
        <5>3. Inserting(latches[m], {"push_next"}) => Ins(latches[m], {"push_next"})
          BY <5>1, <1>10, <1>11, <1>13
        <5>4. At(latches', (m + 1) + 1) = At(latches, m + 1)
          BY <5>1, <1>4, <1>9
        <5>5. next'[latches[m]] = next[latches[m]]
          BY <5>1, <1>6, <1>10
        <5> QED BY <5>1, <5>2, <5>3, <5>4, <5>5
      <4> QED BY <4>1, <4>2
    <3>3. ASSUME NEW n \in 2 .. Len(latches') + 1
          PROVE  \/ Ins(latches'[n - 1], {"push_next", "push_back"})
                 \/ prev'[At(latches', n)] = latches'[n - 1]
      <4>1. CASE n = 2
        BY <4>1, <1>5, <1>12
      <4>2. CASE n # 2
        <5> DEFINE m == n - 1
        <5>1. m \in 2 .. Len(latches) + 1 /\ n = m + 1 /\ m - 1 \in 1 .. Len(latches)
              /\ latches'[m] = latches[m - 1]
          <6>1. m - 1 \in 1 .. Len(latches) /\ m = (m - 1) + 1
            BY <4>2, <1>4, <1>5
          <6> QED BY <6>1, <1>4, <1>5
        <5> HIDE DEF m
        <5>2. Inserting(latches[m - 1], {"push_next", "push_back"}) \/ prev[At(latches, m)] = latches[m - 1]
          BY <5>1, <1>1 DEF LatchInv, LatchesLinked
        <5>3. Inserting(latches[m - 1], {"push_next", "push_back"})
                => Ins(latches[m - 1], {"push_next", "push_back"})
          BY <5>1, <1>10, <1>11, <1>13
        <5>4. At(latches', m + 1) = At(latches, m)
          BY <5>1, <1>9
        <5>5. At(latches, m) \in Node \ {b}
          BY <5>1, <1>10 DEF At, Node
        <5>6. prev'[At(latches, m)] = prev[At(latches, m)]
          BY <5>5, <1>6
        <5> QED BY <5>1, <5>2, <5>3, <5>4, <5>6
      <4> QED BY <4>1, <4>2
    <3>4. prev'[latches'[1]] = Sentinel
      BY <1>5, <1>6
    <3>5. (next[Sentinel] = At(latches, 1))'
      BY <3>1 DEF At
    <3>6. (\A n \in 1 .. Len(latches) :
             Inserting(latches[n], {"push_next"}) \/ next[latches[n]] = At(latches, n + 1))'
      BY <3>2 DEF Ins, Inserting, At
    <3>7. (\A n \in 2 .. Len(latches) + 1 :
             \/ Inserting(latches[n - 1], {"push_next", "push_back"})
             \/ prev[At(latches, n)] = latches[n - 1])'
      BY <3>3 DEF Ins, Inserting, At
    <3> QED BY <3>4, <3>5, <3>6, <3>7 DEF LatchesLinked
  <2> QED BY <2>1, <2>2, <2>3 DEF LatchInv, Distinct, At
<1>15. PageInv'
  <2>1. \A u \in Thread :
          /\ at'[u] \in Appending <=> at[u] \in Appending
          /\ at[u] \in Appending => at'[u] = at[u] /\ elem'[u] = elem[u] /\ other'[u] = other[u]
    BY <1>2, <1>3 DEF Appending
  <2>2. ASSUME NEW c \in Block, InList(pages, c)
        PROVE  (\E u \in Thread : elem'[u] = c) <=> (\E u \in Thread : elem[u] = c)
    <3>1. c # b /\ elem[t] # c
      BY <2>2, <1>1, <1>2 DEF ThreadInv
    <3> QED BY <3>1, <1>3
  <2> QED BY <2>1, <2>2, <1>1, <1>2, PageSame
<1> QED BY <1>7, <1>8, <1>14, <1>15 DEF IInv

\* atomic_push_front links the block to the one that was the first.
LEMMA PushNextInv ==
  ASSUME Sentinel \notin Block, IInv, NEW t \in Thread, PushNext(t)
  PROVE  IInv'
<1>1. TypeOK /\ ThreadInv /\ LatchInv /\ PageInv
  BY DEF IInv
<1>2. at[t] = "push_next" /\ latches' = latches /\ prev' = prev /\ elem' = elem /\ other' = other
      /\ UNCHANGED freeList
  BY DEF PushNext
<1>3. at'[t] = "push_back" /\ \A u \in Thread \ {t} : at'[u] = at[u]
  BY <1>1 DEF PushNext, Goto, TypeOK
<1>4. elem[t] \in Block /\ InList(latches, elem[t]) /\ \A u \in Thread \ {t} : elem[u] # elem[t]
  BY <1>1, <1>2, Elements
<1>5. PICK k \in 1 .. Len(latches) : latches[k] = elem[t]
  BY <1>4 DEF InList
<1>6. other[t] = At(latches, k + 1) /\ other[t] \in Node
  BY <1>1, <1>2, <1>5 DEF LatchInv, Pushing, TypeOK
<1>7. next'[elem[t]] = other[t] /\ \A c \in Node \ {elem[t]} : next'[c] = next[c]
  BY <1>1, <1>4 DEF PushNext, TypeOK, Node
<1>8. TypeOK'
  <2>1. next' \in [Node -> Node]
    BY <1>1, <1>6 DEF PushNext, TypeOK
  <2>2. at' \in [Thread -> {"out", "push_next", "push_back", "append_end", "append_link",
                            "append_prev", "append_count"}]
    BY <1>1 DEF PushNext, Goto, TypeOK
  <2> QED BY <1>1, <1>2, <2>1, <2>2 DEF TypeOK, freeList
<1>9. ThreadInv'
  <2>1. pages' = pages
    BY <1>2 DEF freeList
  <2> QED BY <1>1, <1>2, <1>3, <2>1 DEF ThreadInv, Pushing, Appending, InList
<1> DEFINE Ins(c, P) == \E u \in Thread : at'[u] \in P /\ elem'[u] = c
<1> HIDE DEF Ins
<1>10. \A c : Inserting(c, {"push_next"}) /\ c # elem[t] => Ins(c, {"push_next"})
  BY <1>2, <1>3 DEF Inserting, Ins
<1>11. \A c : Inserting(c, {"push_next", "push_back"}) => Ins(c, {"push_next", "push_back"})
  BY <1>2, <1>3 DEF Inserting, Ins
<1>12. LatchInv'
  <2>1. Distinct(latches)'
    BY <1>1, <1>2 DEF LatchInv, Distinct
  <2>2. ASSUME NEW u \in Thread, at'[u] \in Pushing, NEW n \in 1 .. Len(latches), latches[n] = elem[u]
        PROVE  other[u] = At(latches, n + 1)
    BY <2>2, <1>1, <1>2, <1>3 DEF LatchInv, Pushing
  <2>3. next'[Sentinel] = At(latches, 1)
    BY <1>1, <1>4, <1>7 DEF LatchInv, LatchesLinked, Node
  <2>4. ASSUME NEW n \in 1 .. Len(latches)
        PROVE  Ins(latches[n], {"push_next"}) \/ next'[latches[n]] = At(latches, n + 1)
    <3>1. CASE n = k
      BY <3>1, <1>5, <1>6, <1>7
    <3>2. CASE n # k
      <4>1. latches[n] \in Node \ {elem[t]}
        BY <3>2, <1>1, <1>5, AtElement DEF LatchInv, Distinct, Node, TypeOK
      <4>2. Inserting(latches[n], {"push_next"}) \/ next[latches[n]] = At(latches, n + 1)
        BY <1>1 DEF LatchInv, LatchesLinked
      <4> QED BY <4>1, <4>2, <1>7, <1>10
    <3> QED BY <3>1, <3>2
  <2>5. ASSUME NEW n \in 2 .. Len(latches) + 1
        PROVE  Ins(latches[n - 1], {"push_next", "push_back"}) \/ prev[At(latches, n)] = latches[n - 1]
    BY <1>1, <1>11 DEF LatchInv, LatchesLinked
  <2>6. latches # << >> => prev[latches[1]] = Sentinel
    BY <1>1 DEF LatchInv, LatchesLinked
  <2>7. LatchesLinked'
    BY <1>2, <2>3, <2>4, <2>5, <2>6 DEF LatchesLinked, At, Ins, Inserting
  <2> QED BY <1>2, <2>1, <2>2, <2>7 DEF LatchInv, At
<1>13. PageInv'
  <2>1. \A u \in Thread :
          /\ at'[u] \in Appending <=> at[u] \in Appending
          /\ at[u] \in Appending => at'[u] = at[u] /\ elem'[u] = elem[u] /\ other'[u] = other[u]
    BY <1>2, <1>3 DEF Appending
  <2> QED BY <2>1, <1>1, <1>2, PageSame
<1> QED BY <1>8, <1>9, <1>12, <1>13 DEF IInv

\* atomic_push_front links that one back; this ends the open links of the block.
LEMMA PushBackInv ==
  ASSUME Sentinel \notin Block, IInv, NEW t \in Thread, PushBack(t)
  PROVE  IInv'
<1>1. TypeOK /\ ThreadInv /\ LatchInv /\ PageInv
  BY DEF IInv
<1>2. at[t] = "push_back" /\ latches' = latches /\ next' = next /\ elem' = elem /\ other' = other
      /\ UNCHANGED freeList
  BY DEF PushBack
<1>3. at'[t] = "append_end" /\ \A u \in Thread \ {t} : at'[u] = at[u]
  BY <1>1 DEF PushBack, Goto, TypeOK
<1>4. elem[t] \in Block /\ InList(latches, elem[t]) /\ \A u \in Thread \ {t} : elem[u] # elem[t]
  BY <1>1, <1>2, Elements
<1>5. PICK k \in 1 .. Len(latches) : latches[k] = elem[t]
  BY <1>4 DEF InList
<1>6. other[t] = At(latches, k + 1) /\ other[t] \in Node
  BY <1>1, <1>2, <1>5 DEF LatchInv, Pushing, TypeOK
<1>7. prev'[other[t]] = elem[t] /\ \A c \in Node \ {other[t]} : prev'[c] = prev[c]
  BY <1>1, <1>6 DEF PushBack, TypeOK, Node
<1>8. TypeOK'
  <2>1. prev' \in [Node -> Node]
    BY <1>1, <1>4 DEF PushBack, TypeOK, Node
  <2>2. at' \in [Thread -> {"out", "push_next", "push_back", "append_end", "append_link",
                            "append_prev", "append_count"}]
    BY <1>1 DEF PushBack, Goto, TypeOK
  <2> QED BY <1>1, <1>2, <2>1, <2>2 DEF TypeOK, freeList
<1>9. ThreadInv'
  <2>1. pages' = pages
    BY <1>2 DEF freeList
  <2> QED BY <1>1, <1>2, <1>3, <2>1 DEF ThreadInv, Pushing, Appending, InList
<1> DEFINE Ins(c, P) == \E u \in Thread : at'[u] \in P /\ elem'[u] = c
<1> HIDE DEF Ins
<1>10. \A c : Inserting(c, {"push_next"}) => Ins(c, {"push_next"})
  BY <1>2, <1>3 DEF Inserting, Ins
<1>11. \A c : Inserting(c, {"push_next", "push_back"}) /\ c # elem[t]
                => Ins(c, {"push_next", "push_back"})
  BY <1>2, <1>3 DEF Inserting, Ins
<1>12. LatchInv'
  <2>1. Distinct(latches)'
    BY <1>1, <1>2 DEF LatchInv, Distinct
  <2>2. ASSUME NEW u \in Thread, at'[u] \in Pushing, NEW n \in 1 .. Len(latches), latches[n] = elem[u]
        PROVE  other[u] = At(latches, n + 1)
    BY <2>2, <1>1, <1>2, <1>3 DEF LatchInv, Pushing
  <2>3. next[Sentinel] = At(latches, 1)
    BY <1>1 DEF LatchInv, LatchesLinked
  <2>4. ASSUME NEW n \in 1 .. Len(latches)
        PROVE  Ins(latches[n], {"push_next"}) \/ next[latches[n]] = At(latches, n + 1)
    BY <1>1, <1>10 DEF LatchInv, LatchesLinked
  <2>5. \A m, n \in 1 .. Len(latches) + 1 :
          At(latches, n) \in Node /\ (At(latches, m) = At(latches, n) => m = n)
    <3>1. \A n \in 1 .. Len(latches) : latches[n] \in Block
      BY <1>1 DEF TypeOK
    <3>2. Len(latches) \in Nat
      BY <1>1 DEF TypeOK
    <3> QED BY <1>1, <3>1, <3>2 DEF LatchInv, Distinct, At, Node
  <2>6. ASSUME NEW n \in 2 .. Len(latches) + 1
        PROVE  Ins(latches[n - 1], {"push_next", "push_back"}) \/ prev'[At(latches, n)] = latches[n - 1]
    <3>1. CASE n = k + 1
      BY <3>1, <1>5, <1>6, <1>7
    <3>2. CASE n # k + 1
      <4>1. Len(latches) \in Nat /\ n - 1 \in 1 .. Len(latches)
        BY <1>1 DEF TypeOK
      <4>2. latches[n - 1] # elem[t]
        BY <3>2, <4>1, <1>1, <1>5 DEF LatchInv, Distinct
      <4>3. At(latches, n) \in Node \ {other[t]}
        BY <3>2, <4>1, <1>6, <2>5
      <4>4. Inserting(latches[n - 1], {"push_next", "push_back"}) \/ prev[At(latches, n)] = latches[n - 1]
        BY <1>1 DEF LatchInv, LatchesLinked
      <4> QED BY <4>2, <4>3, <4>4, <1>7, <1>11
    <3> QED BY <3>1, <3>2
  <2>7. latches # << >> => prev'[latches[1]] = Sentinel
    <3>1. SUFFICES ASSUME latches # << >> PROVE prev'[latches[1]] = Sentinel
      OBVIOUS
    <3>2. Len(latches) \in Nat /\ Len(latches) >= 1 /\ latches[1] = At(latches, 1)
      BY <1>5 DEF At
    <3>3. latches[1] \in Node \ {other[t]}
      BY <3>2, <1>6, <2>5
    <3> QED BY <3>1, <3>3, <1>1, <1>7 DEF LatchInv, LatchesLinked
  <2>8. LatchesLinked'
    BY <1>2, <2>3, <2>4, <2>6, <2>7 DEF LatchesLinked, At, Ins, Inserting
  <2> QED BY <1>2, <2>1, <2>2, <2>8 DEF LatchInv, At
<1>13. PageInv'
  <2>1. \A u \in Thread :
          /\ at'[u] \in Appending <=> at[u] \in Appending
          /\ at[u] \in Appending => at'[u] = at[u] /\ elem'[u] = elem[u] /\ other'[u] = other[u]
    BY <1>2, <1>3 DEF Appending
  <2> QED BY <2>1, <1>1, <1>2, PageSame
<1> QED BY <1>8, <1>9, <1>12, <1>13 DEF IInv

\* remove() joins the neighbours of a latch; no insertion is open then.
LEMMA RemoveInv ==
  ASSUME Sentinel \notin Block, IInv, NEW b \in Block, InList(latches, b), Remove(b),
         \A t \in Thread : at[t] = "out"
  PROVE  IInv'
<1>1. TypeOK /\ ThreadInv /\ LatchInv /\ PageInv
  BY DEF IInv
<1>2. elem' = elem /\ other' = other /\ at' = at /\ UNCHANGED freeList /\ latches' = Without(latches, b)
  BY DEF Remove
<1> DEFINE L == latches
           M == latches'
           top == Len(L)
<1>3. L \in Seq(Block) /\ top \in Nat /\ Distinct(L)
  BY <1>1 DEF TypeOK, LatchInv
<1>4. PICK k \in 1 .. top : L[k] = b
  BY DEF InList
<1>5. /\ M \in Seq(Block) /\ Len(M) = top - 1
      /\ \A n \in 1 .. k - 1 : M[n] = L[n]
      /\ \A n \in k .. top - 1 : M[n] = L[n + 1]
  <2>1. \A new : new = Without(L, L[k]) =>
          /\ new \in Seq(Block) /\ Len(new) = Len(L) - 1
          /\ \A n \in 1 .. k - 1 : new[n] = L[n]
          /\ \A n \in k .. Len(L) - 1 : new[n] = L[n + 1]
    BY <1>3, <1>4, Removed
  <2> QED BY <2>1, <1>2, <1>4
<1>6. \A n \in 1 .. top : L[n] \in Block
  BY <1>3
<1>7. /\ \A n \in 0 .. top + 1 : At(L, n) \in Node
      /\ \A m, n \in 0 .. top : At(L, m) = At(L, n) => m = n
      /\ \A m, n \in 1 .. top + 1 : At(L, m) = At(L, n) => m = n
  BY <1>3, <1>6 DEF Distinct, At, Node
<1>8. /\ \A n \in 0 .. k - 1 : At(M, n) = At(L, n)
      /\ \A n \in k .. top : At(M, n) = At(L, n + 1)
  BY <1>3, <1>5 DEF At
<1>9. \A c, P : "out" \notin P => ~Inserting(c, P)
  BY DEF Inserting
<1>10. \A n \in 0 .. top : next[At(L, n)] = At(L, n + 1)
  <2> SUFFICES ASSUME NEW n \in 0 .. top PROVE next[At(L, n)] = At(L, n + 1)
    OBVIOUS
  <2>1. CASE n = 0
    BY <2>1, <1>1 DEF LatchInv, LatchesLinked, At
  <2>2. CASE n # 0
    <3>1. n \in 1 .. top /\ At(L, n) = L[n]
      BY <2>2, <1>3 DEF At
    <3> QED BY <3>1, <1>1, <1>9 DEF LatchInv, LatchesLinked
  <2> QED BY <2>1, <2>2
<1>11. \A n \in 1 .. top + 1 : prev[At(L, n)] = At(L, n - 1)
  <2> SUFFICES ASSUME NEW n \in 1 .. top + 1 PROVE prev[At(L, n)] = At(L, n - 1)
    OBVIOUS
  <2>1. CASE n = 1
    <3>1. L # << >>
      BY <1>3, <1>4
    <3>2. At(L, 1) = L[1] /\ At(L, 0) = Sentinel
      BY <1>3, <1>4 DEF At
    <3> QED BY <2>1, <3>1, <3>2, <1>1 DEF LatchInv, LatchesLinked
  <2>2. CASE n # 1
    <3>1. n \in 2 .. top + 1 /\ At(L, n - 1) = L[n - 1]
      BY <2>2, <1>3 DEF At
    <3> QED BY <3>1, <1>1, <1>9 DEF LatchInv, LatchesLinked
  <2> QED BY <2>1, <2>2
<1>12. next[b] = At(L, k + 1) /\ prev[b] = At(L, k - 1)
  <2>1. b = At(L, k) /\ k \in 0 .. top /\ k \in 1 .. top + 1
    BY <1>3, <1>4 DEF At
  <2> QED BY <2>1, <1>10, <1>11
<1>13. /\ next'[At(L, k - 1)] = At(L, k + 1) /\ \A c \in Node \ {At(L, k - 1)} : next'[c] = next[c]
       /\ prev'[At(L, k + 1)] = At(L, k - 1) /\ \A c \in Node \ {At(L, k + 1)} : prev'[c] = prev[c]
  <2>1. At(L, k - 1) \in Node /\ At(L, k + 1) \in Node
    BY <1>3, <1>7
  <2> QED BY <2>1, <1>1, <1>12 DEF Remove, TypeOK
<1> HIDE DEF L, M, top
<1>14. \A n \in 0 .. top - 1 : next'[At(M, n)] = At(M, n + 1)
  <2> SUFFICES ASSUME NEW n \in 0 .. top - 1 PROVE next'[At(M, n)] = At(M, n + 1)
    OBVIOUS
  <2>1. CASE n < k - 1
    <3>1. At(M, n) = At(L, n) /\ At(M, n + 1) = At(L, n + 1) /\ n \in 0 .. top /\ k - 1 \in 0 .. top
          /\ n # k - 1 /\ n \in 0 .. top + 1
      BY <2>1, <1>3, <1>8
    <3>2. At(L, n) \in Node \ {At(L, k - 1)}
      BY <3>1, <1>7
    <3> QED BY <3>1, <3>2, <1>10, <1>13
  <2>2. CASE n = k - 1
    BY <2>2, <1>3, <1>8, <1>13
  <2>3. CASE n >= k
    <3>1. At(M, n) = At(L, n + 1) /\ At(M, n + 1) = At(L, (n + 1) + 1) /\ n + 1 \in 0 .. top
          /\ k - 1 \in 0 .. top /\ n + 1 # k - 1 /\ n + 1 \in 0 .. top + 1
      BY <2>3, <1>3, <1>8
    <3>2. At(L, n + 1) \in Node \ {At(L, k - 1)}
      BY <3>1, <1>7
    <3> QED BY <3>1, <3>2, <1>10, <1>13
  <2> QED BY <2>1, <2>2, <2>3, <1>3
<1>15. \A n \in 1 .. top : prev'[At(M, n)] = At(M, n - 1)
  <2> SUFFICES ASSUME NEW n \in 1 .. top PROVE prev'[At(M, n)] = At(M, n - 1)
    OBVIOUS
  <2>1. CASE n < k
    <3>1. At(M, n) = At(L, n) /\ At(M, n - 1) = At(L, n - 1) /\ n \in 1 .. top + 1
          /\ k + 1 \in 1 .. top + 1 /\ n # k + 1 /\ n \in 0 .. top + 1
      BY <2>1, <1>3, <1>8
    <3>2. At(L, n) \in Node \ {At(L, k + 1)}
      BY <3>1, <1>7
    <3> QED BY <3>1, <3>2, <1>11, <1>13
  <2>2. CASE n = k
    <3>1. At(M, n) = At(L, k + 1) /\ At(M, n - 1) = At(L, k - 1)
      BY <2>2, <1>3, <1>8
    <3> QED BY <3>1, <1>13
  <2>3. CASE n > k
    <3>1. At(M, n) = At(L, n + 1) /\ At(M, n - 1) = At(L, (n - 1) + 1) /\ (n - 1) + 1 = (n + 1) - 1
          /\ n + 1 \in 1 .. top + 1 /\ k + 1 \in 1 .. top + 1 /\ n + 1 # k + 1 /\ n + 1 \in 0 .. top + 1
      BY <2>3, <1>3, <1>8
    <3>2. At(L, n + 1) \in Node \ {At(L, k + 1)}
      BY <3>1, <1>7
    <3> QED BY <3>1, <3>2, <1>11, <1>13
  <2> QED BY <2>1, <2>2, <2>3, <1>3
<1>16. TypeOK'
  <2>1. next' \in [Node -> Node] /\ prev' \in [Node -> Node]
    <3>1. next[b] \in Node /\ prev[b] \in Node
      BY <1>1 DEF TypeOK, Node
    <3> QED BY <3>1, <1>1 DEF Remove, TypeOK
  <2> QED BY <1>1, <1>2, <1>5, <2>1 DEF TypeOK, freeList, M
<1>17. ThreadInv'
  BY <1>1, <1>2 DEF ThreadInv, Pushing, Appending
<1>18. LatchInv'
  <2>1. Distinct(latches')
    <3> DEFINE old(x) == IF x < k THEN x ELSE x + 1
    <3>1. \A x \in 1 .. Len(M) : old(x) \in 1 .. top /\ M[x] = L[old(x)]
      BY <1>3, <1>5
    <3>2. \A x, y \in 1 .. Len(M) : old(x) = old(y) => x = y
      BY <1>3, <1>5
    <3> HIDE DEF old
    <3>3. \A x, y \in 1 .. Len(M) : M[x] = M[y] => x = y
      BY <3>1, <3>2, <1>3 DEF Distinct, top
    <3> QED BY <3>3 DEF Distinct, M
  <2>2. \A u \in Thread : at'[u] \notin Pushing
    BY <1>2 DEF Pushing
  <2>3. \A n \in 1 .. Len(M) : M[n] = At(M, n) /\ n \in 0 .. top - 1 /\ n \in 1 .. top
    BY <1>3, <1>5 DEF At
  <2>4. next'[Sentinel] = At(M, 1)
    <3>1. At(M, 0) = Sentinel
      BY DEF At
    <3> QED BY <3>1, <1>3, <1>14
  <2>5. \A n \in 1 .. Len(M) : next'[M[n]] = At(M, n + 1)
    BY <2>3, <1>14
  <2>6. \A n \in 2 .. Len(M) + 1 : prev'[At(M, n)] = M[n - 1]
    <3>1. \A n \in 2 .. Len(M) + 1 : n - 1 \in 1 .. Len(M) /\ n \in 1 .. top
      BY <1>3, <1>5
    <3> QED BY <3>1, <2>3, <1>15
  <2>7. M # << >> => prev'[M[1]] = Sentinel
    <3>1. SUFFICES ASSUME M # << >> PROVE prev'[M[1]] = Sentinel
      OBVIOUS
    <3>2. 1 \in 1 .. Len(M) /\ At(M, 0) = Sentinel
      BY <3>1, <1>3, <1>5 DEF At
    <3> QED BY <3>2, <2>3, <1>15
  <2>8. LatchesLinked'
    BY <2>4, <2>5, <2>6, <2>7 DEF LatchesLinked, At, M
  <2> QED BY <2>1, <2>2, <2>8 DEF LatchInv, Distinct
<1>19. PageInv'
  BY <1>1, <1>2, PageSame DEF Appending
<1> QED BY <1>16, <1>17, <1>18, <1>19 DEF IInv

\* The blocks that are in the free list and counted.
Counted == {b \in Block : InList(pages, b) /\ ~\E t \in Thread : elem[t] = b}

\* The exchange of ut_list_atomic_append puts a page behind all others.
LEMMA AppendEndInv ==
  ASSUME Sentinel \notin Block, IInv, NEW t \in Thread, AppendEnd(t)
  PROVE  IInv'
<1>1. TypeOK /\ ThreadInv /\ LatchInv /\ PageInv
  BY DEF IInv
<1> DEFINE L == pages
           M == pages'
           e == elem[t]
<1>2. at[t] = "append_end" /\ elem' = elem /\ end' = e /\ start' = start /\ before' = before
      /\ number' = number /\ M = Append(L, e) /\ UNCHANGED rwList
  BY DEF AppendEnd
<1>3. /\ at'[t] = "append_link" /\ other'[t] = end
      /\ \A u \in Thread \ {t} : at'[u] = at[u] /\ other'[u] = other[u]
  BY <1>1 DEF AppendEnd, Goto, TypeOK
<1>4. e \in Block /\ InList(latches, e) /\ ~InList(L, e) /\ \A u \in Thread \ {t} : elem[u] # e
  BY <1>1, <1>2, Elements DEF ThreadInv
<1>5. L \in Seq(Block) /\ Len(L) \in Nat /\ Distinct(L)
  BY <1>1 DEF TypeOK, PageInv
<1>6. /\ M \in Seq(Block) /\ Len(M) = Len(L) + 1 /\ M[Len(L) + 1] = e
      /\ \A n \in 1 .. Len(L) : M[n] = L[n]
      /\ \A c : InList(M, c) <=> c = e \/ InList(L, c)
  <2>1. \A new : new = Append(L, e) =>
          /\ new \in Seq(Block) /\ Len(new) = Len(L) + 1 /\ new[Len(L) + 1] = e
          /\ \A n \in 1 .. Len(L) : new[n] = L[n]
          /\ \A c : InList(new, c) <=> c = e \/ InList(L, c)
    BY <1>4, <1>5, Appended
  <2> QED BY <2>1, <1>2
<1>7. after'[e] = Sentinel /\ \A c \in Block \ {e} : after'[c] = after[c]
  BY <1>1, <1>4 DEF AppendEnd, TypeOK
<1>8. TypeOK'
  <2>1. after' \in [Block -> Node] /\ other' \in [Thread -> Node] /\ end' \in Node
    BY <1>1, <1>2, <1>4 DEF AppendEnd, TypeOK, Node
  <2>2. at' \in [Thread -> {"out", "push_next", "push_back", "append_end", "append_link",
                            "append_prev", "append_count"}]
    BY <1>1 DEF AppendEnd, Goto, TypeOK
  <2> QED BY <1>1, <1>2, <1>6, <2>1, <2>2 DEF TypeOK, rwList
<1>9. ThreadInv'
  <2>1. latches' = latches
    BY <1>2 DEF rwList
  <2>2. \A u \in Thread : at'[u] \in Pushing \cup {"append_end"} => ~InList(M, elem[u])
    BY <1>1, <1>3, <1>4, <1>6 DEF ThreadInv, Pushing
  <2>3. \A u \in Thread : at'[u] \in Appending \cup {"append_count"} => InList(M, elem[u])
    BY <1>1, <1>3, <1>6 DEF ThreadInv
  <2>4. \A u \in Thread : at'[u] = "out" <=> elem[u] = Sentinel
    BY <1>1, <1>2, <1>3 DEF ThreadInv
  <2>5. \A u \in Thread : at'[u] # "out" => InList(latches, elem[u])
    BY <1>1, <1>2, <1>3 DEF ThreadInv
  <2> QED BY <1>1, <1>2, <2>1, <2>2, <2>3, <2>4, <2>5 DEF ThreadInv, InList
<1>10. LatchInv'
  <2>1. \A u \in Thread :
          /\ at'[u] \in Pushing <=> at[u] \in Pushing
          /\ at[u] \in Pushing => at'[u] = at[u] /\ elem'[u] = elem[u] /\ other'[u] = other[u]
    BY <1>2, <1>3 DEF Pushing
  <2> QED BY <2>1, <1>1, <1>2, LatchSame
<1> DEFINE Ins(c, P) == \E u \in Thread : at'[u] \in P /\ elem'[u] = c
<1> HIDE DEF Ins
<1>11. \A c : /\ Inserting(c, {"append_link"}) => Ins(c, {"append_link"})
              /\ Inserting(c, {"append_link", "append_prev"}) => Ins(c, {"append_link", "append_prev"})
  BY <1>2, <1>3 DEF Inserting, Ins
<1>12. Ins(e, {"append_link"}) /\ Ins(e, {"append_link", "append_prev"})
  BY <1>2, <1>3 DEF Ins
<1>13. \A n \in 0 .. Len(L) : At(M, n) = At(L, n)
  BY <1>5, <1>6 DEF At
<1>14. \A n \in 1 .. Len(L) : L[n] \in Block /\ L[n] # e
  BY <1>4, <1>5, AtElement
<1> HIDE DEF L, M, e
<1>15. PageInv'
  <2>1. Distinct(M)
    BY <1>5, <1>6, <1>14 DEF Distinct
  <2>2. ASSUME NEW u \in Thread, at'[u] \in Appending, NEW n \in 1 .. Len(M), M[n] = elem[u]
        PROVE  other'[u] = At(M, n - 1)
    <3>1. CASE u = t
      <4>1. n = Len(L) + 1 /\ n - 1 = Len(L)
        BY <3>1, <2>2, <1>5, <1>6, <1>14 DEF e
      <4>2. other'[t] = At(L, Len(L))
        BY <1>1, <1>3 DEF PageInv, PagesLinked, L
      <4> QED BY <3>1, <4>1, <4>2, <1>5, <1>13
    <3>2. CASE u # t
      <4>1. elem[u] # e /\ at[u] \in Appending /\ other'[u] = other[u]
        BY <3>2, <2>2, <1>3, <1>4
      <4>2. n \in 1 .. Len(L) /\ L[n] = elem[u] /\ n - 1 \in 0 .. Len(L)
        BY <4>1, <2>2, <1>5, <1>6
      <4>3. other[u] = At(L, n - 1)
        BY <4>1, <4>2, <1>1 DEF PageInv, L
      <4> QED BY <4>1, <4>2, <4>3, <1>13
    <3> QED BY <3>1, <3>2
  <2>3. end' = At(M, Len(M))
    BY <1>2, <1>5, <1>6 DEF At
  <2>4. ASSUME NEW n \in 0 .. Len(M) - 1
        PROVE  Ins(M[n + 1], {"append_link"}) \/ (IF n = 0 THEN start ELSE after'[M[n]]) = M[n + 1]
    <3>1. CASE n = Len(L)
      BY <3>1, <1>6, <1>12
    <3>2. CASE n # Len(L)
      <4>1. n \in 0 .. Len(L) - 1 /\ n + 1 \in 1 .. Len(L) /\ M[n + 1] = L[n + 1]
            /\ (n # 0 => n \in 1 .. Len(L) /\ M[n] = L[n])
        BY <3>2, <1>5, <1>6
      <4>2. Inserting(L[n + 1], {"append_link"}) \/ (IF n = 0 THEN start ELSE after[L[n]]) = L[n + 1]
        BY <4>1, <1>1 DEF PageInv, PagesLinked, L
      <4>3. n # 0 => after'[L[n]] = after[L[n]]
        BY <4>1, <1>7, <1>14
      <4> QED BY <4>1, <4>2, <4>3, <1>11
    <3> QED BY <3>1, <3>2
  <2>5. ASSUME NEW n \in 1 .. Len(M)
        PROVE  Ins(M[n], {"append_link", "append_prev"}) \/ before[M[n]] = At(M, n - 1)
    <3>1. CASE n = Len(L) + 1
      BY <3>1, <1>6, <1>12
    <3>2. CASE n # Len(L) + 1
      <4>1. n \in 1 .. Len(L) /\ n - 1 \in 0 .. Len(L) /\ M[n] = L[n]
        BY <3>2, <1>5, <1>6
      <4>2. Inserting(L[n], {"append_link", "append_prev"}) \/ before[L[n]] = At(L, n - 1)
        BY <4>1, <1>1 DEF PageInv, PagesLinked, L
      <4> QED BY <4>1, <4>2, <1>11, <1>13
    <3> QED BY <3>1, <3>2
  <2>6. after'[end'] = Sentinel
    BY <1>2, <1>7
  <2>7. {b \in Block : InList(M, b) /\ ~\E u \in Thread : elem[u] = b}
          = {b \in Block : InList(L, b) /\ ~\E u \in Thread : elem[u] = b}
    BY <1>6 DEF e
  <2>8. number' = Cardinality({b \in Block : InList(M, b) /\ ~\E u \in Thread : elem[u] = b})
    BY <2>7, <1>1, <1>2 DEF PageInv, PagesLinked, L
  <2>9. PagesLinked'
    <3>1. pages' = M /\ start' = start /\ before' = before /\ elem' = elem
      BY <1>2 DEF M
    <3>2. end' = At(pages, Len(pages))'
      BY <2>3, <3>1 DEF At
    <3>3. (\A n \in 0 .. Len(pages) - 1 :
             \/ Inserting(pages[n + 1], {"append_link"})
             \/ (IF n = 0 THEN start ELSE after[pages[n]]) = pages[n + 1])'
      BY <2>4, <3>1 DEF Ins, Inserting
    <3>4. (\A n \in 1 .. Len(pages) :
             \/ Inserting(pages[n], {"append_link", "append_prev"})
             \/ before[pages[n]] = At(pages, n - 1))'
      BY <2>5, <3>1 DEF Ins, Inserting, At
    <3>5. (pages # << >> => after[end] = Sentinel)'
      BY <2>6
    <3>6. (number = Cardinality({b \in Block : InList(pages, b) /\ ~\E u \in Thread : elem[u] = b}))'
      BY <2>8, <3>1 DEF InList
    <3> QED BY <3>2, <3>3, <3>4, <3>5, <3>6 DEF PagesLinked
  <2> QED BY <1>2, <2>1, <2>2, <2>9 DEF PageInv, Distinct, At, M
<1> QED BY <1>8, <1>9, <1>10, <1>15 DEF IInv

\* ut_list_atomic_append links the page that was the last, or the start, to the new one.
LEMMA AppendLinkInv ==
  ASSUME Sentinel \notin Block, IInv, NEW t \in Thread, AppendLink(t)
  PROVE  IInv'
<1>1. TypeOK /\ ThreadInv /\ LatchInv /\ PageInv
  BY DEF IInv
<1> DEFINE L == pages
           e == elem[t]
<1>2. /\ at[t] = "append_link" /\ elem' = elem /\ other' = other /\ end' = end /\ number' = number
      /\ pages' = pages /\ before' = before /\ UNCHANGED rwList
  BY DEF AppendLink
<1>3. at'[t] = "append_prev" /\ \A u \in Thread \ {t} : at'[u] = at[u]
  BY <1>1 DEF AppendLink, Goto, TypeOK
<1>4. e \in Block /\ InList(L, e) /\ \A u \in Thread \ {t} : elem[u] # e
  BY <1>1, <1>2, Elements DEF ThreadInv, Appending
<1>5. L \in Seq(Block) /\ Len(L) \in Nat /\ Distinct(L) /\ \A n \in 1 .. Len(L) : L[n] \in Block
  BY <1>1 DEF TypeOK, PageInv
<1>6. PICK k \in 1 .. Len(L) : L[k] = e
  BY <1>4 DEF InList
<1>7. other[t] = At(L, k - 1) /\ other[t] \in Node
  BY <1>1, <1>2, <1>6 DEF PageInv, Appending, TypeOK
<1>8. /\ \A c \in Block : c # other[t] => after'[c] = after[c]
      /\ k = 1 => start' = e /\ after' = after
      /\ k # 1 => start' = start /\ after'[L[k - 1]] = e
  <2>1. CASE k = 1
    <3>1. other[t] = Sentinel
      BY <2>1, <1>7 DEF At
    <3> QED BY <2>1, <3>1 DEF AppendLink
  <2>2. CASE k # 1
    <3>1. other[t] = L[k - 1] /\ L[k - 1] \in Block
      BY <2>2, <1>5, <1>7 DEF At
    <3> QED BY <2>2, <3>1, <1>1 DEF AppendLink, TypeOK
  <2> QED BY <2>1, <2>2
<1>9. TypeOK'
  <2>1. start' \in Node
    BY <1>1, <1>4, <1>8 DEF TypeOK, Node
  <2>2. after' \in [Block -> Node]
    BY <1>1, <1>4 DEF AppendLink, TypeOK, Node
  <2>3. at' \in [Thread -> {"out", "push_next", "push_back", "append_end", "append_link",
                            "append_prev", "append_count"}]
    BY <1>1 DEF AppendLink, Goto, TypeOK
  <2> QED BY <1>1, <1>2, <2>1, <2>2, <2>3 DEF TypeOK, rwList
<1>10. ThreadInv'
  <2>1. latches' = latches
    BY <1>2 DEF rwList
  <2> QED BY <1>1, <1>2, <1>3, <2>1 DEF ThreadInv, Pushing, Appending, InList
<1>11. LatchInv'
  <2>1. \A u \in Thread :
          /\ at'[u] \in Pushing <=> at[u] \in Pushing
          /\ at[u] \in Pushing => at'[u] = at[u] /\ elem'[u] = elem[u] /\ other'[u] = other[u]
    BY <1>2, <1>3 DEF Pushing
  <2> QED BY <2>1, <1>1, <1>2, LatchSame
<1> DEFINE Ins(c, P) == \E u \in Thread : at'[u] \in P /\ elem'[u] = c
<1> HIDE DEF Ins
<1>12. \A c : /\ Inserting(c, {"append_link"}) /\ c # e => Ins(c, {"append_link"})
              /\ Inserting(c, {"append_link", "append_prev"}) => Ins(c, {"append_link", "append_prev"})
  BY <1>2, <1>3 DEF Inserting, Ins
<1> HIDE DEF L, e
<1>13. PageInv'
  <2>1. ASSUME NEW u \in Thread, at'[u] \in Appending, NEW n \in 1 .. Len(L), L[n] = elem[u]
        PROVE  other[u] = At(L, n - 1)
    BY <2>1, <1>1, <1>2, <1>3 DEF PageInv, Appending, L
  <2>2. ASSUME NEW n \in 0 .. Len(L) - 1
        PROVE  Ins(L[n + 1], {"append_link"}) \/ (IF n = 0 THEN start' ELSE after'[L[n]]) = L[n + 1]
    <3>1. CASE n = k - 1
      BY <3>1, <1>5, <1>6, <1>8
    <3>2. CASE n # k - 1
      <4>1. n + 1 \in 1 .. Len(L) /\ n + 1 # k /\ L[n + 1] # e
        BY <3>2, <1>5, <1>6 DEF Distinct
      <4>2. Inserting(L[n + 1], {"append_link"}) \/ (IF n = 0 THEN start ELSE after[L[n]]) = L[n + 1]
        BY <4>1, <1>1 DEF PageInv, PagesLinked, L
      <4>3. n # 0 => after'[L[n]] = after[L[n]]
        <5>1. SUFFICES ASSUME n # 0 PROVE after'[L[n]] = after[L[n]]
          OBVIOUS
        <5>2. n \in 1 .. Len(L) /\ L[n] \in Block
          BY <5>1, <1>5
        <5>3. L[n] # other[t]
          BY <5>2, <3>2, <1>5, <1>7 DEF At, Distinct
        <5> QED BY <5>2, <5>3, <1>8
      <4>4. n = 0 => start' = start
        BY <3>2, <1>6, <1>8
      <4> QED BY <4>1, <4>2, <4>3, <4>4, <1>12
    <3> QED BY <3>1, <3>2
  <2>3. ASSUME NEW n \in 1 .. Len(L)
        PROVE  Ins(L[n], {"append_link", "append_prev"}) \/ before[L[n]] = At(L, n - 1)
    BY <1>1, <1>12 DEF PageInv, PagesLinked, L
  <2>4. L # << >> => after'[end] = Sentinel
    <3>1. end = L[Len(L)] /\ end \in Block /\ Len(L) >= 1 /\ L # << >>
      BY <1>1, <1>5, <1>6 DEF PageInv, PagesLinked, At, L
    <3>2. end # other[t]
      BY <3>1, <1>5, <1>6, <1>7 DEF At, Distinct
    <3>3. after[end] = Sentinel
      BY <3>1, <1>1 DEF PageInv, PagesLinked, L
    <3> QED BY <3>1, <3>2, <3>3, <1>8
  <2>5. PagesLinked'
    <3>1. /\ end = At(L, Len(L))
          /\ number = Cardinality({b \in Block : InList(L, b) /\ ~\E u \in Thread : elem[u] = b})
      BY <1>1 DEF PageInv, PagesLinked, L
    <3>2. pages' = L /\ end' = end /\ number' = number /\ before' = before /\ elem' = elem
      BY <1>2 DEF L
    <3>3. end' = At(pages, Len(pages))'
      BY <3>1, <3>2 DEF At
    <3>4. (\A n \in 0 .. Len(pages) - 1 :
             \/ Inserting(pages[n + 1], {"append_link"})
             \/ (IF n = 0 THEN start ELSE after[pages[n]]) = pages[n + 1])'
      BY <2>2, <3>2 DEF Ins, Inserting
    <3>5. (\A n \in 1 .. Len(pages) :
             \/ Inserting(pages[n], {"append_link", "append_prev"})
             \/ before[pages[n]] = At(pages, n - 1))'
      BY <2>3, <3>2 DEF Ins, Inserting, At
    <3>6. (pages # << >> => after[end] = Sentinel)'
      BY <2>4, <3>2
    <3>7. (number = Cardinality({b \in Block : InList(pages, b) /\ ~\E u \in Thread : elem[u] = b}))'
      BY <3>1, <3>2 DEF InList
    <3> QED BY <3>3, <3>4, <3>5, <3>6, <3>7 DEF PagesLinked
  <2>6. Distinct(pages)'
    BY <1>1, <1>2 DEF PageInv, Distinct
  <2> QED BY <1>2, <2>1, <2>5, <2>6 DEF PageInv, At, L
<1> QED BY <1>9, <1>10, <1>11, <1>13 DEF IInv

\* ut_list_atomic_append links the new page back.
LEMMA AppendPrevInv ==
  ASSUME Sentinel \notin Block, IInv, NEW t \in Thread, AppendPrev(t)
  PROVE  IInv'
<1>1. TypeOK /\ ThreadInv /\ LatchInv /\ PageInv
  BY DEF IInv
<1> DEFINE L == pages
           e == elem[t]
<1>2. /\ at[t] = "append_prev" /\ elem' = elem /\ other' = other /\ end' = end /\ number' = number
      /\ pages' = pages /\ after' = after /\ start' = start /\ UNCHANGED rwList
  BY DEF AppendPrev
<1>3. at'[t] = "append_count" /\ \A u \in Thread \ {t} : at'[u] = at[u]
  BY <1>1 DEF AppendPrev, Goto, TypeOK
<1>4. e \in Block /\ InList(L, e) /\ \A u \in Thread \ {t} : elem[u] # e
  BY <1>1, <1>2, Elements DEF ThreadInv, Appending
<1>5. L \in Seq(Block) /\ Len(L) \in Nat /\ Distinct(L) /\ \A n \in 1 .. Len(L) : L[n] \in Block
  BY <1>1 DEF TypeOK, PageInv
<1>6. PICK k \in 1 .. Len(L) : L[k] = e
  BY <1>4 DEF InList
<1>7. other[t] = At(L, k - 1) /\ other[t] \in Node
  BY <1>1, <1>2, <1>6 DEF PageInv, Appending, TypeOK
<1>8. before'[e] = other[t] /\ \A c \in Block \ {e} : before'[c] = before[c]
  BY <1>1, <1>4 DEF AppendPrev, TypeOK
<1>9. TypeOK'
  <2>1. before' \in [Block -> Node]
    BY <1>1, <1>7 DEF AppendPrev, TypeOK
  <2>2. at' \in [Thread -> {"out", "push_next", "push_back", "append_end", "append_link",
                            "append_prev", "append_count"}]
    BY <1>1 DEF AppendPrev, Goto, TypeOK
  <2> QED BY <1>1, <1>2, <2>1, <2>2 DEF TypeOK, rwList
<1>10. ThreadInv'
  <2>1. latches' = latches
    BY <1>2 DEF rwList
  <2> QED BY <1>1, <1>2, <1>3, <2>1 DEF ThreadInv, Pushing, Appending, InList
<1>11. LatchInv'
  <2>1. \A u \in Thread :
          /\ at'[u] \in Pushing <=> at[u] \in Pushing
          /\ at[u] \in Pushing => at'[u] = at[u] /\ elem'[u] = elem[u] /\ other'[u] = other[u]
    BY <1>2, <1>3 DEF Pushing
  <2> QED BY <2>1, <1>1, <1>2, LatchSame
<1> DEFINE Ins(c, P) == \E u \in Thread : at'[u] \in P /\ elem'[u] = c
<1> HIDE DEF Ins
<1>12. \A c : /\ Inserting(c, {"append_link"}) => Ins(c, {"append_link"})
              /\ Inserting(c, {"append_link", "append_prev"}) /\ c # e
                   => Ins(c, {"append_link", "append_prev"})
  BY <1>2, <1>3 DEF Inserting, Ins
<1> HIDE DEF L, e
<1>13. PageInv'
  <2>1. ASSUME NEW u \in Thread, at'[u] \in Appending, NEW n \in 1 .. Len(L), L[n] = elem[u]
        PROVE  other[u] = At(L, n - 1)
    BY <2>1, <1>1, <1>2, <1>3 DEF PageInv, Appending, L
  <2>2. ASSUME NEW n \in 0 .. Len(L) - 1
        PROVE  Ins(L[n + 1], {"append_link"}) \/ (IF n = 0 THEN start ELSE after[L[n]]) = L[n + 1]
    BY <1>1, <1>12 DEF PageInv, PagesLinked, L
  <2>3. ASSUME NEW n \in 1 .. Len(L)
        PROVE  Ins(L[n], {"append_link", "append_prev"}) \/ before'[L[n]] = At(L, n - 1)
    <3>1. CASE n = k
      BY <3>1, <1>6, <1>7, <1>8
    <3>2. CASE n # k
      <4>1. L[n] \in Block \ {e}
        BY <3>2, <1>5, <1>6 DEF Distinct
      <4>2. Inserting(L[n], {"append_link", "append_prev"}) \/ before[L[n]] = At(L, n - 1)
        BY <1>1 DEF PageInv, PagesLinked, L
      <4> QED BY <4>1, <4>2, <1>8, <1>12
    <3> QED BY <3>1, <3>2
  <2>4. PagesLinked'
    <3>1. /\ end = At(L, Len(L)) /\ (L # << >> => after[end] = Sentinel)
          /\ number = Cardinality({b \in Block : InList(L, b) /\ ~\E u \in Thread : elem[u] = b})
      BY <1>1 DEF PageInv, PagesLinked, L
    <3>2. /\ pages' = L /\ start' = start /\ end' = end /\ number' = number
          /\ after' = after /\ elem' = elem
      BY <1>2 DEF L
    <3>3. end' = At(pages, Len(pages))'
      BY <3>1, <3>2 DEF At
    <3>4. (\A n \in 0 .. Len(pages) - 1 :
             \/ Inserting(pages[n + 1], {"append_link"})
             \/ (IF n = 0 THEN start ELSE after[pages[n]]) = pages[n + 1])'
      BY <2>2, <3>2 DEF Ins, Inserting
    <3>5. (\A n \in 1 .. Len(pages) :
             \/ Inserting(pages[n], {"append_link", "append_prev"})
             \/ before[pages[n]] = At(pages, n - 1))'
      BY <2>3, <3>2 DEF Ins, Inserting, At
    <3>6. (pages # << >> => after[end] = Sentinel)'
      BY <3>1, <3>2
    <3>7. (number = Cardinality({b \in Block : InList(pages, b) /\ ~\E u \in Thread : elem[u] = b}))'
      BY <3>1, <3>2 DEF InList
    <3> QED BY <3>3, <3>4, <3>5, <3>6, <3>7 DEF PagesLinked
  <2>5. Distinct(pages)'
    BY <1>1, <1>2 DEF PageInv, Distinct
  <2> QED BY <1>2, <2>1, <2>4, <2>5 DEF PageInv, At, L
<1> QED BY <1>9, <1>10, <1>11, <1>13 DEF IInv

\* ut_list_atomic_append counts the page, which ends the insertion.
LEMMA AppendCountInv ==
  ASSUME Sentinel \notin Block, IsFiniteSet(Block), IInv, NEW t \in Thread, AppendCount(t)
  PROVE  IInv'
<1>1. TypeOK /\ ThreadInv /\ LatchInv /\ PageInv
  BY DEF IInv
<1> DEFINE e == elem[t]
<1>2. /\ at[t] = "append_count" /\ after' = after /\ before' = before /\ start' = start /\ end' = end
      /\ pages' = pages /\ number' = number + 1 /\ UNCHANGED rwList
  BY DEF AppendCount
<1>3. /\ at'[t] = "out" /\ elem'[t] = Sentinel
      /\ \A u \in Thread \ {t} : at'[u] = at[u] /\ elem'[u] = elem[u] /\ other'[u] = other[u]
  BY <1>1 DEF AppendCount, Goto, TypeOK
<1>4. e \in Block /\ InList(pages, e) /\ \A u \in Thread \ {t} : elem[u] # e
  BY <1>1, <1>2, Elements DEF ThreadInv
<1>5. TypeOK'
  <2>1. elem' \in [Thread -> Node] /\ other' \in [Thread -> Node]
    BY <1>1 DEF AppendCount, TypeOK, Node
  <2>2. at' \in [Thread -> {"out", "push_next", "push_back", "append_end", "append_link",
                            "append_prev", "append_count"}]
    BY <1>1 DEF AppendCount, Goto, TypeOK
  <2> QED BY <1>1, <1>2, <2>1, <2>2 DEF TypeOK, rwList
<1>6. ThreadInv'
  <2>1. latches' = latches
    BY <1>2 DEF rwList
  <2>2. \A u, v \in Thread : elem'[u] = elem'[v] /\ elem'[u] # Sentinel => u = v
    BY <1>1, <1>3 DEF ThreadInv
  <2>3. \A u \in Thread : at'[u] = "out" <=> elem'[u] = Sentinel
    BY <1>1, <1>3 DEF ThreadInv
  <2>4. \A u \in Thread : at'[u] # "out" => InList(latches, elem'[u])
    BY <1>1, <1>3 DEF ThreadInv
  <2>5. \A u \in Thread : at'[u] \in Pushing \cup {"append_end"} => ~InList(pages, elem'[u])
    BY <1>1, <1>3 DEF ThreadInv, Pushing
  <2>6. \A u \in Thread : at'[u] \in Appending \cup {"append_count"} => InList(pages, elem'[u])
    BY <1>1, <1>3 DEF ThreadInv, Appending
  <2> QED BY <1>2, <2>1, <2>2, <2>3, <2>4, <2>5, <2>6 DEF ThreadInv, InList
<1>7. LatchInv'
  <2>1. \A u \in Thread :
          /\ at'[u] \in Pushing <=> at[u] \in Pushing
          /\ at[u] \in Pushing => at'[u] = at[u] /\ elem'[u] = elem[u] /\ other'[u] = other[u]
    BY <1>2, <1>3 DEF Pushing
  <2> QED BY <2>1, <1>1, <1>2, LatchSame
<1> DEFINE Ins(c, P) == \E u \in Thread : at'[u] \in P /\ elem'[u] = c
           CountedNow == {b \in Block : InList(pages, b) /\ ~\E u \in Thread : elem'[u] = b}
<1> HIDE DEF Ins
<1>8. \A c : /\ Inserting(c, {"append_link"}) => Ins(c, {"append_link"})
             /\ Inserting(c, {"append_link", "append_prev"}) => Ins(c, {"append_link", "append_prev"})
  BY <1>2, <1>3 DEF Inserting, Ins
<1>9. CountedNow = Counted \cup {e} /\ e \notin Counted
  <2>1. \A c \in Block : (\E u \in Thread : elem'[u] = c) <=> (c # e /\ \E u \in Thread : elem[u] = c)
    BY <1>3, <1>4
  <2> QED BY <2>1, <1>4 DEF Counted
<1> HIDE DEF CountedNow
<1>10. number' = Cardinality(CountedNow)
  <2>1. IsFiniteSet(Counted) /\ Cardinality(Counted) \in Nat
    BY FS_Subset, FS_CardinalityType DEF Counted
  <2>2. Cardinality(CountedNow) = Cardinality(Counted) + 1
    BY <2>1, <1>9, FS_AddElement
  <2>3. number = Cardinality(Counted)
    BY <1>1 DEF PageInv, PagesLinked, Counted
  <2> QED BY <2>2, <2>3, <1>2
<1>11. PageInv'
  <2>1. ASSUME NEW u \in Thread, at'[u] \in Appending, NEW n \in 1 .. Len(pages), pages[n] = elem'[u]
        PROVE  other'[u] = At(pages, n - 1)
    BY <2>1, <1>1, <1>2, <1>3 DEF PageInv, Appending
  <2>2. PagesLinked'
    <3>1. /\ pages' = pages /\ start' = start /\ end' = end /\ after' = after /\ before' = before
      BY <1>2
    <3>2. /\ end = At(pages, Len(pages)) /\ (pages # << >> => after[end] = Sentinel)
          /\ \A n \in 0 .. Len(pages) - 1 :
               \/ Ins(pages[n + 1], {"append_link"})
               \/ (IF n = 0 THEN start ELSE after[pages[n]]) = pages[n + 1]
          /\ \A n \in 1 .. Len(pages) :
               \/ Ins(pages[n], {"append_link", "append_prev"})
               \/ before[pages[n]] = At(pages, n - 1)
      BY <1>1, <1>8 DEF PageInv, PagesLinked
    <3>3. end' = At(pages, Len(pages))'
      BY <3>1, <3>2 DEF At
    <3>4. (\A n \in 0 .. Len(pages) - 1 :
             \/ Inserting(pages[n + 1], {"append_link"})
             \/ (IF n = 0 THEN start ELSE after[pages[n]]) = pages[n + 1])'
      BY <3>1, <3>2 DEF Ins, Inserting
    <3>5. (\A n \in 1 .. Len(pages) :
             \/ Inserting(pages[n], {"append_link", "append_prev"})
             \/ before[pages[n]] = At(pages, n - 1))'
      BY <3>1, <3>2 DEF Ins, Inserting, At
    <3>6. (pages # << >> => after[end] = Sentinel)'
      BY <3>1, <3>2
    <3>7. (number = Cardinality({b \in Block : InList(pages, b) /\ ~\E u \in Thread : elem[u] = b}))'
      BY <1>10, <3>1 DEF CountedNow, InList
    <3> QED BY <3>3, <3>4, <3>5, <3>6, <3>7 DEF PagesLinked
  <2>3. Distinct(pages)'
    BY <1>1, <1>2 DEF PageInv, Distinct
  <2> QED BY <1>2, <2>1, <2>2, <2>3 DEF PageInv, At
<1> QED BY <1>5, <1>6, <1>7, <1>11 DEF IInv

\* Every step keeps the invariant.
LEMMA NextInv ==
  ASSUME Sentinel \notin Block, IsFiniteSet(Block)
  PROVE  IInv /\ [Next]_vars => IInv'
<1> SUFFICES ASSUME IInv, [Next]_vars PROVE IInv'
  OBVIOUS
<1>1. CASE UNCHANGED vars
  <2>1. LatchInv' /\ PageInv'
    BY <1>1, LatchSame, PageSame DEF vars, IInv
  <2> QED BY <1>1, <2>1 DEF vars, rwList, freeList, IInv, TypeOK, ThreadInv, InList
<1>2. ASSUME NEW t \in Thread, Step(t) PROVE IInv'
  BY <1>2, PushNextInv, PushBackInv, AppendEndInv, AppendLinkInv, AppendPrevInv, AppendCountInv
     DEF Step
<1>3. ASSUME NEW t \in Thread, NEW b \in Block, Push(t, b) PROVE IInv'
  BY <1>3, PushInv
<1>4. ASSUME \A t \in Thread : at[t] = "out", NEW b \in Block, InList(latches, b), Remove(b) PROVE IInv'
  BY <1>4, RemoveInv
<1> QED BY <1>1, <1>2, <1>3, <1>4 DEF Next

-----------------------------------------------------------------------------
\* What the steps of the lists do to them, for a module that takes such steps: a push puts its
\* block in front of rw_lock_list and its thread within an insertion.
LEMMA PushEffect ==
  ASSUME TypeOK, NEW t \in Thread, NEW b \in Block, Push(t, b)
  PROVE  /\ at[t] = "out" /\ at'[t] # "out" /\ elem'[t] = b
         /\ \A u \in Thread \ {t} : at'[u] = at[u] /\ elem'[u] = elem[u]
         /\ \A c : InList(latches', c) <=> c = b \/ InList(latches, c)
         /\ pages' = pages
<1>1. latches' = <<b>> \o latches /\ latches \in Seq(Block)
  BY DEF Push, TypeOK
<1>2. \A new : new = <<b>> \o latches => \A c : InList(new, c) <=> c = b \/ InList(latches, c)
  BY <1>1, PushedFront
<1>3. \A c : InList(latches', c) <=> c = b \/ InList(latches, c)
  BY <1>1, <1>2
<1>4. /\ at[t] = "out" /\ at'[t] = "push_next" /\ elem'[t] = b
      /\ \A u \in Thread \ {t} : at'[u] = at[u] /\ elem'[u] = elem[u]
      /\ pages' = pages
  BY DEF Push, Goto, TypeOK, freeList
<1> QED BY <1>3, <1>4

\* Another step of an insertion keeps its block until it is the last one; the block is in
\* the free list then.
LEMMA StepEffect ==
  ASSUME TypeOK, ThreadInv, NEW t \in Thread, Step(t)
  PROVE  /\ at[t] # "out"
         /\ at'[t] # "out" => elem'[t] = elem[t]
         /\ at'[t] = "out" => InList(pages, elem[t])
         /\ \A u \in Thread \ {t} : at'[u] = at[u] /\ elem'[u] = elem[u]
         /\ latches' = latches
         /\ \A c : InList(pages', c) => c = elem[t] \/ InList(pages, c)
         /\ \A c : InList(pages, c) => InList(pages', c)
<1>1. CASE AppendEnd(t)
  <2>1. /\ at[t] = "append_end" /\ at'[t] = "append_link" /\ elem' = elem /\ latches' = latches
        /\ \A u \in Thread \ {t} : at'[u] = at[u]
    BY <1>1 DEF AppendEnd, Goto, TypeOK, rwList
  <2>2. pages' = Append(pages, elem[t]) /\ pages \in Seq(Block) /\ elem[t] \in Block
    BY <1>1, <2>1, Elements DEF AppendEnd, TypeOK
  <2>3. \A new : new = Append(pages, elem[t]) =>
          \A c : InList(new, c) <=> c = elem[t] \/ InList(pages, c)
    BY <2>2, Appended
  <2>4. \A c : InList(pages', c) <=> c = elem[t] \/ InList(pages, c)
    BY <2>2, <2>3
  <2> QED BY <2>1, <2>4
<1>2. CASE AppendCount(t)
  <2>1. /\ at[t] = "append_count" /\ at'[t] = "out" /\ latches' = latches /\ pages' = pages
        /\ \A u \in Thread \ {t} : at'[u] = at[u] /\ elem'[u] = elem[u]
    BY <1>2 DEF AppendCount, Goto, TypeOK, rwList
  <2>2. InList(pages, elem[t])
    BY <2>1 DEF ThreadInv, Appending
  <2> QED BY <2>1, <2>2
<1>3. CASE PushNext(t) \/ PushBack(t) \/ AppendLink(t) \/ AppendPrev(t)
  <2>1. /\ at[t] # "out" /\ at'[t] # "out" /\ elem' = elem /\ latches' = latches /\ pages' = pages
    BY <1>3 DEF PushNext, PushBack, AppendLink, AppendPrev, Goto, TypeOK, rwList, freeList
  <2>2. \A u \in Thread \ {t} : at'[u] = at[u]
    BY <1>3 DEF PushNext, PushBack, AppendLink, AppendPrev, Goto, TypeOK
  <2> QED BY <2>1, <2>2
<1> QED BY <1>1, <1>2, <1>3 DEF Step

\* A removal takes one latch out of rw_lock_list.
LEMMA RemoveEffect ==
  ASSUME TypeOK, LatchInv, NEW b \in Block, InList(latches, b), Remove(b)
  PROVE  /\ at' = at /\ elem' = elem /\ pages' = pages
         /\ \A c : InList(latches', c) <=> c # b /\ InList(latches, c)
<1>1. PICK k \in 1 .. Len(latches) : latches[k] = b
  BY DEF InList
<1>2. \A new : new = Without(latches, latches[k]) =>
        \A c : InList(new, c) <=> c # latches[k] /\ InList(latches, c)
  BY Removed DEF TypeOK, LatchInv
<1>3. latches' = Without(latches, b) /\ at' = at /\ elem' = elem /\ pages' = pages
  BY DEF Remove, freeList
<1> QED BY <1>1, <1>2, <1>3

-----------------------------------------------------------------------------
\* Two threads of buf_pool_t::create() never undo each other's links, in rw_lock_list or in
\* the free list: whatever the interleaving of atomic_push_front, ut_list_atomic_append and
\* the removals that follow, a link is right unless its own thread has yet to store it, and
\* the count is that of the finished insertions.
THEOREM ListsStayLinked ==
  ASSUME Sentinel \notin Block, IsFiniteSet(Block)
  PROVE  Spec => [](TypeOK /\ LatchesLinked /\ PagesLinked)
<1>1. Init => IInv
  BY InitInv
<1>2. IInv /\ [Next]_vars => IInv'
  BY NextInv
<1>3. IInv => TypeOK /\ LatchesLinked /\ PagesLinked
  BY DEF IInv, LatchInv, PageInv
<1> QED BY <1>1, <1>2, <1>3, PTL DEF Spec
=============================================================================
