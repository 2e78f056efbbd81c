----------------------------- MODULE BlockLists -----------------------------
(***************************************************************************)
(* The two lists that the threads of buf_pool_t::create() fill at the same *)
(* time, as the patch of project4 does it: for each block, its latch goes  *)
(* to the front of rw_lock_list (ilist::atomic_push_front), then its page  *)
(* to the end of buf_pool.free (ut_list_atomic_append). Both are doubly    *)
(* linked, and neither is guarded by a mutex: one atomic exchange decides  *)
(* the place of an element, and plain stores link it afterwards.           *)
(*                                                                         *)
(* A step is one store or exchange; the stores to an element before its    *)
(* exchange are part of that, as nobody else can read it yet. A block      *)
(* names its latch and its page.                                           *)
(***************************************************************************)
EXTENDS Naturals, Sequences, FiniteSets

CONSTANTS Thread,
          Block,
          Sentinel  \* the sentinel_ of rw_lock_list, and nullptr in the free list

Node == Block \cup {Sentinel}

VARIABLES
  next, prev,    \* the links of rw_lock_list; those of the sentinel are its ends
  after, before, \* the links of the free list
  start, end,    \* the ends of the free list
  number,        \* the count of the free list
  elem,          \* the block that a thread inserts
  other,         \* its prev_begin or prev_end
  at,            \* where each thread is
  latches, pages \* history: the two lists in the order of the exchanges

rwList == <<next, prev, latches>>
freeList == <<after, before, start, end, number, pages>>
vars == <<rwList, freeList, elem, other, at>>

Init ==
  /\ next = [b \in Node |-> Sentinel] /\ prev = [b \in Node |-> Sentinel]
  /\ after = [b \in Block |-> Sentinel] /\ before = [b \in Block |-> Sentinel]
  /\ start = Sentinel /\ end = Sentinel
  /\ number = 0
  /\ elem = [t \in Thread |-> Sentinel]
  /\ other = [t \in Thread |-> Sentinel]
  /\ at = [t \in Thread |-> "out"]
  /\ latches = << >> /\ pages = << >>

Goto(t, place) == at' = [at EXCEPT ![t] = place]

InList(list, b) == \E n \in 1 .. Len(list) : list[n] = b

-----------------------------------------------------------------------------
(* atomic_push_front *)

Push(t, b) ==
  /\ at[t] = "out" /\ ~InList(latches, b) /\ ~InList(pages, b)
  /\ elem' = [elem EXCEPT ![t] = b]
  /\ prev' = [prev EXCEPT ![b] = Sentinel]
  /\ other' = [other EXCEPT ![t] = next[Sentinel]]
  /\ next' = [next EXCEPT ![Sentinel] = b]
  /\ latches' = <<b>> \o latches
  /\ Goto(t, "push_next")
  /\ UNCHANGED freeList

PushNext(t) ==
  /\ at[t] = "push_next"
  /\ next' = [next EXCEPT ![elem[t]] = other[t]]
  /\ Goto(t, "push_back")
  /\ UNCHANGED <<prev, latches, freeList, elem, other>>

PushBack(t) ==
  /\ at[t] = "push_back"
  /\ prev' = [prev EXCEPT ![other[t]] = elem[t]]
  /\ Goto(t, "append_end")
  /\ UNCHANGED <<next, latches, freeList, elem, other>>

-----------------------------------------------------------------------------
(* ut_list_atomic_append *)

AppendEnd(t) ==
  /\ at[t] = "append_end"
  /\ after' = [after EXCEPT ![elem[t]] = Sentinel]
  /\ other' = [other EXCEPT ![t] = end]
  /\ end' = elem[t]
  /\ pages' = Append(pages, elem[t])
  /\ Goto(t, "append_link")
  /\ UNCHANGED <<rwList, before, start, number, elem>>

AppendLink(t) ==
  /\ at[t] = "append_link"
  /\ IF other[t] = Sentinel
       THEN start' = elem[t] /\ UNCHANGED after
       ELSE after' = [after EXCEPT ![other[t]] = elem[t]] /\ UNCHANGED start
  /\ Goto(t, "append_prev")
  /\ UNCHANGED <<rwList, before, end, number, pages, elem, other>>

\* Mutant of AppendPrev: node.next is cleared last.
AppendPrevLate(t) ==
  /\ at[t] = "append_prev"
  /\ before' = [before EXCEPT ![elem[t]] = other[t]]
  /\ after' = [after EXCEPT ![elem[t]] = Sentinel]
  /\ Goto(t, "append_count")
  /\ UNCHANGED <<rwList, start, end, number, pages, elem, other>>

AppendPrev(t) ==
  /\ at[t] = "append_prev"
  /\ before' = [before EXCEPT ![elem[t]] = other[t]]
  /\ Goto(t, "append_count")
  /\ UNCHANGED <<rwList, after, start, end, number, pages, elem, other>>

AppendCount(t) ==
  /\ at[t] = "append_count"
  /\ number' = number + 1
  /\ elem' = [elem EXCEPT ![t] = Sentinel]
  /\ other' = [other EXCEPT ![t] = Sentinel]
  /\ Goto(t, "out")
  /\ UNCHANGED <<rwList, after, before, start, end, pages>>

-----------------------------------------------------------------------------
\* The list without one of its blocks.
Without(list, b) ==
  LET n == CHOOSE m \in 1 .. Len(list) : list[m] = b IN
  IF InList(list, b) THEN SubSeq(list, 1, n - 1) \o SubSeq(list, n + 1, Len(list)) ELSE list

\* rw_lock_list.remove(), once the threads that push have ended.
Remove(b) ==
  /\ next' = [next EXCEPT ![prev[b]] = next[b]]
  /\ prev' = [prev EXCEPT ![next[b]] = prev[b]]
  /\ latches' = Without(latches, b)
  /\ UNCHANGED <<freeList, elem, other, at>>

Step(t) == \/ PushNext(t) \/ PushBack(t)
           \/ AppendEnd(t) \/ AppendLink(t) \/ AppendPrev(t) \/ AppendCount(t)

Next == \/ \E t \in Thread : Step(t) \/ \E b \in Block : Push(t, b)
        \/ /\ \A t \in Thread : at[t] = "out"
           /\ \E b \in Block : InList(latches, b) /\ Remove(b)

Spec == Init /\ [][Next]_vars

-----------------------------------------------------------------------------
\* All links lead to blocks or to the end of a list.
TypeOK ==
  /\ next \in [Node -> Node] /\ prev \in [Node -> Node]
  /\ after \in [Block -> Node] /\ before \in [Block -> Node]
  /\ start \in Node /\ end \in Node
  /\ number \in Nat
  /\ elem \in [Thread -> Node] /\ other \in [Thread -> Node]
  /\ at \in [Thread -> {"out", "push_next", "push_back", "append_end", "append_link",
                         "append_prev", "append_count"}]
  /\ latches \in Seq(Block) /\ pages \in Seq(Block)

\* The n-th element, or the end of the list.
At(list, n) == IF n \in 1 .. Len(list) THEN list[n] ELSE Sentinel

\* A thread still has a store to make for the element.
Inserting(b, places) == \E t \in Thread : at[t] \in places /\ elem[t] = b

\* rw_lock_list is linked in the order of the exchanges, both ways, but for the
\* stores that a thread in the middle of atomic_push_front has yet to make; those
\* of two threads never undo each other.
LatchesLinked ==
  /\ next[Sentinel] = At(latches, 1)
  /\ \A n \in 1 .. Len(latches) :
       Inserting(latches[n], {"push_next"}) \/ next[latches[n]] = At(latches, n + 1)
  /\ \A n \in 2 .. Len(latches) + 1 :
       \/ Inserting(latches[n - 1], {"push_next", "push_back"})
       \/ prev[At(latches, n)] = latches[n - 1]
  /\ latches # << >> => prev[latches[1]] = Sentinel

\* The same for the free list, and its count is that of the finished insertions.
PagesLinked ==
  /\ end = At(pages, Len(pages))
  /\ \A n \in 0 .. Len(pages) - 1 :
       \/ Inserting(pages[n + 1], {"append_link"})
       \/ (IF n = 0 THEN start ELSE after[pages[n]]) = pages[n + 1]
  /\ \A n \in 1 .. Len(pages) :
       \/ Inserting(pages[n], {"append_link", "append_prev"})
       \/ before[pages[n]] = At(pages, n - 1)
  /\ pages # << >> => after[end] = Sentinel
  /\ number = Cardinality({b \in Block : /\ InList(pages, b)
                                         /\ ~\E t \in Thread : elem[t] = b})
=============================================================================
