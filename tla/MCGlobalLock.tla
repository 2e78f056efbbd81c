---------------------------- MODULE MCGlobalLock ----------------------------
(* GlobalLock for TLC. *)
EXTENDS GlobalLock

S(r) == [rec |-> r, mode |-> "SHARED"]
X(r) == [rec |-> r, mode |-> "EXCLUSIVE"]

\* Three threads, three records: circles of two and three, SHARED requests behind
\* an EXCLUSIVE one and behind each other, and locks that are used again.
ManyThread == 1 .. 3
ManyRecord == {"a", "b", "c"}
ManyPrograms ==
  [t \in ManyThread |->
     CASE t = 1 -> <<<<S("a"), X("b")>>, <<X("a")>>>>
       [] t = 2 -> <<<<S("b"), X("c"), X("a")>>, <<S("a"), S("b")>>>>
       [] t = 3 -> <<<<X("c"), X("a"), S("b")>>, <<S("a"), S("c")>>>>]
=============================================================================
