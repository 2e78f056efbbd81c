----------------------------- MODULE Trx_proofs -----------------------------
(***************************************************************************)
(* Proofs about Trx, for every number of threads, records, values and      *)
(* commits.                                                                *)
(*                                                                         *)
(* The inductive invariant IInv at the end is proved part by part, each    *)
(* part kept by every step under the parts before it:                      *)
(*   LocalInv   the types, and what the locals of a thread are at a place  *)
(*   Locks!IInv every step is one of LockService or leaves its table alone *)
(*   LineInv    the lines in which a thread stands are those of its locks  *)
(*   NumberInv, CountInv, FileInv   the bounds of TypeOK, by counting      *)
(*   ValueInv   what is read and written under the locks                   *)
(*   LogInv, LinesSerial   what is noted of it, and then written           *)
(* OnceInv at the end follows each commit id until its line is written;    *)
(* with it, what IsCorrect reads can be sorted in one way only, and the    *)
(* replay is the history.                                                  *)
(*                                                                         *)
(* Of LockService itself: InOrder, with the types, is inductive. A thread  *)
(* joins behind all who are in the line, nobody is overtaken, and who      *)
(* leaves is forgotten (TableStep). Two holders stand one before the       *)
(* other, so the one behind was granted its lock over the one before       *)
(* (HoldersCompatible): this is the mutual exclusion that ValueInv and     *)
(* LogInv need.                                                            *)
(***************************************************************************)
EXTENDS TrxCheck, FiniteSetTheorems, WellFoundedInduction, TLAPS

\* The places of a thread.
Places == {"begin", "ask", "wait", "access", "draw", "undo", "log", "release",
           "publish", "done"}

\* The types, but for the bounds that need counting.
Types ==
  /\ value \in [Record -> Word]
  /\ threadNumber \in Nat /\ number \in [Thread -> Nat]
  /\ count \in Nat
  /\ picks \in [Thread -> Picks \cup {NoPicks}]
  /\ size \in [Thread -> 0 .. 3]
  /\ found \in [Thread -> Word]
  /\ pos \in [Thread -> 1 .. 3]
  /\ id \in [Thread -> Nat]
  /\ pc \in [Thread -> Places]

\* The types of the sequences; there is an entry of the history for every commit.
SeqTypes ==
  /\ queue \in [Thread -> Seq(Word)]
  /\ serial \in Seq([Record -> Word])
  /\ Len(serial) = IF count < Last THEN count ELSE Last

\* What the locals of a thread are where it is.
AtPlace(t) ==
  /\ IF pc[t] \in {"begin", "done"} THEN picks[t] = NoPicks ELSE picks[t] \in Picks
  /\ pc[t] \notin {"undo", "log", "release"} => pos[t] = 1
  /\ pc[t] \in {"begin", "ask", "wait", "access", "draw", "done"} => id[t] = 0
  /\ pc[t] \in {"log", "publish"} => Commits(t)
  /\ pc[t] = "undo" => ~Commits(t)
  /\ pc[t] = "ask" => size[t] < 3
  /\ pc[t] \in {"wait", "access", "undo", "log", "release"} => pos[t] <= size[t]
  /\ pc[t] = "draw" \/ id[t] # 0 => size[t] = 3
  /\ id[t] <= count

\* The types and the locals, the first part of the invariant.
LocalInv ==
  /\ Types /\ SeqTypes
  /\ \A t \in Thread : AtPlace(t)

\* The locks of a thread that are in a line: those of a transaction that it has not
\* released, but for the one it was refused.
Holding(t) ==
  {n \in 1 .. 3 : /\ pc[t] \notin {"begin", "publish", "done"}
                  /\ pos[t] <= n /\ n <= size[t]
                  /\ ~(pc[t] \in {"undo", "release"} /\ id[t] = 0 /\ n = size[t])}

\* Where a thread stands in the lines of the lock table, and with which modes.
InLine(t) ==
  /\ asks[t] = IF pc[t] = "wait" THEN picks[t][size[t]] ELSE NoRecord
  /\ \A n \in Holding(t) : mode[picks[t][n]][t] = Mode(n)
  /\ \A r \in Record : mode[r][t] # "NONE" => \E n \in Holding(t) : picks[t][n] = r

LineInv == \A t \in Thread : InLine(t)

\* The threads that have a number; none is given twice.
Numbered == {t \in Thread : number[t] # 0}

NumberInv ==
  /\ threadNumber = Cardinality(Numbered) + 1
  /\ \A t \in Thread : number[t] < threadNumber
  /\ \A t, u \in Numbered : number[t] = number[u] => t = u
  /\ \A t \in Thread : pc[t] # "begin" => t \in Numbered

\* The threads that have drawn an id beyond the last.
Late == {t \in Thread : pc[t] = "done" \/ Beyond(id[t])}

\* Every id beyond the last has a thread that drew it.
CountInv == Cardinality(Late) = IF count < Last THEN 0 ELSE count - Last

\* Accessed, from the locals of the thread alone: the locks it owns, but for the
\* one whose record it has still to access, or whose change it has taken back.
Owned(t) == {n \in Holding(t) : ~(pc[t] = "wait" /\ n = size[t])}

Touched(t) ==
  {n \in Owned(t) : /\ ~(pc[t] = "access" /\ n = size[t])
                    /\ ~(pc[t] = "release" /\ ~Commits(t) /\ n = pos[t])}

\* The locks whose records have a change of an uncommitted transaction.
Changed(t) == {n \in 2 .. 3 : n \in Touched(t) /\ ~Commits(t)}

\* What is read is still committed, a changed record has that one change on top of
\* what is committed, and every other record has the committed value.
ValueInv ==
  /\ \A t \in Thread : 1 \in Touched(t) => found[t] = Committed[picks[t][1]]
  /\ \A t \in Thread : \A n \in Changed(t) :
       value[picks[t][n]] = Add(Committed[picks[t][n]], Diff(n, found[t]))
  /\ \A r \in Record :
       (\A t \in Thread : \A n \in Changed(t) : picks[t][n] # r) => value[r] = Committed[r]

\* The values of a transaction that Commit() has noted.
Noted(t) == CASE pc[t] = "log" -> pos[t] - 1
              [] pc[t] = "release" -> pos[t]
              [] OTHER -> 3

\* A committing transaction notes what its records were after its own commit, and
\* those that it still holds are so.
LogInv ==
  \A t \in Thread :
    IF Commits(t)
      THEN /\ queue[t] = [n \in 1 .. Noted(t) |-> serial[id[t]][picks[t][n]]]
           /\ \A n \in Owned(t) : Committed[picks[t][n]] = serial[id[t]][picks[t][n]]
      ELSE queue[t] = << >>

\* Every line of a file is one of a committed transaction.
FileInv == file \in [1 .. Cardinality(Thread) -> Seq(Line)]
-----------------------------------------------------------------------------
\* The sum of two values is a value.
LEMMA AddWord ==
  ASSUME NEW a \in Word, NEW b \in Word
  PROVE  Add(a, b) \in Word
BY TrxAssumption DEF Word, Add

\* So is the negative of one, in two's complement.
LEMMA NegWord ==
  ASSUME NEW a \in Word
  PROVE  Neg(a) \in Word
BY TrxAssumption DEF Word, Neg

\* And the difference of two.
LEMMA SubtractWord ==
  ASSUME NEW a \in Word, NEW b \in Word
  PROVE  Subtract(a, b) \in Word
BY AddWord, NegWord DEF Subtract

\* What Undo() takes back is what Update() added, although both wrap.
LEMMA AddSubtract ==
  ASSUME NEW a \in Word, NEW b \in Word
  PROVE  Subtract(Add(a, b), b) = a
BY TrxAssumption DEF Word, Add, Neg, Subtract

\* The diff that Update() keeps is a value.
LEMMA DiffWord ==
  ASSUME NEW n \in 2 .. 3, NEW a \in Word
  PROVE  Diff(n, a) \in Word
<1>1. One \in Word
  BY TrxAssumption DEF One, Word
<1> QED BY <1>1, AddWord, NegWord DEF Diff

\* A transaction changes its second and its third record by what the first one has.
LEMMA ApplyWord ==
  ASSUME NEW records \in [Record -> Word], NEW p \in Picks
  PROVE  /\ Apply(records, p) \in [Record -> Word]
         /\ Apply(records, p)[p[2]] = Add(records[p[2]], Diff(2, records[p[1]]))
         /\ Apply(records, p)[p[3]] = Add(records[p[3]], Diff(3, records[p[1]]))
         /\ \A r \in Record \ {p[2], p[3]} : Apply(records, p)[r] = records[r]
<1>1. p[1] \in Record /\ p[2] \in Record /\ p[3] \in Record /\ p[2] # p[3]
  BY DEF Picks
<1> DEFINE a == Add(records[p[2]], Diff(2, records[p[1]]))
           b == Add(records[p[3]], Diff(3, records[p[1]]))
           half == [records EXCEPT ![p[2]] = a]
<1>2. a \in Word /\ b \in Word
  BY <1>1, DiffWord, AddWord
<1> HIDE DEF a, b
<1>3. half \in [Record -> Word] /\ half[p[2]] = a /\ half[p[3]] = records[p[3]]
  BY <1>1, <1>2
<1>4. Apply(records, p) = [half EXCEPT ![p[3]] = b]
  BY <1>1, <1>3 DEF Apply, a, b
<1> HIDE DEF half
<1>5. \A r \in Record \ {p[2], p[3]} : half[r] = records[r]
  BY DEF half
<1> QED BY <1>1, <1>2, <1>3, <1>4, <1>5 DEF a, b

\* The committed records have values.
LEMMA CommittedWord == SeqTypes => Committed \in [Record -> Word]
BY TrxAssumption DEF SeqTypes, Committed, Word

-----------------------------------------------------------------------------
\* The locals are right at the start.
LEMMA LocalInit == Init => LocalInv
<1>1. Init => Types
  BY TrxAssumption DEF Init, Types, Places, Word
<1>2. Init => SeqTypes
  BY TrxAssumption DEF Init, SeqTypes
<1>3. ASSUME Init, NEW t \in Thread PROVE AtPlace(t)
  BY <1>3, TrxAssumption DEF Init, AtPlace, Commits
<1> QED BY <1>1, <1>2, <1>3 DEF LocalInv

\* What LocalInv says of one thread.
LEMMA Place ==
  ASSUME LocalInv, NEW t \in Thread
  PROVE  /\ AtPlace(t)
         /\ size[t] \in 0 .. 3 /\ pos[t] \in 1 .. 3 /\ id[t] \in Nat /\ count \in Nat
         /\ found[t] \in Word /\ queue[t] \in Seq(Word)
BY DEF LocalInv, Types, SeqTypes

\* A step of another thread leaves a thread where it is.
LEMMA OthersAtPlace ==
  ASSUME LocalInv, NEW u \in Thread,
         pc'[u] = pc[u], picks'[u] = picks[u], pos'[u] = pos[u], size'[u] = size[u], id'[u] = id[u],
         count' = count \/ count' = count + 1
  PROVE  AtPlace(u)'
BY Place DEF AtPlace, Commits, Beyond

\* Every step leaves the locals of its thread right for the place it goes to.
LEMMA LocalStep == LocalInv /\ [Next]_vars => LocalInv'
<1> SUFFICES ASSUME LocalInv, [Next]_vars PROVE LocalInv'
  OBVIOUS
<1>1. CASE UNCHANGED vars
  BY <1>1 DEF vars, files, local, LocalInv, Types, SeqTypes, AtPlace, Commits
<1>2. ASSUME NEW t \in Thread, Begin(t) PROVE LocalInv'
  <2>1. pc[t] = "begin"
    BY <1>2 DEF Begin
  <2>2. pos[t] = 1 /\ id[t] = 0
    BY <2>1, Place DEF AtPlace
  <2>3. Types'
    BY <1>2, <2>2 DEF Begin, table, Goto, LocalInv, Types, Places, Picks
  <2>4. SeqTypes'
    BY <1>2, <2>2 DEF Begin, table, Goto, LocalInv, SeqTypes
  <2>5. /\ pc'[t] = "ask" /\ picks'[t] \in Picks /\ pos'[t] = 1
        /\ size'[t] = 0 /\ id'[t] = 0
    BY <1>2, <2>2 DEF Begin, table, Goto, LocalInv, Types
  <2>6. AtPlace(t)'
    BY <2>2, <2>3, <2>5 DEF AtPlace, Commits, Beyond, Types
  <2>7. ASSUME NEW u \in Thread, u # t PROVE AtPlace(u)'
    <3>1. /\ pc'[u] = pc[u] /\ picks'[u] = picks[u] /\ pos'[u] = pos[u]
          /\ size'[u] = size[u] /\ id'[u] = id[u] /\ (count' = count \/ count' = count + 1)
      BY <1>2, <2>7 DEF Begin, table, Goto, LocalInv, Types
    <3> QED BY <3>1, OthersAtPlace
  <2> QED BY <2>3, <2>4, <2>6, <2>7 DEF LocalInv
<1>3. ASSUME NEW t \in Thread, Ask(t) PROVE LocalInv'
  <2>1. pc[t] = "ask"
    BY <1>3 DEF Ask
  <2>2. picks[t] \in Picks /\ pos[t] = 1 /\ id[t] = 0 /\ size[t] \in 0 .. 2
    BY <2>1, Place DEF AtPlace
  <2>3. Types'
    BY <1>3, <2>2 DEF Ask, files, Goto, LocalInv, Types, Places
  <2>4. SeqTypes'
    BY <1>3, <2>2 DEF Ask, files, Goto, LocalInv, SeqTypes
  <2>5. /\ pc'[t] = "wait" /\ picks'[t] \in Picks /\ pos'[t] = 1
        /\ size'[t] = size[t] + 1 /\ id'[t] = 0
    BY <1>3, <2>2 DEF Ask, files, Goto, LocalInv, Types
  <2>6. AtPlace(t)'
    BY <2>2, <2>3, <2>5 DEF AtPlace, Commits, Beyond, Types
  <2>7. ASSUME NEW u \in Thread, u # t PROVE AtPlace(u)'
    <3>1. /\ pc'[u] = pc[u] /\ picks'[u] = picks[u] /\ pos'[u] = pos[u]
          /\ size'[u] = size[u] /\ id'[u] = id[u] /\ (count' = count \/ count' = count + 1)
      BY <1>3, <2>7 DEF Ask, files, Goto, LocalInv, Types
    <3> QED BY <3>1, OthersAtPlace
  <2> QED BY <2>3, <2>4, <2>6, <2>7 DEF LocalInv
<1>4. ASSUME NEW t \in Thread, Granted(t) PROVE LocalInv'
  <2>1. pc[t] = "wait"
    BY <1>4 DEF Granted
  <2>2. picks[t] \in Picks /\ pos[t] = 1 /\ id[t] = 0 /\ size[t] \in 1 .. 3
    BY <2>1, Place DEF AtPlace
  <2>3. Types'
    BY <1>4, <2>2 DEF Granted, files, local, Goto, LocalInv, Types, Places
  <2>4. SeqTypes'
    BY <1>4, <2>2 DEF Granted, files, local, Goto, LocalInv, SeqTypes
  <2>5. /\ pc'[t] = "access" /\ picks'[t] \in Picks /\ pos'[t] = 1
        /\ size'[t] = size[t] /\ id'[t] = 0
    BY <1>4, <2>2 DEF Granted, files, local, Goto, LocalInv, Types
  <2>6. AtPlace(t)'
    BY <2>2, <2>3, <2>5 DEF AtPlace, Commits, Beyond, Types
  <2>7. ASSUME NEW u \in Thread, u # t PROVE AtPlace(u)'
    <3>1. /\ pc'[u] = pc[u] /\ picks'[u] = picks[u] /\ pos'[u] = pos[u]
          /\ size'[u] = size[u] /\ id'[u] = id[u] /\ (count' = count \/ count' = count + 1)
      BY <1>4, <2>7 DEF Granted, files, local, Goto, LocalInv, Types
    <3> QED BY <3>1, OthersAtPlace
  <2> QED BY <2>3, <2>4, <2>6, <2>7 DEF LocalInv
<1>5. ASSUME NEW t \in Thread, Refused(t) PROVE LocalInv'
  <2>1. pc[t] = "wait"
    BY <1>5 DEF Refused
  <2>2. picks[t] \in Picks /\ pos[t] = 1 /\ id[t] = 0 /\ size[t] \in 1 .. 3
    BY <2>1, Place DEF AtPlace
  <2>3. Types'
    BY <1>5, <2>2 DEF Refused, files, local, Goto, LocalInv, Types, Places
  <2>4. SeqTypes'
    BY <1>5, <2>2 DEF Refused, files, local, Goto, LocalInv, SeqTypes
  <2>5. /\ pc'[t] = "undo" /\ picks'[t] \in Picks /\ pos'[t] = 1
        /\ size'[t] = size[t] /\ id'[t] = 0
    BY <1>5, <2>2 DEF Refused, files, local, Goto, LocalInv, Types
  <2>6. AtPlace(t)'
    BY <2>2, <2>3, <2>5 DEF AtPlace, Commits, Beyond, Types
  <2>7. ASSUME NEW u \in Thread, u # t PROVE AtPlace(u)'
    <3>1. /\ pc'[u] = pc[u] /\ picks'[u] = picks[u] /\ pos'[u] = pos[u]
          /\ size'[u] = size[u] /\ id'[u] = id[u] /\ (count' = count \/ count' = count + 1)
      BY <1>5, <2>7 DEF Refused, files, local, Goto, LocalInv, Types
    <3> QED BY <3>1, OthersAtPlace
  <2> QED BY <2>3, <2>4, <2>6, <2>7 DEF LocalInv
<1>6. ASSUME NEW t \in Thread, Access(t) PROVE LocalInv'
  <2>1. pc[t] = "access"
    BY <1>6 DEF Access
  <2>2. picks[t] \in Picks /\ pos[t] = 1 /\ id[t] = 0 /\ size[t] \in 1 .. 3
    BY <2>1, Place DEF AtPlace
  <2>3. Types'
    BY <1>6, <2>2, AddWord, DiffWord DEF Access, table, files, Goto, LocalInv, Types, Places, Picks
  <2>4. SeqTypes'
    BY <1>6, <2>2 DEF Access, table, files, Goto, LocalInv, SeqTypes
  <2>5. /\ pc'[t] = IF size[t] = 3 THEN "draw" ELSE "ask"
        /\ picks'[t] \in Picks /\ pos'[t] = 1 /\ size'[t] = size[t] /\ id'[t] = 0
    BY <1>6, <2>2 DEF Access, table, files, Goto, LocalInv, Types
  <2>6. AtPlace(t)'
    BY <2>2, <2>3, <2>5 DEF AtPlace, Commits, Beyond, Types
  <2>7. ASSUME NEW u \in Thread, u # t PROVE AtPlace(u)'
    <3>1. /\ pc'[u] = pc[u] /\ picks'[u] = picks[u] /\ pos'[u] = pos[u]
          /\ size'[u] = size[u] /\ id'[u] = id[u] /\ (count' = count \/ count' = count + 1)
      BY <1>6, <2>7 DEF Access, table, files, Goto, LocalInv, Types
    <3> QED BY <3>1, OthersAtPlace
  <2> QED BY <2>3, <2>4, <2>6, <2>7 DEF LocalInv
<1>7. ASSUME NEW t \in Thread, Draw(t) PROVE LocalInv'
  <2>1. pc[t] = "draw"
    BY <1>7 DEF Draw
  <2>2. picks[t] \in Picks /\ pos[t] = 1 /\ size[t] = 3
    BY <2>1, Place DEF AtPlace
  <2>3. Types'
    <3>1. count' \in Nat /\ id' \in [Thread -> Nat]
      BY <1>7 DEF Draw, LocalInv, Types
    <3>2. pc' \in [Thread -> Places]
      <4>1. \E place \in {"undo", "log"} : pc' = [pc EXCEPT ![t] = place]
        BY <1>7 DEF Draw, Goto
      <4> QED BY <4>1 DEF LocalInv, Types, Places
    <3> QED BY <1>7, <3>1, <3>2 DEF Draw, files, LocalInv, Types
  <2>4. SeqTypes'
    <3>1. /\ queue' = queue /\ count' = count + 1 /\ count \in Nat /\ Last \in Nat
          /\ serial \in Seq([Record -> Word])
          /\ Len(serial) = IF count < Last THEN count ELSE Last
      BY <1>7, TrxAssumption DEF Draw, LocalInv, Types, SeqTypes
    <3>2. CASE Beyond(count + 1)
      BY <1>7, <3>1, <3>2 DEF Draw, LocalInv, SeqTypes, Beyond
    <3>3. CASE ~Beyond(count + 1)
      <4>1. Apply(Committed, picks[t]) \in [Record -> Word]
        BY <2>2, CommittedWord, ApplyWord DEF LocalInv
      <4>2. serial' = Append(serial, Apply(Committed, picks[t]))
        BY <1>7, <3>3 DEF Draw
      <4>3. serial' \in Seq([Record -> Word]) /\ Len(serial') = Len(serial) + 1
        BY <3>1, <4>1, <4>2
      <4> QED BY <3>1, <3>3, <4>3 DEF LocalInv, SeqTypes, Beyond
    <3> QED BY <3>2, <3>3
  <2>5. /\ pc'[t] = IF Beyond(count + 1) THEN "undo" ELSE "log"
        /\ picks'[t] \in Picks /\ pos'[t] = 1 /\ size'[t] = 3
        /\ id'[t] = count + 1 /\ count' = count + 1 /\ count \in Nat
    BY <1>7, <2>2 DEF Draw, table, files, Goto, LocalInv, Types
  <2>6. AtPlace(t)'
    BY <2>2, <2>3, <2>5 DEF AtPlace, Commits, Beyond, Types
  <2>7. ASSUME NEW u \in Thread, u # t PROVE AtPlace(u)'
    <3>1. /\ pc'[u] = pc[u] /\ picks'[u] = picks[u] /\ pos'[u] = pos[u]
          /\ size'[u] = size[u] /\ id'[u] = id[u] /\ (count' = count \/ count' = count + 1)
      BY <1>7, <2>7 DEF Draw, table, files, Goto, LocalInv, Types
    <3> QED BY <3>1, OthersAtPlace
  <2> QED BY <2>3, <2>4, <2>6, <2>7 DEF LocalInv
<1>8. ASSUME NEW t \in Thread, Undo(t) PROVE LocalInv'
  <2>1. pc[t] = "undo"
    BY <1>8 DEF Undo
  <2>2. picks[t] \in Picks /\ pos[t] \in 1 .. size[t] /\ size[t] \in 1 .. 3 /\ id[t] <= count
        /\ (id[t] # 0 => size[t] = 3) /\ ~Commits(t)
    BY <2>1, Place DEF AtPlace
  <2>3. Types'
    BY <1>8, <2>2, SubtractWord, DiffWord, Place DEF Undo, table, files, local, Goto, LocalInv, Types, Places, Picks, Mode
  <2>4. SeqTypes'
    BY <1>8, <2>2 DEF Undo, table, files, local, Goto, LocalInv, SeqTypes
  <2>5. /\ pc'[t] = "release" /\ picks'[t] \in Picks /\ pos'[t] = pos[t]
        /\ size'[t] = size[t] /\ id'[t] = id[t] /\ count' = count
    BY <1>8, <2>2 DEF Undo, table, files, local, Goto, LocalInv, Types
  <2>6. AtPlace(t)'
    BY <2>2, <2>3, <2>5 DEF AtPlace, Commits, Beyond, Types
  <2>7. ASSUME NEW u \in Thread, u # t PROVE AtPlace(u)'
    <3>1. /\ pc'[u] = pc[u] /\ picks'[u] = picks[u] /\ pos'[u] = pos[u]
          /\ size'[u] = size[u] /\ id'[u] = id[u] /\ (count' = count \/ count' = count + 1)
      BY <1>8, <2>7 DEF Undo, table, files, local, Goto, LocalInv, Types
    <3> QED BY <3>1, OthersAtPlace
  <2> QED BY <2>3, <2>4, <2>6, <2>7 DEF LocalInv
<1>9. ASSUME NEW t \in Thread, Log(t) PROVE LocalInv'
  <2>1. pc[t] = "log"
    BY <1>9 DEF Log
  <2>2. picks[t] \in Picks /\ pos[t] \in 1 .. size[t] /\ size[t] \in 1 .. 3 /\ id[t] <= count
        /\ (id[t] # 0 => size[t] = 3) /\ Commits(t)
    BY <2>1, Place DEF AtPlace
  <2>3. Types'
    BY <1>9, <2>2 DEF Log, table, files, Goto, LocalInv, Types, Places
  <2>4. SeqTypes'
    BY <1>9, <2>2 DEF Log, table, files, Goto, LocalInv, SeqTypes, Picks, Types
  <2>5. /\ pc'[t] = "release" /\ picks'[t] \in Picks /\ pos'[t] = pos[t]
        /\ size'[t] = size[t] /\ id'[t] = id[t] /\ count' = count
    BY <1>9, <2>2 DEF Log, table, files, Goto, LocalInv, Types
  <2>6. AtPlace(t)'
    BY <2>2, <2>3, <2>5 DEF AtPlace, Commits, Beyond, Types
  <2>7. ASSUME NEW u \in Thread, u # t PROVE AtPlace(u)'
    <3>1. /\ pc'[u] = pc[u] /\ picks'[u] = picks[u] /\ pos'[u] = pos[u]
          /\ size'[u] = size[u] /\ id'[u] = id[u] /\ (count' = count \/ count' = count + 1)
      BY <1>9, <2>7 DEF Log, table, files, Goto, LocalInv, Types
    <3> QED BY <3>1, OthersAtPlace
  <2> QED BY <2>3, <2>4, <2>6, <2>7 DEF LocalInv
<1>10. ASSUME NEW t \in Thread, Release(t) PROVE LocalInv'
  <2>1. pc[t] = "release"
    BY <1>10 DEF Release
  <2>2. picks[t] \in Picks /\ pos[t] \in 1 .. size[t] /\ size[t] \in 1 .. 3 /\ id[t] <= count
        /\ (id[t] # 0 => size[t] = 3)
    BY <2>1, Place DEF AtPlace
  <2>3. Types'
    <3>1. pos' \in [Thread -> 1 .. 3] /\ found' \in [Thread -> Word]
      BY <1>10, <2>2, TrxAssumption DEF Release, LocalInv, Types, Word
    <3>2. id' \in [Thread -> Nat]
      BY <1>10, <2>2 DEF Release, LocalInv, Types
    <3>3. picks' \in [Thread -> Picks \cup {NoPicks}]
      BY <1>10, <2>2 DEF Release, LocalInv, Types
    <3>4. pc' \in [Thread -> Places]
      BY <1>10 DEF Release, Goto, LocalInv, Types, Places
    <3> QED BY <1>10, <3>1, <3>2, <3>3, <3>4 DEF Release, files, LocalInv, Types
  <2>4. SeqTypes'
    BY <1>10, <2>2 DEF Release, files, Goto, LocalInv, SeqTypes
  <2>5. /\ size'[t] = size[t] /\ count' = count
        /\ pc'[t] = IF pos[t] < size[t] THEN IF Commits(t) THEN "log" ELSE "undo"
                    ELSE IF Commits(t) THEN "publish" ELSE IF id[t] = 0 THEN "begin" ELSE "done"
        /\ pos'[t] = IF pos[t] < size[t] THEN pos[t] + 1 ELSE 1
        /\ picks'[t] = IF pos[t] < size[t] \/ Commits(t) THEN picks[t] ELSE NoPicks
        /\ id'[t] = IF pos[t] < size[t] \/ Commits(t) THEN id[t] ELSE 0
    BY <1>10, <2>2 DEF Release, files, Goto, LocalInv, Types
  <2>6. AtPlace(t)'
    BY <2>2, <2>3, <2>5 DEF AtPlace, Commits, Beyond, Types
  <2>7. ASSUME NEW u \in Thread, u # t PROVE AtPlace(u)'
    <3>1. /\ pc'[u] = pc[u] /\ picks'[u] = picks[u] /\ pos'[u] = pos[u]
          /\ size'[u] = size[u] /\ id'[u] = id[u] /\ (count' = count \/ count' = count + 1)
      BY <1>10, <2>7 DEF Release, files, Goto, LocalInv, Types
    <3> QED BY <3>1, OthersAtPlace
  <2> QED BY <2>3, <2>4, <2>6, <2>7 DEF LocalInv
<1>11. ASSUME NEW t \in Thread, Publish(t) PROVE LocalInv'
  <2>1. pc[t] = "publish"
    BY <1>11 DEF Publish
  <2>2. pos[t] = 1 /\ size[t] = 3
    BY <2>1, Place DEF AtPlace, Commits
  <2>3. Types'
    BY <1>11, <2>2 DEF Publish, table, Goto, LocalInv, Types, Places
  <2>4. SeqTypes'
    BY <1>11, <2>2 DEF Publish, table, Goto, LocalInv, SeqTypes
  <2>5. /\ pc'[t] = "begin" /\ picks'[t] = NoPicks /\ pos'[t] = 1 /\ id'[t] = 0
        /\ size'[t] = size[t]
    BY <1>11, <2>2 DEF Publish, table, Goto, LocalInv, Types
  <2>6. AtPlace(t)'
    BY <2>2, <2>3, <2>5 DEF AtPlace, Commits, Beyond, Types
  <2>7. ASSUME NEW u \in Thread, u # t PROVE AtPlace(u)'
    <3>1. /\ pc'[u] = pc[u] /\ picks'[u] = picks[u] /\ pos'[u] = pos[u]
          /\ size'[u] = size[u] /\ id'[u] = id[u] /\ (count' = count \/ count' = count + 1)
      BY <1>11, <2>7 DEF Publish, table, Goto, LocalInv, Types
    <3> QED BY <3>1, OthersAtPlace
  <2> QED BY <2>3, <2>4, <2>6, <2>7 DEF LocalInv
<1>12. CASE Done
  BY <1>12, <1>1 DEF Done
<1> QED BY <1>1, <1>2, <1>3, <1>4, <1>5, <1>6, <1>7, <1>8, <1>9, <1>10, <1>11, <1>12 DEF Next, Step
-----------------------------------------------------------------------------
(* The lock table *)

LEMMA TableInit ==
  ASSUME NoRecord \notin Record
  PROVE  Locks!Init => Locks!IInv
BY DEF Locks!Init, Locks!IInv, Locks!TypeOK, Locks!InOrder, Locks!Line, Locks!Holders

\* Who joins a line stands behind all who are in it.
LEMMA TableJoin ==
  ASSUME NoRecord \notin Record,
         Locks!IInv, NEW t \in Thread, NEW r \in Record, NEW m \in Locks!Mode, Locks!Join(t, r, m),
         \/ asks' = [asks EXCEPT ![t] = r]
         \/ Locks!Free(Locks!Line(r), r, m) /\ UNCHANGED asks
  PROVE  Locks!IInv'
<1>1. Locks!TypeOK /\ Locks!InOrder
  BY DEF Locks!IInv
<1>2. /\ t \notin Locks!Line(r)
      /\ asks[t] = NoRecord
      /\ mode' = [mode EXCEPT ![r][t] = m]
      /\ ahead' = [ahead EXCEPT ![r][t] = Locks!Line(r)]
  BY DEF Locks!Join
<1>3. m # "NONE" /\ m \in {"SHARED", "EXCLUSIVE"}
  BY DEF Locks!Mode
<1>4. /\ mode' \in [Record -> [Thread -> Locks!Mode \cup {"NONE"}]]
      /\ ahead' \in [Record -> [Thread -> SUBSET Thread]]
      /\ asks' \in [Thread -> Record \cup {NoRecord}]
  BY <1>1, <1>2 DEF Locks!TypeOK, Locks!Line
<1>5. \A q \in Record : Locks!Line(q)' = IF q = r THEN Locks!Line(q) \cup {t} ELSE Locks!Line(q)
  BY <1>1, <1>2, <1>3 DEF Locks!TypeOK, Locks!Line
<1>6. \A q \in Record : \A u \in Thread :
        /\ q # r \/ u # t => mode'[q][u] = mode[q][u] /\ ahead'[q][u] = ahead[q][u]
        /\ q = r /\ u = t => mode'[q][u] = m /\ ahead'[q][u] = Locks!Line(r)
  BY <1>1, <1>2 DEF Locks!TypeOK
<1>7. \A u \in Thread : u # t => asks'[u] = asks[u]
  BY <1>1 DEF Locks!TypeOK
<1>8. asks'[t] = r \/ (asks'[t] = NoRecord /\ Locks!Free(Locks!Line(r), r, m))
  BY <1>1, <1>2 DEF Locks!TypeOK
<1>9. \A q \in Record : \A u \in Locks!Line(q) : u \in Thread
  BY DEF Locks!Line
<1>10. Locks!TypeOK'
  <2>1. ASSUME NEW u \in Thread, asks'[u] # NoRecord PROVE (u \in Locks!Line(asks[u]))'
    <3>1. asks'[u] \in Record
      BY <2>1, <1>4
    <3>2. Locks!Line(asks[u])' = IF asks'[u] = r THEN Locks!Line(asks'[u]) \cup {t} ELSE Locks!Line(asks'[u])
      BY <3>1, <1>5 DEF Locks!Line
    <3>3. CASE u = t
      BY <2>1, <3>2, <3>3, <1>8
    <3>4. CASE u # t
      BY <2>1, <3>2, <3>4, <1>1, <1>7 DEF Locks!TypeOK
    <3> QED BY <3>3, <3>4
  <2> QED BY <2>1, <1>4 DEF Locks!TypeOK
<1>11. ASSUME NEW q \in Record, NEW u \in Thread PROVE ahead'[q][u] \subseteq Locks!Line(q)' \ {u}
  <2>1. CASE q = r /\ u = t
    BY <2>1, <1>2, <1>5, <1>6
  <2>2. CASE ~(q = r /\ u = t)
    <3>1. ahead'[q][u] = ahead[q][u]
      BY <2>2, <1>6
    <3>2. ahead[q][u] \subseteq Locks!Line(q) \ {u}
      BY <1>1 DEF Locks!InOrder
    <3> QED BY <3>1, <3>2, <1>5
  <2> QED BY <2>1, <2>2
<1>12. ASSUME NEW q \in Record, NEW u \in Locks!Line(q)', NEW v \in Locks!Line(q)', u # v
       PROVE  u \in ahead'[q][v] \/ v \in ahead'[q][u]
  <2>1. CASE q = r /\ u = t
    BY <2>1, <1>2, <1>5, <1>6, <1>9, <1>12
  <2>2. CASE q = r /\ v = t
    BY <2>2, <1>2, <1>5, <1>6, <1>9, <1>12
  <2>3. CASE q # r \/ (u # t /\ v # t)
    <3>1. u \in Locks!Line(q) /\ v \in Locks!Line(q)
      BY <2>3, <1>5
    <3>2. u \in ahead[q][v] \/ v \in ahead[q][u]
      BY <3>1, <1>1, <1>12 DEF Locks!InOrder
    <3> QED BY <2>3, <3>1, <3>2, <1>6, <1>9
  <2> QED BY <2>1, <2>2, <2>3
<1>13. ASSUME NEW q \in Record, NEW u \in Locks!Holders(q)' PROVE Locks!Free(ahead[q][u], q, mode[q][u])'
  <2>1. u \in Locks!Line(q)' /\ asks'[u] # q /\ u \in Thread
    BY DEF Locks!Holders, Locks!Line
  <2> SUFFICES ASSUME NEW v \in ahead'[q][u] PROVE Locks!Compatible(mode'[q][v], mode'[q][u])
    BY DEF Locks!Free, Locks!Compatible
  <2>2. CASE q = r /\ u = t
    <3>1. v \in Locks!Line(r) /\ v # t /\ v \in Thread
      BY <2>1, <2>2, <1>2, <1>6, <1>9
    <3>2. Locks!Compatible(mode[r][v], m)
      BY <3>1, <2>1, <2>2, <1>8 DEF Locks!Free
    <3> QED BY <3>1, <3>2, <2>1, <2>2, <1>6
  <2>3. CASE ~(q = r /\ u = t)
    <3>1. u \in Locks!Line(q) /\ v \in ahead[q][u]
      BY <2>1, <2>3, <1>5, <1>6
    <3>2. v \in Locks!Line(q) /\ v \in Thread /\ (q = r => v # t)
      BY <3>1, <2>1, <1>1, <1>2, <1>9 DEF Locks!InOrder
    <3>3. asks[u] # q
      <4>1. CASE u = t
        BY <4>1, <1>2
      <4>2. CASE u # t
        BY <4>2, <2>1, <1>7
      <4> QED BY <4>1, <4>2
    <3>4. Locks!Compatible(mode[q][v], mode[q][u])
      BY <3>1, <3>3, <2>1, <1>1 DEF Locks!InOrder, Locks!Holders, Locks!Free
    <3> QED BY <3>2, <3>4, <2>1, <2>3, <1>6
  <2> QED BY <2>2, <2>3
<1> QED BY <1>10, <1>11, <1>12, <1>13 DEF Locks!IInv, Locks!InOrder

\* Who leaves a line leaves the others in their order.
LEMMA TableLeave ==
  ASSUME Locks!IInv, NEW t \in Thread, NEW r \in Record, Locks!Leave(t, r),
         \/ asks[t] = r /\ asks' = [asks EXCEPT ![t] = NoRecord]
         \/ asks[t] # r /\ UNCHANGED asks
  PROVE  Locks!IInv'
<1>1. Locks!TypeOK /\ Locks!InOrder
  BY DEF Locks!IInv
<1>2. /\ mode' = [mode EXCEPT ![r][t] = "NONE"]
      /\ ahead' = [ahead EXCEPT ![r] = [u \in Thread |-> IF u = t THEN {} ELSE @[u] \ {t}]]
  BY DEF Locks!Leave
<1>3. /\ mode' \in [Record -> [Thread -> Locks!Mode \cup {"NONE"}]]
      /\ asks' \in [Thread -> Record \cup {NoRecord}]
  BY <1>1, <1>2 DEF Locks!TypeOK
<1>4. ahead' \in [Record -> [Thread -> SUBSET Thread]]
  <2>1. [u \in Thread |-> IF u = t THEN {} ELSE ahead[r][u] \ {t}] \in [Thread -> SUBSET Thread]
    BY <1>1 DEF Locks!TypeOK
  <2> QED BY <2>1, <1>1, <1>2 DEF Locks!TypeOK
<1>5. \A q \in Record : Locks!Line(q)' = IF q = r THEN Locks!Line(q) \ {t} ELSE Locks!Line(q)
  BY <1>1, <1>2 DEF Locks!TypeOK, Locks!Line
<1>6. \A q \in Record : \A u \in Thread :
        /\ q # r \/ u # t => mode'[q][u] = mode[q][u]
        /\ q # r => ahead'[q][u] = ahead[q][u]
        /\ q = r /\ u = t => ahead'[q][u] = {}
        /\ q = r /\ u # t => ahead'[q][u] = ahead[q][u] \ {t}
  BY <1>1, <1>2 DEF Locks!TypeOK
<1>7. \A u \in Thread : u # t => asks'[u] = asks[u]
  BY <1>1 DEF Locks!TypeOK
<1>8. \A q \in Record : \A u \in Locks!Line(q)' : u \in Locks!Line(q) /\ u \in Thread /\ (q = r => u # t)
  BY <1>5 DEF Locks!Line
<1>9. Locks!TypeOK'
  <2>1. ASSUME NEW u \in Thread, asks'[u] # NoRecord PROVE (u \in Locks!Line(asks[u]))'
    <3>1. asks'[u] = asks[u] /\ (asks[u] = r => u # t)
      BY <2>1, <1>1, <1>7 DEF Locks!TypeOK
    <3>2. asks[u] \in Record /\ u \in Locks!Line(asks[u])
      BY <2>1, <3>1, <1>3, <1>1 DEF Locks!TypeOK
    <3>3. Locks!Line(asks[u])' = IF asks[u] = r THEN Locks!Line(asks[u]) \ {t} ELSE Locks!Line(asks[u])
      BY <3>1, <3>2, <1>5 DEF Locks!Line
    <3> QED BY <3>1, <3>2, <3>3
  <2> QED BY <2>1, <1>3, <1>4 DEF Locks!TypeOK
<1>10. ASSUME NEW q \in Record, NEW u \in Thread PROVE ahead'[q][u] \subseteq Locks!Line(q)' \ {u}
  <2>1. ahead[q][u] \subseteq Locks!Line(q) \ {u}
    BY <1>1 DEF Locks!InOrder
  <2>2. CASE q = r /\ u = t
    BY <2>2, <1>6
  <2>3. CASE q = r /\ u # t
    BY <2>1, <2>3, <1>5, <1>6
  <2>4. CASE q # r
    BY <2>1, <2>4, <1>5, <1>6
  <2> QED BY <2>2, <2>3, <2>4
<1>11. ASSUME NEW q \in Record, NEW u \in Locks!Line(q)', NEW v \in Locks!Line(q)', u # v
       PROVE  u \in ahead'[q][v] \/ v \in ahead'[q][u]
  <2>1. u \in ahead[q][v] \/ v \in ahead[q][u]
    BY <1>8, <1>11, <1>1 DEF Locks!InOrder
  <2> QED BY <2>1, <1>6, <1>8
<1>12. ASSUME NEW q \in Record, NEW u \in Locks!Holders(q)' PROVE Locks!Free(ahead[q][u], q, mode[q][u])'
  <2>1. u \in Locks!Line(q)' /\ asks'[u] # q
    BY DEF Locks!Holders
  <2>2. u \in Locks!Line(q) /\ u \in Thread /\ (q = r => u # t)
    BY <2>1, <1>8
  <2> SUFFICES ASSUME NEW v \in ahead'[q][u] PROVE Locks!Compatible(mode'[q][v], mode'[q][u])
    BY DEF Locks!Free, Locks!Compatible
  <2>3. v \in ahead[q][u] /\ (q = r => v # t)
    BY <2>2, <1>6
  <2>4. v \in Thread
    BY <2>2, <2>3, <1>1 DEF Locks!TypeOK
  <2>5. asks[u] # q
    <3>1. CASE u = t
      BY <3>1, <2>1, <2>2, <1>1 DEF Locks!TypeOK
    <3>2. CASE u # t
      BY <3>2, <2>1, <2>2, <1>7
    <3> QED BY <3>1, <3>2
  <2>6. Locks!Compatible(mode[q][v], mode[q][u])
    BY <2>2, <2>3, <2>5, <1>1 DEF Locks!InOrder, Locks!Holders, Locks!Free
  <2> QED BY <2>2, <2>3, <2>4, <2>6, <1>6
<1> QED BY <1>9, <1>10, <1>11, <1>12 DEF Locks!IInv, Locks!InOrder

\* A thread is granted what it waits for, over compatible requests before it.
LEMMA TableGrant ==
  ASSUME Locks!IInv, NEW t \in Thread, Locks!Grant(t)
  PROVE  Locks!IInv'
<1> DEFINE r == asks[t]
<1>1. Locks!TypeOK /\ Locks!InOrder
  BY DEF Locks!IInv
<1>2. /\ Locks!Free(ahead[r][t], r, mode[r][t])
      /\ asks' = [asks EXCEPT ![t] = NoRecord]
      /\ mode' = mode /\ ahead' = ahead
  BY DEF Locks!Grant
<1>3. \A q : Locks!Line(q)' = Locks!Line(q)
  BY <1>2 DEF Locks!Line
<1>4. /\ asks' \in [Thread -> Record \cup {NoRecord}]
      /\ asks'[t] = NoRecord
      /\ \A u \in Thread : u # t => asks'[u] = asks[u]
  BY <1>1, <1>2 DEF Locks!TypeOK
<1>5. Locks!TypeOK'
  BY <1>1, <1>2, <1>3, <1>4 DEF Locks!TypeOK
<1>6. ASSUME NEW q \in Record, NEW u \in Locks!Holders(q)' PROVE Locks!Free(ahead[q][u], q, mode[q][u])
  <2>1. u \in Locks!Line(q) /\ u \in Thread /\ asks'[u] # q
    BY <1>3 DEF Locks!Holders, Locks!Line
  <2>2. CASE u = t /\ asks[t] = q
    BY <2>2, <1>2
  <2>3. CASE ~(u = t /\ asks[t] = q)
    BY <2>1, <2>3, <1>1, <1>4 DEF Locks!InOrder, Locks!Holders
  <2> QED BY <2>2, <2>3
<1>7. ASSUME NEW q \in Record, NEW u \in Locks!Holders(q)' PROVE Locks!Free(ahead[q][u], q, mode[q][u])'
  BY <1>2, <1>6 DEF Locks!Free, Locks!Compatible
<1> QED BY <1>1, <1>2, <1>3, <1>5, <1>7 DEF Locks!IInv, Locks!InOrder

LEMMA TableStep ==
  ASSUME NoRecord \notin Record
  PROVE  Locks!IInv /\ [Locks!Next]_(Locks!vars) => Locks!IInv'
<1> SUFFICES ASSUME Locks!IInv, [Locks!Next]_(Locks!vars) PROVE Locks!IInv'
  OBVIOUS
<1>1. CASE UNCHANGED Locks!vars
  BY <1>1 DEF Locks!vars, Locks!IInv, Locks!TypeOK, Locks!InOrder, Locks!Line, Locks!Holders, Locks!Free, Locks!Compatible
<1>2. ASSUME NEW t \in Thread, Locks!Grant(t) PROVE Locks!IInv'
  BY <1>2, TableGrant
<1>3. ASSUME NEW t \in Thread, Locks!Refuse(t) PROVE Locks!IInv'
  <2>1. asks[t] \in Record
    BY <1>3 DEF Locks!Refuse, Locks!IInv, Locks!TypeOK
  <2> QED BY <2>1, <1>3, TableLeave DEF Locks!Refuse
<1>4. ASSUME NEW t \in Thread, NEW r \in Record, Locks!Release(t, r) PROVE Locks!IInv'
  BY <1>4, TableLeave DEF Locks!Release, Locks!Holders
<1>5. ASSUME NEW t \in Thread, NEW r \in Record, NEW m \in Locks!Mode, Locks!Request(t, r, m) PROVE Locks!IInv'
  BY <1>5, TableJoin DEF Locks!Request
<1>6. ASSUME NEW t \in Thread, NEW r \in Record, NEW m \in Locks!Mode, Locks!Take(t, r, m) PROVE Locks!IInv'
  BY <1>6, TableJoin DEF Locks!Take
<1> QED BY <1>1, <1>2, <1>3, <1>4, <1>5, <1>6 DEF Locks!Next

\* Of two holders, one was granted its lock over the other.
LEMMA HoldersCompatible == Locks!IInv => Locks!MutualExclusion
<1> SUFFICES ASSUME Locks!IInv, NEW r \in Record, NEW t \in Locks!Holders(r), NEW u \in Locks!Holders(r), t # u
             PROVE  Locks!Compatible(mode[r][t], mode[r][u])
  BY DEF Locks!MutualExclusion
<1>1. t \in Locks!Line(r) /\ u \in Locks!Line(r)
  BY DEF Locks!Holders
<1>2. CASE t \in ahead[r][u]
  BY <1>2 DEF Locks!IInv, Locks!InOrder, Locks!Free
<1>3. CASE u \in ahead[r][t]
  BY <1>3 DEF Locks!IInv, Locks!InOrder, Locks!Free, Locks!Compatible
<1> QED BY <1>1, <1>2, <1>3 DEF Locks!IInv, Locks!InOrder

LEMMA TableInvariant ==
  ASSUME NoRecord \notin Record
  PROVE  Locks!Spec => []Locks!IInv
<1>1. Locks!Init => Locks!IInv
  BY TableInit
<1>2. Locks!IInv /\ [Locks!Next]_(Locks!vars) => Locks!IInv'
  BY TableStep
<1> QED BY <1>1, <1>2, PTL DEF Locks!Spec

\* The lines keep the order of arrival: nobody holds a lock over an incompatible
\* request that came before, as the lists of AcquireLock promise.
THEOREM LinesInOrder ==
  ASSUME NoRecord \notin Record
  PROVE  Locks!Spec => []Locks!InOrder
<1>1. Locks!Spec => []Locks!IInv
  BY TableInvariant
<1>2. Locks!IInv => Locks!InOrder
  BY DEF Locks!IInv
<1> QED BY <1>1, <1>2, PTL

\* The types of the lock service, and who waits stands in the line.
THEOREM TableTypes ==
  ASSUME NoRecord \notin Record
  PROVE  Locks!Spec => []Locks!TypeOK
<1>1. Locks!Spec => []Locks!IInv
  BY TableInvariant
<1>2. Locks!IInv => Locks!TypeOK
  BY DEF Locks!IInv
<1> QED BY <1>1, <1>2, PTL

\* AcquireLock never returns two incompatible locks that are both held, for every
\* number of threads and records.
THEOREM LocksExclude ==
  ASSUME NoRecord \notin Record
  PROVE  Locks!Spec => []Locks!MutualExclusion
<1>1. Locks!Spec => []Locks!IInv
  BY TableInvariant
<1>2. Locks!IInv => Locks!MutualExclusion
  BY HoldersCompatible
<1> QED BY <1>1, <1>2, PTL

-----------------------------------------------------------------------------
(* The transactions and the lock table *)

\* The n-th record of a transaction, and the mode of its lock.
LEMMA PickMode ==
  ASSUME NEW p \in Picks, NEW n \in 1 .. 3
  PROVE  p[n] \in Record /\ Mode(n) \in Locks!Mode /\ Mode(n) # "NONE"
BY DEF Picks, Mode, Locks!Mode

\* A step of a transaction is a step of the lock table, or leaves it alone.
LEMMA LockStep == LocalInv /\ [Next]_vars => [Locks!Next]_(Locks!vars)
<1> SUFFICES ASSUME LocalInv, [Next]_vars PROVE [Locks!Next]_(Locks!vars)
  OBVIOUS
<1>1. CASE UNCHANGED table
  BY <1>1 DEF table, Locks!vars
<1>2. ASSUME NEW t \in Thread, Ask(t) PROVE [Locks!Next]_(Locks!vars)
  <2>1. picks[t] \in Picks /\ size[t] + 1 \in 1 .. 3
    BY <1>2, Place DEF Ask, AtPlace
  <2>2. picks[t][size[t] + 1] \in Record /\ Mode(size[t] + 1) \in Locks!Mode
    BY <2>1, PickMode
  <2> QED BY <1>2, <2>2 DEF Ask, Locks!Next
<1>3. ASSUME NEW t \in Thread, Granted(t) PROVE [Locks!Next]_(Locks!vars)
  BY <1>3 DEF Granted, Locks!Next
<1>4. ASSUME NEW t \in Thread, Refused(t) PROVE [Locks!Next]_(Locks!vars)
  BY <1>4 DEF Refused, Locks!Next
<1>5. ASSUME NEW t \in Thread, Release(t) PROVE [Locks!Next]_(Locks!vars)
  <2>1. picks[t] \in Picks /\ pos[t] \in 1 .. 3
    BY <1>5, Place DEF Release, AtPlace
  <2>2. picks[t][pos[t]] \in Record
    BY <2>1, PickMode
  <2>3. Locks!Release(t, picks[t][pos[t]]) \/ UNCHANGED table
    BY <1>5 DEF Release
  <2> QED BY <2>2, <2>3, <1>1 DEF Locks!Next
<1>6. UNCHANGED table \/ \E t \in Thread : Ask(t) \/ Granted(t) \/ Refused(t) \/ Release(t)
  BY DEF Next, Step, Done, vars, Begin, Access, Draw, Undo, Log, Publish
<1> QED BY <1>1, <1>2, <1>3, <1>4, <1>5, <1>6

\* So the invariant of the lock table is kept.
LEMMA LockInvStep == LocalInv /\ Locks!IInv /\ [Next]_vars => Locks!IInv'
BY LockStep, TableStep, TrxAssumption

\* And it holds at the start.
LEMMA LockInit == Init => Locks!IInv
BY TableInit, TrxAssumption DEF Init
-----------------------------------------------------------------------------
\* A lock is in use from its grant to its release.
LEMMA HeldInUse ==
  ASSUME LocalInv, Locks!TypeOK, NEW t \in Thread, InLine(t), picks[t] \in Picks,
         NEW n \in 1 .. 3
  PROVE  InUse(t, n) <=> n \in Holding(t) /\ ~(pc[t] = "wait" /\ n = size[t])
<1> DEFINE r == picks[t][n]
<1>1. r \in Record /\ Mode(n) # "NONE" /\ r # NoRecord
  BY PickMode, TrxAssumption
<1>2. \A m \in 1 .. 3 : picks[t][m] = r => m = n
  BY DEF Picks
<1>3. mode[r][t] # "NONE" <=> n \in Holding(t)
  BY <1>1, <1>2 DEF InLine, Holding
<1>4. InUse(t, n) <=> mode[r][t] # "NONE" /\ asks[t] # r
  BY DEF InUse, Locks!Holders, Locks!Line
<1>5. pc[t] = "wait" => size[t] \in 1 .. 3
  BY Place DEF AtPlace
<1>6. asks[t] = r <=> pc[t] = "wait" /\ n = size[t]
  BY <1>1, <1>2, <1>5 DEF InLine
<1> QED BY <1>3, <1>4, <1>6

\* A step within a transaction that neither asks for a lock nor releases one.
LEMMA LineSame ==
  ASSUME NEW u \in Thread, InLine(u), asks'[u] = asks[u],
         \A r \in Record : mode'[r][u] = mode[r][u],
         picks'[u] = picks[u], pc'[u] # "wait", pc[u] # "wait",
         Holding(u)' = Holding(u), picks[u] \in Picks
  PROVE  InLine(u)'
<1>1. \A n \in Holding(u) : picks[u][n] \in Record
  BY PickMode DEF Holding
<1> QED BY <1>1 DEF InLine

\* A step of another thread leaves a thread in its lines.
LEMMA OthersInLine ==
  ASSUME NEW u \in Thread, InLine(u), LocalInv, asks'[u] = asks[u],
         \A r \in Record : mode'[r][u] = mode[r][u],
         pc'[u] = pc[u], picks'[u] = picks[u], pos'[u] = pos[u], size'[u] = size[u], id'[u] = id[u]
  PROVE  InLine(u)'
<1>1. Holding(u)' = Holding(u)
  BY DEF Holding
<1>2. \A n \in Holding(u) : picks[u][n] \in Record
  <2>1. picks[u] \in Picks \/ Holding(u) = {}
    BY Place DEF AtPlace, Holding
  <2> QED BY <2>1, PickMode DEF Holding
<1> QED BY <1>1, <1>2 DEF InLine

\* At the start nobody is in a line.
LEMMA LineInit == Init => LineInv
BY DEF Init, Locks!Init, LineInv, InLine, Holding

\* What the steps of the lock table do to the modes and the waits.
LEMMA Joined ==
  ASSUME Locks!TypeOK, NEW t \in Thread, NEW r \in Record, NEW m \in Locks!Mode,
         Locks!Request(t, r, m)
  PROVE  /\ asks'[t] = r /\ mode[r][t] = "NONE" /\ mode'[r][t] = m
         /\ \A q \in Record \ {r} : mode'[q][t] = mode[q][t]
         /\ \A u \in Thread \ {t} : /\ asks'[u] = asks[u]
                                   /\ \A q \in Record : mode'[q][u] = mode[q][u]
BY DEF Locks!TypeOK, Locks!Request, Locks!Join, Locks!Line

\* Who leaves a line leaves that one alone.
LEMMA Left ==
  ASSUME Locks!TypeOK, NEW t \in Thread, NEW r \in Record, Locks!Leave(t, r)
  PROVE  /\ mode'[r][t] = "NONE"
         /\ \A q \in Record \ {r} : mode'[q][t] = mode[q][t]
         /\ \A u \in Thread \ {t} : \A q \in Record : mode'[q][u] = mode[q][u]
BY DEF Locks!TypeOK, Locks!Leave
\* A transaction stands in the lines of the locks it holds or waits for, and in no other.
LEMMA LineStep == LocalInv /\ Locks!TypeOK /\ LineInv /\ [Next]_vars => LineInv'
<1> SUFFICES ASSUME LocalInv, Locks!TypeOK, LineInv, [Next]_vars PROVE LineInv'
  OBVIOUS
<1> USE DEF LineInv
<1>1. CASE UNCHANGED vars
  BY <1>1 DEF vars, table, local, InLine, Holding
<1>2. ASSUME NEW t \in Thread, Begin(t) PROVE LineInv'
  <2>1. pc[t] = "begin" /\ pc'[t] = "ask" /\ size'[t] = 0 /\ asks' = asks /\ mode' = mode
    BY <1>2 DEF Begin, Goto, table, LocalInv, Types
  <2>2. Holding(t) = {} /\ Holding(t)' = {}
    BY <2>1 DEF Holding
  <2>3. InLine(t)'
    BY <2>1, <2>2 DEF InLine
  <2>4. ASSUME NEW u \in Thread, u # t PROVE InLine(u)'
    BY <1>2, <2>4, OthersInLine DEF Begin, Goto, table, LocalInv, Types
  <2> QED BY <2>3, <2>4
<1>3. ASSUME NEW t \in Thread, Ask(t) PROVE LineInv'
  <2>1. /\ pc[t] = "ask" /\ picks[t] \in Picks /\ pos[t] = 1 /\ size[t] \in 0 .. 2
    BY <1>3, Place DEF Ask, AtPlace
  <2> DEFINE n == size[t] + 1
             r == picks[t][n]
  <2>2. n \in 1 .. 3 /\ r \in Record /\ Mode(n) \in Locks!Mode
    BY <2>1, PickMode
  <2>3. /\ asks'[t] = r /\ mode'[r][t] = Mode(n)
        /\ \A q \in Record \ {r} : mode'[q][t] = mode[q][t]
        /\ \A u \in Thread \ {t} : /\ asks'[u] = asks[u]
                                  /\ \A q \in Record : mode'[q][u] = mode[q][u]
    BY <1>3, <2>2, Joined DEF Ask
  <2>4. /\ pc'[t] = "wait" /\ size'[t] = n /\ pos'[t] = 1 /\ id'[t] = id[t] /\ picks'[t] = picks[t]
        /\ \A u \in Thread \ {t} : pc'[u] = pc[u] /\ size'[u] = size[u] /\ pos'[u] = pos[u]
                                  /\ picks'[u] = picks[u] /\ id'[u] = id[u]
    BY <1>3, <2>1 DEF Ask, Goto, LocalInv, Types
  <2>5. Holding(t) = 1 .. size[t] /\ Holding(t)' = 1 .. n
    BY <2>1, <2>4 DEF Holding
  <2>6. \A m \in 1 .. size[t] : picks[t][m] # r /\ picks[t][m] \in Record
    BY <2>1, PickMode DEF Picks
  <2>7. InLine(t)'
    <3>1. \A m \in Holding(t)' : mode'[picks'[t][m]][t] = Mode(m)
      BY <2>1, <2>3, <2>4, <2>5, <2>6 DEF InLine
    <3>2. \A q \in Record : mode'[q][t] # "NONE" => \E m \in Holding(t)' : picks'[t][m] = q
      BY <2>1, <2>3, <2>4, <2>5 DEF InLine
    <3> QED BY <3>1, <3>2, <2>3, <2>4 DEF InLine
  <2>8. ASSUME NEW u \in Thread, u # t PROVE InLine(u)'
    BY <2>3, <2>4, <2>8, OthersInLine
  <2> QED BY <2>7, <2>8
<1>4. ASSUME NEW t \in Thread, Granted(t) PROVE LineInv'
  <2>1. /\ pc[t] = "wait" /\ pc'[t] = "access" /\ mode' = mode /\ asks' = [asks EXCEPT ![t] = NoRecord]
        /\ picks' = picks /\ size' = size /\ pos' = pos /\ id' = id
    BY <1>4 DEF Granted, Locks!Grant, local, Goto, LocalInv, Types
  <2>2. asks'[t] = NoRecord /\ \A u \in Thread \ {t} : asks'[u] = asks[u] /\ pc'[u] = pc[u]
    BY <1>4, <2>1 DEF Locks!TypeOK, Granted, Goto, LocalInv, Types
  <2>3. Holding(t)' = Holding(t)
    BY <2>1 DEF Holding
  <2>4. InLine(t)'
    BY <2>1, <2>2, <2>3 DEF InLine
  <2>5. ASSUME NEW u \in Thread, u # t PROVE InLine(u)'
    BY <2>1, <2>2, <2>5, OthersInLine
  <2> QED BY <2>4, <2>5
<1>5. ASSUME NEW t \in Thread, Refused(t) PROVE LineInv'
  <2>1. /\ pc[t] = "wait" /\ picks[t] \in Picks /\ pos[t] = 1 /\ size[t] \in 1 .. 3 /\ id[t] = 0
    BY <1>5, Place DEF Refused, AtPlace
  <2> DEFINE n == size[t]
             r == picks[t][n]
  <2>2. r \in Record /\ asks[t] = r
    BY <2>1, PickMode DEF InLine
  <2>3. /\ mode'[r][t] = "NONE"
        /\ \A q \in Record \ {r} : mode'[q][t] = mode[q][t]
        /\ \A u \in Thread \ {t} : \A q \in Record : mode'[q][u] = mode[q][u]
    BY <1>5, <2>2, Left DEF Refused, Locks!Refuse
  <2>4. asks'[t] = NoRecord /\ \A u \in Thread \ {t} : asks'[u] = asks[u]
    BY <1>5 DEF Refused, Locks!Refuse, Locks!TypeOK
  <2>5. /\ pc'[t] = "undo" /\ size'[t] = n /\ pos'[t] = 1 /\ id'[t] = 0 /\ picks'[t] = picks[t]
        /\ \A u \in Thread \ {t} : pc'[u] = pc[u] /\ size'[u] = size[u] /\ pos'[u] = pos[u]
                                  /\ picks'[u] = picks[u] /\ id'[u] = id[u]
    BY <1>5, <2>1 DEF Refused, local, Goto, LocalInv, Types
  <2>6. Holding(t) = 1 .. n /\ Holding(t)' = 1 .. n - 1
    BY <2>1, <2>5 DEF Holding
  <2>7. \A m \in 1 .. n - 1 : picks[t][m] # r /\ picks[t][m] \in Record
    BY <2>1, PickMode DEF Picks
  <2>8. InLine(t)'
    <3>1. \A m \in Holding(t)' : mode'[picks'[t][m]][t] = Mode(m)
      BY <2>1, <2>3, <2>5, <2>6, <2>7 DEF InLine
    <3>2. \A q \in Record : mode'[q][t] # "NONE" => \E m \in Holding(t)' : picks'[t][m] = q
      <4> SUFFICES ASSUME NEW q \in Record, mode'[q][t] # "NONE"
                   PROVE  \E m \in Holding(t)' : picks'[t][m] = q
        OBVIOUS
      <4>1. q # r /\ mode[q][t] # "NONE"
        BY <2>3
      <4>2. PICK m \in Holding(t) : picks[t][m] = q
        BY <4>1 DEF InLine
      <4>3. m \in Holding(t)'
        BY <4>1, <4>2, <2>1, <2>6
      <4> QED BY <4>2, <4>3, <2>5
    <3> QED BY <3>1, <3>2, <2>4, <2>5 DEF InLine
  <2>9. ASSUME NEW u \in Thread, u # t PROVE InLine(u)'
    BY <2>3, <2>4, <2>5, <2>9, OthersInLine
  <2> QED BY <2>8, <2>9
<1>6. ASSUME NEW t \in Thread, Access(t) \/ Draw(t) \/ Undo(t) \/ Log(t) PROVE LineInv'
  <2>1. /\ mode' = mode /\ asks' = asks /\ picks' = picks /\ size' = size /\ pos' = pos
        /\ \A u \in Thread \ {t} : pc'[u] = pc[u] /\ id'[u] = id[u]
    BY <1>6 DEF Access, Draw, Undo, Log, table, local, Goto, LocalInv, Types
  <2>2. /\ pc[t] \in {"access", "draw", "undo", "log"} /\ picks[t] \in Picks
        /\ pc[t] = "access" => id[t] = 0 /\ id'[t] = 0 /\ pc'[t] \in {"ask", "draw"}
        /\ pc[t] = "draw" => id[t] = 0 /\ id'[t] # 0 /\ pc'[t] \in {"undo", "log"}
        /\ pc[t] = "undo" => id'[t] = id[t] /\ pc'[t] = "release"
        /\ pc[t] = "log" => id'[t] = id[t] /\ pc'[t] = "release" /\ id[t] # 0
    BY <1>6, Place DEF AtPlace, Access, Draw, Undo, Log, local, Goto, LocalInv, Types, Commits
  <2>3. Holding(t)' = Holding(t)
    BY <2>1, <2>2 DEF Holding
  <2>4. InLine(t)'
    BY <2>1, <2>2, <2>3, LineSame
  <2>5. ASSUME NEW u \in Thread, u # t PROVE InLine(u)'
    BY <2>1, <2>5, OthersInLine
  <2> QED BY <2>4, <2>5
<1>7. ASSUME NEW t \in Thread, Release(t) PROVE LineInv'
  <2>1. /\ pc[t] = "release" /\ picks[t] \in Picks /\ size[t] \in 1 .. 3
        /\ pos[t] \in 1 .. size[t] /\ pos[t] \in 1 .. 3
    BY <1>7, Place DEF Release, AtPlace
  <2> DEFINE n == pos[t]
             r == picks[t][n]
  <2>2. r \in Record /\ asks[t] = NoRecord
    BY <2>1, PickMode DEF InLine
  <2>3. InUse(t, n) <=> n \in Holding(t)
    BY <2>1, HeldInUse
  <2>4. /\ asks' = asks
        /\ \A q \in Record \ {r} : mode'[q][t] = mode[q][t]
        /\ mode'[r][t] = IF n \in Holding(t) THEN "NONE" ELSE mode[r][t]
        /\ \A u \in Thread \ {t} : \A q \in Record : mode'[q][u] = mode[q][u]
    <3>1. CASE InUse(t, n) /\ Locks!Release(t, r)
      BY <3>1, <2>2, <2>3, Left DEF Locks!Release
    <3>2. CASE ~InUse(t, n) /\ UNCHANGED table
      BY <3>2, <2>3 DEF table
    <3> QED BY <1>7, <3>1, <3>2 DEF Release
  <2>5. mode'[r][t] = "NONE"
    <3>1. CASE n \in Holding(t)
      BY <3>1, <2>4
    <3>2. CASE n \notin Holding(t)
      BY <3>2, <2>1, <2>2, <2>4 DEF InLine, Holding, Picks
    <3> QED BY <3>1, <3>2
  <2>6. \A u \in Thread \ {t} : pc'[u] = pc[u] /\ size'[u] = size[u] /\ pos'[u] = pos[u]
                              /\ picks'[u] = picks[u] /\ id'[u] = id[u]
    BY <1>7 DEF Release, Goto, LocalInv, Types
  <2>7. ASSUME NEW u \in Thread, u # t PROVE InLine(u)'
    BY <2>4, <2>6, <2>7, OthersInLine
  <2>8. pc'[t] # "wait" /\ asks'[t] = NoRecord
    BY <1>7, <2>2, <2>4 DEF Release, Goto, LocalInv, Types
  <2>9. /\ Holding(t)' = Holding(t) \ {n}
        /\ Holding(t)' # {} => picks'[t] = picks[t]
    <3>1. CASE pos[t] < size[t]
      <4>1. /\ pc'[t] \in {"log", "undo"} /\ pos'[t] = n + 1 /\ size'[t] = size[t]
            /\ picks'[t] = picks[t] /\ id'[t] = id[t] /\ (pc'[t] = "log" => id[t] # 0)
        BY <1>7, <3>1 DEF Release, Goto, LocalInv, Types, Commits
      <4> QED BY <4>1, <2>1 DEF Holding
    <3>2. CASE pos[t] = size[t]
      <4>1. pc'[t] \in {"publish", "begin", "done"}
        BY <1>7, <3>2, <2>1 DEF Release, Goto, LocalInv, Types
      <4> QED BY <4>1, <3>2, <2>1 DEF Holding
    <3> QED BY <3>1, <3>2, <2>1
  <2>10. \A m \in Holding(t) \ {n} : picks[t][m] # r /\ picks[t][m] \in Record
    BY <2>1, PickMode DEF Picks, Holding
  <2>11. InLine(t)'
    <3>1. \A m \in Holding(t)' : mode'[picks'[t][m]][t] = Mode(m)
      BY <2>4, <2>9, <2>10 DEF InLine
    <3>2. \A q \in Record : mode'[q][t] # "NONE" => \E m \in Holding(t)' : picks'[t][m] = q
      <4> SUFFICES ASSUME NEW q \in Record, mode'[q][t] # "NONE"
                   PROVE  \E m \in Holding(t)' : picks'[t][m] = q
        OBVIOUS
      <4>1. q # r /\ mode[q][t] # "NONE"
        BY <2>4, <2>5
      <4>2. PICK m \in Holding(t) : picks[t][m] = q
        BY <4>1 DEF InLine
      <4>3. m \in Holding(t)'
        BY <4>1, <4>2, <2>9
      <4> QED BY <4>2, <4>3, <2>9
    <3> QED BY <3>1, <3>2, <2>8 DEF InLine
  <2> QED BY <2>7, <2>11
<1>8. ASSUME NEW t \in Thread, Publish(t) PROVE LineInv'
  <2>1. pc[t] = "publish" /\ pc'[t] = "begin" /\ asks' = asks /\ mode' = mode
    BY <1>8 DEF Publish, Goto, table, LocalInv, Types
  <2>2. Holding(t) = {} /\ Holding(t)' = {}
    BY <2>1 DEF Holding
  <2>3. InLine(t)'
    BY <2>1, <2>2 DEF InLine
  <2>4. ASSUME NEW u \in Thread, u # t PROVE InLine(u)'
    BY <1>8, <2>4, OthersInLine DEF Publish, Goto, table, LocalInv, Types
  <2> QED BY <2>3, <2>4
<1>9. CASE Done
  BY <1>1, <1>9 DEF Done
<1> QED BY <1>1, <1>2, <1>3, <1>4, <1>5, <1>6, <1>7, <1>8, <1>9 DEF Next, Step
-----------------------------------------------------------------------------
\* The threads can be counted.
LEMMA FiniteThreads ==
  ASSUME NEW S \in SUBSET Thread
  PROVE  /\ IsFiniteSet(S) /\ Cardinality(S) \in Nat /\ Cardinality(Thread) \in Nat
         /\ Cardinality(S) <= Cardinality(Thread)
BY TrxAssumption, FS_Subset, FS_CardinalityType

\* At the start no number is given.
LEMMA NumberInit == Init => NumberInv
<1> SUFFICES ASSUME Init PROVE NumberInv
  OBVIOUS
<1>1. Numbered = {}
  BY DEF Init, Numbered
<1> QED BY <1>1, FS_EmptySet DEF Init, NumberInv

\* Only the first Begin() of a thread takes a number.
LEMMA NumberStep == LocalInv /\ NumberInv /\ [Next]_vars => NumberInv'
<1> SUFFICES ASSUME LocalInv, NumberInv, [Next]_vars PROVE NumberInv'
  OBVIOUS
<1>1. ASSUME NEW t \in Thread, Begin(t), number[t] = 0 PROVE NumberInv'
  <2>1. /\ number' = [number EXCEPT ![t] = threadNumber] /\ threadNumber' = threadNumber + 1
        /\ number \in [Thread -> Nat] /\ threadNumber \in Nat /\ pc \in [Thread -> Places]
        /\ pc' = [pc EXCEPT ![t] = "ask"]
    BY <1>1 DEF Begin, Goto, LocalInv, Types
  <2>2. Cardinality(Numbered) \in Nat /\ IsFiniteSet(Numbered)
    BY FiniteThreads DEF Numbered
  <2>3. threadNumber # 0
    BY <2>2 DEF NumberInv
  <2>4. number'[t] = threadNumber /\ \A u \in Thread \ {t} : number'[u] = number[u]
    BY <2>1
  <2>5. Numbered' = Numbered \cup {t} /\ t \notin Numbered
    BY <2>3, <2>4, <1>1 DEF Numbered
  <2>6. Cardinality(Numbered') = Cardinality(Numbered) + 1
    BY <2>2, <2>5, FS_AddElement
  <2>7. threadNumber' = Cardinality(Numbered') + 1
    BY <2>1, <2>2, <2>6 DEF NumberInv
  <2>8. \A u \in Thread : number'[u] < threadNumber'
    BY <2>1, <2>4 DEF NumberInv
  <2>9. ASSUME NEW u \in Numbered', NEW v \in Numbered', number'[u] = number'[v] PROVE u = v
    BY <2>1, <2>4, <2>5, <2>9 DEF NumberInv, Numbered
  <2>10. \A u \in Thread : pc'[u] # "begin" => u \in Numbered'
    BY <2>1, <2>5 DEF NumberInv
  <2> QED BY <2>7, <2>8, <2>9, <2>10 DEF NumberInv
<1>2. ASSUME UNCHANGED <<number, threadNumber>>,
             \A u \in Thread : pc'[u] # "begin" => pc[u] # "begin" \/ number[u] # 0
      PROVE  NumberInv'
  BY <1>2 DEF NumberInv, Numbered
<1>3. ASSUME NEW t \in Thread, Begin(t), number[t] # 0 PROVE NumberInv'
  BY <1>2, <1>3 DEF Begin, Goto, LocalInv, Types
<1>4. ASSUME NEW t \in Thread, Step(t), ~Begin(t) PROVE NumberInv'
  <2>1. pc[t] # "begin" /\ UNCHANGED <<number, threadNumber>> /\ \E place : Goto(t, place)
    BY <1>4 DEF Step, Ask, Granted, Refused, Access, Draw, Undo, Log, Release, Publish, files
  <2> QED BY <1>2, <2>1 DEF Goto, LocalInv, Types
<1>5. CASE UNCHANGED vars
  BY <1>2, <1>5 DEF vars, files
<1> QED BY <1>1, <1>3, <1>4, <1>5 DEF Next, Done

\* At the start no id is drawn.
LEMMA CountInit == Init => CountInv
<1> SUFFICES ASSUME Init PROVE CountInv
  OBVIOUS
<1>1. Late = {}
  BY TrxAssumption DEF Init, Late, Beyond
<1> QED BY <1>1, TrxAssumption, FS_EmptySet DEF Init, CountInv

\* A thread that has drawn an id beyond the last stops, so that it draws no other.
LEMMA CountStep == LocalInv /\ CountInv /\ [Next]_vars => CountInv'
<1> SUFFICES ASSUME LocalInv, CountInv, [Next]_vars PROVE CountInv'
  OBVIOUS
<1>1. ASSUME count' = count, Late' = Late PROVE CountInv'
  BY <1>1 DEF CountInv
<1>2. ASSUME NEW t \in Thread, count' = count, t \in Late' <=> t \in Late,
             \A u \in Thread \ {t} : pc'[u] = pc[u] /\ id'[u] = id[u]
      PROVE  CountInv'
  BY <1>1, <1>2 DEF Late, Beyond
<1>3. ASSUME NEW t \in Thread, Draw(t) PROVE CountInv'
  <2>1. /\ pc[t] = "draw" /\ id[t] = 0 /\ count \in Nat /\ Last \in Nat
        /\ count' = count + 1 /\ id'[t] = count + 1 /\ pc'[t] # "done"
        /\ \A u \in Thread \ {t} : pc'[u] = pc[u] /\ id'[u] = id[u]
    BY <1>3, Place, TrxAssumption DEF Draw, AtPlace, Goto, LocalInv, Types
  <2>2. t \notin Late
    BY <2>1 DEF Late, Beyond
  <2>3. IsFiniteSet(Late) /\ Cardinality(Late) \in Nat
    BY FiniteThreads DEF Late
  <2>4. CASE Beyond(count + 1)
    <3>1. Late' = Late \cup {t}
      BY <2>1, <2>4 DEF Late, Beyond
    <3>2. Cardinality(Late') = Cardinality(Late) + 1
      BY <3>1, <2>2, <2>3, FS_AddElement
    <3> QED BY <3>2, <2>1, <2>4 DEF CountInv, Beyond
  <2>5. CASE ~Beyond(count + 1)
    <3>1. Late' = Late
      BY <2>1, <2>2, <2>5 DEF Late, Beyond
    <3> QED BY <3>1, <2>1, <2>5 DEF CountInv, Beyond
  <2> QED BY <2>4, <2>5
<1>4. ASSUME NEW t \in Thread, Begin(t) \/ Ask(t) \/ Granted(t) \/ Refused(t) \/ Access(t)
                              \/ Undo(t) \/ Log(t)
      PROVE  CountInv'
  <2>1. /\ count' = count /\ pc[t] # "done" /\ pc'[t] # "done" /\ id' = id
        /\ \A u \in Thread \ {t} : pc'[u] = pc[u]
    BY <1>4 DEF Begin, Ask, Granted, Refused, Access, Undo, Log, local, Goto, LocalInv, Types
  <2>2. t \in Late' <=> t \in Late
    BY <2>1 DEF Late, Beyond
  <2> QED BY <1>2, <2>1, <2>2
<1>5. ASSUME NEW t \in Thread, Release(t) PROVE CountInv'
  <2>1. /\ count' = count /\ pc[t] = "release"
        /\ \A u \in Thread \ {t} : pc'[u] = pc[u] /\ id'[u] = id[u]
    BY <1>5 DEF Release, Goto, LocalInv, Types
  <2>2. t \in Late' <=> t \in Late
    <3>1. CASE pos[t] < size[t]
      BY <1>5, <2>1, <3>1 DEF Release, Goto, Late, Beyond, LocalInv, Types
    <3>2. CASE ~(pos[t] < size[t])
      <4>1. id[t] \in Nat /\ Last \in Nat
        BY Place, TrxAssumption
      <4>2. /\ id'[t] = IF Commits(t) THEN id[t] ELSE 0
            /\ pc'[t] = IF Commits(t) THEN "publish" ELSE IF id[t] = 0 THEN "begin" ELSE "done"
        BY <1>5, <3>2 DEF Release, Goto, LocalInv, Types
      <4> QED BY <2>1, <4>1, <4>2 DEF Late, Beyond, Commits
    <3> QED BY <3>1, <3>2
  <2> QED BY <1>2, <2>1, <2>2
<1>6. ASSUME NEW t \in Thread, Publish(t) PROVE CountInv'
  <2>1. /\ count' = count /\ pc[t] = "publish" /\ Commits(t) /\ pc'[t] = "begin" /\ id'[t] = 0
        /\ \A u \in Thread \ {t} : pc'[u] = pc[u] /\ id'[u] = id[u]
    BY <1>6, Place DEF Publish, AtPlace, Goto, LocalInv, Types
  <2>2. t \in Late' <=> t \in Late
    BY <2>1, TrxAssumption DEF Late, Beyond, Commits
  <2> QED BY <1>2, <2>1, <2>2
<1>7. CASE UNCHANGED vars
  BY <1>1, <1>7 DEF vars, local, Late, Beyond
<1> QED BY <1>3, <1>4, <1>5, <1>6, <1>7 DEF Next, Step, Done

\* At most one id is drawn by each thread beyond the last.
LEMMA CountBound ==
  ASSUME LocalInv, CountInv
  PROVE  count <= Last + Cardinality(Thread)
<1>1. Cardinality(Late) \in Nat /\ Cardinality(Late) <= Cardinality(Thread) /\ Cardinality(Thread) \in Nat
  BY FiniteThreads DEF Late
<1> QED BY <1>1, TrxAssumption DEF CountInv, LocalInv, Types

\* The numbers of threads are those of the files.
LEMMA NumberBound ==
  ASSUME LocalInv, NumberInv
  PROVE  /\ threadNumber \in 1 .. Cardinality(Thread) + 1
         /\ \A t \in Thread : number[t] \in 0 .. Cardinality(Thread)
<1>1. Cardinality(Numbered) \in Nat /\ Cardinality(Numbered) <= Cardinality(Thread)
      /\ Cardinality(Thread) \in Nat
  BY FiniteThreads DEF Numbered
<1> QED BY <1>1 DEF NumberInv, LocalInv, Types
-----------------------------------------------------------------------------
\* The files are empty at the start.
LEMMA FileInit == Init => FileInv
BY DEF Init, FileInv

\* A thread writes to a file of its own, and only what it has committed.
LEMMA FileStep == LocalInv /\ NumberInv /\ FileInv /\ [Next]_vars => FileInv'
<1> SUFFICES ASSUME LocalInv, NumberInv, FileInv, [Next]_vars PROVE FileInv'
  OBVIOUS
<1>1. CASE file' = file
  BY <1>1 DEF FileInv
<1>2. ASSUME NEW t \in Thread, Publish(t) PROVE FileInv'
  <2>1. Commits(t) /\ picks[t] \in Picks /\ id[t] \in Nat /\ queue[t] \in Seq(Word)
    BY <1>2, Place DEF Publish, AtPlace
  <2>2. [id |-> id[t], recs |-> picks[t], vals |-> queue[t]] \in Line
    BY <2>1, TrxAssumption DEF Line, Commits, Beyond
  <2>3. number[t] \in 1 .. Cardinality(Thread)
    <3>1. number[t] # 0
      BY <1>2 DEF Publish, NumberInv, Numbered
    <3>2. number[t] \in 0 .. Cardinality(Thread)
      BY NumberBound
    <3> QED BY <3>1, <3>2
  <2> DEFINE line == [id |-> id[t], recs |-> picks[t], vals |-> queue[t]]
  <2>4. file' = [file EXCEPT ![number[t]] = Append(file[number[t]], line)]
    BY <1>2, <2>3 DEF Publish, FileInv
  <2> HIDE DEF line
  <2>5. Append(file[number[t]], line) \in Seq(Line)
    BY <2>2, <2>3 DEF FileInv, line
  <2> QED BY <2>3, <2>4, <2>5 DEF FileInv
<1>3. file' = file \/ \E t \in Thread : Publish(t)
  BY DEF Next, Step, Done, vars, files, Begin, Ask, Granted, Refused, Access, Draw, Undo, Log,
         Release
<1> QED BY <1>1, <1>2, <1>3

-----------------------------------------------------------------------------
\* Two transactions own locks on one record only if both read it.
LEMMA Exclusion ==
  ASSUME LocalInv, LineInv, Locks!TypeOK, Locks!MutualExclusion,
         NEW t \in Thread, NEW u \in Thread, t # u,
         NEW m \in Owned(t), NEW n \in Owned(u), picks[t][m] = picks[u][n]
  PROVE  m = 1 /\ n = 1
<1> DEFINE r == picks[t][m]
<1>1. picks[t] \in Picks /\ picks[u] \in Picks /\ m \in 1 .. 3 /\ n \in 1 .. 3
  BY Place DEF Owned, Holding, AtPlace
<1>2. r \in Record /\ InUse(t, m) /\ InUse(u, n)
  BY <1>1, PickMode, HeldInUse DEF LineInv, Owned
<1>3. Locks!Compatible(mode[r][t], mode[r][u])
  BY <1>2 DEF InUse, Locks!MutualExclusion
<1>4. mode[r][t] = Mode(m) /\ mode[r][u] = Mode(n)
  BY DEF LineInv, InLine, Owned
<1> QED BY <1>1, <1>3, <1>4 DEF Mode, Locks!Compatible

\* At the start nothing is read or changed.
LEMMA ValueInit == Init => ValueInv
BY DEF Init, ValueInv, Changed, Touched, Owned, Holding, Committed

\* A step that changes neither a record nor what is committed.
LEMMA ValueSame ==
  ASSUME ValueInv, value' = value, serial' = serial,
         \A u \in Thread :
           /\ 1 \in Touched(u)' => 1 \in Touched(u) /\ found'[u] = found[u]
           /\ Changed(u)' = Changed(u)
           /\ Changed(u) # {} => found'[u] = found[u]
           /\ picks'[u] = picks[u] \/ Touched(u)' = {}
  PROVE  ValueInv'
<1>1. Committed' = Committed
  BY DEF Committed
<1>2. \A u \in Thread : \A n \in Changed(u) : n \in Touched(u)' /\ picks'[u] = picks[u]
  BY DEF Changed
<1>3. \A u \in Thread : 1 \in Touched(u)' => found'[u] = Committed'[picks'[u][1]]
  BY <1>1 DEF ValueInv
<1>4. \A u \in Thread : \A n \in Changed(u)' :
        value'[picks'[u][n]] = Add(Committed'[picks'[u][n]], Diff(n, found'[u]))
  BY <1>1, <1>2 DEF ValueInv
<1>5. \A r \in Record :
        (\A u \in Thread : \A n \in Changed(u)' : picks'[u][n] # r) => value'[r] = Committed'[r]
  BY <1>1, <1>2 DEF ValueInv
<1> QED BY <1>3, <1>4, <1>5 DEF ValueInv

\* A step of another thread leaves what a thread owns and has accessed.
LEMMA OthersTouch ==
  ASSUME NEW u \in Thread,
         pc'[u] = pc[u], picks'[u] = picks[u], pos'[u] = pos[u], size'[u] = size[u], id'[u] = id[u]
  PROVE  Holding(u)' = Holding(u) /\ Owned(u)' = Owned(u) /\ Touched(u)' = Touched(u)
         /\ Changed(u)' = Changed(u)
BY DEF Holding, Owned, Touched, Changed, Commits, Beyond
\* Nobody else owns the lock of a record that a thread changes, or has changed one
\* that it reads.
LEMMA Alone ==
  ASSUME LocalInv, LineInv, Locks!TypeOK, Locks!MutualExclusion,
         NEW t \in Thread, NEW n \in Owned(t), NEW u \in Thread \ {t}
  PROVE  /\ n # 1 => \A m \in Owned(u) : picks[u][m] # picks[t][n]
         /\ \A m \in Changed(u) : picks[u][m] # picks[t][n]
<1>1. \A m \in Changed(u) : m \in Owned(u) /\ m # 1
  BY DEF Changed, Touched
<1> QED BY <1>1, Exclusion

\* Reads stay committed, and records serial.
LEMMA ValueStep ==
  LocalInv /\ LineInv /\ Locks!TypeOK /\ Locks!MutualExclusion /\ ValueInv /\ [Next]_vars
    => ValueInv'
<1> SUFFICES ASSUME LocalInv, LineInv, Locks!TypeOK, Locks!MutualExclusion, ValueInv, [Next]_vars
             PROVE  ValueInv'
  OBVIOUS
<1>1. CASE UNCHANGED vars
  BY <1>1, OthersTouch, ValueSame DEF vars, local
<1>2. ASSUME NEW t \in Thread,
             Begin(t) \/ Ask(t) \/ Granted(t) \/ Refused(t) \/ Log(t) \/ Release(t) \/ Publish(t)
      PROVE  ValueInv'
  <2>1. /\ value' = value /\ serial' = serial
        /\ \A u \in Thread \ {t} : /\ pc'[u] = pc[u] /\ picks'[u] = picks[u] /\ pos'[u] = pos[u]
                                  /\ size'[u] = size[u] /\ id'[u] = id[u] /\ found'[u] = found[u]
    BY <1>2 DEF Begin, Ask, Granted, Refused, Log, Release, Publish, local, Goto, LocalInv, Types
  <2>2. /\ 1 \in Touched(t)' => 1 \in Touched(t) /\ found'[t] = found[t]
        /\ Changed(t)' = Changed(t)
        /\ Changed(t) # {} => found'[t] = found[t]
        /\ picks'[t] = picks[t] \/ Touched(t)' = {}
    <3>1. CASE Begin(t)
      <4>1. pc[t] = "begin" /\ pc'[t] = "ask" /\ size'[t] = 0
        BY <3>1 DEF Begin, Goto, LocalInv, Types
      <4> QED BY <4>1 DEF Changed, Touched, Owned, Holding
    <3>2. CASE Ask(t)
      <4>1. pc[t] = "ask" /\ size[t] \in 0 .. 2 /\ pos[t] = 1 /\ id[t] = 0
        BY <3>2, Place DEF Ask, AtPlace
      <4>2. /\ pc'[t] = "wait" /\ size'[t] = size[t] + 1 /\ pos' = pos /\ id' = id
            /\ picks' = picks /\ found' = found
        BY <3>2 DEF Ask, Goto, LocalInv, Types
      <4>3. Touched(t)' = Touched(t)
        BY <4>1, <4>2 DEF Touched, Owned, Holding
      <4> QED BY <4>2, <4>3 DEF Changed, Commits
    <3>3. CASE Granted(t)
      <4>1. /\ pc[t] = "wait" /\ pc'[t] = "access" /\ size' = size /\ pos' = pos /\ id' = id
            /\ picks' = picks /\ found' = found
        BY <3>3 DEF Granted, local, Goto, LocalInv, Types
      <4>2. Touched(t)' = Touched(t)
        BY <4>1 DEF Touched, Owned, Holding
      <4> QED BY <4>1, <4>2 DEF Changed, Commits
    <3>4. CASE Refused(t)
      <4>1. /\ pc[t] = "wait" /\ pc'[t] = "undo" /\ size' = size /\ pos' = pos /\ id' = id
            /\ picks' = picks /\ found' = found /\ id[t] = 0
        BY <3>4, Place DEF Refused, AtPlace, local, Goto, LocalInv, Types
      <4>2. Touched(t)' = Touched(t)
        BY <4>1 DEF Touched, Owned, Holding
      <4> QED BY <4>1, <4>2 DEF Changed, Commits
    <3>5. CASE Log(t)
      <4>1. /\ pc[t] = "log" /\ pc'[t] = "release" /\ size' = size /\ pos' = pos /\ id' = id
            /\ picks' = picks /\ found' = found /\ Commits(t) /\ Commits(t)'
        BY <3>5, Place DEF Log, AtPlace, local, Goto, LocalInv, Types, Commits
      <4>2. Touched(t)' = Touched(t)
        BY <4>1 DEF Touched, Owned, Holding, Commits
      <4> QED BY <4>1, <4>2 DEF Changed
    <3>6. CASE Release(t)
      <4>1. pc[t] = "release" /\ size[t] \in 1 .. 3 /\ pos[t] \in 1 .. size[t]
        BY <3>6, Place DEF Release, AtPlace
      <4>2. CASE pos[t] < size[t]
        <5>1. /\ pc'[t] = (IF Commits(t) THEN "log" ELSE "undo") /\ size' = size
              /\ pos'[t] = pos[t] + 1 /\ id' = id /\ picks' = picks /\ found' = found
              /\ Commits(t)' = Commits(t)
          BY <3>6, <4>2 DEF Release, Goto, LocalInv, Types, Commits
        <5>2. Touched(t)' = Touched(t) \ {pos[t]}
          <6>1. CASE Commits(t)
            <7>1. id[t] # 0 /\ Commits(t)'
              BY <5>1, <6>1 DEF Commits
            <7> QED BY <4>1, <5>1, <6>1, <7>1 DEF Touched, Owned, Holding
          <6>2. CASE ~Commits(t)
            BY <4>1, <5>1, <6>2 DEF Touched, Owned, Holding
          <6> QED BY <6>1, <6>2
        <5>3. ~Commits(t) => pos[t] \notin Touched(t)
          BY <4>1 DEF Touched
        <5> QED BY <5>1, <5>2, <5>3 DEF Changed
      <4>3. CASE ~(pos[t] < size[t])
        <5>1. pc'[t] \in {"begin", "publish", "done"}
          BY <3>6, <4>3 DEF Release, Goto, LocalInv, Types
        <5>2. Touched(t)' = {} /\ Changed(t)' = {}
          BY <5>1 DEF Touched, Owned, Holding, Changed
        <5>3. Changed(t) = {}
          BY <4>1, <4>3 DEF Changed, Touched, Owned, Holding
        <5> QED BY <5>2, <5>3
      <4> QED BY <4>2, <4>3
    <3>7. CASE Publish(t)
      <4>1. pc[t] = "publish" /\ pc'[t] = "begin"
        BY <3>7 DEF Publish, Goto, LocalInv, Types
      <4> QED BY <4>1 DEF Changed, Touched, Owned, Holding
    <3> QED BY <1>2, <3>1, <3>2, <3>3, <3>4, <3>5, <3>6, <3>7
  <2>3. \A u \in Thread \ {t} : Touched(u)' = Touched(u) /\ Changed(u)' = Changed(u)
    BY <2>1, OthersTouch
  <2> QED BY <2>1, <2>2, <2>3, ValueSame
<1>3. ASSUME NEW t \in Thread, Access(t) PROVE ValueInv'
  <2> DEFINE n == size[t]
             r == picks[t][n]
  <2>1. pc[t] = "access" /\ picks[t] \in Picks /\ n \in 1 .. 3 /\ pos[t] = 1 /\ id[t] = 0
    BY <1>3, Place DEF Access, AtPlace
  <2>2. /\ serial' = serial /\ picks' = picks /\ size' = size /\ pos' = pos /\ id' = id
        /\ pc'[t] = (IF n = 3 THEN "draw" ELSE "ask")
        /\ \A u \in Thread \ {t} : pc'[u] = pc[u] /\ found'[u] = found[u]
    BY <1>3 DEF Access, Goto, LocalInv, Types
  <2>3. Committed' = Committed
    BY <2>2 DEF Committed
  <2>4. \A u \in Thread \ {t} : Touched(u)' = Touched(u) /\ Changed(u)' = Changed(u)
    BY <2>2, OthersTouch
  <2>5. Owned(t) = 1 .. n /\ Touched(t) = 1 .. n - 1 /\ Touched(t)' = 1 .. n
    BY <2>1, <2>2 DEF Touched, Owned, Holding
  <2>6. ~Commits(t) /\ ~Commits(t)'
    BY <2>1, <2>2 DEF Commits
  <2>7. Changed(t) = 2 .. n - 1 /\ Changed(t)' = 2 .. n
    BY <2>1, <2>5, <2>6 DEF Changed
  <2>8. r \in Record /\ \A m \in 1 .. 3 : picks[t][m] = r => m = n
    BY <2>1, PickMode DEF Picks
  <2>9. \A u \in Thread \ {t} : \A m \in Changed(u) : picks[u][m] # r
    BY <2>1, <2>5, Alone
  <2>10. value[r] = Committed[r]
    BY <2>1, <2>7, <2>8, <2>9 DEF ValueInv
  <2>11. CASE n = 1
    <3>1. value' = value /\ found'[t] = value[r]
      BY <1>3, <2>11 DEF Access, LocalInv, Types
    <3>2. Changed(t) = {} /\ Changed(t)' = {}
      BY <2>7, <2>11
    <3>3. \A u \in Thread : 1 \in Touched(u)' => found'[u] = Committed'[picks'[u][1]]
      BY <3>1, <2>2, <2>3, <2>4, <2>10, <2>11 DEF ValueInv
    <3>4. \A u \in Thread : \A m \in Changed(u)' :
            value'[picks'[u][m]] = Add(Committed'[picks'[u][m]], Diff(m, found'[u]))
      BY <3>1, <3>2, <2>2, <2>3, <2>4 DEF ValueInv
    <3>5. \A q \in Record :
            (\A u \in Thread : \A m \in Changed(u)' : picks'[u][m] # q) => value'[q] = Committed'[q]
      BY <3>1, <3>2, <2>2, <2>3, <2>4 DEF ValueInv
    <3> QED BY <3>3, <3>4, <3>5 DEF ValueInv
  <2>12. CASE n # 1
    <3>1. found' = found /\ value' = [value EXCEPT ![r] = Add(value[r], Diff(n, found[t]))]
      BY <1>3, <2>12 DEF Access
    <3>2. /\ value'[r] = Add(Committed[r], Diff(n, found[t]))
          /\ \A q \in Record \ {r} : value'[q] = value[q]
      BY <3>1, <2>8, <2>10 DEF LocalInv, Types
    <3>3. \A u \in Thread : 1 \in Touched(u)' => found'[u] = Committed'[picks'[u][1]]
      BY <3>1, <2>1, <2>2, <2>3, <2>4, <2>5, <2>12 DEF ValueInv
    <3>4. ASSUME NEW u \in Thread, NEW m \in Changed(u)'
          PROVE  value'[picks'[u][m]] = Add(Committed'[picks'[u][m]], Diff(m, found'[u]))
      <4>1. CASE u = t /\ m = n
        BY <4>1, <3>1, <3>2, <2>2, <2>3
      <4>2. CASE ~(u = t /\ m = n)
        <5>1. m \in Changed(u)
          BY <4>2, <2>1, <2>4, <2>7, <3>4
        <5>2. picks[u] \in Picks /\ m \in 1 .. 3
          BY <5>1, Place DEF AtPlace, Changed, Touched, Owned, Holding
        <5>3. picks[u][m] \in Record \ {r}
          BY <4>2, <5>1, <5>2, <2>8, <2>9, PickMode
        <5> QED BY <5>1, <5>3, <3>1, <3>2, <2>2, <2>3 DEF ValueInv
      <4> QED BY <4>1, <4>2
    <3>5. ASSUME NEW q \in Record, \A u \in Thread : \A m \in Changed(u)' : picks'[u][m] # q
          PROVE  value'[q] = Committed'[q]
      <4>1. q # r
        BY <3>5, <2>1, <2>2, <2>7, <2>12
      <4>2. \A u \in Thread : Changed(u) \subseteq Changed(u)'
        BY <2>1, <2>4, <2>7
      <4> QED BY <4>1, <4>2, <3>2, <3>5, <2>2, <2>3 DEF ValueInv
    <3> QED BY <3>3, <3>4, <3>5 DEF ValueInv
  <2> QED BY <2>11, <2>12
<1>4. ASSUME NEW t \in Thread, Draw(t) PROVE ValueInv'
  <2> DEFINE p == picks[t]
  <2>1. pc[t] = "draw" /\ p \in Picks /\ size[t] = 3 /\ pos[t] = 1 /\ id[t] = 0 /\ count \in Nat
    BY <1>4, Place DEF Draw, AtPlace
  <2>2. /\ value' = value /\ picks' = picks /\ size' = size /\ pos' = pos /\ found' = found
        /\ id'[t] = count + 1
        /\ \A u \in Thread \ {t} : pc'[u] = pc[u] /\ id'[u] = id[u]
    BY <1>4 DEF Draw, Goto, LocalInv, Types
  <2>3. \A u \in Thread \ {t} : Touched(u)' = Touched(u) /\ Changed(u)' = Changed(u)
    BY <2>2, OthersTouch
  <2>4. Owned(t) = 1 .. 3 /\ Touched(t) = 1 .. 3 /\ ~Commits(t) /\ Changed(t) = 2 .. 3
    <3>1. Owned(t) = 1 .. 3 /\ Touched(t) = 1 .. 3
      BY <2>1 DEF Touched, Owned, Holding
    <3>2. ~Commits(t)
      BY <2>1 DEF Commits
    <3> QED BY <3>1, <3>2 DEF Changed
  <2>5. CASE Beyond(count + 1)
    <3>1. pc'[t] = "undo" /\ serial' = serial
      BY <1>4, <2>5 DEF Draw, Goto, LocalInv, Types
    <3>2. Touched(t)' = Touched(t) /\ ~Commits(t)'
      BY <2>1, <2>2, <2>4, <2>5, <3>1 DEF Touched, Owned, Holding, Commits
    <3>3. Changed(t)' = Changed(t)
      BY <2>4, <3>2 DEF Changed
    <3> QED BY <2>2, <2>3, <3>1, <3>2, <3>3, ValueSame
  <2>6. CASE ~Beyond(count + 1)
    <3>1. serial' = Append(serial, Apply(Committed, p))
      BY <1>4, <2>6 DEF Draw
    <3>2. Committed \in [Record -> Word]
      BY CommittedWord DEF LocalInv
    <3>3. Committed' = Apply(Committed, p)
      <4>1. serial \in Seq([Record -> Word]) /\ Apply(Committed, p) \in [Record -> Word]
        BY <2>1, <3>2, ApplyWord DEF LocalInv, SeqTypes
      <4> QED BY <3>1, <4>1 DEF Committed
    <3>4. /\ Committed'[p[2]] = Add(Committed[p[2]], Diff(2, Committed[p[1]]))
          /\ Committed'[p[3]] = Add(Committed[p[3]], Diff(3, Committed[p[1]]))
          /\ \A r \in Record \ {p[2], p[3]} : Committed'[r] = Committed[r]
      BY <2>1, <3>2, <3>3, ApplyWord
    <3>5. Commits(t)' /\ Changed(t)' = {}
      BY <2>1, <2>2, <2>6 DEF Commits, Changed
    <3>6. \A u \in Thread \ {t} : \A m \in Owned(u) :
            picks[u][m] # p[2] /\ picks[u][m] # p[3] /\ picks[u][m] \in Record
      <4> SUFFICES ASSUME NEW u \in Thread \ {t}, NEW m \in Owned(u)
                   PROVE  picks[u][m] # p[2] /\ picks[u][m] # p[3] /\ picks[u][m] \in Record
        OBVIOUS
      <4>1. 2 \in Owned(t) /\ 3 \in Owned(t)
        BY <2>4
      <4>2. picks[u] \in Picks /\ m \in 1 .. 3
        BY Place DEF AtPlace, Owned, Holding
      <4>3. picks[u][m] # p[2] /\ picks[u][m] # p[3]
        BY <4>1, Alone
      <4> QED BY <4>2, <4>3, PickMode
    <3>7. ASSUME NEW u \in Thread, 1 \in Touched(u)' PROVE found'[u] = Committed'[picks'[u][1]]
      <4>1. 1 \in Touched(u) /\ found[u] = Committed[picks[u][1]]
        BY <3>7, <2>3, <2>4 DEF ValueInv
      <4>2. picks[u][1] \in Record \ {p[2], p[3]}
        <5>1. CASE u = t
          BY <5>1, <2>1, PickMode DEF Picks
        <5>2. CASE u # t
          BY <5>2, <4>1, <3>6 DEF Touched
        <5> QED BY <5>1, <5>2
      <4> QED BY <4>1, <4>2, <3>4, <2>2
    <3>8. ASSUME NEW u \in Thread, NEW m \in Changed(u)'
          PROVE  value'[picks'[u][m]] = Add(Committed'[picks'[u][m]], Diff(m, found'[u]))
      <4>1. u # t /\ m \in Changed(u)
        BY <3>5, <3>8, <2>3
      <4>2. picks[u][m] \in Record \ {p[2], p[3]}
        BY <4>1, <3>6 DEF Changed, Touched
      <4> QED BY <4>1, <4>2, <3>4, <2>2 DEF ValueInv
    <3>9. ASSUME NEW r \in Record, \A u \in Thread : \A m \in Changed(u)' : picks'[u][m] # r
          PROVE  value'[r] = Committed'[r]
      <4>1. found[t] = Committed[p[1]]
        BY <2>4 DEF ValueInv
      <4>2. CASE r = p[2] \/ r = p[3]
        BY <4>1, <4>2, <2>2, <2>4, <3>4 DEF ValueInv
      <4>3. CASE r # p[2] /\ r # p[3]
        <5>1. \A u \in Thread : \A m \in Changed(u) : picks[u][m] # r
          <6> SUFFICES ASSUME NEW u \in Thread, NEW m \in Changed(u) PROVE picks[u][m] # r
            OBVIOUS
          <6>1. CASE u = t
            <7>1. m = 2 \/ m = 3
              BY <6>1, <2>4
            <7> QED BY <6>1, <7>1, <4>3
          <6>2. CASE u # t
            BY <6>2, <3>9, <2>2, <2>3
          <6> QED BY <6>1, <6>2
        <5> QED BY <5>1, <4>3, <2>2, <3>4 DEF ValueInv
      <4> QED BY <4>2, <4>3
    <3> QED BY <3>7, <3>8, <3>9 DEF ValueInv
  <2> QED BY <2>5, <2>6
<1>5. ASSUME NEW t \in Thread, Undo(t) PROVE ValueInv'
  <2> DEFINE n == pos[t]
             r == picks[t][n]
  <2>1. pc[t] = "undo" /\ picks[t] \in Picks /\ size[t] \in 1 .. 3 /\ n \in 1 .. size[t] /\ ~Commits(t)
    BY <1>5, Place DEF Undo, AtPlace
  <2>2. /\ serial' = serial /\ picks' = picks /\ size' = size /\ pos' = pos /\ id' = id
        /\ found' = found /\ pc'[t] = "release" /\ Commits(t)' = Commits(t)
        /\ \A u \in Thread \ {t} : pc'[u] = pc[u]
    BY <1>5 DEF Undo, local, Goto, LocalInv, Types, Commits
  <2>3. Committed' = Committed
    BY <2>2 DEF Committed
  <2>4. \A u \in Thread \ {t} : Touched(u)' = Touched(u) /\ Changed(u)' = Changed(u)
    BY <2>2, OthersTouch
  <2>5. Touched(t) = Holding(t) /\ Owned(t) = Holding(t) /\ Touched(t)' = Touched(t) \ {n}
    BY <2>1, <2>2 DEF Touched, Owned, Holding
  <2>6. Changed(t)' = Changed(t) \ {n}
    BY <2>1, <2>2, <2>5 DEF Changed
  <2>7. InUse(t, n) <=> n \in Holding(t)
    BY <2>1, HeldInUse DEF LineInv
  <2>8. CASE n # 1 /\ n \in Holding(t)
    <3>1. r \in Record /\ \A m \in 1 .. 3 : picks[t][m] = r => m = n
      BY <2>1, PickMode DEF Picks
    <3>2. value' = [value EXCEPT ![r] = Subtract(value[r], Diff(n, found[t]))]
      BY <1>5, <2>7, <2>8 DEF Undo, Mode
    <3>3. n \in Changed(t) /\ n \in 2 .. 3
      BY <2>1, <2>5, <2>8 DEF Changed
    <3>4. value[r] = Add(Committed[r], Diff(n, found[t]))
      BY <3>3 DEF ValueInv
    <3>5. Committed[r] \in Word /\ Diff(n, found[t]) \in Word
      BY <3>1, <3>3, CommittedWord, DiffWord, Place DEF LocalInv
    <3>6. Subtract(Add(Committed[r], Diff(n, found[t])), Diff(n, found[t])) = Committed[r]
      BY <3>5, AddSubtract
    <3>7. value'[r] = Committed[r] /\ \A q \in Record \ {r} : value'[q] = value[q]
      BY <3>1, <3>2, <3>4, <3>6 DEF LocalInv, Types
    <3>8. \A u \in Thread \ {t} : \A m \in Changed(u) : picks[u][m] # r
      BY <2>5, <2>8, Alone
    <3>9. \A u \in Thread : 1 \in Touched(u)' => found'[u] = Committed'[picks'[u][1]]
      BY <2>2, <2>3, <2>4, <2>5 DEF ValueInv
    <3>10. ASSUME NEW u \in Thread, NEW m \in Changed(u)'
           PROVE  value'[picks'[u][m]] = Add(Committed'[picks'[u][m]], Diff(m, found'[u]))
      <4>1. m \in Changed(u) /\ (u = t => m # n)
        BY <3>10, <2>4, <2>6
      <4>2. picks[u] \in Picks /\ m \in 1 .. 3
        BY <4>1, Place DEF AtPlace, Changed, Touched, Owned, Holding
      <4>3. picks[u][m] \in Record \ {r}
        BY <4>1, <4>2, <3>1, <3>8, PickMode
      <4> QED BY <4>1, <4>3, <3>7, <2>2, <2>3 DEF ValueInv
    <3>11. ASSUME NEW q \in Record, \A u \in Thread : \A m \in Changed(u)' : picks'[u][m] # q
           PROVE  value'[q] = Committed'[q]
      <4>1. CASE q = r
        BY <4>1, <3>7, <2>3
      <4>2. CASE q # r
        <5>1. \A u \in Thread : \A m \in Changed(u) : picks[u][m] # q
          BY <4>2, <3>11, <2>2, <2>4, <2>6
        <5> QED BY <4>2, <5>1, <3>7, <2>3 DEF ValueInv
      <4> QED BY <4>1, <4>2
    <3> QED BY <3>9, <3>10, <3>11 DEF ValueInv
  <2>9. CASE ~(n # 1 /\ n \in Holding(t))
    <3>1. value' = value
      BY <1>5, <2>7, <2>9 DEF Undo, Mode
    <3>2. Changed(t)' = Changed(t)
      BY <2>5, <2>6, <2>9 DEF Changed
    <3> QED BY <3>1, <3>2, <2>2, <2>4, <2>5, ValueSame
  <2> QED BY <2>8, <2>9
<1>6. CASE Done
  BY <1>1, <1>6 DEF Done
<1> QED BY <1>1, <1>2, <1>3, <1>4, <1>5, <1>6 DEF Next, Step

-----------------------------------------------------------------------------
\* The id of a transaction that commits is that of an entry of the history.
LEMMA CommitId ==
  ASSUME LocalInv, NEW t \in Thread, Commits(t)
  PROVE  id[t] \in DOMAIN serial /\ id[t] \in 1 .. Len(serial) /\ picks[t] \in Picks
<1>1. id[t] \in Nat /\ count \in Nat /\ id[t] <= count /\ Last \in Nat
  BY Place, TrxAssumption DEF AtPlace
<1>2. id[t] \in 1 .. Len(serial)
  BY <1>1 DEF Commits, Beyond, LocalInv, SeqTypes
<1>3. picks[t] \in Picks
  BY Place DEF AtPlace, Commits
<1> QED BY <1>2, <1>3 DEF LocalInv, SeqTypes

\* A record on which a transaction that commits owns a lock has its committed value.
LEMMA OwnedCommitted ==
  ASSUME LocalInv, LineInv, Locks!TypeOK, Locks!MutualExclusion, ValueInv,
         NEW t \in Thread, NEW n \in Owned(t), Commits(t)
  PROVE  value[picks[t][n]] = Committed[picks[t][n]]
<1>1. picks[t][n] \in Record
  BY CommitId, PickMode DEF Owned, Holding
<1>2. Changed(t) = {}
  BY DEF Changed
<1>3. \A u \in Thread : \A m \in Changed(u) : picks[u][m] # picks[t][n]
  BY <1>2, Alone
<1> QED BY <1>1, <1>3 DEF ValueInv

\* At the start nothing is noted.
LEMMA LogInit == Init => LogInv
BY DEF Init, LogInv, Commits

\* The notes of a thread stay right while others commit.
LEMMA OthersLog ==
  ASSUME LogInv, LocalInv, NEW u \in Thread,
         pc'[u] = pc[u], picks'[u] = picks[u], pos'[u] = pos[u], size'[u] = size[u], id'[u] = id[u],
         queue'[u] = queue[u],
         Commits(u) => serial'[id[u]] = serial[id[u]]
                         /\ \A n \in Owned(u) : Committed'[picks[u][n]] = Committed[picks[u][n]]
  PROVE  IF Commits(u)'
           THEN /\ queue'[u] = [n \in 1 .. Noted(u)' |-> serial'[id'[u]][picks'[u][n]]]
                /\ \A n \in Owned(u)' : Committed'[picks'[u][n]] = serial'[id'[u]][picks'[u][n]]
           ELSE queue'[u] = << >>
<1>1. (Commits(u)' <=> Commits(u)) /\ Noted(u)' = Noted(u) /\ Owned(u)' = Owned(u)
  BY OthersTouch DEF Commits, Beyond, Noted
<1>2. CASE Commits(u)
  <2>1. /\ queue[u] = [n \in 1 .. Noted(u) |-> serial[id[u]][picks[u][n]]]
        /\ \A n \in Owned(u) : Committed[picks[u][n]] = serial[id[u]][picks[u][n]]
    BY <1>2 DEF LogInv
  <2>2. [n \in 1 .. Noted(u)' |-> serial'[id'[u]][picks'[u][n]]]
          = [n \in 1 .. Noted(u) |-> serial[id[u]][picks[u][n]]]
    BY <1>1, <1>2
  <2> QED BY <1>1, <1>2, <2>1, <2>2
<1>3. CASE ~Commits(u)
  BY <1>1, <1>3 DEF LogInv
<1> QED BY <1>2, <1>3

\* What Commit() notes is what the records were after that commit.
LEMMA LogStep ==
  LocalInv /\ LineInv /\ Locks!TypeOK /\ Locks!MutualExclusion /\ ValueInv /\ LogInv /\ [Next]_vars
    => LogInv'
<1> SUFFICES ASSUME LocalInv, LineInv, Locks!TypeOK, Locks!MutualExclusion, ValueInv, LogInv,
                    [Next]_vars
             PROVE  LogInv'
  OBVIOUS
<1> DEFINE Good(u) ==
      IF Commits(u)'
        THEN /\ queue'[u] = [n \in 1 .. Noted(u)' |-> serial'[id'[u]][picks'[u][n]]]
             /\ \A n \in Owned(u)' : Committed'[picks'[u][n]] = serial'[id'[u]][picks'[u][n]]
        ELSE queue'[u] = << >>
<1>1. (\A u \in Thread : Good(u)) => LogInv'
  BY DEF LogInv
<1>2. serial' = serial => Committed' = Committed
  BY DEF Committed
<1>3. ASSUME serial' = serial, NEW u \in Thread,
             pc'[u] = pc[u], picks'[u] = picks[u], pos'[u] = pos[u], size'[u] = size[u],
             id'[u] = id[u], queue'[u] = queue[u]
      PROVE  Good(u)
  BY <1>2, <1>3, OthersLog
<1> HIDE DEF Good
<1>4. CASE UNCHANGED vars
  BY <1>1, <1>3, <1>4 DEF vars, local
<1>5. ASSUME NEW t \in Thread,
             Begin(t) \/ Ask(t) \/ Granted(t) \/ Refused(t) \/ Access(t) \/ Undo(t)
      PROVE  LogInv'
  <2>1. /\ serial' = serial /\ id' = id /\ queue' = queue
        /\ \A u \in Thread \ {t} : /\ pc'[u] = pc[u] /\ picks'[u] = picks[u] /\ pos'[u] = pos[u]
                                  /\ size'[u] = size[u]
    BY <1>5 DEF Begin, Ask, Granted, Refused, Access, Undo, local, Goto, LocalInv, Types
  <2>2. ~Commits(t)
    BY <1>5, Place DEF Begin, Ask, Granted, Refused, Access, Undo, AtPlace, Commits
  <2>3. Good(t)
    BY <2>1, <2>2 DEF Good, LogInv, Commits
  <2> QED BY <1>1, <1>3, <2>1, <2>3
<1>6. ASSUME NEW t \in Thread, Draw(t) PROVE LogInv'
  <2> DEFINE p == picks[t]
  <2>1. pc[t] = "draw" /\ p \in Picks /\ size[t] = 3 /\ pos[t] = 1 /\ id[t] = 0 /\ count \in Nat
    BY <1>6, Place DEF Draw, AtPlace
  <2>2. /\ picks' = picks /\ size' = size /\ pos' = pos /\ queue' = queue
        /\ id'[t] = count + 1
        /\ \A u \in Thread \ {t} : pc'[u] = pc[u] /\ id'[u] = id[u]
    BY <1>6 DEF Draw, Goto, LocalInv, Types
  <2>3. queue[t] = << >>
    BY <2>1 DEF LogInv, Commits
  <2>4. CASE Beyond(count + 1)
    <3>1. serial' = serial /\ ~Commits(t)'
      BY <1>6, <2>2, <2>4 DEF Draw, Commits
    <3>2. Good(t)
      BY <2>2, <2>3, <3>1 DEF Good
    <3> QED BY <1>1, <1>3, <2>2, <3>1, <3>2
  <2>5. CASE ~Beyond(count + 1)
    <3>1. serial' = Append(serial, Apply(Committed, p)) /\ pc'[t] = "log"
      BY <1>6, <2>5 DEF Draw, Goto, LocalInv, Types
    <3>2. Committed \in [Record -> Word] /\ Apply(Committed, p) \in [Record -> Word]
      BY <2>1, CommittedWord, ApplyWord DEF LocalInv
    <3>3. /\ serial \in Seq([Record -> Word]) /\ Len(serial) = count
          /\ Len(serial') = count + 1 /\ serial'[count + 1] = Apply(Committed, p)
          /\ \A x \in 1 .. Len(serial) : serial'[x] = serial[x]
          /\ Committed' = Apply(Committed, p)
      <4>1. serial \in Seq([Record -> Word]) /\ Len(serial) = count
        BY <2>1, <2>5, TrxAssumption DEF LocalInv, SeqTypes, Beyond
      <4> QED BY <4>1, <3>1, <3>2 DEF Committed
    <3>4. Good(t)
      <4>1. Commits(t)' /\ Noted(t)' = 0
        BY <2>1, <2>2, <2>5, <3>1 DEF Commits, Noted
      <4>2. \A n \in Owned(t)' : Committed'[picks'[t][n]] = serial'[id'[t]][picks'[t][n]]
        BY <2>2, <3>3
      <4>3. queue'[t] = [n \in 1 .. 0 |-> serial'[id'[t]][picks'[t][n]]]
        BY <2>2, <2>3
      <4> QED BY <4>1, <4>2, <4>3 DEF Good
    <3>5. ASSUME NEW u \in Thread, u # t PROVE Good(u)
      <4>1. Commits(u) => serial'[id[u]] = serial[id[u]]
        BY <3>3, CommitId
      <4>2. ASSUME NEW n \in Owned(u), Commits(u) PROVE Committed'[picks[u][n]] = Committed[picks[u][n]]
        <5>1. 2 \in Owned(t) /\ 3 \in Owned(t)
          BY <2>1 DEF Owned, Holding
        <5>2. picks[u][n] # p[2] /\ picks[u][n] # p[3]
          BY <5>1, <3>5, Alone
        <5>3. picks[u][n] \in Record
          BY <4>2, CommitId, PickMode DEF Owned, Holding
        <5> QED BY <5>2, <5>3, <2>1, <3>2, <3>3, ApplyWord
      <4> QED BY <4>1, <4>2, <2>2, <3>5, OthersLog DEF Good
    <3> QED BY <1>1, <3>4, <3>5
  <2> QED BY <2>4, <2>5
<1>7. ASSUME NEW t \in Thread, Log(t) PROVE LogInv'
  <2>1. /\ pc[t] = "log" /\ Commits(t) /\ pos[t] \in 1 .. size[t] /\ size[t] \in 1 .. 3
    BY <1>7, Place DEF Log, AtPlace
  <2>2. /\ serial' = serial /\ picks' = picks /\ size' = size /\ pos' = pos /\ id' = id
        /\ pc'[t] = "release" /\ queue'[t] = Append(queue[t], value[picks[t][pos[t]]])
        /\ \A u \in Thread \ {t} : pc'[u] = pc[u] /\ queue'[u] = queue[u]
    BY <1>7 DEF Log, Goto, LocalInv, Types, SeqTypes
  <2>3. Owned(t) = pos[t] .. size[t] /\ Owned(t)' = Owned(t)
    BY <2>1, <2>2 DEF Owned, Holding, Commits
  <2>4. value[picks[t][pos[t]]] = serial[id[t]][picks[t][pos[t]]]
    <3>1. pos[t] \in Owned(t)
      BY <2>1, <2>3
    <3>2. value[picks[t][pos[t]]] = Committed[picks[t][pos[t]]]
      BY <2>1, <3>1, OwnedCommitted
    <3> QED BY <2>1, <3>1, <3>2 DEF LogInv
  <2> DEFINE f == [n \in 1 .. pos[t] - 1 |-> serial[id[t]][picks[t][n]]]
             g == [n \in 1 .. pos[t] |-> serial[id[t]][picks[t][n]]]
  <2>5. queue[t] = f
    BY <2>1 DEF LogInv, Noted
  <2>6. Append(f, serial[id[t]][picks[t][pos[t]]]) = g
    <3>1. queue[t] \in Seq(Word)
      BY Place
    <3>2. f \in Seq(Word)
      BY <3>1, <2>5
    <3>3. Len(f) = pos[t] - 1
      BY <2>1
    <3> QED BY <2>1, <3>2, <3>3
  <2>7. Commits(t)' /\ Noted(t)' = pos[t]
    BY <2>1, <2>2 DEF Commits, Noted
  <2>8. \A n \in Owned(t)' : Committed'[picks'[t][n]] = serial'[id'[t]][picks'[t][n]]
    BY <1>2, <2>1, <2>2, <2>3 DEF LogInv
  <2>9. Good(t)
    BY <2>2, <2>4, <2>5, <2>6, <2>7, <2>8 DEF Good
  <2> QED BY <1>1, <1>3, <2>2, <2>9
<1>8. ASSUME NEW t \in Thread, Release(t) PROVE LogInv'
  <2>1. pc[t] = "release" /\ pos[t] \in 1 .. size[t] /\ size[t] \in 1 .. 3
        /\ (id[t] # 0 => size[t] = 3)
    BY <1>8, Place DEF Release, AtPlace
  <2>2. /\ serial' = serial /\ size' = size /\ queue' = queue
        /\ \A u \in Thread \ {t} : pc'[u] = pc[u] /\ picks'[u] = picks[u] /\ pos'[u] = pos[u]
                                  /\ id'[u] = id[u]
    BY <1>8 DEF Release, Goto, LocalInv, Types
  <2>3. CASE ~Commits(t)
    <3>1. ~Commits(t)'
      BY <1>8, <2>3 DEF Release, Commits, LocalInv, Types
    <3> QED BY <1>1, <1>3, <2>2, <2>3, <3>1 DEF Good, LogInv
  <2>4. CASE Commits(t)
    <3>1. id'[t] = id[t] /\ picks'[t] = picks[t] /\ Commits(t)'
      BY <1>8, <2>4 DEF Release, LocalInv, Types, Commits
    <3>2. Noted(t)' = Noted(t) /\ Owned(t)' \subseteq Owned(t)
      <4>1. CASE pos[t] < size[t]
        <5>1. pc'[t] = "log" /\ pos'[t] = pos[t] + 1
          BY <1>8, <2>4, <4>1 DEF Release, Goto, LocalInv, Types
        <5>2. Noted(t)' = Noted(t)
          BY <2>1, <5>1 DEF Noted
        <5>3. id[t] # 0
          BY <2>4 DEF Commits
        <5> QED BY <2>1, <2>2, <5>1, <5>2, <5>3, <3>1 DEF Owned, Holding
      <4>2. CASE ~(pos[t] < size[t])
        <5>1. pc'[t] = "publish" /\ pos[t] = 3
          BY <1>8, <2>1, <2>4, <4>2 DEF Release, Goto, LocalInv, Types, Commits
        <5> QED BY <2>1, <5>1 DEF Noted, Owned, Holding
      <4> QED BY <4>1, <4>2
    <3>3. Good(t)
      BY <1>2, <2>2, <2>4, <3>1, <3>2 DEF Good, LogInv
    <3> QED BY <1>1, <1>3, <2>2, <3>3
  <2> QED BY <2>3, <2>4
<1>9. ASSUME NEW t \in Thread, Publish(t) PROVE LogInv'
  <2>1. /\ serial' = serial /\ size' = size /\ pos' = pos /\ queue'[t] = << >> /\ ~Commits(t)'
        /\ \A u \in Thread \ {t} : pc'[u] = pc[u] /\ picks'[u] = picks[u] /\ id'[u] = id[u]
                                  /\ queue'[u] = queue[u]
    BY <1>9 DEF Publish, Goto, LocalInv, Types, SeqTypes, Commits
  <2>2. Good(t)
    BY <2>1 DEF Good
  <2> QED BY <1>1, <1>3, <2>1, <2>2
<1>10. CASE Done
  BY <1>4, <1>10 DEF Done
<1> QED BY <1>4, <1>5, <1>6, <1>7, <1>8, <1>9, <1>10 DEF Next, Step

-----------------------------------------------------------------------------
\* There are no lines at the start.
LEMMA LinesInit == Init => LinesSerial
<1> SUFFICES ASSUME Init, NEW n \in 1 .. Cardinality(Thread) PROVE file[n] = << >>
  BY DEF Init, LinesSerial
<1> QED BY DEF Init

\* A line is written once, from the values noted; the history only grows.
LEMMA LinesStep ==
  LocalInv /\ NumberInv /\ FileInv /\ LogInv /\ LinesSerial /\ [Next]_vars => LinesSerial'
<1> SUFFICES ASSUME LocalInv, NumberInv, FileInv, LogInv, LinesSerial, [Next]_vars
             PROVE  LinesSerial'
  OBVIOUS
<1> DEFINE Right(line) ==
      line.id \in DOMAIN serial /\ line.vals = [m \in 1 .. 3 |-> serial[line.id][line.recs[m]]]
<1>1. \A n \in DOMAIN file : \A x \in DOMAIN file[n] : Right(file[n][x])
  BY DEF LinesSerial
<1>2. CASE file' = file /\ serial' = serial
  BY <1>1, <1>2 DEF LinesSerial
<1>3. ASSUME NEW t \in Thread, Draw(t) PROVE LinesSerial'
  <2>1. file' = file
    BY <1>3 DEF Draw, files
  <2>2. \A x \in DOMAIN serial : x \in DOMAIN serial' /\ serial'[x] = serial[x]
    <3>1. serial \in Seq([Record -> Word])
      BY DEF LocalInv, SeqTypes
    <3>2. serial' = serial \/ serial' = Append(serial, Apply(Committed, picks[t]))
      BY <1>3 DEF Draw
    <3> QED BY <3>1, <3>2
  <2>3. ASSUME NEW n \in DOMAIN file, NEW x \in DOMAIN file[n]
        PROVE  /\ file[n][x].id \in DOMAIN serial'
               /\ file[n][x].vals = [m \in 1 .. 3 |-> serial'[file[n][x].id][file[n][x].recs[m]]]
    <3> DEFINE line == file[n][x]
    <3>1. Right(line)
      BY <1>1
    <3> HIDE DEF line
    <3>2. line.id \in DOMAIN serial' /\ serial'[line.id] = serial[line.id]
      BY <3>1, <2>2
    <3>3. line.vals = [m \in 1 .. 3 |-> serial'[line.id][line.recs[m]]]
      BY <3>1, <3>2
    <3> QED BY <3>2, <3>3 DEF line
  <2> QED BY <2>1, <2>3 DEF LinesSerial
<1>4. ASSUME NEW t \in Thread, Publish(t) PROVE LinesSerial'
  <2> DEFINE line == [id |-> id[t], recs |-> picks[t], vals |-> queue[t]]
  <2>1. pc[t] = "publish" /\ Commits(t) /\ serial' = serial
    BY <1>4, Place DEF Publish, AtPlace
  <2>2. Right(line)
    <3>1. id[t] \in DOMAIN serial
      BY <2>1, CommitId
    <3>2. queue[t] = [m \in 1 .. 3 |-> serial[id[t]][picks[t][m]]]
      BY <2>1 DEF LogInv, Noted
    <3> QED BY <3>1, <3>2
  <2>3. number[t] \in 1 .. Cardinality(Thread)
    <3>1. number[t] # 0
      BY <2>1 DEF NumberInv, Numbered
    <3>2. number[t] \in 0 .. Cardinality(Thread)
      BY NumberBound
    <3> QED BY <3>1, <3>2
  <2>4. file' = [file EXCEPT ![number[t]] = Append(file[number[t]], line)]
    BY <1>4, <2>3 DEF Publish, FileInv
  <2>5. /\ file[number[t]] \in Seq(Line)
        /\ DOMAIN file' = DOMAIN file /\ file'[number[t]] = Append(file[number[t]], line)
        /\ \A n \in DOMAIN file \ {number[t]} : file'[n] = file[n]
    BY <2>3, <2>4 DEF FileInv
  <2> HIDE DEF line, Right
  <2>6. ASSUME NEW n \in DOMAIN file', NEW x \in DOMAIN file'[n] PROVE Right(file'[n][x])
    <3>1. CASE n = number[t]
      <4>1. DOMAIN file'[n] = 1 .. Len(file[n]) + 1 /\ DOMAIN file[n] = 1 .. Len(file[n])
            /\ Len(file[n]) \in Nat
        BY <3>1, <2>5
      <4>2. CASE x = Len(file[n]) + 1
        BY <4>2, <3>1, <2>2, <2>5
      <4>3. CASE x # Len(file[n]) + 1
        <5>1. x \in DOMAIN file[n] /\ file'[n][x] = file[n][x]
          BY <4>1, <4>3, <3>1, <2>5
        <5> QED BY <5>1, <1>1, <2>5
      <4> QED BY <4>2, <4>3
    <3>2. CASE n # number[t]
      BY <3>2, <2>5, <2>6, <1>1
    <3> QED BY <3>1, <3>2
  <2> QED BY <2>1, <2>6 DEF LinesSerial, Right
<1>5. (file' = file /\ serial' = serial) \/ \E t \in Thread : Draw(t) \/ Publish(t)
  BY DEF Next, Step, Done, vars, files, Begin, Ask, Granted, Refused, Access, Undo, Log, Release
<1> QED BY <1>2, <1>3, <1>4, <1>5

-----------------------------------------------------------------------------
\* The inductive invariant of the transactions.
IInv ==
  /\ LocalInv /\ Locks!IInv /\ LineInv
  /\ NumberInv /\ CountInv /\ FileInv
  /\ ValueInv /\ LogInv /\ LinesSerial

\* What the invariant of the lock table means to the transactions.
LEMMA LocksTrue == Locks!IInv => Locks!TypeOK /\ Locks!MutualExclusion
BY HoldersCompatible DEF Locks!IInv

\* The invariant holds at the start.
LEMMA IInvInit == Init => IInv
BY LocalInit, LockInit, LineInit, NumberInit, CountInit, FileInit, ValueInit, LogInit, LinesInit
   DEF IInv

\* Every step keeps it.
LEMMA IInvStep == IInv /\ [Next]_vars => IInv'
<1> SUFFICES ASSUME IInv, [Next]_vars PROVE IInv'
  OBVIOUS
<1>1. Locks!TypeOK /\ Locks!MutualExclusion
  BY LocksTrue DEF IInv
<1>2. LocalInv' /\ Locks!IInv' /\ LineInv'
  BY <1>1, LocalStep, LockInvStep, LineStep DEF IInv
<1>3. NumberInv' /\ CountInv' /\ FileInv'
  BY NumberStep, CountStep, FileStep DEF IInv
<1>4. ValueInv' /\ LogInv' /\ LinesSerial'
  BY <1>1, ValueStep, LogStep, LinesStep DEF IInv
<1> QED BY <1>2, <1>3, <1>4 DEF IInv

\* So it holds always.
LEMMA Invariant == Spec => []IInv
<1>1. Init => IInv
  BY IInvInit
<1>2. IInv /\ [Next]_vars => IInv'
  BY IInvStep
<1> QED BY <1>1, <1>2, PTL DEF Spec

\* The invariant implies the type invariant, with the bounds counted.
LEMMA TypesTrue == IInv => TypeOK
<1> SUFFICES ASSUME IInv PROVE TypeOK
  OBVIOUS
<1>1. Locks!TypeOK
  BY LocksTrue DEF IInv
<1>2. count \in 0 .. Last + Cardinality(Thread)
  <2>1. Last + Cardinality(Thread) \in Nat
    BY TrxAssumption, FiniteThreads
  <2> QED BY <2>1, CountBound DEF IInv, LocalInv, Types
<1>3. id \in [Thread -> 0 .. Last + Cardinality(Thread)]
  <2>1. \A t \in Thread : id[t] \in 0 .. Last + Cardinality(Thread)
    <3> SUFFICES ASSUME NEW t \in Thread PROVE id[t] \in 0 .. Last + Cardinality(Thread)
      OBVIOUS
    <3>1. id[t] \in Nat /\ id[t] <= count
      BY Place DEF IInv, AtPlace
    <3>2. Last + Cardinality(Thread) \in Nat
      BY TrxAssumption, FiniteThreads
    <3> QED BY <1>2, <3>1, <3>2
  <2> QED BY <2>1 DEF IInv, LocalInv, Types
<1>4. /\ threadNumber \in 1 .. Cardinality(Thread) + 1
      /\ number \in [Thread -> 0 .. Cardinality(Thread)]
  BY NumberBound DEF IInv, LocalInv, Types
<1>5. queue \in [Thread -> Seq(Word)] /\ serial \in Seq([Record -> Word])
      /\ file \in [1 .. Cardinality(Thread) -> Seq(Line)]
  BY DEF IInv, LocalInv, SeqTypes, FileInv
<1>6. Types
  BY DEF IInv, LocalInv
<1> QED BY <1>1, <1>2, <1>3, <1>4, <1>5, <1>6 DEF TypeOK, Types, Places

\* A record is accessed when the locals of the thread say so.
LEMMA AccessedTouched ==
  ASSUME LocalInv, LineInv, Locks!TypeOK, NEW t \in Thread, NEW n \in 1 .. 3
  PROVE  Accessed(t, n) <=> n \in Touched(t)
<1>1. size[t] \in 0 .. 3
  BY Place
<1>2. CASE pc[t] \in {"begin", "done"}
  BY <1>2 DEF Accessed, Touched, Owned, Holding
<1>3. CASE pc[t] \notin {"begin", "done"}
  <2>1. picks[t] \in Picks
    BY <1>3, Place DEF AtPlace
  <2>2. InUse(t, n) <=> n \in Owned(t)
    BY <2>1, HeldInUse DEF LineInv, Owned
  <2>3. n \in Owned(t) => n < size[t] \/ n = size[t]
    BY <1>1 DEF Owned, Holding
  <2> QED BY <1>1, <1>3, <2>2, <2>3 DEF Accessed, Touched
<1> QED BY <1>2, <1>3

\* The invariant implies that reads are of committed values.
LEMMA ReadsTrue == IInv => ReadsCommitted
<1>1. IInv => Locks!TypeOK
  BY LocksTrue DEF IInv
<1> QED BY <1>1, AccessedTouched DEF IInv, ReadsCommitted, ValueInv

\* The invariant implies that at most one uncommitted change is in a record.
LEMMA ValuesTrue == IInv => ValuesSerial
<1> SUFFICES ASSUME IInv, NEW r \in Record
             PROVE  \/ value[r] = Committed[r] /\ ~\E t \in Thread : Pending(t, r)
                    \/ \E t \in Thread : \E n \in 2 .. 3 :
                         /\ Pending(t, r) /\ picks[t][n] = r
                         /\ value[r] = Add(Committed[r], Diff(n, found[t]))
                         /\ \A u \in Thread \ {t} : ~Pending(u, r)
  BY DEF ValuesSerial
<1>1. LocalInv /\ LineInv /\ Locks!TypeOK /\ Locks!MutualExclusion /\ ValueInv
  BY LocksTrue DEF IInv
<1>2. \A t \in Thread : Pending(t, r) <=> \E n \in Changed(t) : picks[t][n] = r
  BY <1>1, AccessedTouched DEF Pending, Changed
<1>3. CASE \E t \in Thread : \E n \in Changed(t) : picks[t][n] = r
  <2> PICK t \in Thread : \E n \in Changed(t) : picks[t][n] = r
    BY <1>3
  <2>1. PICK n \in Changed(t) : picks[t][n] = r
    OBVIOUS
  <2>2. n \in 2 .. 3 /\ n \in Owned(t)
    BY DEF Changed, Touched
  <2>3. \A u \in Thread \ {t} : \A m \in Changed(u) : picks[u][m] # r
    BY <1>1, <2>1, <2>2, Alone
  <2>4. value[r] = Add(Committed[r], Diff(n, found[t]))
    BY <1>1, <2>1 DEF ValueInv
  <2> QED BY <1>2, <2>1, <2>2, <2>3, <2>4
<1>4. CASE ~\E t \in Thread : \E n \in Changed(t) : picks[t][n] = r
  BY <1>1, <1>2, <1>4 DEF ValueInv
<1> QED BY <1>3, <1>4

-----------------------------------------------------------------------------
\* The types of the transactions: thread numbers are unique and bounded, at most one
\* commit id is drawn by each thread beyond the last, lines have ids up to that.
THEOREM TypeCorrect == Spec => []TypeOK
BY Invariant, TypesTrue, PTL

\* Whatever RepeatTrx has read is still the committed value while the transaction runs:
\* two-phase locking lets nobody read a change that may be taken back.
THEOREM ReadsAreCommitted == Spec => []ReadsCommitted
BY Invariant, ReadsTrue, PTL

\* Every record is what the commits leave in the order of their ids, but for one change
\* of one uncommitted transaction, which Abort() takes back exactly, wrapping or not.
THEOREM ValuesAreSerial == Spec => []ValuesSerial
BY Invariant, ValuesTrue, PTL

\* Every line that Commit() writes to a log has the values of its records right after
\* the commit with its id, though the line is written after the locks are released.
THEOREM LinesAreSerial == Spec => []LinesSerial
<1>1. IInv => LinesSerial
  BY DEF IInv
<1> QED BY <1>1, Invariant, PTL

\* The transactions use the lock table as LockService demands: every step of them is a
\* step of LockService or leaves its state alone.
THEOREM UsesLockService == Spec => Locks!Spec
<1>1. Init => Locks!Init
  BY DEF Init
<1>2. IInv /\ [Next]_vars => [Locks!Next]_(Locks!vars)
  BY LockStep DEF IInv
<1> QED BY <1>1, <1>2, Invariant, PTL DEF Spec, Locks!Spec

-----------------------------------------------------------------------------
\* A set of numbers has a least one.
LEMMA Least ==
  ASSUME NEW S \in SUBSET Nat, S # {}
  PROVE  \E n \in S : \A m \in S : n <= m
<1> DEFINE R == OpToRel(<, Nat)
<1>1. IsWellFoundedOn(R, Nat)
  BY NatLessThanWellFounded
<1>2. ASSUME NEW m \in Nat, NEW n \in Nat, m < n PROVE <<m, n>> \in R
  BY <1>2 DEF OpToRel
<1> HIDE DEF R
<1>3. PICK n \in S : \A m \in S : <<m, n>> \notin R
  BY <1>1, WFMin
<1>4. ASSUME NEW m \in S PROVE n <= m
  <2>1. m \in Nat /\ n \in Nat
    OBVIOUS
  <2>2. ~(m < n)
    BY <1>2, <1>3, <2>1
  <2> QED BY <2>1, <2>2
<1> QED BY <1>4

\* The records before the commit with the id i.
Before(log, i) == IF i = 1 THEN [r \in Record |-> Initial] ELSE log[i - 1]

\* A line of a log has the id i.
Logged(f, i) == \E n \in DOMAIN f : \E x \in DOMAIN f[n] : f[n][x].id = i

\* Each commit id up to the last is that of one line, or of one thread that has yet to write it,
\* and its entry of the history is the transaction's result.
OnceInv ==
  /\ \A i \in 1 .. Len(serial) : Logged(file, i) \/ \E t \in Thread : Commits(t) /\ id[t] = i
  /\ \A t, u \in Thread : Commits(t) /\ Commits(u) /\ id[t] = id[u] => t = u
  /\ \A t \in Thread : Commits(t) =>
       ~Logged(file, id[t]) /\ serial[id[t]] = Apply(Before(serial, id[t]), picks[t])
  /\ \A n \in DOMAIN file : \A x \in DOMAIN file[n] :
       /\ serial[file[n][x].id] = Apply(Before(serial, file[n][x].id), file[n][x].recs)
       /\ \A m \in DOMAIN file : \A y \in DOMAIN file[m] :
            file[n][x].id = file[m][y].id => n = m /\ x = y

\* At the start there are none.
LEMMA OnceInit == Init => OnceInv
<1> SUFFICES ASSUME Init PROVE OnceInv
  OBVIOUS
<1>1. Len(serial) = 0 /\ \A n \in DOMAIN file : DOMAIN file[n] = {}
  BY DEF Init
<1>2. \A t \in Thread : ~Commits(t)
  BY DEF Init, Commits
<1>3. 1 .. Len(serial) = {}
  BY <1>1
<1> QED BY <1>1, <1>2, <1>3 DEF OnceInv

\* Nothing changes while no id is drawn and no line is written.
LEMMA OnceSame ==
  ASSUME OnceInv, file' = file, serial' = serial,
         \A u \in Thread : /\ Commits(u)' <=> Commits(u)
                           /\ Commits(u) => id'[u] = id[u] /\ picks'[u] = picks[u]
  PROVE  OnceInv'
<1>1. \A i : Logged(file', i) <=> Logged(file, i)
  BY DEF Logged
<1>2. \A i : Before(serial', i) = Before(serial, i)
  BY DEF Before
<1>3. \A i \in 1 .. Len(serial') : Logged(file', i) \/ \E t \in Thread : Commits(t)' /\ id'[t] = i
  BY <1>1 DEF OnceInv
<1>4. ASSUME NEW t \in Thread, Commits(t)'
      PROVE  ~Logged(file', id'[t]) /\ serial'[id'[t]] = Apply(Before(serial', id'[t]), picks'[t])
  <2>1. Commits(t) /\ id'[t] = id[t] /\ picks'[t] = picks[t]
    BY <1>4
  <2> QED BY <1>1, <1>2, <2>1 DEF OnceInv
<1>5. \A t, u \in Thread : Commits(t)' /\ Commits(u)' /\ id'[t] = id'[u] => t = u
  BY DEF OnceInv
<1>6. ASSUME NEW n \in DOMAIN file, NEW x \in DOMAIN file[n]
      PROVE  /\ serial'[file'[n][x].id] = Apply(Before(serial', file'[n][x].id), file'[n][x].recs)
             /\ \A m \in DOMAIN file' : \A y \in DOMAIN file'[m] :
                  file'[n][x].id = file'[m][y].id => n = m /\ x = y
  BY <1>2 DEF OnceInv
<1> QED BY <1>3, <1>4, <1>5, <1>6 DEF OnceInv

\* An id that is drawn is a new one.
LEMMA OnceDraw ==
  ASSUME OnceInv, LocalInv, LinesSerial, NEW t \in Thread, Draw(t)
  PROVE  OnceInv'
<1>1. /\ pc[t] = "draw" /\ picks[t] \in Picks /\ id[t] = 0 /\ count \in Nat /\ Last \in Nat
      /\ file' = file /\ picks' = picks /\ id'[t] = count + 1
      /\ \A u \in Thread \ {t} : id'[u] = id[u]
  BY Place, TrxAssumption DEF Draw, files, AtPlace, LocalInv, Types
<1>2. ~Commits(t) /\ \A u \in Thread \ {t} : Commits(u)' <=> Commits(u)
  BY <1>1 DEF Commits
<1>3. CASE Beyond(count + 1)
  <2>1. serial' = serial /\ ~Commits(t)'
    BY <1>1, <1>3 DEF Draw, Commits
  <2> QED BY <1>1, <1>2, <2>1, OnceSame
<1>4. CASE ~Beyond(count + 1)
  <2> DEFINE k == Len(serial)  after == Apply(Committed, picks[t])
  <2>1. serial \in Seq([Record -> Word]) /\ k = count
    BY <1>1, <1>4 DEF LocalInv, SeqTypes, Beyond
  <2>2. serial' = Append(serial, after) /\ Commits(t)'
    BY <1>1, <1>4 DEF Draw, Commits
  <2>3. Committed = IF k + 1 = 1 THEN [r \in Record |-> Initial] ELSE serial[(k + 1) - 1]
    BY <2>1 DEF Committed
  <2> HIDE DEF after
  <2>4. Len(serial') = k + 1 /\ serial'[k + 1] = after /\ \A i \in 1 .. k : serial'[i] = serial[i]
    BY <2>1, <2>2
  <2>5. \A i \in 1 .. k : Before(serial', i) = Before(serial, i)
    BY <2>1, <2>4 DEF Before
  <2>6. Before(serial', k + 1) = Committed
    BY <2>1, <2>3, <2>4 DEF Before
  <2>7. \A n \in DOMAIN file : \A x \in DOMAIN file[n] : file[n][x].id \in 1 .. k
    <3>1. DOMAIN serial = 1 .. k
      BY <2>1
    <3> QED BY <3>1 DEF LinesSerial
  <2>8. \A i : Logged(file', i) <=> Logged(file, i)
    BY <1>1 DEF Logged
  <2>9. ~Logged(file, k + 1)
    BY <2>1, <2>7 DEF Logged
  <2>10. \A u \in Thread : Commits(u) => id[u] \in 1 .. k /\ u # t
    BY <1>2, CommitId
  <2>11. ASSUME NEW i \in 1 .. Len(serial')
         PROVE  Logged(file', i) \/ \E u \in Thread : Commits(u)' /\ id'[u] = i
    <3>1. CASE i = k + 1
      BY <1>1, <2>1, <2>2, <3>1
    <3>2. CASE i # k + 1
      <4>1. i \in 1 .. k
        BY <2>1, <2>4, <3>2
      <4> QED BY <1>1, <1>2, <2>8, <2>10, <4>1 DEF OnceInv
    <3> QED BY <3>1, <3>2
  <2>12. ASSUME NEW u \in Thread, NEW v \in Thread, Commits(u)', Commits(v)', id'[u] = id'[v]
         PROVE  u = v
    <3>1. ASSUME NEW w \in Thread, w # t, Commits(w)' PROVE id'[w] # k + 1
      <4>1. Commits(w) /\ id'[w] = id[w]
        BY <1>1, <1>2, <3>1
      <4> QED BY <2>1, <2>10, <4>1
    <3>2. CASE u # t /\ v # t
      <4>1. Commits(u) /\ Commits(v) /\ id[u] = id[v]
        BY <1>1, <1>2, <2>12, <3>2
      <4> QED BY <4>1 DEF OnceInv
    <3>3. CASE u = t \/ v = t
      BY <1>1, <2>1, <2>12, <3>1, <3>3
    <3> QED BY <3>2, <3>3
  <2>13. ASSUME NEW u \in Thread, Commits(u)'
         PROVE  ~Logged(file', id'[u]) /\ serial'[id'[u]] = Apply(Before(serial', id'[u]), picks'[u])
    <3>1. CASE u = t
      BY <1>1, <2>1, <2>4, <2>6, <2>8, <2>9, <3>1 DEF after
    <3>2. CASE u # t
      <4>1. Commits(u) /\ id'[u] = id[u] /\ id[u] \in 1 .. k
        BY <1>1, <1>2, <2>10, <2>13, <3>2
      <4>2. ~Logged(file, id[u]) /\ serial[id[u]] = Apply(Before(serial, id[u]), picks[u])
        BY <4>1 DEF OnceInv
      <4> QED BY <1>1, <2>4, <2>5, <2>8, <4>1, <4>2
    <3> QED BY <3>1, <3>2
  <2>14. ASSUME NEW n \in DOMAIN file', NEW x \in DOMAIN file'[n]
         PROVE  /\ serial'[file'[n][x].id] = Apply(Before(serial', file'[n][x].id), file'[n][x].recs)
                /\ \A m \in DOMAIN file' : \A y \in DOMAIN file'[m] :
                     file'[n][x].id = file'[m][y].id => n = m /\ x = y
    <3>1. PICK line : line = file[n][x]
      OBVIOUS
    <3>2. /\ serial[line.id] = Apply(Before(serial, line.id), line.recs)
          /\ \A m \in DOMAIN file : \A y \in DOMAIN file[m] :
               line.id = file[m][y].id => n = m /\ x = y
      BY <1>1, <3>1 DEF OnceInv
    <3>3. line.id \in 1 .. k
      BY <1>1, <2>7, <3>1
    <3>4. serial'[line.id] = serial[line.id] /\ Before(serial', line.id) = Before(serial, line.id)
      BY <2>4, <2>5, <3>3
    <3> QED BY <1>1, <3>1, <3>2, <3>4
  <2> QED BY <2>11, <2>12, <2>13, <2>14 DEF OnceInv
<1> QED BY <1>3, <1>4

\* The line of an id is written once.
LEMMA OncePublish ==
  ASSUME OnceInv, LocalInv, NumberInv, FileInv, NEW t \in Thread, Publish(t)
  PROVE  OnceInv'
<1> DEFINE line == [id |-> id[t], recs |-> picks[t], vals |-> queue[t]]
<1>1. /\ pc[t] = "publish" /\ Commits(t) /\ serial' = serial /\ ~Commits(t)'
      /\ \A u \in Thread \ {t} : id'[u] = id[u] /\ picks'[u] = picks[u]
  BY Place DEF Publish, AtPlace, LocalInv, Types, Commits
<1>2. \A u \in Thread \ {t} : Commits(u)' <=> Commits(u)
  BY <1>1 DEF Commits
<1>3. PICK s : s = number[t]
  OBVIOUS
<1>4. s \in 1 .. Cardinality(Thread)
  <2>1. number[t] # 0
    BY <1>1 DEF NumberInv, Numbered
  <2>2. number[t] \in 0 .. Cardinality(Thread)
    BY NumberBound
  <2> QED BY <1>3, <2>1, <2>2
<1>5. file' = [file EXCEPT ![s] = Append(file[s], line)]
  BY <1>3, <1>4 DEF Publish, FileInv
<1>6. line.id = id[t] /\ line.recs = picks[t]
  OBVIOUS
<1> HIDE DEF line
<1>7. /\ s \in DOMAIN file /\ DOMAIN file' = DOMAIN file
      /\ file[s] \in Seq(Line) /\ file'[s] = Append(file[s], line)
      /\ \A n \in DOMAIN file \ {s} : file'[n] = file[n]
  BY <1>4, <1>5 DEF FileInv
<1> DEFINE k == Len(file[s])
<1>8. /\ k \in Nat /\ DOMAIN file[s] = 1 .. k /\ DOMAIN file'[s] = 1 .. k + 1
      /\ file'[s][k + 1] = line /\ \A x \in 1 .. k : file'[s][x] = file[s][x]
  BY <1>7
<1> HIDE DEF k
\* The new line, and the others.
<1>9. ASSUME NEW n \in DOMAIN file', NEW x \in DOMAIN file'[n]
      PROVE  \/ n = s /\ x = k + 1 /\ file'[n][x] = line
             \/ n \in DOMAIN file /\ x \in DOMAIN file[n] /\ file'[n][x] = file[n][x]
                /\ ~(n = s /\ x = k + 1)
  <2>1. CASE n = s
    <3>1. CASE x = k + 1
      BY <1>8, <2>1, <3>1
    <3>2. CASE x # k + 1
      <4>1. x \in 1 .. k
        BY <1>8, <2>1, <3>2
      <4> QED BY <1>7, <1>8, <2>1, <3>2, <4>1
    <3> QED BY <3>1, <3>2
  <2>2. CASE n # s
    BY <1>7, <2>2
  <2> QED BY <2>1, <2>2
<1>10. k + 1 \in DOMAIN file'[s]
  BY <1>8
<1>11. ASSUME NEW n \in DOMAIN file, NEW x \in DOMAIN file[n]
       PROVE  n \in DOMAIN file' /\ x \in DOMAIN file'[n] /\ file'[n][x] = file[n][x]
  <2>1. CASE n = s
    BY <1>7, <1>8, <2>1
  <2>2. CASE n # s
    BY <1>7, <2>2
  <2> QED BY <2>1, <2>2
<1>12. \A i : Logged(file', i) <=> Logged(file, i) \/ i = id[t]
  <2>1. ASSUME NEW i, Logged(file', i) PROVE Logged(file, i) \/ i = id[t]
    BY <1>6, <1>9, <2>1 DEF Logged
  <2>2. ASSUME NEW i, Logged(file, i) PROVE Logged(file', i)
    BY <1>11, <2>2 DEF Logged
  <2>3. Logged(file', id[t])
    BY <1>6, <1>7, <1>8, <1>10 DEF Logged
  <2> QED BY <2>1, <2>2, <2>3
<1>13. ASSUME NEW i \in 1 .. Len(serial')
       PROVE  Logged(file', i) \/ \E u \in Thread : Commits(u)' /\ id'[u] = i
  <2>1. Logged(file, i) \/ \E u \in Thread : Commits(u) /\ id[u] = i
    BY <1>1 DEF OnceInv
  <2> QED BY <1>1, <1>2, <1>12, <2>1
<1>14. ASSUME NEW u \in Thread, NEW v \in Thread, Commits(u)', Commits(v)', id'[u] = id'[v]
       PROVE  u = v
  <2>1. u # t /\ v # t
    BY <1>1, <1>14
  <2>2. Commits(u) /\ Commits(v) /\ id[u] = id[v]
    BY <1>1, <1>2, <1>14, <2>1
  <2> QED BY <2>2 DEF OnceInv
<1>15. ASSUME NEW u \in Thread, Commits(u)'
       PROVE  ~Logged(file', id'[u]) /\ serial'[id'[u]] = Apply(Before(serial', id'[u]), picks'[u])
  <2>1. u # t
    BY <1>1, <1>15
  <2>2. Commits(u) /\ id'[u] = id[u] /\ picks'[u] = picks[u]
    BY <1>1, <1>2, <1>15, <2>1
  <2>3. ~Logged(file, id[u]) /\ serial[id[u]] = Apply(Before(serial, id[u]), picks[u])
    BY <2>2 DEF OnceInv
  <2>4. id[u] # id[t]
    BY <1>1, <2>1, <2>2 DEF OnceInv
  <2> QED BY <1>1, <1>12, <2>2, <2>3, <2>4
<1>16. ASSUME NEW n \in DOMAIN file', NEW x \in DOMAIN file'[n]
       PROVE  /\ serial'[file'[n][x].id] = Apply(Before(serial', file'[n][x].id), file'[n][x].recs)
              /\ \A m \in DOMAIN file' : \A y \in DOMAIN file'[m] :
                   file'[n][x].id = file'[m][y].id => n = m /\ x = y
  <2>1. ~Logged(file, id[t]) /\ serial[id[t]] = Apply(Before(serial, id[t]), picks[t])
    BY <1>1 DEF OnceInv
  <2>2. serial'[file'[n][x].id] = Apply(Before(serial', file'[n][x].id), file'[n][x].recs)
    <3>1. CASE file'[n][x] = line
      BY <1>1, <1>6, <2>1, <3>1
    <3>2. CASE n \in DOMAIN file /\ x \in DOMAIN file[n] /\ file'[n][x] = file[n][x]
      BY <1>1, <3>2 DEF OnceInv
    <3> QED BY <1>9, <3>1, <3>2
  <2>3. ASSUME NEW m \in DOMAIN file', NEW y \in DOMAIN file'[m], file'[n][x].id = file'[m][y].id
        PROVE  n = m /\ x = y
    <3>1. CASE n = s /\ x = k + 1 /\ file'[n][x] = line
      <4>1. ~(m \in DOMAIN file /\ y \in DOMAIN file[m] /\ file'[m][y] = file[m][y])
        BY <1>6, <2>1, <2>3, <3>1 DEF Logged
      <4> QED BY <1>9, <3>1, <4>1
    <3>2. CASE n \in DOMAIN file /\ x \in DOMAIN file[n] /\ file'[n][x] = file[n][x]
      <4>1. CASE m = s /\ y = k + 1 /\ file'[m][y] = line
        BY <1>6, <2>1, <2>3, <3>2, <4>1 DEF Logged
      <4>2. CASE m \in DOMAIN file /\ y \in DOMAIN file[m] /\ file'[m][y] = file[m][y]
        BY <2>3, <3>2, <4>2 DEF OnceInv
      <4> QED BY <1>9, <4>1, <4>2
    <3> QED BY <1>9, <3>1, <3>2
  <2> QED BY <2>2, <2>3
<1> QED BY <1>13, <1>14, <1>15, <1>16 DEF OnceInv

\* Every step keeps it.
LEMMA OnceStep ==
  LocalInv /\ NumberInv /\ FileInv /\ LinesSerial /\ OnceInv /\ [Next]_vars => OnceInv'
<1> SUFFICES ASSUME LocalInv, NumberInv, FileInv, LinesSerial, OnceInv, [Next]_vars PROVE OnceInv'
  OBVIOUS
<1>1. ASSUME NEW t \in Thread, Draw(t) PROVE OnceInv'
  BY <1>1, OnceDraw
<1>2. ASSUME NEW t \in Thread, Publish(t) PROVE OnceInv'
  BY <1>2, OncePublish
<1>3. ASSUME NEW t \in Thread,
             Begin(t) \/ Ask(t) \/ Granted(t) \/ Refused(t) \/ Access(t) \/ Undo(t) \/ Log(t)
      PROVE  OnceInv'
  <2>1. /\ file' = file /\ serial' = serial /\ id' = id
        /\ \A u \in Thread \ {t} : picks'[u] = picks[u]
    BY <1>3 DEF Begin, Ask, Granted, Refused, Access, Undo, Log, files, local, LocalInv, Types
  <2>2. Commits(t) => picks'[t] = picks[t]
    BY <1>3, Place DEF Begin, Ask, Granted, Refused, Access, Undo, Log, local, AtPlace, Commits
  <2>3. \A u \in Thread : Commits(u)' <=> Commits(u)
    BY <2>1 DEF Commits
  <2> QED BY <2>1, <2>2, <2>3, OnceSame
<1>4. ASSUME NEW t \in Thread, Release(t) PROVE OnceInv'
  <2>1. /\ file' = file /\ serial' = serial
        /\ \A u \in Thread \ {t} : picks'[u] = picks[u] /\ id'[u] = id[u]
    BY <1>4 DEF Release, files, LocalInv, Types
  <2>2. CASE Commits(t)
    <3>1. id'[t] = id[t] /\ picks'[t] = picks[t]
      BY <1>4, <2>2 DEF Release, LocalInv, Types
    <3>2. \A u \in Thread : Commits(u)' <=> Commits(u)
      BY <2>1, <3>1 DEF Commits
    <3> QED BY <2>1, <3>1, <3>2, OnceSame
  <2>3. CASE ~Commits(t)
    <3>1. ~Commits(t)'
      BY <1>4, <2>3 DEF Release, LocalInv, Types, Commits
    <3>2. \A u \in Thread : Commits(u)' <=> Commits(u)
      BY <2>1, <2>3, <3>1 DEF Commits
    <3> QED BY <2>1, <2>3, <3>2, OnceSame
  <2> QED BY <2>2, <2>3
<1>5. CASE UNCHANGED vars
  <2>1. file' = file /\ serial' = serial /\ id' = id /\ picks' = picks
    BY <1>5 DEF vars, files, local
  <2>2. \A u \in Thread : Commits(u)' <=> Commits(u)
    BY <2>1 DEF Commits
  <2> QED BY <2>1, <2>2, OnceSame
<1> QED BY <1>1, <1>2, <1>3, <1>4, <1>5 DEF Next, Step, Done

-----------------------------------------------------------------------------
\* The check of the logs.

\* The function of LogVector that reads the files.
Reading ==
  CHOOSE read : read =
    [n \in 0 .. Cardinality(Thread) |-> IF n = 0 THEN << >> ELSE read[n - 1] \o file[n]]

\* It exists: what is read of the first files can be read on.
LEMMA ReadingIs ==
  ASSUME Cardinality(Thread) \in Nat
  PROVE  /\ Reading[0] = << >>
         /\ \A n \in 1 .. Cardinality(Thread) : Reading[n] = Reading[n - 1] \o file[n]
<1> DEFINE D == 0 .. Cardinality(Thread)
           More(s, n) == s \o file[n]
           Solves(f, k) == f[0] = << >> /\ \A n \in 1 .. k : f[n] = More(f[n - 1], n)
           F(f) == [n \in D |-> IF n = 0 THEN << >> ELSE More(f[n - 1], n)]
           S == {k \in Nat : ~\E f : Solves(f, k)}
           reading == CHOOSE f : f = F(f)
<1>1. Reading = reading
  BY DEF Reading
<1> HIDE DEF More
<1>2. S = {}
  <2>1. SUFFICES ASSUME S # {} PROVE FALSE
    OBVIOUS
  <2>2. PICK k \in S : \A j \in S : k <= j
    BY <2>1, Least
  <2>3. k \in Nat /\ ~\E f : Solves(f, k)
    OBVIOUS
  <2>4. k # 0
    <3>1. Solves([n \in {0} |-> << >>], 0)
      OBVIOUS
    <3> QED BY <2>3, <3>1
  <2>5. k - 1 \in Nat /\ \E f : Solves(f, k - 1)
    <3>1. k - 1 \in Nat /\ ~(k <= k - 1)
      BY <2>3, <2>4
    <3> QED BY <2>2, <3>1
  <2>6. PICK f : Solves(f, k - 1)
    BY <2>5
  <2> DEFINE g == [n \in 0 .. k |-> IF n = k THEN More(f[k - 1], k) ELSE f[n]]
  <2>7. g[0] = << >>
    BY <2>3, <2>4, <2>6
  <2>8. ASSUME NEW n \in 1 .. k PROVE g[n] = More(g[n - 1], n)
    <3>1. g[n - 1] = f[n - 1]
      BY <2>3
    <3>2. CASE n = k
      BY <2>3, <3>1, <3>2
    <3>3. CASE n # k
      <4>1. n \in 1 .. k - 1 /\ n \in 0 .. k
        BY <2>3, <3>3
      <4> QED BY <2>6, <3>1, <3>3, <4>1
    <3> QED BY <3>2, <3>3
  <2>9. Solves(g, k)
    BY <2>7, <2>8
  <2> QED BY <2>3, <2>9
<1>3. PICK f : Solves(f, Cardinality(Thread))
  BY <1>2
<1> DEFINE fix == [n \in D |-> f[n]]
<1>4. ASSUME NEW n \in D PROVE fix[n] = IF n = 0 THEN << >> ELSE More(fix[n - 1], n)
  <2>1. CASE n = 0
    BY <1>3, <2>1
  <2>2. CASE n # 0
    <3>1. n \in 1 .. Cardinality(Thread) /\ n - 1 \in D
      BY <2>2
    <3> QED BY <1>3, <2>2, <3>1
  <2> QED BY <2>1, <2>2
<1>5. fix = [n \in D |-> fix[n]]
  OBVIOUS
<1> HIDE DEF fix
<1>6. fix = F(fix)
  BY <1>4, <1>5
<1>7. reading = F(reading)
  BY <1>6
<1> HIDE DEF reading
<1>8. \A n \in D : reading[n] = IF n = 0 THEN << >> ELSE More(reading[n - 1], n)
  BY <1>7
<1>9. 0 \in D /\ \A n \in 1 .. Cardinality(Thread) : n \in D /\ n # 0
  OBVIOUS
<1> QED BY <1>1, <1>8, <1>9 DEF More

\* The lines that have been read when they are those of the first k files, each once.
ReadsAll(lines, k) ==
  /\ lines \in Seq(Line)
  /\ \A x \in 1 .. Len(lines) : \E n \in 1 .. k : \E y \in DOMAIN file[n] : lines[x] = file[n][y]
  /\ \A n \in 1 .. k : \A y \in DOMAIN file[n] : \E x \in 1 .. Len(lines) : lines[x] = file[n][y]
  /\ \A x, z \in 1 .. Len(lines) : lines[x].id = lines[z].id => x = z

\* One file more.
LEMMA ReadsOn ==
  ASSUME FileInv, OnceInv, Cardinality(Thread) \in Nat, NEW k \in 1 .. Cardinality(Thread),
         NEW lines, ReadsAll(lines, k - 1)
  PROVE  ReadsAll(lines \o file[k], k)
<1> DEFINE L == Len(lines)  M == Len(file[k])  all == lines \o file[k]
<1>1. /\ lines \in Seq(Line) /\ file[k] \in Seq(Line) /\ L \in Nat /\ M \in Nat
      /\ DOMAIN file[k] = 1 .. M
  BY DEF ReadsAll, FileInv
<1>2. /\ all \in Seq(Line) /\ Len(all) = L + M
      /\ \A x \in 1 .. L : all[x] = lines[x]
      /\ \A y \in 1 .. M : all[L + y] = file[k][y]
  BY <1>1
<1> HIDE DEF all, L, M
<1>3. ASSUME NEW x \in 1 .. Len(all)
      PROVE  x \in 1 .. L \/ \E y \in 1 .. M : x = L + y
  <2>1. CASE ~(x <= L)
    <3>1. x - L \in 1 .. M /\ x = L + (x - L)
      BY <1>1, <1>2, <2>1
    <3> QED BY <3>1
  <2>2. CASE x <= L
    BY <1>1, <1>2, <2>2
  <2> QED BY <2>1, <2>2
<1>4. /\ \A x \in 1 .. L : x \in 1 .. Len(all)
      /\ \A y \in 1 .. M : L + y \in 1 .. Len(all)
  BY <1>1, <1>2
<1>5. k \in 1 .. k /\ \A n \in 1 .. k - 1 : n \in 1 .. k /\ n # k /\ n \in DOMAIN file
  BY DEF FileInv
<1>6. k \in DOMAIN file
  BY DEF FileInv
<1>7. ASSUME NEW x \in 1 .. Len(all)
      PROVE  \E n \in 1 .. k : \E y \in DOMAIN file[n] : all[x] = file[n][y]
  <2>1. CASE x \in 1 .. L
    <3>1. PICK n \in 1 .. k - 1 : \E y \in DOMAIN file[n] : lines[x] = file[n][y]
      BY <2>1 DEF ReadsAll, L
    <3> QED BY <1>2, <1>5, <2>1, <3>1
  <2>2. CASE \E y \in 1 .. M : x = L + y
    BY <1>1, <1>2, <1>5, <2>2
  <2> QED BY <1>3, <2>1, <2>2
<1>8. ASSUME NEW n \in 1 .. k, NEW y \in DOMAIN file[n]
      PROVE  \E x \in 1 .. Len(all) : all[x] = file[n][y]
  <2>1. CASE n = k
    BY <1>1, <1>2, <1>4, <2>1
  <2>2. CASE n # k
    <3>1. n \in 1 .. k - 1
      BY <2>2
    <3>2. PICK x \in 1 .. L : lines[x] = file[n][y]
      BY <3>1 DEF ReadsAll, L
    <3> QED BY <1>2, <1>4, <3>2
  <2> QED BY <2>1, <2>2
\* What is read before, and what is read now, have other ids.
<1>9. ASSUME NEW x \in 1 .. L, NEW y \in 1 .. M PROVE lines[x].id # file[k][y].id
  <2> PICK n \in 1 .. k - 1 : \E z \in DOMAIN file[n] : lines[x] = file[n][z]
    BY DEF ReadsAll, L
  <2>1. PICK z \in DOMAIN file[n] : lines[x] = file[n][z]
    OBVIOUS
  <2>2. n # k /\ n \in DOMAIN file
    BY <1>5
  <2>3. y \in DOMAIN file[k]
    BY <1>1
  <2> QED BY <1>6, <2>1, <2>2, <2>3 DEF OnceInv
<1>10. ASSUME NEW x \in 1 .. Len(all), NEW z \in 1 .. Len(all), all[x].id = all[z].id
       PROVE  x = z
  <2>1. CASE x \in 1 .. L /\ z \in 1 .. L
    BY <1>2, <1>10, <2>1 DEF ReadsAll, L
  <2>2. CASE x \in 1 .. L /\ \E y \in 1 .. M : z = L + y
    BY <1>2, <1>9, <1>10, <2>2
  <2>3. CASE z \in 1 .. L /\ \E y \in 1 .. M : x = L + y
    BY <1>2, <1>9, <1>10, <2>3
  <2>4. ASSUME NEW y \in 1 .. M, NEW w \in 1 .. M, x = L + y, z = L + w PROVE x = z
    <3>1. file[k][y].id = file[k][w].id
      BY <1>2, <1>10, <2>4
    <3>2. y \in DOMAIN file[k] /\ w \in DOMAIN file[k]
      BY <1>1
    <3>3. y = w
      BY <1>6, <3>1, <3>2 DEF OnceInv
    <3> QED BY <2>4, <3>3
  <2> QED BY <1>3, <2>1, <2>2, <2>3, <2>4
<1>11. lines \o file[k] = all
  BY DEF all
<1>12. ReadsAll(all, k)
  BY <1>2, <1>7, <1>8, <1>10 DEF ReadsAll
<1> QED BY <1>11, <1>12

\* So all lines of all files are read, each once.
LEMMA ReadingAll ==
  ASSUME FileInv, OnceInv, Cardinality(Thread) \in Nat
  PROVE  ReadsAll(Reading[Cardinality(Thread)], Cardinality(Thread))
<1> DEFINE D == 0 .. Cardinality(Thread)
           S == {k \in Nat : k \in D /\ ~ReadsAll(Reading[k], k)}
<1>1. S = {}
  <2>1. SUFFICES ASSUME S # {} PROVE FALSE
    OBVIOUS
  <2>2. PICK k \in S : \A j \in S : k <= j
    BY <2>1, Least
  <2>3. k \in Nat /\ k \in D /\ ~ReadsAll(Reading[k], k)
    OBVIOUS
  <2>4. k # 0
    <3>1. Reading[0] = << >>
      BY ReadingIs
    <3>2. ReadsAll(<< >>, 0)
      BY DEF ReadsAll
    <3> QED BY <2>3, <3>1, <3>2
  <2>5. k \in 1 .. Cardinality(Thread) /\ k - 1 \in Nat /\ k - 1 \in D /\ ~(k <= k - 1)
    BY <2>3, <2>4
  <2>6. ReadsAll(Reading[k - 1], k - 1)
    BY <2>2, <2>5
  <2>7. Reading[k] = Reading[k - 1] \o file[k]
    BY <2>5, ReadingIs
  <2> QED BY <2>3, <2>5, <2>6, <2>7, ReadsOn
<1>2. Cardinality(Thread) \in D
  OBVIOUS
<1> QED BY <1>1, <1>2

\* The places of the lines in the order of their ids, as LogVector picks them.
Sorts(lines, p) ==
  /\ p \in [1 .. Len(lines) -> 1 .. Len(lines)]
  /\ \A x \in 1 .. Len(lines) : \E n \in 1 .. Len(lines) : p[n] = x
  /\ \A m, n \in 1 .. Len(lines) : m < n => ~Earlier(lines[p[n]], lines[p[m]])

\* The ids of lines.
LEMMA LineIds ==
  ASSUME NEW lines \in Seq(Line)
  PROVE  \A x \in 1 .. Len(lines) : lines[x].id \in 1 .. Last
<1>1. \A line \in Line : line.id \in 1 .. Last
  BY DEF Line
<1>2. \A x \in 1 .. Len(lines) : lines[x] \in Line
  OBVIOUS
<1> QED BY <1>1, <1>2

\* Lines with every id once can be sorted, and as many as there are ids.
LEMMA CanSort ==
  ASSUME NEW lines \in Seq(Line),
         \A i \in 1 .. Last : \E x \in 1 .. Len(lines) : lines[x].id = i,
         \A x, z \in 1 .. Len(lines) : lines[x].id = lines[z].id => x = z
  PROVE  Len(lines) = Last /\ \E p : Sorts(lines, p)
<1> DEFINE L == Len(lines)
           f == [x \in 1 .. L |-> lines[x].id]
           p == [i \in 1 .. L |-> CHOOSE x \in 1 .. L : lines[x].id = i]
<1>1. L \in Nat /\ Last \in Nat
  BY TrxAssumption
<1>2. \A x \in 1 .. L : lines[x].id \in 1 .. Last
  BY LineIds
<1>3. L = Last
  <2>1. f \in [1 .. L -> 1 .. Last]
    BY <1>2
  <2>2. /\ \A x, z \in 1 .. L : f[x] = f[z] => x = z
        /\ \A i \in 1 .. Last : \E x \in 1 .. L : f[x] = i
    OBVIOUS
  <2> HIDE DEF f, L
  <2>3. f \in Bijection(1 .. L, 1 .. Last)
    BY <2>1, <2>2 DEF Bijection, Injection, Surjection, IsInjective
  <2>4. Cardinality(1 .. L) = Cardinality(1 .. Last)
    BY <1>1, <2>3, FS_Bijection, FS_Interval DEF ExistsBijection
  <2>5. \A k \in Nat : Cardinality(1 .. k) = k
    BY FS_Interval
  <2> QED BY <1>1, <2>4, <2>5
<1>4. \A i \in 1 .. L : p[i] \in 1 .. L /\ lines[p[i]].id = i
  BY <1>3
<1>5. p \in [1 .. L -> 1 .. L]
  BY <1>4
<1>6. \A x \in 1 .. L : \E n \in 1 .. L : p[n] = x
  <2> SUFFICES ASSUME NEW x \in 1 .. L PROVE \E n \in 1 .. L : p[n] = x
    OBVIOUS
  <2>1. PICK n \in 1 .. L : n = lines[x].id
    BY <1>2, <1>3
  <2>2. p[n] \in 1 .. L /\ lines[p[n]].id = n
    BY <1>4
  <2> HIDE DEF p
  <2> QED BY <2>1, <2>2
<1> HIDE DEF p
<1>7. \A m, n \in 1 .. L : m < n => ~Earlier(lines[p[n]], lines[p[m]])
  BY <1>4 DEF Earlier
<1> QED BY <1>3, <1>5, <1>6, <1>7 DEF Sorts

\* Sorted, each line stands where its id says.
LEMMA SortedIds ==
  ASSUME NEW lines \in Seq(Line), Len(lines) = Last,
         \A i \in 1 .. Last : \E x \in 1 .. Len(lines) : lines[x].id = i,
         \A x, z \in 1 .. Len(lines) : lines[x].id = lines[z].id => x = z,
         NEW p, Sorts(lines, p)
  PROVE  \A n \in 1 .. Last : lines[p[n]].id = n
<1> DEFINE P == 1 .. Last
           q == [k \in P |-> lines[p[k]].id]
           S == {k \in Nat : k \in P /\ q[k] # k}
<1>1. Last \in Nat /\ p \in [P -> P] /\ \A x \in P : \E k \in P : p[k] = x
  BY TrxAssumption DEF Sorts
<1>2. \A k \in P : k \in Nat
  BY <1>1
<1>3. \A k, m \in P : p[k] = p[m] => k = m
  <2>1. IsFiniteSet(P)
    BY <1>1, FS_Interval
  <2>2. p \in Surjection(P, P)
    BY <1>1 DEF Surjection
  <2>3. p \in Injection(P, P)
    BY <2>1, <2>2, FS_SurjSameCardinalityImpliesInj
  <2> QED BY <2>3 DEF Injection, IsInjective
<1>4. \A k \in P : q[k] \in P
  BY <1>1, LineIds
<1>5. \A i \in P : \E k \in P : q[k] = i
  <2> SUFFICES ASSUME NEW i \in P PROVE \E k \in P : q[k] = i
    OBVIOUS
  <2>1. PICK x \in P : lines[x].id = i
    OBVIOUS
  <2>2. PICK k \in P : p[k] = x
    BY <1>1
  <2> QED BY <2>1, <2>2
<1>6. ASSUME NEW k \in P, NEW m \in P, k < m PROVE q[k] < q[m]
  <2>1. ~(q[m] < q[k])
    BY <1>6 DEF Sorts, Earlier
  <2>2. q[k] # q[m]
    <3>1. p[k] # p[m] /\ p[k] \in P /\ p[m] \in P
      BY <1>1, <1>3, <1>6
    <3> QED BY <3>1
  <2>3. q[k] \in P /\ q[m] \in P
    BY <1>4
  <2> HIDE DEF q, P
  <2>4. q[k] \in Nat /\ q[m] \in Nat
    BY <1>2, <2>3
  <2> QED BY <2>1, <2>2, <2>4
<1> HIDE DEF q, P
\* The first line that does not would leave its id to a later one.
<1>7. S = {}
  <2>1. SUFFICES ASSUME S # {} PROVE FALSE
    OBVIOUS
  <2>2. PICK k \in S : \A j \in S : k <= j
    BY <2>1, Least
  <2>3. k \in P /\ q[k] # k
    OBVIOUS
  <2>4. PICK j \in P : q[j] = k
    BY <1>5
  <2>5. ASSUME j < k PROVE FALSE
    <3>1. j \in Nat /\ k \in Nat /\ ~(k <= j)
      BY <1>2, <2>3, <2>5
    <3>2. j \notin S
      BY <2>2, <3>1
    <3> QED BY <2>4, <2>5, <3>1, <3>2
  <2>6. j # k
    BY <2>3, <2>4
  <2>7. q[k] < k
    <3>1. k < j
      BY <1>2, <2>3, <2>5, <2>6
    <3> QED BY <1>6, <2>3, <2>4, <3>1
  <2>8. PICK m : m = q[k]
    OBVIOUS
  <2>9. m \in P /\ m \in Nat /\ m < k
    BY <1>2, <1>4, <2>3, <2>7, <2>8
  <2>10. q[m] = m
    <3>1. ~(k <= m)
      BY <1>2, <2>3, <2>9
    <3>2. m \notin S
      BY <2>2, <3>1
    <3> QED BY <2>9, <3>2
  <2>11. q[m] < q[k]
    BY <1>6, <2>3, <2>9
  <2> QED BY <2>8, <2>9, <2>10, <2>11
<1>8. \A n \in P : q[n] = n
  BY <1>2, <1>7
<1> QED BY <1>8 DEF P, q

\* What LogVector has when all threads are done.
LEMMA LogVectorIs ==
  ASSUME IInv, OnceInv, Thread # {}, \A t \in Thread : pc[t] = "done"
  PROVE  /\ LogVector \in Seq(Line) /\ Len(LogVector) = Last /\ Len(serial) = Last
         /\ \A n \in 1 .. Last :
              /\ LogVector[n].id = n
              /\ \E m \in DOMAIN file : \E y \in DOMAIN file[m] : LogVector[n] = file[m][y]
<1>1. Cardinality(Thread) \in Nat /\ Last \in Nat /\ LocalInv /\ FileInv
  BY FiniteThreads, TrxAssumption DEF IInv
<1>2. Len(serial) = Last
  <2>1. Late = Thread
    BY DEF Late
  <2>2. Cardinality(Thread) # 0
    BY TrxAssumption, FS_EmptySet
  <2>3. ~(count < Last)
    BY <2>1, <2>2 DEF IInv, CountInv
  <2> QED BY <1>1, <2>3 DEF LocalInv, SeqTypes
<1>3. \A t \in Thread : ~Commits(t)
  BY <1>1, Place DEF AtPlace, Commits
<1> DEFINE lines == Reading[Cardinality(Thread)]
           order == CHOOSE p \in [1 .. Len(lines) -> 1 .. Len(lines)] :
                      /\ \A x \in 1 .. Len(lines) : \E n \in 1 .. Len(lines) : p[n] = x
                      /\ \A m, n \in 1 .. Len(lines) : m < n => ~Earlier(lines[p[n]], lines[p[m]])
<1>4. LogVector = [n \in 1 .. Len(lines) |-> lines[order[n]]]
  BY DEF LogVector, Reading
<1>5. ReadsAll(lines, Cardinality(Thread))
  BY <1>1, ReadingAll DEF IInv
<1> HIDE DEF lines
<1>6. /\ lines \in Seq(Line)
      /\ \A x, z \in 1 .. Len(lines) : lines[x].id = lines[z].id => x = z
  BY <1>5 DEF ReadsAll
<1>7. ASSUME NEW i \in 1 .. Last PROVE \E x \in 1 .. Len(lines) : lines[x].id = i
  <2>1. Logged(file, i)
    BY <1>2, <1>3 DEF OnceInv
  <2>2. PICK n \in DOMAIN file : \E y \in DOMAIN file[n] : file[n][y].id = i
    BY <2>1 DEF Logged
  <2>3. n \in 1 .. Cardinality(Thread)
    BY <1>1 DEF FileInv
  <2> QED BY <1>5, <2>2, <2>3 DEF ReadsAll
<1>8. Len(lines) = Last /\ \E p : Sorts(lines, p)
  BY <1>6, <1>7, CanSort
<1>9. Sorts(lines, order)
  BY <1>8 DEF Sorts
<1> HIDE DEF order
<1>10. \A n \in 1 .. Last : lines[order[n]].id = n
  <2>1. /\ lines \in Seq(Line) /\ Len(lines) = Last
        /\ \A i \in 1 .. Last : \E x \in 1 .. Len(lines) : lines[x].id = i
        /\ \A x, z \in 1 .. Len(lines) : lines[x].id = lines[z].id => x = z
    BY <1>6, <1>7, <1>8
  <2> QED BY <1>9, <2>1, SortedIds
<1>11. ASSUME NEW n \in 1 .. Last
       PROVE  /\ LogVector[n] \in Line /\ LogVector[n].id = n
              /\ \E m \in DOMAIN file : \E y \in DOMAIN file[m] : LogVector[n] = file[m][y]
  <2>1. LogVector[n] = lines[order[n]] /\ order[n] \in 1 .. Len(lines)
    BY <1>4, <1>8, <1>9 DEF Sorts
  <2>2. lines[order[n]].id = n
    BY <1>10
  <2>3. PICK m \in 1 .. Cardinality(Thread) : \E y \in DOMAIN file[m] : lines[order[n]] = file[m][y]
    BY <1>5, <2>1 DEF ReadsAll
  <2>4. m \in DOMAIN file
    BY <1>1 DEF FileInv
  <2> QED BY <1>6, <2>1, <2>2, <2>3, <2>4
<1>12. LogVector \in [1 .. Last -> Line]
  BY <1>4, <1>8, <1>11
<1>13. LogVector \in Seq(Line) /\ Len(LogVector) = Last
  BY <1>1, <1>12
<1> QED BY <1>2, <1>11, <1>13

\* What the replay has after each line is the history.
LEMMA ReplayIs ==
  ASSUME NEW log, Len(log) \in Nat,
         \A n \in 1 .. Len(log) : serial[n] = Apply(Before(serial, n), log[n].recs),
         NEW n \in 1 .. Len(log)
  PROVE  RecordTable(log)[n] = serial[n]
<1> DEFINE D == 0 .. Len(log)
           F(f) == [k \in D |-> IF k = 0 THEN [r \in Record |-> Initial]
                                ELSE Apply(f[k - 1], log[k].recs)]
           fix == [k \in D |-> Before(serial, k + 1)]
           replay == CHOOSE f : f = F(f)
           S == {k \in Nat : k \in D /\ replay[k] # fix[k]}
<1>1. ASSUME NEW k \in D
      PROVE  fix[k] = IF k = 0 THEN [r \in Record |-> Initial] ELSE Apply(fix[k - 1], log[k].recs)
  <2>1. CASE k = 0
    BY <2>1 DEF Before
  <2>2. CASE k # 0
    <3>1. k \in 1 .. Len(log) /\ k - 1 \in D /\ (k - 1) + 1 = k /\ (k + 1) - 1 = k /\ k + 1 # 1
      BY <2>2
    <3>2. fix[k] = serial[k] /\ fix[k - 1] = Before(serial, k)
      BY <3>1 DEF Before
    <3> QED BY <2>2, <3>1, <3>2
  <2> QED BY <2>1, <2>2
<1>2. fix = [k \in D |-> fix[k]] /\ fix[n] = serial[n]
  BY DEF Before
<1> HIDE DEF fix
<1>3. fix = F(fix)
  BY <1>1, <1>2
<1>4. replay = F(replay)
  BY <1>3
<1>5. RecordTable(log) = replay
  BY DEF RecordTable
<1> HIDE DEF replay
<1>6. \A k \in D : replay[k] = IF k = 0 THEN [r \in Record |-> Initial]
                               ELSE Apply(replay[k - 1], log[k].recs)
  BY <1>4
<1>7. S = {}
  <2>1. SUFFICES ASSUME S # {} PROVE FALSE
    OBVIOUS
  <2>2. PICK k \in S : \A j \in S : k <= j
    BY <2>1, Least
  <2>3. k \in Nat /\ k \in D /\ replay[k] # fix[k]
    OBVIOUS
  <2>4. k # 0
    BY <1>1, <1>6, <2>3
  <2>5. k - 1 \in Nat /\ k - 1 \in D /\ ~(k <= k - 1)
    BY <2>3, <2>4
  <2>6. replay[k - 1] = fix[k - 1]
    BY <2>2, <2>5
  <2> QED BY <1>1, <1>6, <2>3, <2>4, <2>6
<1>8. replay[n] = fix[n]
  BY <1>7
<1> QED BY <1>2, <1>5, <1>8

\* The check passes when all threads are done.
LEMMA ChecksTrue ==
  ASSUME IInv, OnceInv, Thread # {}
  PROVE  CheckPasses
<1> SUFFICES ASSUME \A t \in Thread : pc[t] = "done"
             PROVE  Len(LogVector) = Last /\ IsCorrect
  BY DEF CheckPasses
<1> PICK log : log = LogVector
  OBVIOUS
<1>1. /\ log \in Seq(Line) /\ Len(log) = Last
      /\ \A n \in 1 .. Last :
           /\ log[n].id = n
           /\ \E m \in DOMAIN file : \E y \in DOMAIN file[m] : log[n] = file[m][y]
  BY LogVectorIs
<1>2. Last \in Nat /\ DOMAIN log = 1 .. Last
  BY <1>1, TrxAssumption
<1>3. ASSUME NEW n \in 1 .. Last
      PROVE  /\ serial[n] = Apply(Before(serial, n), log[n].recs)
             /\ log[n].vals = [m \in 1 .. 3 |-> serial[n][log[n].recs[m]]]
  <2>1. log[n].id = n
    BY <1>1
  <2>2. PICK m \in DOMAIN file : \E y \in DOMAIN file[m] : log[n] = file[m][y]
    BY <1>1
  <2>3. PICK y \in DOMAIN file[m] : log[n] = file[m][y]
    BY <2>2
  <2>4. serial[n] = Apply(Before(serial, n), log[n].recs)
    BY <2>1, <2>3 DEF OnceInv
  <2>5. log[n].vals = [k \in 1 .. 3 |-> serial[n][log[n].recs[k]]]
    BY <2>1, <2>3 DEF IInv, LinesSerial
  <2> QED BY <2>4, <2>5
<1>4. \A n \in 1 .. Last : RecordTable(log)[n] = serial[n]
  <2>1. /\ Len(log) \in Nat
        /\ \A n \in 1 .. Len(log) : serial[n] = Apply(Before(serial, n), log[n].recs)
    BY <1>1, <1>2, <1>3
  <2>2. \A n \in 1 .. Len(log) : RecordTable(log)[n] = serial[n]
    BY <2>1, ReplayIs
  <2> QED BY <1>1, <2>2
<1>5. ASSUME NEW n \in DOMAIN log, NEW m \in 1 .. 3
      PROVE  log[n].vals[m] = RecordTable(log)[n][log[n].recs[m]]
  <2>1. n \in 1 .. Last
    BY <1>2
  <2>2. log[n].vals[m] = serial[n][log[n].recs[m]]
    <3>1. log[n].vals = [k \in 1 .. 3 |-> serial[n][log[n].recs[k]]]
      BY <1>3, <2>1
    <3> QED BY <3>1
  <2> QED BY <1>4, <2>1, <2>2
<1> QED BY <1>1, <1>5 DEF IsCorrect

\* When all threads have ended, the logs have one line for each commit id, and the program finds
\* that repeating them in the order of their ids gives the values that they name: it prints 'true'.
THEOREM CheckAlwaysPasses ==
  ASSUME Thread # {}
  PROVE  Spec => []CheckPasses
<1>1. Init => OnceInv
  BY OnceInit
<1>2. IInv /\ OnceInv /\ [Next]_vars => OnceInv'
  BY OnceStep DEF IInv
<1>3. IInv /\ OnceInv => CheckPasses
  BY ChecksTrue
<1> QED BY <1>1, <1>2, <1>3, Invariant, PTL DEF Spec
=============================================================================
