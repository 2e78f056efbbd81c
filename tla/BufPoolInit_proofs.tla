------------------------- MODULE BufPoolInit_proofs -------------------------
(***************************************************************************)
(* Proofs about BufPoolInit, for every number of chunks and CPUs, and any  *)
(* chunk that fails.                                                       *)
(*                                                                         *)
(* The inductive invariant IInv has one part per idea:                     *)
(*   Types      the types; what success says was created                   *)
(*   PlanInv    the chunks that were given away, and those that are left   *)
(*   WorkerInv  how far a thread has come with its own chunks              *)
(*   BlockInv   the lists have the blocks of the chunks that were created  *)
(*   CleanInv   the cleanup follows the threads                            *)
(*   SizeInv    curr_size counts no chunk twice                            *)
(*   LP!IInv    the links of the lists, from BlockLists_proofs             *)
(***************************************************************************)
EXTENDS BufPoolInit, FiniteSetTheorems, TLAPS

LP == INSTANCE BlockLists_proofs WITH Thread <- Worker, Block <- 0 .. MaxChunks - 1

\* The chunks of a thread.
Mine(w) == range[w].start .. range[w].end - 1

\* Where the chunk of a thread exists, but is not in curr_size yet.
Unsized == {"read_word", "write_word", "read_size", "write_size"}

\* The types, but for the bounds that need counting.
Types ==
  /\ chunks \in 1 .. MaxChunks /\ cpus \in 1 .. MaxCpus
  /\ remains \in 0 .. cpus - 1 /\ last \in 0 .. chunks
  /\ range \in [Worker -> [start : 0 .. chunks, end : 0 .. chunks]]
  /\ failed \in BOOLEAN
  /\ created \subseteq Chunk /\ success \subseteq created /\ destroyed \subseteq created
  /\ currSize \in Nat
  /\ cid \in [Worker -> 0 .. chunks]
  /\ word \in [Worker -> SUBSET created]
  /\ size \in [Worker -> Nat]
  /\ cleaned \in 0 .. chunks
  /\ main \in {"spawn", "join", "cleanup", "done"}
  /\ pc \in [Worker -> {"none", "create", "insert", "fail", "read_word", "write_word",
                         "read_size", "write_size", "check", "ended"}]

\* The threads so far have disjoint ranges up to last; the rest is enough for the others.
PlanInv ==
  LET n == Cardinality(Started) IN
  /\ n \in 0 .. cpus /\ Started = 0 .. n - 1
  /\ IF main = "spawn" THEN n < cpus /\ last < chunks ELSE last = chunks
  /\ main = "spawn" => IF chunks > cpus
                         THEN last + (cpus - n) * Unit + remains = chunks /\ remains <= cpus - n
                         ELSE last = 0 /\ remains = 0
  /\ \A w \in Started : range[w].end <= last
  /\ \A v, w \in Started : v < w => range[v].end <= range[w].start
  /\ \A c \in 0 .. last - 1 : \E w \in Started : c \in Mine(w)

\* A thread has created its chunks up to cid, and no other; it goes on to the next one,
\* or ends before its last one, only as the flag says.
WorkerInv(w) ==
  /\ cid[w] \in Mine(w)
  /\ \A c \in Mine(w) : (c < cid[w] => c \in created) /\ (c > cid[w] => c \notin created)
  /\ pc[w] \in {"create", "insert", "fail"} => cid[w] \notin created
  /\ pc[w] \in Unsized => cid[w] \in created
  /\ pc[w] = "check" => failed \/ cid[w] \in created
  /\ pc[w] = "ended" => failed \/ (cid[w] \in created /\ AtEnd(w))

\* A thread within chunk_t::create() inserts the block of its chunk.
Inserts(w) == (at[w] # "out" <=> pc[w] = "insert") /\ (pc[w] = "insert" => elem[w] = cid[w])

\* What is in the lists was created, or is being inserted; what was created is in them
\* until it is destroyed.
BlockInv ==
  /\ \A w \in Worker : Inserts(w)
  /\ \A c \in created : c < last
  /\ \A c \in 0 .. MaxChunks - 1 : LP!InList(latches, c) \/ LP!InList(pages, c) =>
              c \in created \/ \E w \in Worker : pc[w] = "insert" /\ cid[w] = c
  /\ \A c \in created : LP!InList(pages, c) /\ (c \in destroyed \/ LP!InList(latches, c))

\* create() cleans up after the threads have ended, and only if one has failed.
CleanInv ==
  /\ main \in {"cleanup", "done"} => \A w \in Started : pc[w] = "ended"
  /\ main = "cleanup" => failed /\ cleaned < chunks
  /\ ~failed \/ main \in {"spawn", "join"} => cleaned = 0
  /\ \A c \in destroyed : c < cleaned

\* The chunks whose thread has added to curr_size.
Sized == {c \in created : ~\E w \in Worker : pc[w] \in Unsized /\ cid[w] = c}

\* curr_size, and what a thread has read of it, counts at most those.
SizeInv ==
  /\ currSize <= Cardinality(Sized)
  /\ \A w \in Worker : size[w] <= Cardinality(Sized)

\* The inductive invariant.
IInv ==
  /\ Types /\ PlanInv
  /\ \A w \in Started : WorkerInv(w)
  /\ BlockInv /\ CleanInv /\ SizeInv
  /\ LP!IInv

-----------------------------------------------------------------------------
\* LP, in which the links are proved, is Lists, of which the steps are.
LEMMA SameLists ==
  /\ Lists!Init <=> LP!Init
  /\ \A w, c : Lists!Push(w, c) <=> LP!Push(w, c)
  /\ \A w : Lists!Step(w) <=> LP!Step(w)
  /\ \A c : Lists!Remove(c) <=> LP!Remove(c)
  /\ \A list, c : Lists!InList(list, c) <=> LP!InList(list, c)
  /\ Lists!TypeOK <=> LP!TypeOK
  /\ Lists!LatchesLinked <=> LP!LatchesLinked
  /\ Lists!PagesLinked <=> LP!PagesLinked
<1>1. Lists!Init <=> LP!Init
  BY DEF Lists!Init, LP!Init, Lists!Node, LP!Node
<1>2. ASSUME NEW w, NEW c PROVE Lists!Push(w, c) <=> LP!Push(w, c)
  BY DEF Lists!Push, LP!Push, Lists!InList, LP!InList, Lists!Goto, LP!Goto, Lists!freeList, LP!freeList
<1>3. ASSUME NEW w PROVE Lists!Step(w) <=> LP!Step(w)
  <2>1. Lists!PushNext(w) <=> LP!PushNext(w)
    BY DEF Lists!PushNext, LP!PushNext, Lists!Goto, LP!Goto, Lists!freeList, LP!freeList
  <2>2. Lists!PushBack(w) <=> LP!PushBack(w)
    BY DEF Lists!PushBack, LP!PushBack, Lists!Goto, LP!Goto, Lists!freeList, LP!freeList
  <2>3. Lists!AppendEnd(w) <=> LP!AppendEnd(w)
    BY DEF Lists!AppendEnd, LP!AppendEnd, Lists!Goto, LP!Goto, Lists!rwList, LP!rwList
  <2>4. Lists!AppendLink(w) <=> LP!AppendLink(w)
    BY DEF Lists!AppendLink, LP!AppendLink, Lists!Goto, LP!Goto, Lists!rwList, LP!rwList
  <2>5. Lists!AppendPrev(w) <=> LP!AppendPrev(w)
    BY DEF Lists!AppendPrev, LP!AppendPrev, Lists!Goto, LP!Goto, Lists!rwList, LP!rwList
  <2>6. Lists!AppendCount(w) <=> LP!AppendCount(w)
    BY DEF Lists!AppendCount, LP!AppendCount, Lists!Goto, LP!Goto, Lists!rwList, LP!rwList
  <2> QED BY <2>1, <2>2, <2>3, <2>4, <2>5, <2>6 DEF Lists!Step, LP!Step
<1>4. ASSUME NEW c PROVE Lists!Remove(c) <=> LP!Remove(c)
  BY DEF Lists!Remove, LP!Remove, Lists!Without, LP!Without, Lists!InList, LP!InList,
         Lists!freeList, LP!freeList
<1>5. ASSUME NEW list, NEW c PROVE Lists!InList(list, c) <=> LP!InList(list, c)
  BY DEF Lists!InList, LP!InList
<1>6. Lists!TypeOK <=> LP!TypeOK
  BY DEF Lists!TypeOK, LP!TypeOK, Lists!Node, LP!Node
<1>7. Lists!LatchesLinked <=> LP!LatchesLinked
  BY DEF Lists!LatchesLinked, LP!LatchesLinked, Lists!At, LP!At, Lists!Inserting, LP!Inserting
<1>8. Lists!PagesLinked <=> LP!PagesLinked
  <2>1. \A S : Lists!Cardinality(S) = LP!Cardinality(S)
    BY DEF Lists!Cardinality, LP!Cardinality
  <2> QED BY <2>1 DEF Lists!PagesLinked, LP!PagesLinked, Lists!At, LP!At, Lists!Inserting,
                  LP!Inserting, Lists!InList, LP!InList
<1> QED BY <1>1, <1>2, <1>3, <1>4, <1>5, <1>6, <1>7, <1>8

\* A step of the lists keeps their links.
LEMMA ListStep ==
  ASSUME LP!IInv,
         \/ UNCHANGED lists
         \/ \E w \in Worker : LP!Step(w)
         \/ \E w \in Worker, c \in 0 .. MaxChunks - 1 : LP!Push(w, c)
         \/ /\ \A w \in Worker : at[w] = "out"
            /\ \E c \in 0 .. MaxChunks - 1 : LP!InList(latches, c) /\ LP!Remove(c)
  PROVE  LP!IInv'
<1>1. Sentinel \notin 0 .. MaxChunks - 1 /\ LP!IsFiniteSet(0 .. MaxChunks - 1)
  <2>1. IsFiniteSet(0 .. MaxChunks - 1)
    BY BufPoolAssumption, FS_Interval
  <2> QED BY BufPoolAssumption, <2>1 DEF IsFiniteSet, LP!IsFiniteSet
<1>2. LP!IInv /\ [LP!Next]_(LP!vars) => LP!IInv'
  BY <1>1, LP!NextInv
<1>3. UNCHANGED lists => UNCHANGED LP!vars
  BY DEF lists, LP!vars, LP!rwList, LP!freeList
<1> QED BY <1>2, <1>3 DEF LP!Next

\* The blocks are the chunks that a pool may have.
LEMMA ChunkIsBlock ==
  ASSUME Types
  PROVE  Chunk \subseteq 0 .. MaxChunks - 1
BY BufPoolAssumption DEF Types, Chunk

\* The ranges of two threads have no chunk in common.
LEMMA OneOwner ==
  ASSUME Types, PlanInv, NEW v \in Started, NEW w \in Started, v # w,
         NEW c \in Mine(v)
  PROVE  c \notin Mine(w)
<1>1. /\ v \in 0 .. MaxCpus - 1 /\ w \in 0 .. MaxCpus - 1 /\ MaxCpus \in Nat
  BY BufPoolAssumption DEF Started, Worker
<1>2. v < w \/ w < v
  BY <1>1
<1>3. /\ range[v].start \in Nat /\ range[v].end \in Nat
      /\ range[w].start \in Nat /\ range[w].end \in Nat
  BY DEF Types, Started
<1>4. range[v].end <= range[w].start \/ range[w].end <= range[v].start
  BY <1>2 DEF PlanInv
<1> QED BY <1>3, <1>4 DEF Mine

\* The chunks of a thread are chunks of the pool.
LEMMA MineAreChunks ==
  ASSUME Types, PlanInv, NEW w \in Started
  PROVE  /\ Mine(w) \subseteq Chunk /\ Mine(w) \subseteq 0 .. last - 1
         /\ range[w].start \in Nat /\ range[w].end \in Nat /\ range[w].end <= last
BY DEF Types, PlanInv, Mine, Chunk, Started

\* What a step of a thread leaves alone: all that belongs to others.
LEMMA WorkFrame ==
  ASSUME Types, NEW w \in Worker, Work(w)
  PROVE  /\ w \in Started /\ pc[w] # "ended" /\ pc'[w] # "none" /\ Started' = Started
         /\ UNCHANGED <<plan, main, destroyed>>
         /\ \A u \in Worker \ {w} : /\ pc'[u] = pc[u] /\ cid'[u] = cid[u]
                                   /\ word'[u] = word[u] /\ size'[u] = size[u]
         /\ created \subseteq created' /\ created' \subseteq created \cup {cid[w]}
         /\ failed => failed'
<1>1. /\ pc \in [Worker -> {"none", "create", "insert", "fail", "read_word", "write_word",
                           "read_size", "write_size", "check", "ended"}]
      /\ cid \in [Worker -> 0 .. chunks] /\ word \in [Worker -> SUBSET created]
      /\ size \in [Worker -> Nat] /\ failed \in BOOLEAN
  BY DEF Types
<1>2. /\ pc[w] # "none" /\ pc[w] # "ended" /\ pc'[w] # "none"
      /\ \A u \in Worker \ {w} : pc'[u] = pc[u]
  <2>1. CASE Create(w)
    BY <1>1, <2>1 DEF Create, Goto
  <2>2. CASE Insert(w)
    BY <1>1, <2>2 DEF Insert, Goto
  <2>3. CASE Fail(w)
    BY <1>1, <2>3 DEF Fail, Goto
  <2>4. CASE ReadWord(w) \/ WriteWord(w)
    BY <1>1, <2>4 DEF ReadWord, WriteWord, Goto
  <2>5. CASE ReadSize(w) \/ WriteSize(w)
    BY <1>1, <2>5 DEF ReadSize, WriteSize, Goto
  <2>6. CASE Check(w)
    BY <1>1, <2>6 DEF Check, Goto
  <2> QED BY <2>1, <2>2, <2>3, <2>4, <2>5, <2>6 DEF Work
<1>3. Started' = Started
  <2>1. \A u \in Worker : pc'[u] = "none" <=> pc[u] = "none"
    BY <1>2
  <2> QED BY <2>1 DEF Started
<1>4. UNCHANGED <<plan, main, destroyed>>
  BY DEF Work, Create, Insert, Fail, ReadWord, WriteWord, ReadSize, WriteSize, Check, pool
<1>5. \A u \in Worker \ {w} : cid'[u] = cid[u]
  BY <1>1 DEF Work, Create, Insert, Fail, ReadWord, WriteWord, ReadSize, WriteSize, Check
<1>6. \A u \in Worker \ {w} : word'[u] = word[u]
  BY <1>1 DEF Work, Create, Insert, Fail, ReadWord, WriteWord, ReadSize, WriteSize, Check, read
<1>7. \A u \in Worker \ {w} : size'[u] = size[u]
  BY <1>1 DEF Work, Create, Insert, Fail, ReadWord, WriteWord, ReadSize, WriteSize, Check, read
<1>8. created \subseteq created' /\ created' \subseteq created \cup {cid[w]}
  BY DEF Work, Create, Insert, Fail, ReadWord, WriteWord, ReadSize, WriteSize, Check, pool
<1>9. failed => failed'
  BY DEF Work, Create, Insert, Fail, ReadWord, WriteWord, ReadSize, WriteSize, Check
<1> QED BY <1>2, <1>3, <1>4, <1>5, <1>6, <1>7, <1>8, <1>9 DEF Started

-----------------------------------------------------------------------------
\* The remainder of the division is less than the number of CPUs.
LEMMA UnitBounds ==
  ASSUME Types
  PROVE  /\ Unit \in Nat \ {0}
         /\ chunks > cpus => Unit * cpus <= chunks /\ chunks - Unit * cpus < cpus
<1>1. chunks \in Nat \ {0} /\ cpus \in Nat \ {0}
  BY BufPoolAssumption DEF Types
<1>2. CASE chunks > cpus
  <2>1. Unit = chunks \div cpus
    BY <1>2 DEF Unit
  <2>2. /\ chunks \div cpus \in Nat /\ cpus * (chunks \div cpus) <= chunks
        /\ chunks - cpus * (chunks \div cpus) < cpus
    BY <1>1
  <2>3. chunks \div cpus >= 1
    BY <1>1, <1>2
  <2>4. (chunks \div cpus) * cpus = cpus * (chunks \div cpus)
    BY <1>1, <2>2
  <2> QED BY <2>1, <2>2, <2>3, <2>4
<1>3. CASE ~(chunks > cpus)
  BY <1>1, <1>3 DEF Unit
<1> QED BY <1>2, <1>3

\* Where create() begins to create threads.
LEMMA InitInv == Init => IInv
<1> SUFFICES ASSUME Init PROVE IInv
  OBVIOUS
<1>1. /\ chunks \in 1 .. MaxChunks /\ cpus \in 1 .. MaxCpus
      /\ chunks \in Nat \ {0} /\ cpus \in Nat \ {0}
  BY BufPoolAssumption DEF Init
<1>2. Started = {} /\ Cardinality(Started) = 0
  BY FS_EmptySet DEF Init, Started
<1>3. remains \in 0 .. cpus - 1 /\ (chunks > cpus => Unit * cpus + remains = chunks)
  <2>1. CASE chunks > cpus
    <3>1. Unit = chunks \div cpus /\ remains = chunks - Unit * cpus
      BY <2>1 DEF Unit, Init
    <3>2. /\ chunks \div cpus \in Nat /\ cpus * (chunks \div cpus) <= chunks
          /\ chunks - cpus * (chunks \div cpus) < cpus
      BY <1>1
    <3>3. (chunks \div cpus) * cpus = cpus * (chunks \div cpus)
      BY <1>1, <3>2
    <3> QED BY <1>1, <3>1, <3>2, <3>3
  <2>2. CASE ~(chunks > cpus)
    BY <1>1, <2>2 DEF Init
  <2> QED BY <2>1, <2>2
<1>4. Types
  <2>1. 0 \in 0 .. chunks /\ [start |-> 0, end |-> 0] \in [start : 0 .. chunks, end : 0 .. chunks]
    BY <1>1
  <2>2. range \in [Worker -> [start : 0 .. chunks, end : 0 .. chunks]]
    BY <2>1 DEF Init
  <2>3. last \in 0 .. chunks /\ cleaned \in 0 .. chunks /\ cid \in [Worker -> 0 .. chunks]
    BY <2>1 DEF Init
  <2>4. /\ failed \in BOOLEAN /\ created = {} /\ success = {} /\ destroyed = {} /\ currSize \in Nat
        /\ word \in [Worker -> SUBSET created] /\ size \in [Worker -> Nat] /\ main = "spawn"
        /\ pc = [w \in Worker |-> "none"]
    BY DEF Init
  <2> QED BY <1>1, <1>3, <2>2, <2>3, <2>4 DEF Types
<1>5. Unit \in Nat
  BY <1>4, UnitBounds
<1>6. PlanInv
  <2>1. main = "spawn" /\ last = 0
    BY DEF Init
  <2>2. chunks > cpus => last + (cpus - 0) * Unit + remains = chunks
    <3>1. (cpus - 0) * Unit = Unit * cpus
      BY <1>1, <1>5
    <3> QED BY <1>1, <1>3, <1>5, <2>1, <3>1
  <2>3. ~(chunks > cpus) => remains = 0
    BY DEF Init
  <2>4. 0 .. last - 1 = {} /\ 0 .. 0 - 1 = {}
    BY <2>1
  <2> QED BY <1>1, <1>2, <1>3, <2>1, <2>2, <2>3, <2>4 DEF PlanInv
<1>7. BlockInv
  <2>1. \A c : ~LP!InList(latches, c) /\ ~LP!InList(pages, c)
    BY SameLists DEF Init, LP!Init, LP!InList
  <2>2. \A w \in Worker : at[w] = "out" /\ pc[w] = "none"
    BY SameLists DEF Init, LP!Init
  <2> QED BY <2>1, <2>2 DEF Init, BlockInv, Inserts
<1>8. CleanInv
  BY DEF Init, CleanInv
<1>9. SizeInv
  <2>1. Sized = {}
    BY DEF Init, Sized
  <2> QED BY <2>1, FS_EmptySet DEF Init, SizeInv
<1>10. LP!IInv
  BY SameLists, BufPoolAssumption, LP!InitInv DEF Init
<1> QED BY <1>2, <1>4, <1>6, <1>7, <1>8, <1>9, <1>10 DEF IInv

\* create() gives the next chunks to a new thread.
LEMMA SpawnInv ==
  ASSUME IInv, Spawn
  PROVE  IInv'
<1> DEFINE n == Cardinality(Started)
           to == last + Share
<1>1. /\ Types /\ PlanInv /\ BlockInv /\ CleanInv /\ SizeInv /\ LP!IInv
      /\ \A w \in Started : WorkerInv(w)
  BY DEF IInv
<1>2. /\ main = "spawn" /\ n \in Nat /\ n < cpus /\ last < chunks /\ Started = 0 .. n - 1
      /\ last \in Nat /\ chunks \in Nat \ {0} /\ cpus \in Nat \ {0} /\ cpus <= MaxCpus
      /\ remains \in Nat /\ remains < cpus /\ MaxCpus \in Nat
  BY <1>1, BufPoolAssumption DEF Spawn, PlanInv, Types
<1>3. n \in Worker /\ n \notin Started
  BY <1>2 DEF Worker
<1>4. /\ range' = [range EXCEPT ![n] = [start |-> last, end |-> to]]
      /\ cid' = [cid EXCEPT ![n] = last] /\ pc' = [pc EXCEPT ![n] = "create"]
      /\ remains' = IF remains > 0 THEN remains - 1 ELSE 0
      /\ last' = to /\ main' = IF to = chunks \/ n + 1 = cpus THEN "join" ELSE "spawn"
      /\ chunks' = chunks /\ cpus' = cpus /\ failed' = failed /\ cleaned' = cleaned
      /\ UNCHANGED <<success, currSize, created, destroyed, word, size, lists>>
  BY DEF Spawn, Goto, pool, read
<1> HIDE DEF n, to
<1>5. /\ range'[n].start = last /\ range'[n].end = to /\ cid'[n] = last /\ pc'[n] = "create"
      /\ \A w \in Worker \ {n} : range'[w] = range[w] /\ cid'[w] = cid[w] /\ pc'[w] = pc[w]
  BY <1>1, <1>3, <1>4 DEF Types
<1>6. Unit \in Nat \ {0} /\ Share \in {Unit, Unit + 1} /\ Unit' = Unit /\ to = last + Share
  BY <1>1, <1>2, <1>4, UnitBounds DEF Share, Unit, to
<1>7. /\ to \in Nat /\ to > last /\ to <= chunks
      /\ n + 1 = cpus => to = chunks
      /\ to # chunks => /\ chunks > cpus /\ remains' <= cpus - (n + 1)
                        /\ to + (cpus - (n + 1)) * Unit + remains' = chunks
  <2>1. CASE chunks > cpus
    <3>1. last + (cpus - n) * Unit + remains = chunks /\ remains <= cpus - n
      BY <1>1, <1>2, <2>1 DEF PlanInv, n
    <3> DEFINE r == (cpus - (n + 1)) * Unit
    <3>2. cpus - (n + 1) \in Nat
      BY <1>2
    <3>3. (cpus - n) * Unit = r + Unit
      BY <1>2, <1>6
    <3>4. r \in Nat
      BY <1>6, <3>2
    <3>5. n + 1 = cpus => r = 0
      BY <1>2, <1>6
    <3> HIDE DEF r
    <3>6. CASE remains > 0
      <4>1. Share = Unit + 1 /\ remains' = remains - 1
        BY <1>4, <3>6 DEF Share
      <4> QED BY <1>2, <1>6, <2>1, <3>1, <3>2, <3>3, <3>4, <3>5, <3>6, <4>1 DEF r
    <3>7. CASE remains = 0
      <4>1. Share = Unit /\ remains' = 0
        BY <1>4, <3>7 DEF Share
      <4> QED BY <1>2, <1>6, <2>1, <3>1, <3>2, <3>3, <3>4, <3>5, <3>7, <4>1 DEF r
    <3> QED BY <1>2, <3>6, <3>7
  <2>2. CASE ~(chunks > cpus)
    <3>1. last = 0 /\ remains = 0
      BY <1>1, <1>2, <2>2 DEF PlanInv
    <3>2. Share = chunks
      BY <2>2, <3>1 DEF Share, Unit
    <3> QED BY <1>2, <1>6, <3>1, <3>2
  <2> QED BY <2>1, <2>2
<1>8. remains' \in 0 .. cpus - 1
  BY <1>2, <1>4
<1>9. Started' = Started \cup {n} /\ Started' = 0 .. (n + 1) - 1 /\ Cardinality(Started') = n + 1
  <2>1. Started' = Started \cup {n}
    BY <1>3, <1>5 DEF Started
  <2>2. IsFiniteSet(Started)
    <3>1. Worker = 0 .. MaxCpus - 1 /\ IsFiniteSet(0 .. MaxCpus - 1)
      BY <1>2, FS_Interval DEF Worker
    <3> QED BY <3>1, FS_Subset DEF Started
  <2>3. Cardinality(Started') = n + 1
    BY <2>1, <2>2, <1>3, FS_AddElement DEF n
  <2> QED BY <1>2, <2>1, <2>3
<1>10. Types'
  <2>1. [start |-> last, end |-> to] \in [start : 0 .. chunks, end : 0 .. chunks]
    BY <1>2, <1>7
  <2>2. range' \in [Worker -> [start : 0 .. chunks, end : 0 .. chunks]]
    BY <1>1, <1>4, <2>1 DEF Types
  <2>3. cid' \in [Worker -> 0 .. chunks] /\ pc' \in [Worker -> {"none", "create", "insert", "fail",
          "read_word", "write_word", "read_size", "write_size", "check", "ended"}]
    BY <1>1, <1>2, <1>4 DEF Types
  <2>4. last' \in 0 .. chunks /\ main' \in {"spawn", "join", "cleanup", "done"}
    BY <1>2, <1>4, <1>7
  <2> QED BY <1>1, <1>4, <1>8, <2>2, <2>3, <2>4 DEF Types, Chunk
<1>11. PlanInv'
  <2>1. n + 1 \in 0 .. cpus
    BY <1>2
  <2>2. IF main' = "spawn" THEN n + 1 < cpus /\ last' < chunks ELSE last' = chunks
    BY <1>2, <1>4, <1>7
  <2>3. main' = "spawn" => IF chunks > cpus
          THEN last' + (cpus - (n + 1)) * Unit + remains' = chunks /\ remains' <= cpus - (n + 1)
          ELSE last' = 0 /\ remains' = 0
    BY <1>4, <1>7
  <2>4. ASSUME NEW w \in Started' PROVE range'[w].end <= last'
    <3>1. w # n => range[w].end <= last /\ range[w].end \in Nat
      BY <1>1, <1>9, MineAreChunks
    <3>2. w # n => range'[w] = range[w]
      BY <1>5, <1>9 DEF Started
    <3> QED BY <1>2, <1>4, <1>5, <1>7, <3>1, <3>2
  <2>5. ASSUME NEW v \in Started', NEW w \in Started', v < w PROVE range'[v].end <= range'[w].start
    <3>1. v # n /\ v \in Started /\ v \in Worker /\ range'[v] = range[v]
      BY <1>2, <1>5, <1>9, <2>5 DEF Started
    <3>2. CASE w = n
      BY <1>1, <1>5, <3>1, <3>2 DEF PlanInv
    <3>3. CASE w # n
      <4>1. w \in Started /\ range'[w] = range[w]
        BY <1>5, <1>9, <3>3 DEF Started
      <4> QED BY <1>1, <2>5, <3>1, <4>1 DEF PlanInv
    <3> QED BY <3>2, <3>3
  <2>6. ASSUME NEW c \in 0 .. last' - 1 PROVE \E w \in Started' : c \in Mine(w)'
    <3>1. CASE c < last
      <4>1. PICK w \in Started : c \in Mine(w)
        BY <1>1, <1>2, <3>1 DEF PlanInv
      <4>2. range'[w] = range[w]
        BY <1>3, <1>5 DEF Started
      <4> QED BY <1>9, <4>1, <4>2 DEF Mine
    <3>2. CASE ~(c < last)
      <4>1. c \in last .. to - 1
        BY <1>2, <1>4, <1>7, <3>2
      <4> QED BY <1>5, <1>9, <4>1 DEF Mine
    <3> QED BY <3>1, <3>2
  <2> QED BY <1>4, <1>6, <1>9, <2>1, <2>2, <2>3, <2>4, <2>5, <2>6 DEF PlanInv
<1>12. ASSUME NEW w \in Started' PROVE WorkerInv(w)'
  <2>1. CASE w = n
    <3>1. /\ range'[w].start = last /\ range'[w].end = to /\ cid'[w] = last /\ pc'[w] = "create"
          /\ created' = created
      BY <1>4, <1>5, <2>1
    <3>2. \A c \in created : c < last
      BY <1>1 DEF BlockInv
    <3>3. last \notin created
      BY <1>2, <3>2
    <3>4. \A c \in last .. to - 1 : c >= last /\ c \notin created
      BY <1>2, <3>2
    <3> QED BY <1>2, <1>7, <3>1, <3>3, <3>4 DEF WorkerInv, Mine, Unsized
  <2>2. CASE w # n
    <3>1. w \in Started /\ w \in Worker
      BY <1>9, <2>2 DEF Started
    <3>2. /\ range'[w] = range[w] /\ cid'[w] = cid[w] /\ pc'[w] = pc[w] /\ created' = created
          /\ failed' = failed
      BY <1>4, <1>5, <2>2, <3>1
    <3> QED BY <1>1, <3>1, <3>2 DEF WorkerInv, Mine, AtEnd
  <2> QED BY <2>1, <2>2
<1>13. BlockInv'
  <2>1. latches' = latches /\ pages' = pages /\ at' = at /\ elem' = elem
    BY <1>4 DEF lists
  <2>2. \A w \in Worker \ {n} : pc'[w] = pc[w] /\ cid'[w] = cid[w]
    BY <1>5
  <2>3. pc[n] = "none" /\ pc'[n] = "create"
    BY <1>3, <1>5 DEF Started
  <2>4. \A w \in Worker : Inserts(w)'
    BY <1>1, <2>1, <2>2, <2>3 DEF BlockInv, Inserts
  <2>5. \A c \in created' : c < last'
    BY <1>1, <1>2, <1>4, <1>7 DEF BlockInv, Types, Chunk
  <2>6. \A c : LP!InList(latches', c) = LP!InList(latches, c) /\ LP!InList(pages', c) = LP!InList(pages, c)
    BY <2>1
  <2>7. ASSUME NEW c \in 0 .. MaxChunks - 1, LP!InList(latches, c) \/ LP!InList(pages, c)
        PROVE  c \in created \/ \E w \in Worker : pc'[w] = "insert" /\ cid'[w] = c
    BY <1>1, <2>2, <2>3, <2>7 DEF BlockInv
  <2>8. \A c \in created : LP!InList(pages, c) /\ (c \in destroyed \/ LP!InList(latches, c))
    BY <1>1 DEF BlockInv
  <2> QED BY <1>4, <2>1, <2>4, <2>5, <2>7, <2>8 DEF BlockInv, LP!InList
<1>14. CleanInv'
  BY <1>1, <1>2, <1>4 DEF CleanInv
<1>15. SizeInv'
  <2>1. Sized' = Sized
    <3>1. pc[n] \notin Unsized /\ pc'[n] \notin Unsized
      BY <1>3, <1>5 DEF Started, Unsized
    <3> QED BY <1>4, <1>5, <3>1 DEF Sized
  <2> QED BY <1>1, <1>4, <2>1 DEF SizeInv
<1>16. LP!IInv'
  BY <1>1, <1>4, ListStep
<1> QED BY <1>10, <1>11, <1>12, <1>13, <1>14, <1>15, <1>16 DEF IInv

\* create() waits for the threads.
LEMMA JoinInv ==
  ASSUME IInv, Join
  PROVE  IInv'
<1>1. /\ Types /\ PlanInv /\ BlockInv /\ CleanInv /\ SizeInv /\ LP!IInv
      /\ \A w \in Started : WorkerInv(w)
  BY DEF IInv
<1>2. /\ main = "join" /\ \A w \in Started : pc[w] = "ended"
      /\ main' = IF failed THEN "cleanup" ELSE "done"
      /\ UNCHANGED <<chunks, cpus, remains, last, range, cleaned, failed, success, currSize, created,
                     destroyed, cid, word, size, pc, lists>>
  BY DEF Join, plan, pool, read
<1>3. Types' /\ Started' = Started /\ Unit' = Unit
  BY <1>1, <1>2 DEF Types, Chunk, Started, Unit
<1>4. PlanInv'
  BY <1>1, <1>2, <1>3 DEF PlanInv, Mine
<1>5. ASSUME NEW w \in Started' PROVE WorkerInv(w)'
  BY <1>1, <1>2, <1>3 DEF WorkerInv, Mine, AtEnd
<1>6. BlockInv'
  BY <1>1, <1>2 DEF BlockInv, Inserts, LP!InList, lists
<1>7. CleanInv'
  <2>1. cleaned = 0 /\ 0 < chunks
    BY <1>1, <1>2 DEF CleanInv, Types
  <2> QED BY <1>1, <1>2, <1>3, <2>1 DEF CleanInv
<1>8. SizeInv'
  <2>1. Sized' = Sized
    BY <1>2 DEF Sized
  <2> QED BY <1>1, <1>2, <1>3, <2>1 DEF SizeInv
<1>9. LP!IInv'
  BY <1>1, <1>2, ListStep
<1> QED BY <1>3, <1>4, <1>5, <1>6, <1>7, <1>8, <1>9 DEF IInv

\* create() looks at the next chunk after a failure, and destroys it if success says so.
LEMMA CleanupInv ==
  ASSUME IInv, Cleanup
  PROVE  IInv'
<1>1. /\ Types /\ PlanInv /\ BlockInv /\ CleanInv /\ SizeInv /\ LP!IInv
      /\ \A w \in Started : WorkerInv(w)
  BY DEF IInv
<1>2. /\ main = "cleanup" /\ cleaned' = cleaned + 1
      /\ main' = IF cleaned + 1 = chunks THEN "done" ELSE "cleanup"
      /\ UNCHANGED <<chunks, cpus, remains, last, range, failed, success, currSize, created,
                     cid, word, size, pc>>
  BY DEF Cleanup, read
<1>3. /\ failed /\ cleaned < chunks /\ cleaned \in Nat /\ chunks \in Nat
      /\ \A w \in Started : pc[w] = "ended"
  BY <1>1, <1>2 DEF CleanInv, Types
<1>4. Started' = Started /\ Unit' = Unit
  BY <1>2 DEF Started, Unit
<1>5. \A w \in Worker : at[w] = "out" /\ pc[w] # "insert"
  <2>1. \A w \in Worker : pc[w] # "insert"
    BY <1>3 DEF Started
  <2> QED BY <1>1, <2>1 DEF BlockInv, Inserts
<1>6. /\ LP!IInv' /\ at' = at /\ elem' = elem /\ pages' = pages
      /\ destroyed' \subseteq destroyed \cup {cleaned} /\ destroyed' \subseteq created
      /\ destroyed \subseteq destroyed'
      /\ \A c : LP!InList(latches', c) => LP!InList(latches, c)
      /\ \A c : LP!InList(latches, c) => LP!InList(latches', c) \/ c \in destroyed'
  <2>1. CASE cleaned \in success
    <3>1. destroyed' = destroyed \cup {cleaned} /\ LP!Remove(cleaned)
      BY <2>1, SameLists DEF Cleanup, Destroys
    <3>2. cleaned \in created /\ cleaned \notin destroyed /\ cleaned \in 0 .. MaxChunks - 1
      BY <1>1, <1>3, <2>1, ChunkIsBlock DEF Types, CleanInv
    <3>3. LP!InList(latches, cleaned)
      BY <1>1, <3>2 DEF BlockInv
    <3>4. LP!IInv'
      BY <1>1, <1>5, <3>1, <3>2, <3>3, ListStep
    <3>5. /\ at' = at /\ elem' = elem /\ pages' = pages
          /\ \A c : LP!InList(latches', c) <=> c # cleaned /\ LP!InList(latches, c)
      BY <1>1, <3>1, <3>2, <3>3, LP!RemoveEffect DEF LP!IInv
    <3>6. destroyed' \subseteq created
      BY <1>1, <3>1, <3>2 DEF Types
    <3> QED BY <3>1, <3>4, <3>5, <3>6
  <2>2. CASE cleaned \notin success
    <3>1. destroyed' = destroyed /\ UNCHANGED lists
      BY <2>2 DEF Cleanup, Destroys
    <3>2. at' = at /\ elem' = elem /\ pages' = pages /\ latches' = latches
      BY <3>1 DEF lists
    <3> QED BY <1>1, <3>1, <3>2, ListStep DEF Types
  <2> QED BY <2>1, <2>2
<1>7. Types'
  <2>1. cleaned' \in 0 .. chunks /\ main' \in {"cleanup", "done"}
    BY <1>2, <1>3
  <2> QED BY <1>1, <1>2, <1>6, <2>1 DEF Types, Chunk
<1>8. PlanInv'
  BY <1>1, <1>2, <1>4 DEF PlanInv, Mine
<1>9. ASSUME NEW w \in Started' PROVE WorkerInv(w)'
  BY <1>1, <1>2, <1>4 DEF WorkerInv, Mine, AtEnd
<1>10. BlockInv'
  <2>1. \A w \in Worker : Inserts(w)'
    BY <1>1, <1>2, <1>6 DEF BlockInv, Inserts
  <2>2. ASSUME NEW c \in 0 .. MaxChunks - 1, LP!InList(latches', c) \/ LP!InList(pages', c)
        PROVE  c \in created' \/ \E w \in Worker : pc'[w] = "insert" /\ cid'[w] = c
    BY <1>1, <1>2, <1>6, <2>2 DEF BlockInv
  <2>3. \A c \in created' : LP!InList(pages', c) /\ (c \in destroyed' \/ LP!InList(latches', c))
    BY <1>1, <1>2, <1>6 DEF BlockInv
  <2>4. \A c \in created' : c < last'
    BY <1>1, <1>2 DEF BlockInv
  <2> QED BY <2>1, <2>2, <2>3, <2>4 DEF BlockInv, LP!InList
<1>11. CleanInv'
  <2>1. \A c \in destroyed' : c < cleaned + 1
    <3>1. \A c \in destroyed : c \in Nat /\ c < cleaned
      BY <1>1 DEF CleanInv, Types, Chunk
    <3> QED BY <1>3, <1>6, <3>1
  <2> QED BY <1>1, <1>2, <1>3, <1>4, <2>1 DEF CleanInv
<1>12. SizeInv'
  <2>1. Sized' = Sized
    BY <1>2 DEF Sized
  <2> QED BY <1>1, <1>2, <1>4, <2>1 DEF SizeInv
<1> QED BY <1>4, <1>6, <1>7, <1>8, <1>9, <1>10, <1>11, <1>12 DEF IInv

-----------------------------------------------------------------------------
\* A step of a thread keeps the types: a thread that goes on has a chunk left, and a bit is
\* set in success only after its chunk was created.
LEMMA WorkTypes ==
  ASSUME IInv, NEW w \in Worker, Work(w)
  PROVE  Types'
<1>1. Types /\ PlanInv
  BY DEF IInv
<1>2. w \in Started /\ WorkerInv(w)
  BY <1>1, WorkFrame DEF IInv
<1>3. cid[w] \in Mine(w) /\ cid[w] \in Chunk /\ range[w].end <= chunks /\ range[w].end \in Nat
      /\ cid[w] \in Nat
  BY <1>1, <1>2, MineAreChunks DEF WorkerInv, Types, Chunk, Started
<1>4. Chunk' = Chunk /\ UNCHANGED <<chunks, cpus, remains, last, range, cleaned, main, destroyed>>
  BY <1>1, WorkFrame DEF plan, Chunk
<1>5. pc' \in [Worker -> {"none", "create", "insert", "fail", "read_word", "write_word",
                          "read_size", "write_size", "check", "ended"}]
  BY <1>1 DEF Work, Create, Insert, Fail, ReadWord, WriteWord, ReadSize, WriteSize, Check, Goto, Types
<1>6. failed' \in BOOLEAN
  BY <1>1 DEF Work, Create, Insert, Fail, ReadWord, WriteWord, ReadSize, WriteSize, Check, Types
<1>7. created' \subseteq Chunk /\ created \subseteq created'
  BY <1>1, <1>3, WorkFrame DEF Types
<1>8. success' \subseteq created
  <2>1. CASE WriteWord(w)
    <3>1. cid[w] \in created /\ word[w] \subseteq created /\ success \subseteq created
      BY <1>1, <1>2, <2>1 DEF WriteWord, WorkerInv, Unsized, Types
    <3> QED BY <2>1, <3>1 DEF WriteWord
  <2>2. CASE ~WriteWord(w)
    BY <1>1, <2>2 DEF Work, Create, Insert, Fail, ReadWord, ReadSize, WriteSize, Check, pool, Types
  <2> QED BY <2>1, <2>2
<1>9. word' \in [Worker -> SUBSET created']
  <2>1. word \in [Worker -> SUBSET created'] /\ success \subseteq created'
    BY <1>1, <1>7 DEF Types
  <2> HIDE DEF IInv
  <2>2. CASE ReadWord(w)
    BY <2>1, <2>2 DEF ReadWord
  <2>3. CASE WriteWord(w)
    BY <2>1, <2>3 DEF WriteWord
  <2>4. CASE ~ReadWord(w) /\ ~WriteWord(w)
    BY <2>1, <2>4 DEF Work, Create, Insert, Fail, ReadSize, WriteSize, Check, read
  <2> QED BY <2>2, <2>3, <2>4
<1>10. currSize' \in Nat /\ size' \in [Worker -> Nat]
  <2>1. CASE ReadSize(w)
    BY <1>1, <2>1 DEF ReadSize, Types, pool
  <2>2. CASE WriteSize(w)
    BY <1>1, <2>2 DEF WriteSize, Types
  <2>3. CASE ~ReadSize(w) /\ ~WriteSize(w)
    BY <1>1, <2>3 DEF Work, Create, Insert, Fail, ReadWord, WriteWord, Check, pool, read, Types
  <2> QED BY <2>1, <2>2, <2>3
<1>11. cid' \in [Worker -> 0 .. chunks]
  <2>1. CASE Check(w)
    <3>1. cid[w] + 1 \in 0 .. chunks
      BY <1>3, <1>1 DEF Mine, Types
    <3> QED BY <1>1, <2>1, <3>1 DEF Check, Types
  <2>2. CASE ~Check(w)
    BY <1>1, <2>2 DEF Work, Create, Insert, Fail, ReadWord, WriteWord, ReadSize, WriteSize, Types
  <2> QED BY <2>1, <2>2
<1> QED BY <1>1, <1>4, <1>5, <1>6, <1>7, <1>8, <1>9, <1>10, <1>11 DEF Types

\* A step of a thread touches only the chunk that is its own, and goes past it only as the
\* flag and its range say.
LEMMA WorkWorkers ==
  ASSUME IInv, NEW w \in Worker, Work(w)
  PROVE  \A u \in Started' : WorkerInv(u)'
<1>1. Types /\ PlanInv /\ \A u \in Started : WorkerInv(u)
  BY DEF IInv
<1>2. /\ w \in Started /\ pc[w] # "ended" /\ pc'[w] # "none" /\ Started' = Started
      /\ range' = range
      /\ \A u \in Worker \ {w} : pc'[u] = pc[u] /\ cid'[u] = cid[u]
      /\ created \subseteq created' /\ created' \subseteq created \cup {cid[w]}
      /\ failed => failed'
  BY <1>1, WorkFrame DEF plan
<1>3. /\ cid[w] \in Mine(w) /\ cid[w] \in Nat
      /\ range[w].start \in Nat /\ range[w].end \in Nat
  BY <1>1, <1>2, MineAreChunks DEF WorkerInv, Types
<1>4. ASSUME NEW u \in Started, u # w PROVE WorkerInv(u)'
  <2>1. cid[w] \notin Mine(u)
    BY <1>1, <1>2, <1>3, <1>4, OneOwner
  <2>2. u \in Worker /\ pc'[u] = pc[u] /\ cid'[u] = cid[u] /\ range'[u] = range[u] /\ WorkerInv(u)
    BY <1>1, <1>2, <1>4 DEF Started
  <2>3. \A c \in Mine(u) : c \in created' <=> c \in created
    BY <1>2, <2>1
  <2> QED BY <1>2, <2>2, <2>3 DEF WorkerInv, Mine, AtEnd
<1>5. WorkerInv(w)
  BY <1>1, <1>2
<1>6. \A c \in Mine(w) : c # cid[w] => (c \in created' <=> c \in created)
  BY <1>2
<1>7. pc \in [Worker -> {"none", "create", "insert", "fail", "read_word", "write_word",
                         "read_size", "write_size", "check", "ended"}]
      /\ cid \in [Worker -> 0 .. chunks]
  BY <1>1 DEF Types
<1>8. Mine(w)' = Mine(w)
  BY <1>2 DEF Mine
<1>9. ASSUME Check(w), ~failed, ~AtEnd(w) PROVE WorkerInv(w)'
  <2>1. /\ pc[w] = "check" /\ pc'[w] = "create" /\ cid'[w] = cid[w] + 1 /\ created' = created
        /\ failed' = failed
    BY <1>7, <1>9 DEF Check, Goto, pool
  <2>2. cid[w] \in created /\ cid[w] + 1 \in Mine(w) /\ cid[w] + 1 > cid[w]
    BY <1>3, <1>5, <1>9, <2>1 DEF WorkerInv, AtEnd, Mine
  <2>3. cid[w] + 1 \notin created
    BY <1>5, <2>2 DEF WorkerInv
  <2>4. \A c \in Mine(w) : c \in Nat /\ (c < cid[w] + 1 => c \in created)
                           /\ (c > cid[w] + 1 => c \notin created)
    BY <1>3, <1>5, <2>2 DEF WorkerInv, Mine
  <2>5. cid'[w] \in Mine(w)'
    BY <1>8, <2>1, <2>2
  <2>6. \A c \in Mine(w)' : (c < cid'[w] => c \in created') /\ (c > cid'[w] => c \notin created')
    BY <1>8, <2>1, <2>4
  <2>7. cid'[w] \notin created'
    BY <2>1, <2>3
  <2> QED BY <2>1, <2>5, <2>6, <2>7 DEF WorkerInv, Unsized
<1>10. ASSUME ~(Check(w) /\ ~failed /\ ~AtEnd(w)) PROVE WorkerInv(w)'
  <2>1. cid'[w] = cid[w]
    BY <1>7, <1>10 DEF Work, Create, Insert, Fail, ReadWord, WriteWord, ReadSize, WriteSize, Check
  <2>2. \A c \in Mine(w) : (c < cid[w] => c \in created') /\ (c > cid[w] => c \notin created')
    BY <1>3, <1>5, <1>6 DEF WorkerInv, Mine
  <2>3. /\ pc'[w] \in {"create", "insert", "fail"} => cid[w] \notin created'
        /\ pc'[w] \in Unsized => cid[w] \in created'
        /\ pc'[w] = "check" => failed' \/ cid[w] \in created'
        /\ pc'[w] = "ended" => failed' \/ (cid[w] \in created' /\ AtEnd(w))
    <3>1. CASE Create(w)
      <4>1. pc[w] = "create" /\ pc'[w] \in {"insert", "fail"} /\ created' = created
        BY <1>7, <3>1 DEF Create, Goto, pool
      <4> QED BY <1>5, <4>1 DEF WorkerInv, Unsized
    <3>2. CASE Insert(w)
      <4>1. /\ pc[w] = "insert"
            /\ \/ pc'[w] = "insert" /\ created' = created
               \/ pc'[w] = "read_word" /\ created' = created \cup {cid[w]}
        BY <1>7, <3>2 DEF Insert, Goto
      <4> QED BY <1>5, <4>1 DEF WorkerInv, Unsized
    <3>3. CASE Fail(w)
      <4>1. pc'[w] = "check" /\ failed'
        BY <1>7, <3>3 DEF Fail, Goto
      <4> QED BY <4>1 DEF Unsized
    <3>4. CASE ReadWord(w) \/ WriteWord(w) \/ ReadSize(w) \/ WriteSize(w)
      <4>1. pc[w] \in Unsized /\ pc'[w] \in Unsized \cup {"check"}
        BY <1>7, <3>4 DEF ReadWord, WriteWord, ReadSize, WriteSize, Goto, Unsized
      <4> QED BY <1>2, <1>5, <4>1 DEF WorkerInv, Unsized
    <3>5. CASE Check(w)
      <4>1. pc[w] = "check" /\ pc'[w] = "ended" /\ (failed \/ AtEnd(w))
        BY <1>7, <1>10, <3>5 DEF Check, Goto
      <4> QED BY <1>2, <1>5, <4>1 DEF WorkerInv, Unsized
    <3> QED BY <3>1, <3>2, <3>3, <3>4, <3>5 DEF Work
  <2>4. AtEnd(w)' <=> AtEnd(w)
    BY <1>2, <2>1 DEF AtEnd
  <2>5. cid'[w] \in Mine(w)'
    BY <1>3, <1>8, <2>1
  <2>6. \A c \in Mine(w)' : (c < cid'[w] => c \in created') /\ (c > cid'[w] => c \notin created')
    BY <1>8, <2>1, <2>2
  <2> QED BY <2>1, <2>3, <2>4, <2>5, <2>6 DEF WorkerInv
<1> QED BY <1>2, <1>4, <1>9, <1>10

\* A thread puts its own block into the lists, and calls it created when it is in both.
LEMMA WorkBlocks ==
  ASSUME IInv, NEW w \in Worker, Work(w)
  PROVE  BlockInv' /\ LP!IInv'
<1>1. Types /\ PlanInv /\ BlockInv /\ LP!IInv
  BY DEF IInv
<1>2. /\ w \in Started
      /\ UNCHANGED <<destroyed, last>>
      /\ \A u \in Worker \ {w} : pc'[u] = pc[u] /\ cid'[u] = cid[u]
  BY <1>1, WorkFrame DEF plan
<1>3. WorkerInv(w) /\ cid[w] \in Mine(w) /\ cid[w] \in 0 .. last - 1 /\ cid[w] \in 0 .. MaxChunks - 1
  BY <1>1, <1>2, MineAreChunks, ChunkIsBlock DEF WorkerInv, IInv
<1>4. /\ pc \in [Worker -> {"none", "create", "insert", "fail", "read_word", "write_word",
                           "read_size", "write_size", "check", "ended"}]
      /\ cid \in [Worker -> 0 .. chunks]
  BY <1>1 DEF Types
<1>5. /\ LP!TypeOK /\ LP!ThreadInv
  BY <1>1 DEF LP!IInv
<1>6. CASE pc[w] = "create" /\ LP!Push(w, cid[w]) /\ pc'[w] = "insert" /\ cid' = cid /\ created' = created
  <2>1. /\ at'[w] # "out" /\ elem'[w] = cid[w]
        /\ \A u \in Worker \ {w} : at'[u] = at[u] /\ elem'[u] = elem[u]
        /\ \A c : LP!InList(latches', c) <=> c = cid[w] \/ LP!InList(latches, c)
        /\ pages' = pages
    BY <1>3, <1>5, <1>6, LP!PushEffect
  <2>2. \A u \in Worker : Inserts(u)'
    BY <1>1, <1>2, <1>6, <2>1 DEF BlockInv, Inserts
  <2>3. ASSUME NEW c \in 0 .. MaxChunks - 1, LP!InList(latches', c) \/ LP!InList(pages', c)
        PROVE  c \in created' \/ \E u \in Worker : pc'[u] = "insert" /\ cid'[u] = c
    BY <1>1, <1>2, <1>6, <2>1, <2>3 DEF BlockInv
  <2>4. \A c \in created' : /\ c < last'
                            /\ LP!InList(pages', c) /\ (c \in destroyed' \/ LP!InList(latches', c))
    BY <1>1, <1>2, <1>6, <2>1 DEF BlockInv
  <2>5. LP!IInv'
    BY <1>1, <1>3, <1>6, ListStep
  <2> QED BY <2>2, <2>3, <2>4, <2>5 DEF BlockInv, LP!InList
<1>7. CASE Insert(w)
  <2>1. /\ pc[w] = "insert" /\ LP!Step(w) /\ cid' = cid
        /\ IF at'[w] = "out" THEN created' = created \cup {cid[w]} /\ pc'[w] = "read_word"
                             ELSE created' = created /\ pc'[w] = "insert"
    BY <1>4, <1>7, SameLists DEF Insert, Goto
  <2>2. at[w] # "out" /\ elem[w] = cid[w]
    BY <1>1, <2>1 DEF BlockInv, Inserts
  <2>3. /\ at'[w] # "out" => elem'[w] = elem[w]
        /\ at'[w] = "out" => LP!InList(pages, elem[w])
        /\ \A u \in Worker \ {w} : at'[u] = at[u] /\ elem'[u] = elem[u]
        /\ latches' = latches
        /\ \A c : LP!InList(pages', c) => c = elem[w] \/ LP!InList(pages, c)
        /\ \A c : LP!InList(pages, c) => LP!InList(pages', c)
    BY <1>5, <2>1, LP!StepEffect
  <2>4. LP!InList(latches, cid[w])
    BY <1>5, <2>2 DEF LP!ThreadInv
  <2>5. \A u \in Worker : Inserts(u)'
    BY <1>1, <1>2, <2>1, <2>2, <2>3 DEF BlockInv, Inserts
  <2>6. ASSUME NEW c \in 0 .. MaxChunks - 1, LP!InList(latches', c) \/ LP!InList(pages', c)
        PROVE  c \in created' \/ \E u \in Worker : pc'[u] = "insert" /\ cid'[u] = c
    <3>1. CASE c = cid[w]
      BY <2>1, <3>1
    <3>2. CASE c # cid[w]
      <4>1. LP!InList(latches, c) \/ LP!InList(pages, c)
        BY <2>2, <2>3, <2>6, <3>2
      <4>2. c \in created \/ \E u \in Worker \ {w} : pc[u] = "insert" /\ cid[u] = c
        BY <1>1, <3>2, <4>1 DEF BlockInv
      <4> QED BY <1>2, <2>1, <4>2
    <3> QED BY <3>1, <3>2
  <2>7. ASSUME NEW c \in created'
        PROVE  /\ c < last'
               /\ LP!InList(pages', c) /\ (c \in destroyed' \/ LP!InList(latches', c))
    <3>1. CASE c \in created
      BY <1>1, <1>2, <2>3, <3>1 DEF BlockInv
    <3>2. CASE c \notin created
      <4>1. at'[w] = "out" /\ c = cid[w]
        BY <2>1, <2>7, <3>2
      <4>2. cid[w] < last /\ LP!InList(pages', cid[w])
        BY <1>1, <1>3, <2>2, <2>3, <4>1 DEF Types
      <4> QED BY <1>2, <2>3, <2>4, <4>1, <4>2
    <3> QED BY <3>1, <3>2
  <2>8. LP!IInv'
    BY <1>1, <2>1, ListStep
  <2> QED BY <2>5, <2>6, <2>7, <2>8 DEF BlockInv, LP!InList
<1>8. CASE /\ UNCHANGED lists /\ created' = created /\ pc[w] # "insert" /\ pc'[w] # "insert"
  <2>1. latches' = latches /\ pages' = pages /\ at' = at /\ elem' = elem
    BY <1>8 DEF lists
  <2>2. \A u \in Worker : Inserts(u)'
    BY <1>1, <1>2, <1>8, <2>1 DEF BlockInv, Inserts
  <2>3. ASSUME NEW c \in 0 .. MaxChunks - 1, LP!InList(latches, c) \/ LP!InList(pages, c)
        PROVE  c \in created' \/ \E u \in Worker : pc'[u] = "insert" /\ cid'[u] = c
    BY <1>1, <1>2, <1>8, <2>3 DEF BlockInv
  <2>4. \A c \in created' : /\ c < last'
                            /\ LP!InList(pages, c) /\ (c \in destroyed' \/ LP!InList(latches, c))
    BY <1>1, <1>2, <1>8 DEF BlockInv
  <2>5. LP!IInv'
    BY <1>1, <1>8, ListStep
  <2> QED BY <2>1, <2>2, <2>3, <2>4, <2>5 DEF BlockInv, LP!InList
<1>9. \/ pc[w] = "create" /\ LP!Push(w, cid[w]) /\ pc'[w] = "insert" /\ cid' = cid /\ created' = created
      \/ Insert(w)
      \/ UNCHANGED lists /\ created' = created /\ pc[w] # "insert" /\ pc'[w] # "insert"
  <2>1. CASE Create(w)
    BY <1>4, <2>1, SameLists DEF Create, Goto, pool
  <2>2. CASE Fail(w) \/ ReadWord(w) \/ WriteWord(w) \/ ReadSize(w) \/ WriteSize(w) \/ Check(w)
    BY <1>4, <2>2 DEF Fail, ReadWord, WriteWord, ReadSize, WriteSize, Check, Goto, pool
  <2> QED BY <2>1, <2>2 DEF Work
<1> QED BY <1>6, <1>7, <1>8, <1>9

\* curr_size' is one more than what the thread has read, which is at most what was counted.
LEMMA WorkSize ==
  ASSUME IInv, NEW w \in Worker, Work(w)
  PROVE  SizeInv'
<1>1. Types /\ PlanInv /\ SizeInv /\ \A u \in Started : WorkerInv(u)
  BY DEF IInv
<1>2. /\ w \in Started /\ Started' = Started /\ cid[w] \in Mine(w) /\ WorkerInv(w)
      /\ \A u \in Worker \ {w} : /\ pc'[u] = pc[u] /\ cid'[u] = cid[u] /\ size'[u] = size[u]
  BY <1>1, WorkFrame DEF WorkerInv
<1>3. /\ pc \in [Worker -> {"none", "create", "insert", "fail", "read_word", "write_word",
                           "read_size", "write_size", "check", "ended"}]
      /\ cid \in [Worker -> 0 .. chunks] /\ size \in [Worker -> Nat] /\ currSize \in Nat
  BY <1>1 DEF Types
<1>4. IsFiniteSet(Sized) /\ Cardinality(Sized) \in Nat
  <2>1. Sized \subseteq 0 .. chunks - 1 /\ chunks \in Nat
    <3>1. Sized \subseteq created /\ created \subseteq 0 .. chunks - 1
      BY <1>1 DEF Sized, Types, Chunk
    <3> QED BY <1>1, <3>1, BufPoolAssumption DEF Types
  <2>2. IsFiniteSet(0 .. chunks - 1)
    BY <2>1, FS_Interval
  <2>3. IsFiniteSet(Sized)
    BY <2>1, <2>2, FS_Subset
  <2> QED BY <2>3, FS_CardinalityType
<1>5. CASE WriteSize(w)
  <2>1. /\ pc[w] = "write_size" /\ pc'[w] = "check" /\ currSize' = size[w] + 1 /\ size'[w] = 0
        /\ cid' = cid /\ created' = created
    BY <1>3, <1>5 DEF WriteSize, Goto
  <2>2. cid[w] \in created /\ cid[w] \notin Sized
    BY <1>2, <2>1 DEF WorkerInv, Unsized, Sized
  <2>3. ASSUME NEW u \in Worker \ {w}, pc[u] \in Unsized PROVE cid[u] # cid[w]
    <3>1. u \in Started /\ u # w
      BY <2>3 DEF Unsized, Started
    <3>2. cid[u] \in Mine(u)
      BY <1>1, <3>1 DEF WorkerInv
    <3> QED BY <1>1, <1>2, <3>1, <3>2, OneOwner
  <2>4. Sized' = Sized \cup {cid[w]}
    <3>1. ASSUME NEW c \in created
          PROVE  (\E u \in Worker : pc'[u] \in Unsized /\ cid'[u] = c)
                   <=> c # cid[w] /\ \E u \in Worker : pc[u] \in Unsized /\ cid[u] = c
      BY <1>2, <2>1, <2>3 DEF Unsized
    <3> QED BY <2>1, <2>2, <3>1 DEF Sized
  <2>5. Cardinality(Sized') = Cardinality(Sized) + 1
    BY <1>4, <2>2, <2>4, FS_AddElement
  <2>6. currSize' <= Cardinality(Sized') /\ \A u \in Worker : size'[u] <= Cardinality(Sized')
    BY <1>1, <1>2, <1>3, <1>4, <2>1, <2>5 DEF SizeInv
  <2> QED BY <2>6 DEF SizeInv
<1>6. CASE ~WriteSize(w)
  <2>1. currSize' = currSize /\ size'[w] \in {currSize, size[w]}
    BY <1>3, <1>6 DEF Work, Create, Insert, Fail, ReadWord, WriteWord, ReadSize, Check, Goto, pool, read
  <2>2. Sized' = Sized
    <3>1. CASE Insert(w)
      <4>1. /\ pc[w] = "insert" /\ cid' = cid
            /\ \/ pc'[w] = "insert" /\ created' = created
               \/ pc'[w] = "read_word" /\ created' = created \cup {cid[w]}
        BY <1>3, <3>1 DEF Insert, Goto
      <4>2. cid[w] \notin created
        BY <1>2, <4>1 DEF WorkerInv
      <4>3. pc[w] \notin Unsized /\ (pc'[w] \in Unsized <=> created' # created)
        BY <4>1, <4>2 DEF Unsized
      <4> QED BY <1>2, <4>1, <4>2, <4>3 DEF Sized
    <3>2. CASE ~Insert(w)
      <4>1. /\ created' = created
            /\ \/ pc[w] \notin Unsized /\ pc'[w] \notin Unsized
               \/ pc[w] \in Unsized /\ pc'[w] \in Unsized /\ cid' = cid
        <5>1. CASE Create(w) \/ Fail(w) \/ Check(w)
          BY <1>3, <5>1 DEF Create, Fail, Check, Goto, pool, Unsized
        <5>2. CASE ReadWord(w) \/ WriteWord(w) \/ ReadSize(w)
          BY <1>3, <5>2 DEF ReadWord, WriteWord, ReadSize, Goto, pool, Unsized
        <5> QED BY <1>6, <3>2, <5>1, <5>2 DEF Work
      <4> QED BY <1>2, <4>1 DEF Sized
    <3> QED BY <3>1, <3>2
  <2> QED BY <1>1, <1>2, <2>1, <2>2 DEF SizeInv
<1> QED BY <1>5, <1>6

\* What create() has planned does not change while a thread works; nothing is cleaned then.
LEMMA WorkInv ==
  ASSUME IInv, NEW w \in Worker, Work(w)
  PROVE  IInv'
<1>1. Types /\ PlanInv /\ CleanInv
  BY DEF IInv
<1>2. /\ w \in Started /\ pc[w] # "ended" /\ Started' = Started
      /\ UNCHANGED <<chunks, cpus, remains, last, range, cleaned, main, destroyed>>
  BY <1>1, WorkFrame DEF plan
<1>3. PlanInv'
  BY <1>1, <1>2 DEF PlanInv, Mine, Unit
<1>4. CleanInv'
  <2>1. main \in {"spawn", "join"}
    BY <1>1, <1>2 DEF CleanInv, Types
  <2> QED BY <1>1, <1>2, <2>1 DEF CleanInv
<1> QED BY <1>3, <1>4, WorkTypes, WorkWorkers, WorkBlocks, WorkSize DEF IInv

\* Every step keeps the invariant.
LEMMA NextInv == IInv /\ [Next]_vars => IInv'
<1> SUFFICES ASSUME IInv, [Next]_vars PROVE IInv'
  OBVIOUS
<1>1. CASE UNCHANGED vars
  <2>1. LP!IInv'
    BY <1>1, ListStep DEF IInv, vars
  <2>2. UNCHANGED <<chunks, cpus, remains, last, range, failed, success, currSize, created, destroyed,
                    cid, word, size, cleaned, main, pc, at, elem, latches, pages>>
    BY <1>1 DEF vars, lists
  <2>3. Types' /\ CleanInv' /\ Started' = Started /\ Unit' = Unit /\ Sized' = Sized
    BY <2>2 DEF IInv, Types, Chunk, CleanInv, Started, Unit, Sized
  <2>4. PlanInv' /\ SizeInv'
    BY <2>2, <2>3 DEF IInv, PlanInv, Mine, SizeInv
  <2>5. BlockInv'
    BY <2>2 DEF IInv, BlockInv, Inserts, LP!InList
  <2>6. \A w \in Started' : WorkerInv(w)'
    BY <2>2, <2>3 DEF IInv, WorkerInv, Mine, AtEnd
  <2> QED BY <2>1, <2>3, <2>4, <2>5, <2>6 DEF IInv
<1>2. CASE Spawn
  BY <1>2, SpawnInv
<1>3. CASE Join
  BY <1>3, JoinInv
<1>4. CASE Cleanup
  BY <1>4, CleanupInv
<1>5. ASSUME NEW w \in Worker, Work(w) PROVE IInv'
  BY <1>5, WorkInv
<1> QED BY <1>1, <1>2, <1>3, <1>4, <1>5 DEF Next, Done

-----------------------------------------------------------------------------
\* The number of chunks that exist, and of those in curr_size.
LEMMA Sizes ==
  ASSUME Types
  PROVE  /\ Cardinality(created) \in Nat /\ Cardinality(created) <= chunks
         /\ Cardinality(Sized) <= Cardinality(created)
<1>1. chunks \in Nat \ {0} /\ created \subseteq 0 .. chunks - 1
  BY BufPoolAssumption DEF Types, Chunk
<1>2. IsFiniteSet(0 .. chunks - 1) /\ Cardinality(0 .. chunks - 1) = chunks
  BY <1>1, FS_Interval
<1>3. IsFiniteSet(created) /\ Cardinality(created) <= chunks
  BY <1>1, <1>2, FS_Subset
<1>4. Sized \subseteq created
  BY DEF Sized
<1> QED BY <1>3, <1>4, FS_Subset, FS_CardinalityType

\* The invariant gives the types, with their bounds.
LEMMA TypesHold == IInv => TypeOK
<1> SUFFICES ASSUME IInv PROVE TypeOK
  OBVIOUS
<1>1. Types /\ PlanInv /\ SizeInv /\ LP!TypeOK
  BY DEF IInv, LP!IInv
<1>2. /\ chunks \in 1 .. MaxChunks /\ cpus \in 1 .. MaxCpus
      /\ MaxChunks \in Nat /\ MaxCpus \in Nat /\ chunks \in Nat /\ cpus \in Nat
  BY <1>1, BufPoolAssumption DEF Types
<1>3. remains \in 0 .. MaxCpus - 1
  BY <1>1, <1>2 DEF Types
<1>4. /\ success \subseteq Chunk /\ created \subseteq Chunk /\ destroyed \subseteq Chunk
      /\ word \in [Worker -> SUBSET Chunk]
  BY <1>1 DEF Types
<1>5. currSize \in 0 .. chunks /\ size \in [Worker -> 0 .. chunks]
  <2>1. Cardinality(Sized) <= chunks /\ Cardinality(Sized) \in Nat
    <3>1. IsFiniteSet(Sized)
      <4>1. Sized \subseteq created /\ created \subseteq 0 .. chunks - 1
        BY <1>4 DEF Sized, Chunk
      <4>2. IsFiniteSet(0 .. chunks - 1)
        BY <1>2, FS_Interval
      <4> QED BY <4>1, <4>2, FS_Subset
    <3> QED BY <1>1, <1>2, <3>1, Sizes, FS_CardinalityType
  <2>2. currSize \in Nat /\ size \in [Worker -> Nat]
    BY <1>1 DEF Types
  <2>3. \A w \in Worker : size[w] \in 0 .. chunks
    BY <1>1, <1>2, <2>1, <2>2 DEF SizeInv
  <2> QED BY <1>1, <1>2, <2>1, <2>2, <2>3 DEF SizeInv
<1>6. \A w \in Started : pc[w] # "ended" => cid[w] < range[w].end
  <2>1. \A w \in Started : cid[w] \in Mine(w) /\ range[w].end \in Nat
    BY <1>1, MineAreChunks DEF IInv, WorkerInv
  <2>2. \A w \in Started : range[w].start \in Nat /\ range[w].end \in Nat
    BY <1>1, MineAreChunks
  <2> QED BY <2>1, <2>2 DEF Mine
<1>7. Lists!TypeOK
  BY <1>1, SameLists
<1> QED BY <1>1, <1>3, <1>4, <1>5, <1>6, <1>7 DEF Types, TypeOK

\* The invariant gives what the runs check.
LEMMA ChunksHold == IInv => CreatedOnce /\ AllCreated /\ DestroysCreated /\ ListsLinked
<1> SUFFICES ASSUME IInv PROVE CreatedOnce /\ AllCreated /\ DestroysCreated /\ ListsLinked
  OBVIOUS
<1>1. /\ Types /\ PlanInv /\ BlockInv /\ CleanInv /\ SizeInv /\ LP!IInv
      /\ \A w \in Started : WorkerInv(w)
  BY DEF IInv
<1>2. CreatedOnce
  BY <1>1 DEF CreatedOnce, WorkerInv
<1>3. ASSUME main = "done", ~failed
      PROVE  created = Chunk /\ \A c \in Chunk : InBoth(c)
  <2>1. /\ last = chunks /\ chunks \in Nat /\ cleaned = 0
        /\ \A w \in Started : pc[w] = "ended"
    BY <1>1, <1>3, BufPoolAssumption DEF PlanInv, CleanInv, Types
  <2>2. ASSUME NEW c \in Chunk PROVE c \in created
    <3>1. PICK w \in Started : c \in Mine(w)
      BY <1>1, <2>1 DEF PlanInv, Chunk
    <3>2. /\ cid[w] \in created /\ cid[w] + 1 = range[w].end
          /\ \A d \in Mine(w) : d < cid[w] => d \in created
      BY <1>1, <1>3, <2>1 DEF WorkerInv, AtEnd
    <3>3. c < cid[w] \/ c = cid[w]
      <4>1. range[w].start \in Nat /\ range[w].end \in Nat /\ cid[w] \in Nat
        BY <1>1 DEF Types, Started
      <4> QED BY <3>1, <3>2, <4>1 DEF Mine
    <3> QED BY <3>1, <3>2, <3>3
  <2>3. destroyed = {}
    BY <1>1, <2>1 DEF CleanInv, Types, Chunk
  <2>4. \A c \in created : InBoth(c)
    BY <1>1, <2>3, SameLists DEF BlockInv, InBoth
  <2> QED BY <1>1, <2>2, <2>4 DEF Types
<1>4. DestroysCreated
  BY <1>1 DEF Types, DestroysCreated
<1>5. ListsLinked
  BY <1>1, SameLists DEF ListsLinked, LP!IInv, LP!LatchInv, LP!PageInv
<1> QED BY <1>2, <1>3, <1>4, <1>5 DEF AllCreated

\* What a step does to the lists, if anything, is a step of BlockLists: a block of the pool is
\* inserted, and a latch is removed after all insertions.
LEMMA ListMove ==
  ASSUME IInv, [Next]_vars
  PROVE  [LP!Next]_(LP!vars)
<1>1. UNCHANGED lists => UNCHANGED LP!vars
  BY DEF lists, LP!vars, LP!rwList, LP!freeList
<1>2. CASE UNCHANGED vars
  BY <1>1, <1>2 DEF vars
<1>3. CASE Spawn \/ Join \/ Done
  BY <1>1, <1>3 DEF Spawn, Join, Done, vars
<1>4. CASE Cleanup
  <2>1. CASE cleaned \in success
    <3>1. LP!Remove(cleaned) /\ main = "cleanup"
      BY <1>4, <2>1, SameLists DEF Cleanup, Destroys
    <3>2. cleaned \in created /\ cleaned \notin destroyed /\ cleaned \in 0 .. MaxChunks - 1
      BY <2>1, ChunkIsBlock DEF IInv, Types, CleanInv, Chunk
    <3>3. LP!InList(latches, cleaned)
      BY <3>2 DEF IInv, BlockInv
    <3>4. \A w \in Worker : pc[w] # "insert"
      BY <3>1 DEF IInv, CleanInv, Started
    <3>5. \A w \in Worker : at[w] = "out"
      BY <3>4 DEF IInv, BlockInv, Inserts
    <3> QED BY <3>1, <3>2, <3>3, <3>5 DEF LP!Next
  <2>2. CASE cleaned \notin success
    BY <1>1, <1>4, <2>2 DEF Cleanup, Destroys
  <2> QED BY <2>1, <2>2
<1>5. ASSUME NEW w \in Worker, Work(w) PROVE [LP!Next]_(LP!vars)
  <2>1. CASE Create(w)
    <3>1. cid[w] \in 0 .. MaxChunks - 1
      <4>1. Types /\ PlanInv /\ w \in Started /\ WorkerInv(w)
        BY <1>5, WorkFrame DEF IInv
      <4> QED BY <4>1, MineAreChunks, ChunkIsBlock DEF WorkerInv
    <3>2. LP!Push(w, cid[w]) \/ UNCHANGED lists
      BY <2>1, SameLists DEF Create
    <3> QED BY <1>1, <3>1, <3>2 DEF LP!Next
  <2>2. CASE Insert(w)
    <3>1. LP!Step(w)
      BY <2>2, SameLists DEF Insert
    <3> QED BY <3>1 DEF LP!Next
  <2>3. CASE Fail(w) \/ ReadWord(w) \/ WriteWord(w) \/ ReadSize(w) \/ WriteSize(w) \/ Check(w)
    BY <1>1, <2>3 DEF Fail, ReadWord, WriteWord, ReadSize, WriteSize, Check
  <2> QED BY <1>5, <2>1, <2>2, <2>3 DEF Work
<1> QED BY <1>2, <1>3, <1>4, <1>5 DEF Next

\* The types of BufPoolInit: no thread of buf_pool_t::create() gets or reaches a chunk that the
\* pool does not have, whatever the numbers of chunks and CPUs, and no link of the lists
\* leads anywhere else than to a block or an end.
THEOREM TypeCorrect == Spec => []TypeOK
BY InitInv, NextInv, TypesHold, PTL DEF Spec

\* The distribution of chunk_init_unit and remains gives no chunk to two threads, and no
\* thread comes back to one of its own.
THEOREM ChunksAreCreatedOnce == Spec => []CreatedOnce
<1>1. IInv => CreatedOnce
  BY ChunksHold
<1> QED BY <1>1, InitInv, NextInv, PTL DEF Spec

\* When create() returns false, every chunk was given to a thread and created, and its latch
\* and its page are in the lists.
THEOREM AllAreCreated == Spec => []AllCreated
<1>1. IInv => AllCreated
  BY ChunksHold
<1> QED BY <1>1, InitInv, NextInv, PTL DEF Spec

\* The bits of chunk_init_success_vector that share a word may be lost, but are never set for
\* a chunk that was not created: the cleanup destroys only what is there.
THEOREM CleanupIsSafe == Spec => []DestroysCreated
<1>1. IInv => DestroysCreated
  BY ChunksHold
<1> QED BY <1>1, InitInv, NextInv, PTL DEF Spec

\* The two lists keep their links, and the free list its count, through the threads of
\* create() and its cleanup.
THEOREM ListsStayLinked == Spec => []ListsLinked
<1>1. IInv => ListsLinked
  BY ChunksHold
<1> QED BY <1>1, InitInv, NextInv, PTL DEF Spec

\* Every step of BufPoolInit is one of BlockLists or leaves the lists alone: what create()
\* asks of atomic_push_front, ut_list_atomic_append and remove() is what ListsStayLinked of
\* BlockLists_proofs is about.
THEOREM UsesBlockLists == Spec => LP!Spec
<1>1. Init => LP!Init
  BY SameLists DEF Init
<1>2. IInv /\ [Next]_vars => [LP!Next]_(LP!vars)
  BY ListMove
<1> QED BY <1>1, <1>2, InitInv, NextInv, PTL DEF Spec, LP!Spec

\* A thread about to create a chunk is within no insertion.
Ready(w) == at[w] = "out" /\ ~LP!InList(latches, cid[w]) /\ ~LP!InList(pages, cid[w])

\* The guard of Push in BlockLists, that the block is in neither list, is none of the code: it
\* never keeps a thread of create() from inserting its block.
THEOREM BlocksAreNew == Spec => [](\A w \in Started : pc[w] = "create" => Ready(w))
<1>1. IInv => \A w \in Started : pc[w] = "create" => Ready(w)
  <2> SUFFICES ASSUME IInv, NEW w \in Started, pc[w] = "create" PROVE Ready(w)
    OBVIOUS
  <2>1. /\ Types /\ PlanInv /\ BlockInv /\ w \in Worker
        /\ \A u \in Started : WorkerInv(u)
    BY DEF IInv, Started
  <2>2. cid[w] \in Mine(w) /\ cid[w] \notin created /\ cid[w] \in 0 .. MaxChunks - 1
    BY <2>1, MineAreChunks, ChunkIsBlock DEF WorkerInv
  <2>3. ASSUME NEW u \in Worker, pc[u] = "insert" PROVE cid[u] # cid[w]
    <3>1. u \in Started /\ u # w
      BY <2>3 DEF Started
    <3>2. cid[u] \in Mine(u)
      BY <2>1, <3>1 DEF WorkerInv
    <3> QED BY <2>1, <2>2, <3>1, <3>2, OneOwner
  <2>4. at[w] = "out"
    BY <2>1 DEF BlockInv, Inserts
  <2> QED BY <2>1, <2>2, <2>3, <2>4 DEF BlockInv, Ready
<1> QED BY <1>1, InitInv, NextInv, PTL DEF Spec

=============================================================================
