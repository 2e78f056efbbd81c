---------------------------- MODULE BufPoolInit ----------------------------
(***************************************************************************)
(* buf_pool_t::create() as the patch of project4 makes it: the chunks of   *)
(* the buffer pool are distributed over threads that create them; when one *)
(* fails, all threads stop, and what was created is destroyed.             *)
(*                                                                         *)
(* The threads write to one vector<bool>, whose bits share words, and to   *)
(* curr_size without synchronization: a read and a write, two steps each.  *)
(* They fill the lists of BlockLists; a chunk has one block here.          *)
(***************************************************************************)
EXTENDS Naturals, Sequences, FiniteSets

CONSTANTS MaxChunks,  \* bound: the chunks of the pool
          MaxCpus,    \* bound: the CPUs, and so the threads
          WordBits,   \* the bits in one word of vector<bool>
          Sentinel    \* the end of a list

ASSUME BufPoolAssumption ==
  /\ MaxChunks \in Nat \ {0} /\ MaxCpus \in Nat \ {0} /\ WordBits \in Nat \ {0}
  /\ Sentinel \notin 0 .. MaxChunks - 1

VARIABLES chunks,     \* n_chunks
          cpus,       \* cpu_num
          remains,    \* remains
          last,       \* end_chunk_index of the threads so far
          range,      \* the start and the end of each thread's chunks
          failed,     \* chunk_init_fail_flag
          success,    \* chunk_init_success_vector, as the set of its true bits
          currSize,   \* curr_size, in chunks: all are of the same size
          created,    \* the chunks that have memory, latches and events
          destroyed,  \* the chunks that create() has destroyed
          cid,        \* cid of each thread
          word,       \* the word of success that a thread has read
          size,       \* the curr_size that a thread has read
          cleaned,    \* cid of the cleanup
          main,       \* where create() is
          pc,         \* where each thread is
          next, prev, after, before, start, end, number, elem, other, at, latches, pages

lists == <<next, prev, after, before, start, end, number, elem, other, at, latches, pages>>
vars == <<chunks, cpus, remains, last, range, failed, success, currSize, created, destroyed,
          cid, word, size, cleaned, main, pc, lists>>

\* The thread that creates the threads, and those.
plan == <<chunks, cpus, remains, last, range, cleaned>>
pool == <<success, currSize, created, destroyed>>
read == <<word, size>>

Chunk == 0 .. chunks - 1

Worker == 0 .. MaxCpus - 1

Lists == INSTANCE BlockLists WITH Thread <- Worker, Block <- 0 .. MaxChunks - 1

Started == {w \in Worker : pc[w] # "none"}

\* chunk_init_unit: with no more chunks than CPUs, one thread gets them all.
Unit == IF chunks > cpus THEN chunks \div cpus ELSE chunks

Init ==
  /\ chunks \in 1 .. MaxChunks /\ cpus \in 1 .. MaxCpus
  /\ remains = IF chunks > cpus THEN chunks - Unit * cpus ELSE 0
  /\ last = 0
  /\ range = [w \in Worker |-> [start |-> 0, end |-> 0]]
  /\ failed = FALSE
  /\ success = {} /\ currSize = 0 /\ created = {} /\ destroyed = {}
  /\ cid = [w \in Worker |-> 0]
  /\ word = [w \in Worker |-> {}]
  /\ size = [w \in Worker |-> 0]
  /\ cleaned = 0
  /\ main = "spawn"
  /\ pc = [w \in Worker |-> "none"]
  /\ Lists!Init

Goto(w, place) == pc' = [pc EXCEPT ![w] = place]

-----------------------------------------------------------------------------
(* create(): the threads *)

\* Mutant of Share: nobody takes the remaining chunks.
ShareUnit == Unit

\* The chunks of the next thread.
Share == IF remains > 0 THEN Unit + 1 ELSE Unit

Spawn ==
  LET w == Cardinality(Started)  to == last + Share IN
  /\ main = "spawn"
  /\ range' = [range EXCEPT ![w] = [start |-> last, end |-> to]]
  /\ cid' = [cid EXCEPT ![w] = last]
  /\ Goto(w, "create")
  /\ remains' = IF remains > 0 THEN remains - 1 ELSE 0
  /\ last' = to
  /\ main' = IF to = chunks \/ w + 1 = cpus THEN "join" ELSE "spawn"
  /\ UNCHANGED <<chunks, cpus, failed, pool, read, cleaned, lists>>

\* Mutant of Join: a thread for every CPU is waited for.
JoinEvery ==
  /\ main = "join"
  /\ \A w \in 0 .. cpus - 1 : pc[w] = "ended"
  /\ main' = IF failed THEN "cleanup" ELSE "done"
  /\ UNCHANGED <<plan, failed, pool, cid, read, pc, lists>>

\* The threads are joined.
Join ==
  /\ main = "join"
  /\ \A w \in Started : pc[w] = "ended"
  /\ main' = IF failed THEN "cleanup" ELSE "done"
  /\ UNCHANGED <<plan, failed, pool, cid, read, pc, lists>>

\* Mutant of Destroys: whatever the thread that had the chunk got to.
DestroysAll(c) == TRUE

\* The vector says that the chunk was created.
Destroys(c) == c \in success

\* create() has failed: chunk by chunk the latches, events and memory go. It
\* returns true.
Cleanup ==
  /\ main = "cleanup"
  /\ IF Destroys(cleaned)
       THEN destroyed' = destroyed \cup {cleaned} /\ Lists!Remove(cleaned)
       ELSE UNCHANGED <<destroyed, lists>>
  /\ cleaned' = cleaned + 1
  /\ main' = IF cleaned + 1 = chunks THEN "done" ELSE "cleanup"
  /\ UNCHANGED <<chunks, cpus, remains, last, range, failed, success, currSize, created,
                 cid, read, pc>>

-----------------------------------------------------------------------------
(* buf_chunk_init, in a thread of its own *)

\* chunk_t::create() gets the memory or fails; then the block is put into the lists.
Create(w) ==
  /\ pc[w] = "create"
  /\ \/ Lists!Push(w, cid[w]) /\ Goto(w, "insert")
     \/ Goto(w, "fail") /\ UNCHANGED lists
  /\ UNCHANGED <<plan, failed, pool, cid, read, main>>

Insert(w) ==
  /\ pc[w] = "insert"
  /\ Lists!Step(w)
  /\ IF at'[w] = "out"
       THEN created' = created \cup {cid[w]} /\ Goto(w, "read_word")
       ELSE UNCHANGED <<created, pc>>
  /\ UNCHANGED <<plan, failed, success, currSize, destroyed, cid, read, main>>

Fail(w) ==
  /\ pc[w] = "fail"
  /\ failed' = TRUE
  /\ Goto(w, "check")
  /\ UNCHANGED <<plan, pool, cid, read, main, lists>>

\* The bits in the word of chunk c.
WordOf(c) == {d \in Chunk : d \div WordBits = c \div WordBits}

\* chunk_init_success_vector[cid] = true: the word is read and written.
ReadWord(w) ==
  /\ pc[w] = "read_word"
  /\ word' = [word EXCEPT ![w] = success \cap WordOf(cid[w])]
  /\ Goto(w, "write_word")
  /\ UNCHANGED <<plan, failed, pool, cid, size, main, lists>>

WriteWord(w) ==
  /\ pc[w] = "write_word"
  /\ success' = (success \ WordOf(cid[w])) \cup word[w] \cup {cid[w]}
  /\ word' = [word EXCEPT ![w] = {}]
  /\ Goto(w, "read_size")
  /\ UNCHANGED <<plan, failed, currSize, created, destroyed, cid, size, main, lists>>

\* curr_size+= chunk->size.
ReadSize(w) ==
  /\ pc[w] = "read_size"
  /\ size' = [size EXCEPT ![w] = currSize]
  /\ Goto(w, "write_size")
  /\ UNCHANGED <<plan, failed, pool, cid, word, main, lists>>

WriteSize(w) ==
  /\ pc[w] = "write_size"
  /\ currSize' = size[w] + 1
  /\ size' = [size EXCEPT ![w] = 0]
  /\ Goto(w, "check")
  /\ UNCHANGED <<plan, failed, success, created, destroyed, cid, word, main, lists>>

\* Mutant of AtEnd: one chunk too many.
PastEnd(w) == cid[w] + 1 > range[w].end

AtEnd(w) == cid[w] + 1 = range[w].end

\* Stop if any thread has failed, or the thread has no chunk left.
Check(w) ==
  /\ pc[w] = "check"
  /\ \/ /\ failed \/ AtEnd(w)
        /\ Goto(w, "ended") /\ UNCHANGED cid
     \/ /\ ~failed /\ ~AtEnd(w)
        /\ cid' = [cid EXCEPT ![w] = @ + 1]
        /\ Goto(w, "create")
  /\ UNCHANGED <<plan, failed, pool, read, main, lists>>

-----------------------------------------------------------------------------
Work(w) == \/ Create(w) \/ Insert(w) \/ Fail(w) \/ ReadWord(w) \/ WriteWord(w)
           \/ ReadSize(w) \/ WriteSize(w) \/ Check(w)

Done == main = "done" /\ UNCHANGED vars

Next == Spawn \/ Join \/ Cleanup \/ Done \/ \E w \in Worker : Work(w)

Spec == Init /\ [][Next]_vars

\* The operating system schedules every thread.
FairSpec == Spec /\ WF_vars(Spawn \/ Join \/ Cleanup) /\ \A w \in Worker : WF_vars(Work(w))

-----------------------------------------------------------------------------
\* The chunks of the threads lie within those of the pool, and no thread goes on
\* beyond its own.
TypeOK ==
  /\ chunks \in 1 .. MaxChunks /\ cpus \in 1 .. MaxCpus
  /\ remains \in 0 .. MaxCpus - 1 /\ last \in 0 .. chunks
  /\ range \in [Worker -> [start : 0 .. chunks, end : 0 .. chunks]]
  /\ failed \in BOOLEAN
  /\ success \subseteq Chunk /\ created \subseteq Chunk /\ destroyed \subseteq Chunk
  /\ currSize \in 0 .. chunks
  /\ cid \in [Worker -> 0 .. chunks]
  /\ word \in [Worker -> SUBSET Chunk]
  /\ size \in [Worker -> 0 .. chunks]
  /\ cleaned \in 0 .. chunks
  /\ main \in {"spawn", "join", "cleanup", "done"}
  /\ pc \in [Worker -> {"none", "create", "insert", "fail", "read_word", "write_word",
                         "read_size", "write_size", "check", "ended"}]
  /\ \A w \in Started : pc[w] # "ended" => cid[w] < range[w].end
  /\ Lists!TypeOK

\* rw_lock_list and buf_pool.free keep their links, and the latter its count, while
\* the threads put blocks into both, and the former when the cleanup takes latches out.
ListsLinked == Lists!LatchesLinked /\ Lists!PagesLinked

InBoth(c) == Lists!InList(latches, c) /\ Lists!InList(pages, c)

\* No chunk is created twice: a thread that is about to create one is the first.
CreatedOnce == \A w \in Started : pc[w] = "create" => cid[w] \notin created

\* create() returns false only when the lists have the blocks of all chunks, whatever the
\* numbers of chunks and CPUs, and however the threads are scheduled.
AllCreated == main = "done" /\ ~failed => created = Chunk /\ \A c \in Chunk : InBoth(c)

\* The cleanup destroys nothing that was not created, though the vector is a word
\* per 64 chunks and is read and written without synchronization.
DestroysCreated == destroyed \subseteq created

\* The threads end early when one fails; create() returns in any case.
Returns == <>(main = "done")

\* 'If any chunk fails to initialize, uninitialize all chunks.'
AllDestroyed == main = "done" /\ failed => created \subseteq destroyed /\ latches = << >>
=============================================================================
