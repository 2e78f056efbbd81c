# Verification of HYU-ITE4065 in TLA+

The repository holds four course projects on multicore programming. Two of them
are concurrent algorithms of their own, a wait-free atomic snapshot (`project2`)
and a lock table without a global mutex (`project3`); one is a patch to MariaDB
(`project4`); one is a binary archive (`project1`). This directory models them
in TLA+, model-checks the models with TLC and proves theorems about them with
TLAPS.

## 1. Inventory

| Component | State | Operations | Talks to |
|---|---|---|---|
| `shared_snapshot`, `Snapshot` (project2) | control block `outer_cnt_with_index`, `version_count` versions with `inner_cnt`, `recycle_flag`, registers | `exchange`, `acquire`, `release`, `reset` | called by `scan` (any thread) and `update` (the owner) |
| `WaitfreeAtomicSnapshot`, `AtomicRegister` (project2) | one register (time stamp and value in one word) and one `shared_snapshot` per thread, the table of thread indices | `scan`, `update`, `RegisterTid` | reads all registers; installs and acquires snapshots |
| driver of project2 (`main.cpp`) | none | `CountUpdate`: each thread calls `update` for a minute | calls `update` with its index |
| lock table, lock-free (project3) | per record `head`, `tail`, `head_mutex`; per lock `lock_id_on_record`, `next`, `state`, `mode`, `id_pass_flag`, `head_pass_flag`, `signal_flag`; per thread its saved locks | `AcquireLock`, `IsDeadlock`, `ReleaseLock` | reads the `TrxNode` of other threads; sleeps and wakes on their condition variables |
| lock table, global mutex (project3) | the same lists under one mutex | the overloads of `AcquireLock` and `ReleaseLock`, `IsDeadlock2` | the same |
| `TrxManager` (project3) | `TrxNode` per thread (`conflict_lock`, `trx_lock_deque`, `mutex`, `cond`, `thread_number`), the commit id, the records' values | `Begin`, `Find`, `Update`, `Commit`, `Abort`, each with and without a global mutex | calls the lock table, writes one log file per thread |
| driver of project3 (`main.cpp`) | the log files | `RepeatTrx`, `IsCorrect` | runs transactions, replays the log |
| buffer pool initialisation (project4, `patchfile`) | the chunks of each thread, `chunk_init_fail_flag`, `chunk_init_success_vector`, `curr_size`, `rw_lock_list`, `buf_pool.free` | `buf_pool_t::create` and its threads (`buf_chunk_init`), `atomic_push_front`, `ut_list_atomic_append` | MariaDB's buffer pool |
| build and settings (project4) | none | none | none |
| in-memory join (project1) | | | only `submission.tar.gz`: no source text |

What is hard in each of them, and what correctness means:

* **shared_snapshot.** A reader takes the index of a version with one
  `fetch_add` and uses it arbitrarily later. The two reference counters, outer
  and inner, are settled by whoever comes last. Correct means: a version is not
  overwritten while a reader needs it; exactly one thread recycles a replaced
  version; none is lost; `exchange` always finds a version and never waits for
  a reader; a reader copies what was current when it acquired it.
* **WaitfreeAtomicSnapshot.** Registers are collected one by one while
  others write, a store to a register reaches the other threads late, and a scan may
  return what another thread scanned. Correct means: linearizable and wait-free. The
  second holds; the first does not (`ScansAreOrdered`), and what holds instead is
  `ScanIsView` and `CleanIsAtomic`.
* **Lock table, lock-free.** Searching threads hold nothing and may stand on a
  lock that is recycled under them. Correct means: incompatible locks are not
  held together, the order of arrival is kept, no wakeup is lost, no deadlock is
  missed, the list keeps its locks, every transaction ends.
* **Lock table, global mutex.** The lists are the same, but a critical section ends
  where a thread waits, and locks are used again without ids. Correct means the
  same.
* **TrxManager, log.** Two-phase locking, with undo on refusal and beyond the last
  commit; the log line is written after the locks are gone. Correct means:
  nobody reads what may be undone, the commit ids are a serial order, the logs
  replay to the values they name.
* **Buffer pool initialisation.** Threads share counters, a `vector<bool>` and
  lists. Correct means: each chunk is created once, the lists keep every element,
  and if a chunk fails, all that were created are released.

`PROJECT.json` lists the hazards at their lines, and for each the properties
that would show it, or the reason why none does.

## 2. Modules

| Module | Models | Read it |
|---|---|---|
| `SnapshotCell` | what a `shared_snapshot` promises: the snapshot is replaced atomically, a reader keeps the one it acquired | as the abstract specification |
| `SharedSnapshot` | `shared_snapshot` and `Snapshot`, one memory access per step | implements `SnapshotCell` |
| `SharedSnapshot_proofs` | nothing; the theorems about `SharedSnapshot` | with section 6 |
| `AtomicSnapshot` | `scan` and `update` of `WaitfreeAtomicSnapshot` | on cells that behave like `SnapshotCell` |
| `AtomicSnapshot_proofs` | nothing; the theorems about `AtomicSnapshot` | with section 6 |
| `LockService` | what a lock table promises: lines of requests, granted in the order of arrival over compatible ones | as the abstract specification |
| `LockTable` | the lock objects and transactions that both lock tables share | before the next two |
| `LockList` | `AcquireLock`, `IsDeadlock`, `ReleaseLock` without the global mutex, one memory access per step | implements `LockService` |
| `GlobalLock` | the overloads with the global mutex and `IsDeadlock2`, one critical section per step | implements `LockService` |
| `GlobalLock_proofs` | nothing; the theorems about `GlobalLock` | with section 6 |
| `LockList_proofs` | nothing; the theorems about `LockList`: types, assertions, order | with section 6 |
| `LockListPromise_proofs` | nothing; the theorems about `LockList`: `LockService`, wakeups, the lists, deadlocks | after `LockList_proofs` |
| `Trx` | `TrxManager`, `GetRecord`, `ChangeRecord` and `RepeatTrx`: values, undo, commit ids, log files | on a table that behaves like `LockService` |
| `Trx_proofs` | nothing; the theorems about `LockService`, `Trx` and `TrxCheck` | with section 6 |
| `TrxCheck` | `IsCorrect`, the replay of the logs | after `Trx` |
| `BlockLists` | `atomic_push_front`, `ut_list_atomic_append` and `rw_lock_remove_from_list_func`, as the threads of `create` call them for each block | before the next |
| `BlockLists_proofs` | nothing; the theorem about `BlockLists` | with section 6 |
| `BufPoolInit` | `buf_pool_t::create` and its threads | uses the lists of `BlockLists` |
| `BufPoolInit_proofs` | nothing; the theorems about `BufPoolInit` | with section 6, after `BlockLists_proofs` |
| `MC...` | nothing; the instances that TLC checks | with section 5 |

The snapshot is split in two levels. `AtomicSnapshot` would be too large with
the versions inside, so it uses an atomic cell for each `shared_snapshot`, and
`SharedSnapshot` is shown to implement that cell (`ImplementsCell`). The two
facts that the lower level assumes of its caller are proved of the upper one:
a cell is acquired only after it was installed (`AcquireAfterInstall`, the guard
`Installed` of `Acquire`), and the outer count stays small (`OuterCountBounded`,
the bound `MaxCount`).

The transactions are split the same way: `LockList` and `GlobalLock` are each shown to
implement `LockService` (`ImplementsService`), and `Trx` stands on `LockService`, so that
what is shown of the transactions does not depend on which table they call.

Operators named in comments as *Mutant of X* are plausible bugs in `X`. They
are not part of the specification: with each of them in the place of `X`, TLC
finds the property that `PROJECT.json` names violated.

### Memory model and the size of a step

Ids, counters, `head`, `tail`, `conflict_lock` and the flags of a lock are sequentially
consistent atomics. `state`, `next` and `mode` of `lock_t`, `recycle_flag`, the
contents of a version and the registers of `WaitfreeAtomicSnapshot` are plain fields that
several threads access without a mutex, which is a data race by the standard. The Makefiles build with g++ without
optimisation, and on x86 this makes each access one instruction, in program
order, except that a store may become visible to others after later loads of the same thread;
at the latest with its next atomic store or mutex operation.

For the registers this matters, and `AtomicSnapshot` has it: `update` ends with the
store, and the next `scan` of the thread begins with loads of the other registers. So
`Write` makes the store `late`, its own thread sees it at once (`View`), and `Settle` makes it
visible to the others at any later time, but before the thread's next locked
instruction, the `fetch_add` of `acquire` or the `exchange`.

The other models let a plain store take effect at once. The late ones add nothing there:

* `release_lock->state = OBSOLETE`, the store of WAIT before `Sleep` and those of a
  recycled lock are followed by a mutex or an atomic store before anything that depends on
  others having seen them. The one load in between that could overtake is the
  second look at the lock before (`Acquire.cpp:211`), after the store of WAIT.
  The releaser then may not see WAIT and not notify, but it sets `signal_flag` under
  the mutex in any case, and `Sleep` looks at the flag under the same mutex.
* `prev_tail->next` is visible before the id of the new lock is, and nobody takes part in
  the list with it before that.
* `recycle_flag` set late is the step `ReleaseFlag` or `ResetFlag` taken later; cleared, it
  is followed by the `exchange` of the control block.
* A link of a list, a word of the `vector<bool>` and `curr_size` (project4) are stored in steps of
  their own. A late store is that step taken later: its thread reads nothing before its next
  atomic operation that tells the two apart, and `create` reads after the threads are joined.

A step therefore makes one access to memory that another thread may access at the
same time, plus thread-local work. Where a step makes two, the second cannot be told
apart:

* `FirstLock` sets the id and then the head. A thread that joins waits for both
  before it goes on (`AwaitId`), and nobody else reads either.
* `Recycle` and `RenewNext` store several fields of a lock, of which one at most
  is read by others before the lock is in the list again.
* `GoneOn` reads the conflict lock of a transaction and then its id. The id of a
  conflict lock only changes after `conflict_lock` has been cleared.
* `Advance` and `WakeNext` run under the mutex of the head. Behind the head no
  lock is recycled: a `next` that is set stays, the mode does not change, and
  OBSOLETE is final.
* The critical sections under the mutex of a transaction (`Sleep`, `WakeHead`,
  `WakeOther`) are one step, the mutex of the head is held across steps.
* `Copied` is the copy of all registers of a version. They are written by `Fill`
  only, so that a copy is whole exactly if no `Fill` of that version comes
  between `Acquire` and `Copied`; `NoUseAfterRecycle` says so, and
  `ImplementsCell` that the contents are the same at the beginning and the end.

### SharedSnapshot

| Model | Code |
|---|---|
| `block` | `outer_cnt_with_index`: count in the upper, index in the lower half |
| `snap[k]` | `snapshot_ptr_vector[k]`: null while `data = NoData`; `inner_cnt`, `recycle_flag`, registers |
| `wpc`, `wi`, `wdata`, `old` | the writer's place in `exchange`, its `i`, its argument, `old_ref_cnt` and `old_index` |
| `rpc`, `ridx` | each reader's place between `acquire` and the end of `release`, the index it got |
| `Find` | one iteration of the search; `failed` is the assertion after the loop |
| `New` | `new Snapshot(...)` for a version that does not exist |
| `Fill`, `Zero`, `Unflag` | `Snapshot::operator=`: the registers, `inner_cnt`, `recycle_flag` |
| `Swap` | `outer_cnt_with_index.exchange(i)` |
| `Reset`, `ResetFlag` | `Snapshot::reset(old_ref_cnt)` |
| `Acquire`, `Release`, `ReleaseFlag` | `acquire`, `Snapshot::release` |

The number of versions is a constant. `EnoughVersions` says what `thread_count
+ 1` versions are for the `thread_count - 1` threads that may scan the cell of
another: two more than readers. The bound is sharp: with one version less, the
search can fail.

### AtomicSnapshot

A register is its time stamp, which is unique for each write of a thread and
stands for the value. `reg` is what every thread sees of the registers; `late[t]` says that the last
store of `t` is not yet part of it, and `View(t)` is what `t` reads. `first`, `second`, `changes`
and `i` are the locals of `scan`. The result of a scan is `first` at `returned` or `exchange`.
A thread has one late store at most, since an `exchange` comes between two of them.

Four history variables serve the properties and the proofs only: `recent`, the views of all threads since
no store was late; `seen`, for each scan in progress the views that were recent when it
began and all views since; `mine`, the views of the scanning thread itself since then; `rounds`,
the passes it has begun.

### LockList

A lock is named by its thread, its record and its place in that thread's vector
of saved locks for the record, which never changes; recycling gives the same
lock a new life, so that stale pointers are in the model as they are in the code.
Time stamps of the search are the ids (`lock_id_on_record`, `MaxId` for
`0xffffffffffffffff`). `Programs` gives each thread the transactions of
`RepeatTrx`: a transaction that is refused a lock releases what it has and is
over. The locals of a call are in `loc`.

| Actions | Code |
|---|---|
| `Pick`, `RenewState`, `RenewNext`, `SetMode` | the search for a lock to recycle, `Acquire.cpp:43-90` |
| `Swap`, `Link`, `AwaitId`, `PassId`, `FirstLock`, `SetConflict` | joining the list, `Acquire.cpp:93-139` |
| `FromHead`, `Collect`, `CollectNext` | collecting the locks before, `Acquire.cpp:142-189` |
| `Check`, `CheckId`, `CheckMode`, `Wait`, `Unwait` | compatibility, `Acquire.cpp:196-230` |
| `Fill`, `Pop`, `NoDeadlock`, `Probe`, `ProbeId`, `ProbeHead`, `Walk`, `WalkNext`, `WalkId`, `WalkAgain`, `WalkHead` | `IsDeadlock`, `Deadlock.cpp:40-169` |
| `Deadlock`, `GiveUp`, `Sleep`, `Awake`, `Grant` | the end of `AcquireLock` |
| `MarkObsolete`, `LockHead`, `Front`, `Advance`, `PassHead`, `NewFront`, `WakeHead`, `WakeNext`, `WakeOther` | `ReleaseLock`, `Release.cpp:15-120` |

### The promise of a lock table, and how the tables keep it

In `LockService`, `mode[r][t]` is the mode of the request of thread `t` in the line of
record `r`, `ahead[r][t]` are those who were in the line before it and still are,
`asks[t]` is the record a thread waits for. `Grant` needs everyone before to be
compatible, also those who still wait: the code never lets a request overtake. `Refuse` is open to
everyone who waits, because `IsDeadlock` may take a harmless wait for a deadlock
(`Deadlock.cpp:10`) and the transactions have to live with that.

| `LockService` | `LockList` | `GlobalLock` |
|---|---|---|
| a request is in the line | its lock has an id and is not OBSOLETE | its lock is in the deque and not OBSOLETE |
| `ahead` | the locks in line with a lower id | the locks in use from the head to it |
| `Request` | the step that gives the id (`AwaitId`, `FirstLock`) | `AcquireLock` that has to wait |
| `Take` | none | `AcquireLock` that need not wait |
| `Grant` | the step that finds no incompatible lock before (`CheckOn`), or `Grant` | `Awake` |
| `Refuse` | `GiveUp` | none: joining and being refused is one critical section |
| `Release` | `MarkObsolete` | `ReleaseLock` |

### GlobalLock

A critical section is one step: `AcquireLock` up to its return or to `cond.wait`, `Awake`
from there on, `ReleaseLock`. The conflict lock is set only where other sections can see
it, so that it names a lock exactly while its thread waits. `IsDeadlock2` is the set of threads that
its queue can reach, `Woken` and `Flagged` are the locks that the loops of `ReleaseLock` touch.

### Trx

A word has `Words` values and wraps; a negative number is its two's
complement. `Find` and `Update` are `Ask`, then `Granted` or `Refused`, then
`Access`. Access to a record's value is one step, as the lock keeps others away;
`ReadsCommitted` and `ValuesSerial` show that it does. `Undo` and `Log` are the two bodies of
the loops over the deque, each followed by `Release`. `GetTrxNode` is part of `Begin`,
the only call that can insert. `serial` is a history: the records as the commits so far leave them, in the
order of their ids.

### BufPoolInit and BlockLists

A read-modify-write of plain memory is two steps: a word of `vector<bool>`
(`ReadWord`, `WriteWord`) and `curr_size` (`ReadSize`, `WriteSize`). `WordBits` is 64 in the code;
a smaller one makes chunks of different words possible in a small pool. `Create` is
`chunk_t::create`, which fails before it touches a block, or goes on to `Insert`: the latch of
the block to the front of `rw_lock_list`, its page to the end of `buf_pool.free`, in the steps
of `BlockLists`, one store or atomic exchange each. `latches` and `pages` are histories: the
lists in the order of the exchanges. A chunk has one block here; a chunk with more
is like more chunks of the same thread as far as the lists go. `Cleanup` goes through the chunks
in order and takes the latches of those out that the vector names; it runs after all threads have ended.
With no more chunks than CPUs `chunk_init_unit` is the number of chunks (`patchfile:226`): the first
thread creates all of them and nothing is parallel.

## 3. Properties

`SharedSnapshot`: `NoUseAfterRecycle`, `SingleRecycler`, `NoVersionLost`, `CountsExact`,
`VersionAvailable` (the assertion of `exchange`), `ImplementsCell`; liveness
`ExchangeEnds`, `RetiredRecycled`.

`AtomicSnapshot`: `ScanIsView` (a scan, also one that returns the snapshot of another thread, returns
what one thread saw of all registers together during the scan, or before it if then stores were late without
a break since), `CleanIsAtomic` (a collect that equals the one before it is what the scanning
thread itself saw at one moment of the scan), `ScanIsBounded` (wait-freedom as a bound on the passes),
`AcquireAfterInstall`, `OuterCountBounded`; violated: `ScansAreOrdered` (of any two
results one is the earlier in every register), which linearizability implies.

Without late stores `View(t)` is `reg` for every `t`, `recent` holds the present contents only, and
`ScanIsView` says that a scan returns what the registers held at a moment between its call and its
return: `update` and `scan` would be linearizable. `ScanIsView` is what is left of that for plain stores.

`LockService`: `MutualExclusion`, `InOrder`; they are proved and not run.

`LockList`: `MutualExclusion`, `GrantedInOrder`, `NoLostWakeup`, `NoMissedDeadlock`,
`ListIntact`, `AssertionsHold` (the assertions of the code, each where it stands),
`ImplementsService`; liveness `AllFinish`.

`GlobalLock`: `ListIntact`, `NoLostWakeup`, `NoMissedDeadlock`, `ImplementsService`. Its programs
are finite and no step of them repeats, so that the check for deadlocks shows that all transactions end.

`Trx`: `ReadsCommitted` (no dirty reads), `ValuesSerial` (a record has the value of the serial
order, but for the change of one running transaction), `LinesSerial` (a line of a
log has the values at its place in the serial order, whenever it is written).
`TrxCheck`: `CheckPasses`, that the program prints `true`.

`BufPoolInit`: `CreatedOnce`, `AllCreated`, `DestroysCreated`, `ListsLinked` (both
lists are linked both ways but for the stores that threads have yet to make, and the count is
that of the finished insertions); liveness `Returns`; violated: `AllDestroyed`.

## 4. Fairness

* `ExchangeEnds` assumes only that the writer, once inside `exchange`, is scheduled
  again (`WF` on the steps of the writer). The readers may stop anywhere: that is
  what wait-free means. There is no fairness on the call of `exchange`.
* `RetiredRecycled` also needs the readers that acquired a version to go on; the
  premise `ReadersFair` is part of the property. They are still free not to
  acquire.
* `AllFinish` assumes weak fairness of each thread: the operating system
  schedules it. `sched_yield` in `AwaitId` is a wait for two conditions that
  stay true once they are. The mutex of the head needs no strong fairness here:
  each thread takes it a bounded number of times.
* `Returns` assumes weak fairness of `create` and of each of its threads: the operating system
  schedules them.
* `Trx` has no liveness property. A refused transaction starts again with other
  random records, and nothing but chance keeps two threads from refusing
  each other for ever.

Deadlock checking is on in every run. `Done` stutters when all threads have
ended; any other state without a successor, such as threads asleep for ever,
is an error.

## 5. Runs

| Run | Instance | Shows |
|---|---|---|
| `versions` | 2 readers, 4 versions, 2 contents | all properties of `SharedSnapshot`: safety, the refinement, `exchange` ends without the readers, replaced versions become free |
| `snapshot` | 3 threads: one scans, two write 4 and 1 times, or 2 times each | scans return views and are bounded |
| `locks_pair` | 2 threads, 2 records, 3 transactions each | recycling under a running search; deadlocks of two |
| `locks_ring` | 3 threads, 3 records | waiting in a circle of three; several SHARED locks behind one EXCLUSIVE; every transaction ends |
| `locks_service` | 3 threads, 2 records, one transaction each | `LockList` implements `LockService` |
| `global_locks` | 3 threads, 3 records, up to 2 transactions each | circles of two and three, groups of SHARED locks, locks that are used again; `GlobalLock` implements `LockService` |
| `transactions` | 2 threads, 3 records, 2 commits, words of 4 values, symmetry | undo, commit ids and logs; the replay succeeds |
| `bufpool` | up to 4 chunks, up to 3 CPUs, 2 bits in a word | distribution, the two lists, failure, cleanup; `create` returns |
| `snapshot_order` | 3 threads: one scans, two write 4 and 2 times | **violation**: two scans, each without the write of the other thread |
| `locks_circle` | 4 threads, from a reachable state | **violation**: a missed deadlock |
| `locks_spurious` | 3 threads, 1 record, spurious wakeups | **violation**: two incompatible locks |
| `bufpool_leak` | up to 4 chunks, up to 3 CPUs, 64 bits in a word | **violation**: a chunk is not released |

Why these bounds: all versions of `versions` are used at once (two held, one
current, one being taken), the writer runs without a bound on its exchanges, and
both readers can leave one version in any order with the writer. `MaxCount`
limits the outer count of one version to 2: a reader acquires a version once
(`OuterCountBounded`), and in the model one may also do so twice. In
`snapshot`, 4 writes of one thread let a scan see it change twice, return the
snapshot, and do so again with the next version, while the other writer makes the
snapshots it installs depend on a third register. 2 writes of each let one writer return
the snapshot of the other, and the scanning thread return that one. The constraint
`FewWrites` leaves out the states with more writes of both together; `snapshot_order` does not need it. In `locks_pair` three
transactions reach the reuse of locks that the other thread's search still
stands on; `ids` grow to 5. `locks_ring` is the smallest circle in
which the search has to follow a chain. `MaxLocks` is the number of transactions
of a thread that use a record, so that creating a lock is never
refused.

`locks_service` has its bounds from the cost of the refinement mapping; a
request before, between and behind two others, refusal of each of the two
threads in the circle, and every order of release occur in it. Recycled locks are
left to `locks_pair`. In `global_locks` critical
sections are steps, which leaves room for more transactions; `MaxLocks` is again the most locks that can
be needed. In `transactions` each thread needs all three records, so that any two
transactions conflict, in all six ways to choose the records and with refusals at any place;
values start at the largest word, so that the first addition wraps, and with two
threads and `Last` = 2 a third and fourth id are drawn and undone while
the last line may still be unwritten. A third thread adds no new conflict: at
most two transactions have a common record locked, SHARED, and only then a
third could come between, which `LockService` covers. In `bufpool` 4 chunks and 3
CPUs give the cases of the division: fewer chunks than CPUs, as many, a
multiple, and with a remainder; two bits in a word give chunks of the same and of
different words to one thread. Three threads can be inside an
insertion at once, each behind or before any other, on empty lists and
on lists that are not, and the cleanup meets first, last and inner latches.

### The four violations

`snapshot_order`. `update` ends with a plain store to a plain `uint64_t` (`AtomicRegister.hpp:88`, `:93`).
Threads 1 and 2 update, and both begin to scan again before the store of either has
reached the other. Each reads its own new value and the old one of the other, twice, and
returns from a clean collect: [0, 1, 0] and [0, 0, 1]. Neither of the two can come
before the other, although `WaitfreeAtomicSnapshot.hpp:6-12` speaks of atomic snapshots and of the
linearization point of a scan. An atomic store in `write`, or any locked instruction after it, would close
the gap. A single register is read and written whole, as
`AtomicRegister.hpp:37` says, and each of the results is still what one thread saw (`ScanIsView`).

`locks_circle`. The comment at `Deadlock.cpp:10-11` rules out that a deadlock is
taken for none. The search goes back to the head of the list with two reads: the
head (`:147`), then the id of that lock (`:152`). If in between the head moves on
and the lock is recycled, its id is `0xffffffffffffffff` (`Acquire.cpp:63`), the
comparison `>=` holds, and the search passes a transaction that still waits.
Its own lock is in the list of that transaction, so that a cycle
of two is missed: threads 1 and 2 sleep behind each other. Going back to the head
needs locks of two other threads before, which are released and come back, hence four threads;
the full instance is out of reach, and the run starts from the state
`CircleInit`, which was found on a path from `Init`.
With two threads no deadlock is missed (`NoDeadlockIsMissed`), nor is one with the three threads of `locks_ring`.

`locks_spurious`. `Acquire.cpp:243-246` waits without a loop: after a spurious
return of `cond.wait` the lock becomes ACTIVE while the one before it is still
held. All other runs assume that `wait` returns only when notified, so that they show
what the algorithm does apart from that. The wait under the global mutex
(`Acquire.cpp:404-405`) has no loop either; `GlobalLock` leaves spurious
returns out.

`bufpool_leak`. `chunk_init_success_vector[cid] = true` (`patchfile:209`) changes a word of
64 bits. One thread reads the word, another sets its bit, the first writes the word
back: the second bit is lost. When a third chunk fails, the cleanup asks the
vector which chunks to release and leaves one behind, with its latches in
`rw_lock_list`. Without the failure the lost bit does no harm, since nobody
reads the vector then. `DestroysCreated` shows that the race never makes the
cleanup release a chunk that was not created. `curr_size` loses updates in the same
way (`patchfile:210`); the model has that race too, but the patch states nothing of the sum that could be
checked.

## 6. Proofs

### One shared snapshot

`SharedSnapshot_proofs` proves, for every finite set of readers, every number of
versions, every set of contents and every bound on the outer count:

| Theorem | Statement |
|---|---|
| `TypeCorrect` | `Spec => []TypeOK` |
| `NoReaderAtTakenVersion` | `Spec => []NoUseAfterRecycle` |
| `OneThreadRecycles` | `Spec => []SingleRecycler` |
| `CountsAreExact` | `Spec => []CountsExact` |
| `VersionsAreKept` | `Spec => []NoVersionLost` |
| `SearchSucceeds` | `EnoughVersions` implies `Spec => []VersionAvailable` |
| `ImplementsTheCell` | `Spec => ImplementsCell`, that is, `SnapshotCell` |

Assumptions: those of `SharedSnapshot` on its constants (`Readers` is finite, there
is a version, `NoData` is not a content, `MaxCount` is a number); only `SearchSucceeds`
needs `EnoughVersions`.

None of the invariants is inductive by itself, because the inner count of a
version means something else in each stage of its life. `IInv` says what, for
each version `k`:

* never allocated (`FreshInv`): nobody uses it;
* current (`CurrentInv`): the outer count is the inner count (the releases so
  far) plus the number of readers that hold it; the inner count is not negative, so that no release sees
  zero;
* replaced, with the subtraction still to come (`ReplacedInv`): the same, with the
  outer count the writer took along;
* retired (`RetiredInv`): the inner count is minus the number of holders. So
  the step that brings it to zero is that of the last holder, or of the writer if there is
  none, and there is one such step;
* being taken by the writer (`WriterInv`): nobody uses it, and it is not current.

`FirstInv` covers the time before the first exchange, when the control block
names version 0 although it does not exist. `ExchangeStep` to `ReleaseFlagStep`
prove that each action preserves `IInv`; the lemmas on sets before them say how each
step of a reader changes the number of holders. `SomeFree` is the counting argument for the search:
if no version were free between two exchanges, every version but the current one
would have a reader of its own, an injection into `Readers`. `SearchInv` carries it
through the loop, since a free version stays free until the writer takes it.
`CellStep` maps every step to one of `SnapshotCell` or to a stutter.

### The atomic snapshot

`AtomicSnapshot_proofs` proves, for every number of threads, every set of scanners
and every number of writes of each thread:

| Theorem | Statement |
|---|---|
| `TypeCorrect` | `Spec => []TypeOK` |
| `ScansAreViews` | `Spec => []ScanIsView` |
| `CleanCollectsAreAtomic` | `Spec => []CleanIsAtomic` |
| `AcquiresFollowInstalls` | `Spec => []AcquireAfterInstall` |
| `ScansAreBounded` | `Spec => []ScanIsBounded` |
| `OuterCountsAreBounded` | `Spec => []OuterCountBounded` |

Assumptions: there is a thread, and the scanners are threads. The cells are atomic, as
`ImplementsTheCell` shows of `SharedSnapshot`.

`ScanIsView` is about scans that are over and says nothing of those in progress, so
it is not inductive. `IInv` adds, for a scan of thread `t`:

* `Begun`: there are contents `s` in `seen`, the view of `t` when the scan began. What was
  collected of a register, and the number of times it was seen to change,
  bounds it from both sides (`Collected`). At `acquire`, the register has been
  written twice since `s`.
* `Nested`: if a write of thread `r` has become visible since `s`, the scan that belongs to its next
  write began when that write was late, or later, so all it may return, `t` may
  return. With two writes after `s`, so may the snapshot `r` has installed. This is why the second
  change, and not the first, allows to return the snapshot of another thread.
* `LateInv`: while the store of a thread is late, nothing drops out of `recent`, and the scan of the thread
  that follows it has seen nothing but recent views. When the store settles (`StoreStep`), this
  scan comes to be nested in that of `t`, which has had all recent views from its beginning.
  Here the scan of `r` may have begun before that of `t`: this is how stale a result can be, and why
  `seen` begins with `recent` and not with one view.
* `Between`: the view of `t` with which the present pass began lies between the
  two collects, so that a clean collect returns just that, a member of `mine`.

`RoundInv` bounds the passes: each pass but the last sees a register change for the
first time, and never the scanning thread's own (`ChangedOthers`). `CountInv`
bounds the outer count by a set of threads: those that have acquired the
present snapshot of `c`. Their later scans began after it was installed and see `c` write
at most once (`Since`), so that none of them acquires it again. The set needs
no variable: the invariant says that it exists.

### The promise of the lock tables

`Trx_proofs` proves of `LockService`, which it knows as `Locks`, for every set of threads and records:

| Theorem | Statement |
|---|---|
| `LocksExclude` | `Locks!Spec => []Locks!MutualExclusion` |
| `LinesInOrder` | `Locks!Spec => []Locks!InOrder` |
| `TableTypes` | `Locks!Spec => []Locks!TypeOK` |

Assumption: `NoRecord` is not a record, a hypothesis of each theorem. `MutualExclusion` is not inductive: it says nothing of
requests that wait, and one of those may be granted next. `InOrder` adds who
stands before whom, that any two in a line are ordered, and that who holds a
lock was granted it over all that are before it. `TableJoin`, `TableLeave` and `TableGrant` are
the three ways a line changes; `HoldersCompatible` is the conclusion: of two
holders, one is before the other.

### The lock table under the global mutex

`GlobalLock_proofs` proves, for every finite set of threads, every set of records, all transactions that lock a
record once, and every bound on the locks a thread creates:

| Theorem | Statement |
|---|---|
| `TypeCorrect` | `Spec => []TypeOK` |
| `ListsStayIntact` | `Spec => []ListIntact` |
| `NoWakeupIsLost` | `Spec => []NoLostWakeup` |
| `NoDeadlockIsMissed` | `Spec => []NoMissedDeadlock` |
| `KeepsThePromise` | `Spec => ImplementsService`, that is, `LockService` |
| `LocksExclude` | `Spec => []MutualExclusion`, of the locks that are ACTIVE |

Assumptions: those of `LockTable` on its constants; `NoLock` is neither a lock nor a record.

The properties speak of what a walk along the pointers comes to, and a step that changes one `next` can change all
walks. So the invariant says what the lists are: `IInv` is `Inv(ord)` for some `ord`, where `ord[r]` is the sequence of
the locks of `r` from the head to the tail (`ListInv`). Inserting appends to it (`Put`), a move of the head drops a
prefix (`Drop`), and nothing else changes it. A lock of a vector is in its list exactly until the head passes it, and
the list never becomes empty again (`LockInv`): this is why the tail that `AcquireLock` links to is never a lock that
is used again. `DequeInv` and `StateInv` say which locks a thread has and in which state, so that a thread waits for
one lock at most, its last. `GrantInv` is `NoLostWakeup` in both directions, which makes it inductive: a lock in use has an incompatible
one in use before it exactly if its thread is inside `cond.wait()`. `ReleaseGrants` is the step that
needs it. Only the head may have become free, and behind a SHARED head what comes before the first
EXCLUSIVE lock, which is what `Woken` collects. If the head does not move, nobody becomes free, although a lock in the
middle was released: the head is in use, or nobody is, and whoever stands behind it and was not free stands behind an incompatible lock
that is still there.

The walks (`From`, `NewHead`, `Woken`) are recursive functions. `FromStep`, `MoveStep` and `BehindStep` show that
these functions exist, with an explicit solution of each recursion, and `FromHead`, `HeadLine`, `BehindLine` and `BehindOnly` what
they are on a sequence. `AcquireEffect`, `AwakeEffect` and `ReleaseEffect` are the steps.

`NoMissedDeadlock` is preserved as long as nobody comes to stand behind more locks (`StaysFree`), which only a thread that
goes to sleep does. `SearchEnds` is its case: after as many rounds as there are threads, the search has either found the
thread or a set that is closed under waiting, since each round before that adds a thread. Were there a cycle
through the thread that goes to sleep, its part within the closed set would be a cycle without it, and have been there before.
`ServiceNext` maps every step to one of `LockService` or to a stutter.

### The lock-free lock table

`LockList_proofs` and `LockListPromise_proofs` prove, for every finite set of threads, every set of records, all transactions that lock a
record once, every bound on the locks a thread creates and every `MaxId`:

| Theorem | Statement |
|---|---|
| `TypeCorrect` | `Spec => []TypeOK` |
| `AssertionsNeverFail` | `Spec => []AssertionsHold` |
| `AssertionsSpurious` | `SpuriousSpec => []AssertionsHold` |
| `GrantsInOrder` | `Spec /\ []IdsLast => []GrantedInOrder` |
| `MutuallyExclusive` | `Spec /\ []IdsLast => []MutualExclusion` |
| `ImplementsTheService` | `Spec /\ []IdsLast => ImplementsService`, that is, `LockService` |
| `NoWakeupIsLost` | `Spec /\ []IdsLast => []NoLostWakeup` |
| `ListsStayIntact` | `Spec /\ []IdsLast => []ListIntact`, for finitely many records |
| `NoDeadlockIsMissed` | `Spec /\ []IdsLast => []NoMissedDeadlock`, for at most two threads |

Assumptions: those of `LockTable` and `LockList` on their constants. All but the first three are about
executions in which no list uses up its 64-bit ids (`IdsLast`: every id is below `MaxId`, the mark
of a lock that is used again). It holds in all executions that TLC explores here; a list that ran for centuries would
leave it.

The types are more than bookkeeping here: a walk that followed a `nullptr` would read `lk` outside its domain, so
`TypeCorrect` needs to know at each place what the thread may rely on. `CallAt` says it of the locals: a place that reads
through `target`, `prev` or `conf` has a lock there. `ProgramInv` and `LockInv` relate the thread to its transaction: the locks of
its deque are in lists that have a head, and a `conflict_lock` is one of a list with a head, so that whoever
reads it may follow the head. That a list never loses its head, and that no lock is destroyed (`Grows`), is
why the steps of the others leave all this true (`OthersKept`).

`FirstInv` is the race for the first lock of a record: between the exchange of the tail and the store to the head, one thread at most
stands at `first`, and all others wait for the head. `PassInv` is why the assertion on `id_pass_flag` holds
although locks are used again: a lock is the tail of its list, or known to one thread as `prev`, or neither, and the flag is FALSE in
the first two cases; a lock that is being used again is in the third, because `Recyclable` asks for the flag. With
a weaker `Recyclable` it fails, as the mutant of `locks_pair` shows. `HeadInv` is the mutex of the head.
`QuietStep` proves the steps that leave the lists alone, all but six, at one go: what is left to show is what
the thread knows at its next place.

`GrantsInOrder` needs the order of a list, which no variable holds: ids are given late, `next` is set late,
and a lock that is used again stands in two places for those who still point at it. `Orderly(rank)` says it with a
`rank` for each lock, the id that it has or will get, and `Ordered` that there is such a `rank`. Only the exchange of the tail (`Swap`)
gives a lock a new rank, above all others of its list. `ListInv` says that the links go from one rank to
the next, the tail has the highest, and that what the head has passed (`Overtaken`) is OBSOLETE; `OrderlyInv` says
what a search has established at each place. `Ahead` is its first half: on the way to `target`, no lock between is in conflict and not
released. `Found` is its second half: once the search is through, nothing before the thread's lock is in its way, and nothing can
come there, because new ranks are higher. A lock that is used again while a search stands on it gets `MaxId`
as its id before its state changes, and this is what makes the search start over (`check_id` before
`check_mode`): the proof needs the order of these two stores and of the two loads. `Gentle` is what every step leaves to
the searches of other threads.

For the refinement, `Worked` adds that a transaction has one lock for each request it has come to (`WorkInv`): those it has
released so far are OBSOLETE, and it has no other lock in use, recycled ones included. Then the locks of a record that
have an id and are not released make up a line of `LockService` (`Mapped`): a lock joins the line when it
gets its id, which is above all ids of the line by `OrderInv`, although the lock was linked before, and leaves it with the store of
OBSOLETE, although the head passes it later. A grant is one of `LockService` by `GrantedInOrder`. All other steps,
and that is most of them, map to a stutter (`Quiet`).

`NoLostWakeup` is about threads inside `cond.wait()`, and what keeps it is what happens before and elsewhere. `Awakes` says who
relies on whom. A thread that is `Blocked` has a signal, or waits for a lock before its own
that is in a hand (`WaitInv`); it is a lock that the thread saw when its own was already WAIT, and this is why AcquireLock looks
twice. A lock is in a hand until the last unlock of its release, long after it is OBSOLETE. Who is about to signal has left the head on a lock that is itself in a
hand (`WakeInv`), and a head whose thread waits has come there with a signal, or who moved it is about to signal (`FrontInv`).
So only `Unlock` can leave a thread without anyone to wait for, and `UnlockAwake` is the heart of the proof. `Handover` is the condition: the
thread that ends a release has left the head on a lock in another hand, and everyone who waited for
the lock it has released can wait for the head from then on, or is the head and has its signal. `NobodyWaits` is
the case in which the head did not move because there is no next lock: the last
lock of the list is OBSOLETE, and a lock that waits would be behind it. It takes the lock with the
least rank behind the head (`Least`, by well-founded induction on the naturals), which nothing could link but the head's `next`.

`ListIntact` speaks of what the links reach, through a recursive function. `Chain` is what they should reach by
`Orderly`: the locks of every rank from the head's on, up to the first one to which the lock before it is not linked yet. `ChainIs`
follows the ranks, `LiveInChain` shows that no rank is missing before a lock in use (`Least` once more, on the ranks that are), and
`LocksCount` that there are no more ranks than locks, so that `Reach` has rounds enough. `Walked` is an explicit solution of
its recursion, and `ReachIs` shows that there is no other. Records have to be finitely many because it counts locks.

`NoMissedDeadlock` is false for four threads: while a search stands on the locks before a conflict lock, other threads release
them and use them again, so that it goes back to the head and gives up too early (run `locks_circle`). When there are only two threads and they wait for
each other, nobody is left to do that: the lists stand still (`LooksKeep`). They come to wait for each other (`Mutual`) when the second of them
stores its `conflict_lock`, and then its search is still to come. `Watched` is the invariant, and `Sight` what it
says at each place of that search: it has yet to begin; or the lock that made it sleep is one of the other thread (`OtherStands`, from
`WaitInv` and `OneEach`), and that lock is in the vector or in the queue (`Due`), with the other thread not in `pass_id_set`; or the search looks
at the other thread, has read the conflict lock it still has, and is between the head and its own lock before it (`Near`). `WalksOn`, from `LiveInChain` and
`ChainIs`, says that the next lock exists and has the next id, so the walk neither restarts nor leaves the thread out. What the other
thread searches at the same time does not matter. With both asleep there is no such search, and nobody waits behind itself.

### Transactions

`Trx_proofs` proves, for every set of threads and records, every number of values of a word,
every first value and every number of commits:

| Theorem | Statement |
|---|---|
| `TypeCorrect` | `Spec => []TypeOK` |
| `ReadsAreCommitted` | `Spec => []ReadsCommitted` |
| `ValuesAreSerial` | `Spec => []ValuesSerial` |
| `LinesAreSerial` | `Spec => []LinesSerial` |
| `UsesLockService` | `Spec => Locks!Spec`: `Trx` takes no step that `LockService` does not have |
| `CheckAlwaysPasses` | `Spec => []CheckPasses`, of `TrxCheck`, for at least one thread |

Assumptions: those of `Trx` on its constants. Nothing is assumed of the lock
table but `LockService`, which both tables implement.

`IInv` goes through the life of a transaction. `LocalInv` says what the locals
of a thread are at each place, `LineInv` that the lines in which it stands are those of
its locks that it has not released: this connects `Trx` to the table.
`Locks!IInv` then gives mutual exclusion, through `LockStep` and
`HoldersCompatible`. `CountInv` and `NumberInv` bound the commit ids: an id
beyond `Last` belongs to a thread that is still undoing it, so there are at most as many
as there are threads. `FileInv` bounds the lines of a log file the same way.

`ValuesSerial` is not inductive: it says what a record holds, not why. `ValueInv` adds
that a thread that holds a lock has read the last serial value, that
the undo value is that one, and that of all running transactions only the holder of the EXCLUSIVE
lock may have changed the record. A commit draws its id while it holds all of
its locks; this is where two-phase locking enters, as the entry of `serial` that the
id adds differs from the last only in the record that the transaction has
locked EXCLUSIVE. `LogInv` carries what was noted for the log, the values of that
entry, through the release of the locks up to the line, when the records may long
have other values.

`CheckPasses` needs that no line is missing and none is written twice. `OnceInv` follows each commit id: it is that of one
line, or of one thread that has yet to write it, and its entry of the history is the entry before it with the transaction of the line
applied. When all threads are done, the files have each id up to `Last` once (`ReadingAll`), so they can be sorted in one way only,
each line at its id (`CanSort`, `SortedIds`), and the replay is the history (`ReplayIs`). The reading and the replay are
recursive functions: `Least` does the inductions, by the least number for which the claim fails. Without a thread nobody commits, and
`IsCorrect` would fail its assertion.

### Two lists without a mutex

`BlockLists_proofs` proves `ListsStayLinked`, for every number of threads and every finite set of
blocks:

    Spec => [](TypeOK /\ LatchesLinked /\ PagesLinked)

Assumptions: the end of a list is not a block, and there are finitely many blocks, so that
they can be counted.

The links are compared with `latches` and `pages`, the orders of the exchanges. Between
the exchange and its last store a thread leaves links open, and others insert
next to them. `LatchInv` and `PageInv` add why the stores, when they come, are
right: the neighbour that the exchange returned (`prev_begin`, `prev_end`) is still the
neighbour, because later blocks go in front of the former or behind the latter,
and removals wait for the end of all insertions. `ThreadInv` says that each thread has a
block of its own, so that an open link is that of one thread; two stores to one
node are to different fields. For the count, a block is counted when no thread has it.
Each action has a lemma of its own, and each is built the same way: where the thread is, what the step
changes pointwise, then the links one kind at a time. `PushEffect`, `StepEffect` and `RemoveEffect` say what the
steps do to the lists, for `BufPoolInit_proofs`.

### Buffer pool initialisation

`BufPoolInit_proofs` proves, for every bound on the chunks, the CPUs and the bits of a word:

| Theorem | Statement |
|---|---|
| `TypeCorrect` | `Spec => []TypeOK` |
| `ChunksAreCreatedOnce` | `Spec => []CreatedOnce` |
| `AllAreCreated` | `Spec => []AllCreated` |
| `CleanupIsSafe` | `Spec => []DestroysCreated` |
| `ListsStayLinked` | `Spec => []ListsLinked` |
| `UsesBlockLists` | `Spec => LP!Spec`: the lists are changed only by steps of `BlockLists` |
| `BlocksAreNew` | a thread that comes to a chunk finds its block in neither list |

Assumptions: those of `BufPoolInit` on its constants; `MaxChunks` and `MaxCpus` are any numbers, so
the bounds of the run do not limit the theorems. `BlocksAreNew` is about the model: `Push` has a guard that
the code has not, and the theorem says that it is always true where `Create` uses it.

`PlanInv` is the division: while threads are still to be created, the chunks that were given away, one
`Unit` for each thread to come and the chunks that remain make up all chunks, and
no more remain than there are threads to come. So the last thread gets
the last chunk, whatever the numbers. The ranges so far are disjoint and have no gap. `WorkerInv`
is the loop of a thread: it has created what lies before `cid`, nothing behind it, and it ends early only
after the flag is set. Ranges are disjoint (`OneOwner`), so that a step of one thread leaves this true of
the others. `BlockInv` relates created chunks to the two lists; `CleanInv` says that
the cleanup comes after all threads, which is the condition under which `remove` is a step of `BlockLists`.
`DestroysCreated` needs that not only `success`, but every word that a thread has read of it, names created
chunks only: that is part of `Types`. For the type of `curr_size`, `SizeInv` counts the created
chunks whose thread has added to it (`Sized`); what a thread has read is at most their number.

### Checked before proved

Each `IInv` was checked by TLC, as an invariant of an instance of the size of the runs, before its proof, and so was `Watched`.

### Model-checked only

* Liveness: `ExchangeEnds`, `RetiredRecycled`, `AllFinish`, `Returns`. The prover has no reasoning about fairness here.
* `NoMissedDeadlock` of `LockList` for three threads: in the run `locks_ring` a missed deadlock would
  violate `AllFinish`. For four it is false (`locks_circle`).

## 7. Not modelled

* `RegisterTid` and the search for a thread's index in `update`: `main` passes the
  index. An `update` without one would read the hash table while another thread may
  insert, under a mutex that it does not take.
* The overflow of a time stamp after 2^32 writes: the code asserts that it does
  not happen; `MaxWrites` stands for it.
* Destructors, statistics, random choices (any choice is possible), the log's format,
  `project1` (no source), the build files.
* The copy and move constructors of `shared_snapshot`, used only while the
  vector is filled, before any thread runs.
* Files of an earlier run in `IsCorrect`: the logs start empty, as after `make trunc`.
* That transactions succeed in the end: it is a matter of chance, section 4.
* Spurious wakeups, except in `locks_spurious`.
* In project4, everything that is not concurrent or not in the patch: events and
  their arrays, `close` and `resize`, the contents of a chunk. `chunk_t::reg` inserts into a
  `std::map` that all chunks share (`patchfile:363`); who calls it is not part
  of the patch.

## 8. Plan

Done: every concurrent component of the repository has a module, the detailed
ones are shown to implement `SnapshotCell` and `LockService`, and the proofs
of section 6.

All properties that are not about liveness are proved for all values of the constants, but for
`NoMissedDeadlock` of `LockList`, which is proved for two threads and false for four.

Next: `NoMissedDeadlock` for three threads, where one thread can release and use locks again while the two others wait for each
other; TLC should look for a missed deadlock with programs that use locks again first.
