-------------------------- MODULE MCAtomicSnapshot --------------------------
(* AtomicSnapshot for TLC. *)
EXTENDS AtomicSnapshot

\* Thread 0 scans as often as it likes, the two others write.
Writes == [t \in 0 .. 2 |-> CASE t = 0 -> 0 [] t = 1 -> 4 [] t = 2 -> 2]

\* Thread 1 writes often enough for two scans of thread 0 to acquire its
\* snapshot while thread 2 writes once. Or both write twice: thread 0 can acquire
\* from thread 1 what thread 1 has acquired from thread 2.
Updates(t) == View(t)[t] + IF updating[t] /\ pc[t] # "idle" THEN 1 ELSE 0

FewWrites == Updates(1) + 2 * Updates(2) <= 6
=============================================================================
