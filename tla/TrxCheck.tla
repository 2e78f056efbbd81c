------------------------------ MODULE TrxCheck ------------------------------
(***************************************************************************)
(* The driver of project3 after its threads have ended: IsCorrect reads    *)
(* the logs, sorts them by commit id, and repeats the transactions one     *)
(* after the other.                                                        *)
(***************************************************************************)
EXTENDS Trx

Earlier(a, b) == a.id < b.id

\* The lines of all files, sorted by commit id.
LogVector ==
  LET read[n \in 0 .. Cardinality(Thread)] ==
        IF n = 0 THEN << >> ELSE read[n - 1] \o file[n]
      lines == read[Cardinality(Thread)]
      places == 1 .. Len(lines)
      order == CHOOSE p \in [places -> places] :
                 /\ \A x \in places : \E n \in places : p[n] = x
                 /\ \A m, n \in places : m < n => ~Earlier(lines[p[n]], lines[p[m]])
  IN  [n \in places |-> lines[order[n]]]

\* The record table after the first n lines.
RecordTable(log) ==
  LET replay[n \in 0 .. Len(log)] ==
        IF n = 0 THEN [r \in Record |-> Initial] ELSE Apply(replay[n - 1], log[n].recs)
  IN  replay

IsCorrect ==
  LET log == LogVector  after == RecordTable(log) IN
  \A n \in DOMAIN log : \A m \in 1 .. 3 : log[n].vals[m] = after[n][log[n].recs[m]]

\* When all threads have ended, the logs have one line for each commit id, and
\* repeating them in the order of their ids gives the values they name: the
\* assertion before the sort, and 'Correctness : true'.
CheckPasses ==
  (\A t \in Thread : pc[t] = "done") => Len(LogVector) = Last /\ IsCorrect
=============================================================================
