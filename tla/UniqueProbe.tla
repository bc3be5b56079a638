---------------------------- MODULE UniqueProbe ----------------------------
(***************************************************************************)
(* The cache of the UNIQUE values of one table (executor_unique_probe.cpp) *)
(* and the cached order of a scan (scan_key_order).  Both are stamped with *)
(* how often the locks that protect the table have been taken exclusively; *)
(* neither is told of a change by most of the writers.                     *)
(*                                                                         *)
(* A section is what a statement does while it holds the lock of the table *)
(* exclusively: nobody else sees the middle of it, so it is one step.      *)
(* live says how many live rows hold each value of one key of the table.   *)
(***************************************************************************)
EXTENDS Integers, FiniteSetsExt

CONSTANTS Values,        \* the values of the key
          Copies,        \* how many rows may hold one value (a foreign key column repeats)
          StreakNeeded,  \* UniqueProbes::streak_needed
          MinRows,       \* kMinRows of fk_children_absent
          Sections,      \* bound: exclusive sections of a behaviour
          Tables         \* bound: how often the table is made

VARIABLES live,    \* how many live rows hold each value
          table,   \* which pair of locks the table has (locks_id, data_id); it changes when the table is made anew
          taken,   \* the sum of the three counts of exclusive locks
          probe,   \* the cache
          order,   \* the cached order of a scan: its stamp and the rows it was made from
          hidden   \* whether a lookup has said of a value that a live row holds that there is none

vars == <<live, table, taken, probe, order, hidden>>

None == [v \in Values |-> 0]
NoProbe == [built |-> FALSE, counts |-> None, table |-> 0, sum |-> 0, tails |-> 0, seen |-> FALSE,
            seenTable |-> 0, seenSum |-> 0, seenTails |-> 0, streak |-> 0, child |-> 0]

TypeOK ==
  /\ live \in [Values -> 0..Copies]
  /\ table \in 1..Tables
  /\ taken \in 0..Sections
  /\ probe.counts \in [Values -> 0..Copies]
  /\ probe.built \in BOOLEAN /\ hidden \in BOOLEAN

Init ==
  /\ live = None
  /\ table = 1
  /\ taken = 0
  /\ probe = NoProbe
  /\ order = [table |-> 0, sum |-> 0, rows |-> None]
  /\ hidden = FALSE

\* What a section adds to and takes from the rows.
Plus(rows, v) == [rows EXCEPT ![v] = @ + 1]
Minus(rows, v) == [rows EXCEPT ![v] = @ - 1]
Room(v) == live[v] < Copies
Rows(rows) == MapThenSumSet(LAMBDA v : rows[v], Values)

BugFits(p, sum, own) == p.built /\ p.table = table /\ (p.sum = sum \/ (own /\ p.sum + 2 >= sum))
\* Whether the cache is current: nobody has taken a lock since, but the section the question is asked in (`own`).
Fits(p, sum, own) == p.built /\ p.table = table /\ (p.sum = sum \/ (own /\ p.sum + 1 = sum))

\* count_rows, and the stamp of the counts.
Built(p, sum) == [p EXCEPT !.built = TRUE, !.counts = live, !.table = table, !.sum = sum]
Dropped(p) == [p EXCEPT !.built = FALSE, !.counts = None]

\* unique_probe_apply: the cache that was current takes the change in, any other is dropped.
Apply(p, sum, counts) ==
  IF ~p.built THEN p
  ELSE IF Fits(p, sum, TRUE) THEN [p EXCEPT !.counts = counts, !.sum = sum]
  ELSE Dropped(p)

\* unique_probe_proves_absent(Lookup), asked by an INSERT that holds the locks shared: it may make the cache.
Looked(p) ==
  LET onlyInserts == p.seen /\ p.seenTable = table /\ taken - p.seenSum = p.tails - p.seenTails
      streak == IF onlyInserts THEN p.streak + 1 ELSE 0
      noted == [p EXCEPT !.streak = streak, !.seen = TRUE, !.seenTable = table, !.seenSum = taken, !.seenTails = p.tails]
  IN  IF Fits(p, taken, FALSE) THEN p
      ELSE IF streak < StreakNeeded THEN noted
      ELSE [Built(noted, taken) EXCEPT !.streak = 0]
Lookup(v) ==
  /\ probe' = Looked(probe)
  /\ hidden' = (hidden \/ (Fits(probe', taken, FALSE) /\ probe'.counts[v] = 0 /\ live[v] > 0))
  /\ UNCHANGED <<live, table, taken, order>>

Section(n) == taken + n <= Sections /\ taken' = taken + n /\ UNCHANGED <<table, order>>

\* The tail of an INSERT; `whole` when the statement holds the structural lock exclusively as well.
InsertTail(v, whole) ==
  LET n == IF whole THEN 2 ELSE 1
  IN  /\ Section(n)
      /\ Room(v)
      /\ live' = Plus(live, v)
      /\ probe' = Apply([probe EXCEPT !.tails = @ + 1], taken + n, Plus(probe.counts, v))
      /\ UNCHANGED hidden

\* The section of an UPDATE: it asks the cache inside the section, is refused or rewrites a row, and the
\* section its cascades and its log have afterwards changes no live row.
UpdateSection(old, new) ==
  LET absent == Fits(probe, taken + 1, TRUE) /\ probe.counts[new] = 0
  IN  /\ Section(1)
      /\ live[old] > 0 /\ new # old /\ Room(new)
      /\ hidden' = (hidden \/ (absent /\ live[new] > 0))
      /\ \/ /\ live[new] > 0
            /\ probe' = Apply(probe, taken + 1, probe.counts)
            /\ UNCHANGED live
         \/ /\ live' = Plus(Minus(live, old), new)
            /\ probe' = Apply(probe, taken + 1, Plus(Minus(probe.counts, old), new))

\* A section in which a DELETE ends a row.
DeleteSection(v) ==
  /\ Section(1)
  /\ live[v] > 0
  /\ live' = Minus(live, v)
  /\ probe' = Apply(probe, taken + 1, Minus(probe.counts, v))
  /\ UNCHANGED hidden

\* A section in which a statement on a parent table asks after the rows that refer to a value (fk_children_absent,
\* which may make the cache), then rewrites or ends rows one by one (cascade_write), each told to the cache.
ParentSection(asked, old, new) ==
  LET sum == taken + 1
      fit == Fits(probe, sum, TRUE)
      made == IF fit THEN probe
              ELSE IF Rows(live) < MinRows THEN probe
              ELSE IF probe.child + 1 < 2 THEN [probe EXCEPT !.child = @ + 1]
              ELSE [Built(probe, sum) EXCEPT !.child = 0]
      first == Apply(made, sum, Minus(made.counts, old))
      second == Apply(first, sum, Plus(first.counts, new))
  IN  /\ Section(1)
      /\ live[old] > 0 /\ new # old /\ Room(new)
      /\ hidden' = (hidden \/ (Fits(made, sum, TRUE) /\ made.counts[asked] = 0 /\ live[asked] > 0))
      /\ live' = Plus(Minus(live, old), new)
      /\ probe' = Apply(second, sum, second.counts)

\* COMMIT holds the table's lock exclusively and changes no live row.
Commit ==
  /\ Section(1)
  /\ probe' = IF ~probe.built THEN probe
              ELSE IF probe.table = table /\ probe.sum + 1 = taken + 1 THEN [probe EXCEPT !.sum = taken + 1] ELSE Dropped(probe)
  /\ UNCHANGED <<live, hidden>>

\* A writer that does not tell the cache: ROLLBACK, VACUUM, TRUNCATE, LOAD, a change of the table.
Untold(v) ==
  /\ Section(1)
  /\ \/ Room(v) /\ live' = Plus(live, v)
     \/ live[v] > 0 /\ live' = Minus(live, v)
     \/ live' = None
  /\ UNCHANGED <<probe, hidden>>

\* DROP TABLE forgets the cache; the new table has locks of its own, whose counts start again.
Remade ==
  /\ table < Tables
  /\ table' = table + 1
  /\ \E n \in 0..taken : taken' = n
  /\ live' = None
  /\ probe' = NoProbe
  /\ UNCHANGED <<order, hidden>>

\* scan_key_order: the order of the rows is taken from the cache when the stamp and the number of rows are as they were.
ScanKeyOrder ==
  /\ ~(order.table = table /\ order.sum = taken)
  /\ order' = [table |-> table, sum |-> taken, rows |-> live]
  /\ UNCHANGED <<live, table, taken, probe, hidden>>

Next ==
  \/ \E v \in Values : Lookup(v) \/ DeleteSection(v) \/ Untold(v)
  \/ \E v \in Values, whole \in BOOLEAN : InsertTail(v, whole)
  \/ \E old, new \in Values : UpdateSection(old, new)
  \/ \E asked, old, new \in Values : ParentSection(asked, old, new)
  \/ Commit \/ Remade \/ ScanKeyOrder

Spec == Init /\ [][Next]_vars

\* No lookup has called a value absent that a live row held, whichever writers came between the lookup and the
\* last count of the rows and whether they told the cache; what a current cache counts is what the rows hold,
\* and a cached order is used only for the rows it was made from.
ProbeHidesNothing ==
  /\ ~hidden
  /\ Fits(probe, taken, FALSE) => probe.counts = live
  /\ order.table = table /\ order.sum = taken => order.rows = live
=============================================================================
