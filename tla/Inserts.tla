------------------------------ MODULE Inserts ------------------------------
(***************************************************************************)
(* One INSERT of several rows (exec_insert, exec_insert_inner and the      *)
(* helpers of REPLACE): the numbers an AUTO_INCREMENT column gives out,    *)
(* what a row does that repeats a key of the table or of an earlier row of *)
(* the statement, and what a statement that fails leaves behind.           *)
(*                                                                         *)
(* A row is [k, u]: the primary key, which is AUTO_INCREMENT, and a UNIQUE *)
(* value (with q.multi a UNIQUE key of several columns).  In a statement   *)
(* k = Auto asks for a number, and fault says which check the row fails.   *)
(* q.assign is what ON DUPLICATE KEY UPDATE sets: "u", u = VALUES(u), or   *)
(* "other", a column that is in no key.                                    *)
(***************************************************************************)
EXTENDS Integers, Sequences, SequencesExt

Null == 0
Auto == 0

HasKey(rows, k) == \E i \in DOMAIN rows : rows[i].k = k
HasUnique(rows, u) == u # Null /\ \E i \in DOMAIN rows : rows[i].u = u
FirstOf(S) == CHOOSE i \in S : \A j \in S : i <= j

\* counter_guard: what a statement that fails gives back, the last number it took first.
GivenBack(takes, counter, burn) ==
  FoldLeft(LAMBDA c, t : IF (t.reserved /\ burn) \/ c # t.after THEN c ELSE t.before, counter, Reverse(takes))

\* A left-out number: the next of the reservation, which is made as large as an INSERT ... VALUES, or 1, 2, 4 ... rows of a SELECT.
Reserved(st, q) ==
  IF st.window.active /\ st.window.next <= st.window.end THEN st
  ELSE LET whole == ~st.reserved /\ ~q.fromSelect
           size == IF whole THEN Len(q.rows) ELSE st.batch
       IN  [st EXCEPT !.batch = IF whole THEN @ ELSE 2 * @, !.reserved = TRUE, !.counter = @ + size,
                      !.window = [active |-> TRUE, next |-> st.counter + 1, end |-> st.counter + size],
                      !.takes = Append(@, [before |-> st.counter, after |-> st.counter + size, reserved |-> TRUE])]
Numbered(st, q) ==
  LET r == Reserved(st, q)
      first == IF r.lastId = 0 THEN r.window.next ELSE r.lastId
  IN  [r EXCEPT !.taken = r.window.next, !.window.next = @ + 1, !.idBefore = r.lastId, !.lastId = first]

\* A number given by hand ends the reservation and moves the counter up to it.
Explicit(st, k) ==
  LET moved == [st EXCEPT !.window.active = FALSE, !.taken = 0, !.idBefore = st.lastId]
  IN  IF k <= st.counter THEN moved
      ELSE [moved EXCEPT !.counter = k, !.takes = Append(@, [before |-> st.counter, after |-> k, reserved |-> FALSE])]

\* give_back_row_id: the row is not inserted, its number goes back to the reservation.
GiveBack(st) ==
  [st EXCEPT !.window.next = IF st.taken # 0 /\ st.window.active /\ @ = st.taken + 1 THEN st.taken ELSE @,
             !.lastId = st.idBefore]
Fail(st) == [st EXCEPT !.ok = FALSE]

\* The first row of the table that holds the key or the unique value of a row; 0 when none does.
Clash(rows, r) ==
  LET byKey == {i \in DOMAIN rows : rows[i].k = r.k}
      byUnique == {i \in DOMAIN rows : r.u # Null /\ rows[i].u = r.u}
  IN  IF byKey # {} THEN FirstOf(byKey) ELSE IF byUnique # {} THEN FirstOf(byUnique) ELSE 0

\* The earliest row of the statement that had the key, or the unique value of a column of its own.
Repeats(st, q, r) ==
  LET hits == {i \in DOMAIN st.seen : st.seen[i].k = r.k \/ (~q.multi /\ r.u # Null /\ st.seen[i].u = r.u)}
  IN  IF hits = {} THEN 0 ELSE FirstOf(hits)

BugSkip(st) == st
\* IGNORE and ON DUPLICATE KEY UPDATE leave a row out.
Skip(st) == GiveBack(st)

\* The CHECKs of a row, the last thing that may fail.
Checked(st, r) ==
  IF r.fault = "check" THEN Fail([st EXCEPT !.burn = @ /\ st.row # 1])
  ELSE [st EXCEPT !.prepared = Append(@, [k |-> r.k, u |-> r.u]), !.seen = Append(@, [k |-> r.k, u |-> r.u])]

\* A row that meets no row of the table: against the rows of the statement.
Kept(st, q, r, checking) ==
  LET recorded == IF q.multi /\ r.u # Null THEN [st EXCEPT !.tuples = @ \cup {r.u}] ELSE st
      at == Repeats(recorded, q, r)
  IN  CASE q.multi /\ r.u \in st.tuples /\ ~checking -> IF q.mode = "ignore" THEN Skip(st) ELSE Fail(st)
        [] at # 0 /\ ~checking /\ q.mode = "ignore" -> Skip(recorded)
        [] at # 0 /\ ~checking /\ q.mode = "update" ->
             Skip([recorded EXCEPT !.prepared[at].u = IF q.assign = "u" THEN r.u ELSE @,
                                   !.rewrote = @ \/ q.assign = "u"])
        [] at # 0 /\ ~checking /\ q.mode \notin {"ignore", "update"} -> Fail(recorded)
        [] OTHER -> Checked(recorded, r)

\* One row of the statement; `checking` is validate_only, the pass a REPLACE makes before it deletes anything.  First its
\* number, then the columns, then the rows of the table.
Given(st, q, r, checking) ==
  CASE checking -> st
    [] ~checking /\ r.k = Auto -> Numbered(st, q)
    [] OTHER -> IF r.fault = "column" THEN st ELSE Explicit(st, r.k)
Against(st, q, table, r, at, checking) ==
  CASE at = 0 \/ checking -> Kept(st, q, r, checking)
    [] at # 0 /\ ~checking /\ q.mode = "ignore" -> Skip(st)
    [] at # 0 /\ ~checking /\ q.mode = "update" -> Skip([st EXCEPT !.pending = Append(@, [k |-> table[at].k, u |-> r.u])])
    [] OTHER -> Fail(st)
Placed(st, q, table, r, checking) ==
  IF r.fault = "column" THEN Fail(st) ELSE Against([st EXCEPT !.burn = TRUE], q, table, r, Clash(table, r), checking)
WithKey(r, st, checking) == [r EXCEPT !.k = IF @ # Auto THEN @ ELSE IF checking THEN -st.row ELSE st.taken]
Keyed(st, q, table, r, checking) == Placed(st, q, table, WithKey(r, st, checking), checking)
Row(st, q, table, r, checking) ==
  IF ~st.ok THEN st ELSE Keyed(Given([st EXCEPT !.row = @ + 1], q, r, checking), q, table, r, checking)

Begin(counter) ==
  [ok |-> TRUE, counter |-> counter, takes |-> <<>>, window |-> [active |-> FALSE, next |-> 0, end |-> 0], batch |-> 1,
   reserved |-> FALSE, burn |-> FALSE, row |-> 0, taken |-> 0, lastId |-> 0, idBefore |-> 0, prepared |-> <<>>,
   seen |-> <<>>, tuples |-> {}, pending |-> <<>>, rewrote |-> FALSE]

\* The updates of ON DUPLICATE KEY UPDATE, each a statement of its own, after the rows have been inserted.
Updated(st, q, table) ==
  LET one(x, p) ==
        LET others == SelectSeq(x.rows, LAMBDA r : r.k # p.k)
        IN  IF ~x.ok THEN x
            ELSE IF q.assign = "u" /\ HasUnique(others, p.u) THEN [x EXCEPT !.ok = FALSE]
            ELSE [x EXCEPT !.rows = [i \in DOMAIN @ |-> IF @[i].k = p.k /\ q.assign = "u" THEN [@[i] EXCEPT !.u = p.u] ELSE @[i]]]
  IN  FoldLeft(one, [ok |-> TRUE, rows |-> table \o st.prepared], st.pending)

\* exec_insert_inner: what the table, the counter and LAST_INSERT_ID() are when it ends.
Result(ok, st, table, rows, counter) ==
  [ok |-> ok, rows |-> rows, counter |-> counter, lastId |-> st.lastId, rewrote |-> st.rewrote, partly |-> ~ok /\ rows # table]
Written(st, table, up) ==
  IF up.ok THEN Result(TRUE, st, table, up.rows, st.counter) ELSE Result(FALSE, st, table, up.rows, GivenBack(st.takes, st.counter, st.burn))
Ended(q, table, counter, checking, st) ==
  IF ~st.ok THEN Result(FALSE, st, table, table, GivenBack(st.takes, st.counter, st.burn))
  ELSE IF checking THEN Result(TRUE, st, table, table, counter)
  ELSE Written(st, table, Updated(st, q, table))
Inner(q, table, counter, rows, checking) ==
  Ended(q, table, counter, checking, FoldLeft(LAMBDA x, r : Row(x, [q EXCEPT !.rows = rows], table, r, checking), Begin(counter), rows))

\* replace_supersede: the rows that no later row of the statement replaces, as far as they state their keys.
Superseded(rows) ==
  LET back(x, r) == IF (r.k # Auto /\ r.k \in x.keys) \/ (r.u # Null /\ r.u \in x.uniques) THEN x
                    ELSE [kept |-> <<r>> \o x.kept, keys |-> (x.keys \cup {r.k}) \ {Auto}, uniques |-> (x.uniques \cup {r.u}) \ {Null}]
  IN  FoldLeft(back, [kept |-> <<>>, keys |-> {}, uniques |-> {}], Reverse(rows)).kept

\* replace_delete_conflicts: every row of the statement deletes what holds a key it states.
Cleared(table, rows) ==
  SelectSeq(table, LAMBDA x : ~\E i \in DOMAIN rows : (rows[i].k # Auto /\ rows[i].k = x.k) \/ (rows[i].u # Null /\ rows[i].u = x.u))

\* exec_insert.  q.kept are the keys of the rows that other tables refer to.
Replaced(q, checked, cleared) ==
  IF ~checked.ok \/ \E i \in DOMAIN q.table : q.table[i].k \in q.kept /\ ~HasKey(cleared, q.table[i].k)
  THEN [checked EXCEPT !.ok = FALSE, !.counter = q.counter]
  ELSE Inner([q EXCEPT !.mode = "abort"], cleared, q.counter, Superseded(q.rows), FALSE)
ExecInsert(q) ==
  IF q.mode # "replace" THEN Inner(q, q.table, q.counter, q.rows, FALSE)
  ELSE Replaced(q, Inner(q, q.table, q.counter, q.rows, TRUE), Cleared(q.table, q.rows))

----------------------------------------------------------------------------
\* What the statement means: its rows one after the other.  A number is compared by whether it was asked for.
RECURSIVE Means(_, _, _)
Means(q, table, n) ==
  LET r == q.rows[n]
      number == 100 + n
      row == [k |-> IF r.k = Auto THEN number ELSE r.k, u |-> r.u]
      at == Clash(table, row)
      cleared == SelectSeq(table, LAMBDA x : x.k # row.k /\ (row.u = Null \/ x.u # row.u))
      failed == [ok |-> FALSE, rows |-> q.table]
  IN  IF n > Len(q.rows) THEN [ok |-> TRUE, rows |-> table]
      ELSE IF r.fault = "column" \/ (r.fault = "check" /\ (at = 0 \/ q.mode = "replace")) THEN failed
      ELSE CASE at # 0 /\ q.mode = "abort" -> failed
             [] at # 0 /\ q.mode \in {"ignore", "update"} -> Means(q, table, n + 1)
             [] OTHER -> Means(q, Append(IF q.mode = "replace" THEN cleared ELSE table, row), n + 1)

\* The rows with the generated numbers taken out.
Shown(rows, q) == {[k |-> IF HasKey(q.table, rows[i].k) \/ \E j \in DOMAIN q.rows : q.rows[j].k = rows[i].k THEN rows[i].k ELSE Auto, u |-> rows[i].u] : i \in DOMAIN rows}
OneRowPerKey(rows) ==
  \A i, j \in DOMAIN rows : i # j => rows[i].k # rows[j].k /\ (rows[i].u = Null \/ rows[i].u # rows[j].u)

\* A REPLACE that drops a row which would itself have replaced an earlier one of the statement.
Chained(q) ==
  \E i, j \in DOMAIN q.rows : i < j /\ q.rows[i] # q.rows[j] /\ q.rows[j] \notin {Superseded(q.rows)[n] : n \in DOMAIN Superseded(q.rows)}
     /\ ((q.rows[i].u # Null /\ q.rows[i].u = q.rows[j].u) \/ (q.rows[i].k # Auto /\ q.rows[i].k = q.rows[j].k))
\* A key of several columns is remembered, or refused, of a row that is left out for its primary key.
Remembered(q) == q.multi /\ q.mode \in {"ignore", "update"} /\ \E i, j \in DOMAIN q.rows : i # j /\ q.rows[i].u # Null /\ q.rows[i].u = q.rows[j].u

\* A number given by hand that a row before it may have been given.
Foreseen(q) == \E i \in DOMAIN q.rows : q.rows[i].k \in (q.counter + 1)..(q.counter + Len(q.rows))

\* An INSERT leaves one row per key (but where it rewrites a row that is still to be inserted), leaves the table alone when it
\* fails (but for the updates that come after the inserts), ends with the rows its rows make one by one, and with a counter
\* that no number of the table is above; LAST_INSERT_ID() is the first number it gave to a row.
EndsAsMeant(q, r, m) ==
  LET given == {r.rows[i].k : i \in DOMAIN r.rows} \ ({q.table[i].k : i \in DOMAIN q.table} \cup {q.rows[i].k : i \in DOMAIN q.rows})
  IN  /\ r.rewrote \/ OneRowPerKey(r.rows)
      /\ ~r.ok => r.rows = q.table \/ (q.mode = "update" /\ q.assign = "u")
      /\ r.partly \/ \A i \in DOMAIN r.rows : r.rows[i].k <= r.counter
      /\ r.counter >= q.counter
      /\ r.ok /\ ~Foreseen(q) => given = {} \/ (r.lastId \in given /\ \A k \in given : r.lastId <= k)
      /\ (q.mode = "update" => q.assign = "other") /\ ~Chained(q) /\ ~Remembered(q) /\ ~Foreseen(q) /\ q.kept = {} =>
           r.ok = m.ok /\ (r.ok => Shown(r.rows, q) = Shown(m.rows, q))
InsertAsMeant(q) == EndsAsMeant(q, ExecInsert(q), Means(q, q.table, 1))

=============================================================================
