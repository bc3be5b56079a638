------------------------------- MODULE SetOps -------------------------------
(***************************************************************************)
(* UNION, INTERSECT and EXCEPT (executor_setops.cpp) and the recursive     *)
(* common table expression (executor_cte.cpp).                             *)
(*                                                                         *)
(* A side is [names, rows]: the columns its select list names and its rows,*)
(* tuples of values.  Both sides run to text, which is read back: a side   *)
(* without rows comes back without a header.  Rows are compared by the     *)
(* collation key of the text of each cell.  An ORDER BY is a sequence of   *)
(* [col, nth, asc]: a name, or with nth > 0 the position (ORDER BY 2).     *)
(***************************************************************************)
EXTENDS SqlValues, FiniteSets

NoLimit == -1
Failed == [failed |-> TRUE, cols |-> <<>>, rows |-> <<>>]

\* parse_table_output of "0 rows returned." has no columns.
ParseTableOutput(side) == IF side.rows = <<>> THEN <<>> ELSE side.names

RowKey(row) == [i \in DOMAIN row |-> KeyOf(row[i])]

\* resolve_set_order: where each item of the ORDER BY is in the answer; 0 for a column it does not have.
ResolveSetOrder(order, cols) ==
  LET meant(o) == {i \in DOMAIN cols : IF o.nth > 0 THEN i = o.nth ELSE cols[i] = o.col}
      place(o) == IF meant(o) = {} THEN 0 ELSE CHOOSE i \in meant(o) : \A j \in meant(o) : i <= j
  IN  [i \in DOMAIN order |-> [at |-> place(order[i]), asc |-> order[i].asc]]

RECURSIVE SetOrderLess(_, _, _)
SetOrderLess(a, b, order) ==
  /\ order # <<>>
  /\ LET c == Cmp(a[order[1].at], b[order[1].at])
         d == IF order[1].asc THEN c ELSE -c
     IN  d < 0 \/ (d = 0 /\ SetOrderLess(a, b, Tail(order)))

\* apply_set_postprocess; exec_union does the same in its own words.
Piece(sorted, limit, offset) ==
  SubSeq(sorted, offset + 1, IF limit # NoLimit /\ offset + limit < Len(sorted) THEN offset + limit ELSE Len(sorted))
ApplySetPostprocess(rows, order, limit, offset) == Piece(StableSort(rows, LAMBDA a, b : SetOrderLess(a, b, order)), limit, offset)

Finished(q, cols, rows, order) ==
  IF \E i \in DOMAIN order : order[i].at = 0 THEN Failed
  ELSE [failed |-> FALSE, cols |-> cols, rows |-> ApplySetPostprocess(rows, order, q.limit, q.offset)]
Finish(q, cols, rows) == Finished(q, cols, rows, ResolveSetOrder(q.order, cols))

\* The rows of the right side go under the names of the left, by position; a left side that found
\* nothing is named by its select list.
UnionRows(q, both) == IF q.all THEN both ELSE FirstOfEach(both, RowKey)

\* INTERSECT and EXCEPT take the columns of the side that has rows.
Columns(left, right) == IF left.rows = <<>> THEN ParseTableOutput(right) ELSE left.names

KeysOf(rows) == [i \in DOMAIN rows |-> RowKey(rows[i])]
In(row, keys) == \E i \in DOMAIN keys : keys[i] = RowKey(row)

\* INTERSECT ALL: each left row uses up the first right row of its key that is left.
RECURSIVE MatchUp(_, _, _)
MatchUp(rows, keys, used) ==
  IF rows = <<>> THEN <<>>
  ELSE LET free == {i \in DOMAIN keys \ used : keys[i] = RowKey(rows[1])}
       IN  IF free = {} THEN MatchUp(Tail(rows), keys, used)
           ELSE <<rows[1]>> \o MatchUp(Tail(rows), keys, used \cup {CHOOSE i \in free : \A j \in free : i <= j})
IntersectRows(q, rows, keys) ==
  IF q.all THEN MatchUp(rows, keys, {}) ELSE FirstOfEach(SelectSeq(rows, LAMBDA r : In(r, keys)), RowKey)

\* Mutant: a right row takes away every left row of its key.
BugTakeAway(rows, count) == SelectSeq(rows, LAMBDA r : count[RowKey(r)] = 0)

\* EXCEPT ALL: each right row takes away one left row of its key.
RECURSIVE TakeAway(_, _)
TakeAway(rows, count) ==
  IF rows = <<>> THEN <<>>
  ELSE LET k == RowKey(rows[1])
       IN  IF count[k] > 0 THEN TakeAway(Tail(rows), [count EXCEPT ![k] = @ - 1])
           ELSE <<rows[1]>> \o TakeAway(Tail(rows), count)
Counted(rows, keys) == [k \in ToSet(keys) \cup ToSet(KeysOf(rows)) |-> Cardinality({i \in DOMAIN keys : keys[i] = k})]
ExceptRows(q, rows, keys) ==
  IF q.all THEN TakeAway(rows, Counted(rows, keys)) ELSE FirstOfEach(SelectSeq(rows, LAMBDA r : ~In(r, keys)), RowKey)

SetRows(q, left, right) ==
  CASE q.op = "union"     -> UnionRows(q, left.rows \o right.rows)
    [] q.op = "intersect" -> IntersectRows(q, left.rows, KeysOf(right.rows))
    [] q.op = "except"    -> ExceptRows(q, left.rows, KeysOf(right.rows))
ExecSetOp(q, left, right) ==
  IF q.op = "union" /\ left.rows \o right.rows = <<>> THEN [failed |-> FALSE, cols |-> <<>>, rows |-> <<>>]
  ELSE Finish(q, IF q.op = "union" THEN left.names ELSE Columns(left, right), SetRows(q, left, right))

----------------------------------------------------------------------------
(***************************************************************************)
(* WITH RECURSIVE.  The recursive term is a function from the rows of the  *)
(* CTE's table, here a graph: it joins them with the edges, or (wide) it   *)
(* also reads the table a second time and looks for two rows.              *)
(***************************************************************************)
Successors(edges, table) ==
  FlattenSeq([i \in DOMAIN table |-> [j \in DOMAIN SelectSeq(edges, LAMBDA e : e[1] = table[i]) |->
                                        SelectSeq(edges, LAMBDA e : e[1] = table[i])[j][2]]])
RecursiveTerm(term, edges, table) ==
  IF term = "once" THEN Successors(edges, table)
  ELSE IF Cardinality(ToSet(table)) >= 2 THEN Successors(edges, table) ELSE <<>>

\* A term that names the CTE once and cannot see how much of it there is reads only what the last
\* turn has added; fresh rows are compared with the turns before, not with each other.
SemiNaiveOk(term) == term = "once"

RECURSIVE Accumulate(_, _, _, _, _)
Accumulate(term, edges, accumulated, delta, turns) ==
  LET table == IF SemiNaiveOk(term) THEN delta ELSE accumulated
      fresh == SelectSeq(RecursiveTerm(term, edges, table), LAMBDA x : x \notin ToSet(accumulated))
  IN  CASE turns = 0   -> [failed |-> TRUE, rows |-> <<>>]
        [] turns > 0 /\ fresh = <<>> -> [failed |-> FALSE, rows |-> accumulated]
        [] OTHER -> Accumulate(term, edges, accumulated \o fresh, fresh, turns - 1)
RecursiveCte(term, edges, base, cap) == Accumulate(term, edges, base, base, cap)

----------------------------------------------------------------------------
(***************************************************************************)
(* What the operations mean.                                               *)
(***************************************************************************)
Copies(rows, k) == Cardinality({i \in DOMAIN rows : RowKey(rows[i]) = k})
Less(a, b) == IF a < b THEN a ELSE b

SetMeaning(q, left, right, k) ==
  LET l == Copies(left.rows, k)
      r == Copies(right.rows, k)
      n == CASE q.op = "union"     -> l + r
             [] q.op = "intersect" -> Less(l, r)
             [] q.op = "except"    -> IF q.all THEN l - Less(l, r) ELSE IF r > 0 THEN 0 ELSE l
  IN  IF q.all THEN n ELSE Less(n, 1)

\* Each key comes out as often as the operation says; with an order the rows lie in it; OFFSET and
\* LIMIT cut one piece out of that; and the answer is named after the left side whenever it has rows.
AnswerAsMeant(q, left, right, out, whole, order) ==
  ~out.failed =>
    /\ \A k \in ToSet(KeysOf(left.rows)) \cup ToSet(KeysOf(right.rows)) : Copies(whole.rows, k) = SetMeaning(q, left, right, k)
    /\ \A i, j \in DOMAIN whole.rows : i < j => ~SetOrderLess(whole.rows[j], whole.rows[i], order)
    /\ \A i \in DOMAIN out.rows : out.rows[i] = whole.rows[i + q.offset]
    /\ out.rows # <<>> => out.cols = left.names
SetOpAsMeant(q, left, right) ==
  AnswerAsMeant(q, left, right, ExecSetOp(q, left, right), ExecSetOp([q EXCEPT !.limit = NoLimit, !.offset = 0], left, right),
                ResolveSetOrder(q.order, left.names))

\* An ORDER BY that names a column of the left side fails only when the rows of an INTERSECT or EXCEPT
\* cannot come from there: that side found nothing.
FailsOnlyUnnamed(q, left, right) == ExecSetOp(q, left, right).failed => q.op # "union" /\ left.rows = <<>>

\* The rows of a recursive CTE are those its term leads to, each turn's anew or not; only a CTE with
\* more turns than the cap fails.
Reach(edges, S) ==
  LET n == Cardinality({e[2] : e \in ToSet(edges)})
      step[m \in 0..n] == IF m = 0 THEN S ELSE step[m - 1] \cup {e[2] : e \in {e \in ToSet(edges) : e[1] \in step[m - 1]}}
  IN  step[n]
CteAsMeant(edges, base, cap) ==
  LET once == RecursiveCte("once", edges, base, cap)
      wide == RecursiveCte("wide", edges, base, cap)
      started == Cardinality(ToSet(base)) >= 2
  IN  /\ ~once.failed => ToSet(once.rows) = Reach(edges, ToSet(base))
      /\ ~wide.failed => ToSet(wide.rows) = IF started THEN Reach(edges, ToSet(base)) ELSE ToSet(base)
      /\ started => once.failed = wide.failed
=============================================================================
