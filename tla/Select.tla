------------------------------ MODULE Select ------------------------------
(***************************************************************************)
(* What exec_select does with the rows that meet the WHERE condition:      *)
(* sort, group with totals, aggregate, HAVING, DISTINCT, OFFSET and LIMIT, *)
(* in the order the code does it; and the two paths that answer a query    *)
(* from an index without going through the rest.                           *)
(*                                                                         *)
(* A row is [id, g, v]; id is its primary key, v has a secondary index.  A *)
(* query is                                                                *)
(*   group    0: none, 1: GROUP BY g, 2: GROUP BY g, v                     *)
(*   rollup   WITH ROLLUP                                                  *)
(*   agg      the select list has aggregates                               *)
(*   having   keep what has COUNT of two or more (a plain row: v of 2 or   *)
(*            more)                                                        *)
(*   distinct, show   DISTINCT, and the columns it looks at                *)
(*   order    sequence of [col, asc]                                       *)
(*   limit    NoLimit or a number; offset a number                         *)
(*   path     the planner's access: "scan", "point" or "range" on v        *)
(***************************************************************************)
EXTENDS SqlValues, FiniteSets

NoLimit == -1

\* order_rows, row_order_less: the columns in turn; a column the row does not have ties.
Value(row, col) == IF col \in DOMAIN row THEN row[col] ELSE Null
RECURSIVE RowOrderLess(_, _, _)
RowOrderLess(a, b, order) ==
  /\ order # <<>>
  /\ LET c == Cmp(Value(a, order[1].col), Value(b, order[1].col))
         d == IF order[1].asc THEN c ELSE -c
     IN  d < 0 \/ (d = 0 /\ RowOrderLess(a, b, Tail(order)))
OrderRows(rows, order) == StableSort(rows, LAMBDA a, b : RowOrderLess(a, b, order))

\* lie_in_key_order, in_primary_key_order, key_order_of_rows: a scan gives the rows in the order of
\* the primary key, whatever order they lie in.
LieInKeyOrder(rows) == \A i \in 2..Len(rows) : rows[i - 1].id <= rows[i].id
KeyOrder(rows) == IF LieInKeyOrder(rows) THEN rows ELSE StableSort(rows, LAMBDA a, b : a.id < b.id)

----------------------------------------------------------------------------
\* The aggregates.  compute_aggregates first collects the values that are not Null.
Present(grp) == SelectSeq([i \in DOMAIN grp |-> grp[i].v], LAMBDA x : x # Null)

\* The same in chunks on the thread pool, for a result that is one group.
PresentParallel(grp, chunk) ==
  LET n == (Len(grp) + chunk - 1) \div chunk
      part(i) == Present(SubSeq(grp, (i - 1) * chunk + 1, IF i * chunk < Len(grp) THEN i * chunk ELSE Len(grp)))
  IN  FlattenSeq([i \in 1..n |-> part(i)])

DistinctTexts(values) == FirstOfEach(values, KeyOf)

\* extreme_text: the first of the smallest or of the largest.
ExtremeText(values, smallest) ==
  LET better(best, x) == IF (IF smallest THEN Cmp(x, best) < 0 ELSE Cmp(x, best) > 0) THEN x ELSE best
  IN  IF values = <<>> THEN Null ELSE FoldLeft(better, values[1], values)

SumOfTexts(values) == IF values = <<>> THEN Null ELSE <<FoldLeft(LAMBDA n, x : n + x[1], 0, values)>>

\* GROUP_CONCAT(DISTINCT v ORDER BY v DESC).
GroupConcat(grp) ==
  DistinctTexts(SelectSeq([i \in DOMAIN grp |-> OrderRows(grp, <<[col |-> "v", asc |-> FALSE]>>)[i].v], LAMBDA x : x # Null))

ComputeAggregates(grp, present) ==
  [count |-> <<Len(grp), 0>>, values |-> Len(present), distinct |-> Len(DistinctTexts(present)),
   sum |-> SumOfTexts(present), sumdistinct |-> SumOfTexts(DistinctTexts(present)),
   min |-> KeyOf(ExtremeText(present, TRUE)), max |-> KeyOf(ExtremeText(present, FALSE)),
   list |-> [i \in DOMAIN GroupConcat(grp) |-> KeyOf(GroupConcat(grp)[i])]]

----------------------------------------------------------------------------
KeyColumns(q) == IF q.group = 1 THEN <<"g">> ELSE <<"g", "v">>
KeyVector(q, row) == [i \in DOMAIN KeyColumns(q) |-> row[KeyColumns(q)[i]]]
SameKey(a, b) == \A i \in DOMAIN a : KeyOf(a[i]) = KeyOf(b[i])

\* Groups in the order in which their first row comes, with the key as that row spells it.
GroupRows(q, rows) ==
  LET keys == FirstOfEach([i \in DOMAIN rows |-> KeyVector(q, rows[i])], LAMBDA k : [i \in DOMAIN k |-> KeyOf(k[i])])
  IN  [i \in DOMAIN keys |-> [key |-> keys[i], rows |-> SelectSeq(rows, LAMBDA r : SameKey(KeyVector(q, r), keys[i])), kept |-> Len(keys[i])]]

\* How many leading keys two groups have in common.
SharedKeys(a, b) == CHOOSE m \in 0..Len(a) : /\ \A i \in 1..m : Cmp(a[i], b[i]) = 0
                                            /\ m < Len(a) => Cmp(a[m + 1], b[m + 1]) # 0

\* Mutant: a total waits until the next group also differs in the key after its own.
BugComplete(shared, k) == shared + 1 < k

\* The group of the first k keys is complete when the next group differs inside them.
Complete(shared, k) == shared < k

\* WITH ROLLUP: the groups in key order and after the last group of each prefix of the keys its
\* total, the innermost first; passing[k] gathers the rows of the prefix of length k.
Rollup(groups) ==
  LET n == Len(groups[1].key)
      less(a, b) == LET m == SharedKeys(a.key, b.key) IN m < n /\ Cmp(a.key[m + 1], b.key[m + 1]) < 0
      sorted == StableSort(groups, less)
      step(acc, gi) ==
        LET passing == [k \in 0..n - 1 |-> acc.passing[k] \o sorted[gi].rows]
            done(k) == gi = Len(sorted) \/ Complete(SharedKeys(sorted[gi].key, sorted[gi + 1].key), k)
            total(k) == [key |-> [i \in 1..n |-> IF i <= k THEN sorted[gi].key[i] ELSE Null], rows |-> passing[k], kept |-> k]
            totals == SelectSeq([i \in 1..n |-> n - i], done)
        IN  [out |-> Append(acc.out, sorted[gi]) \o [i \in DOMAIN totals |-> total(totals[i])],
             passing |-> [k \in 0..n - 1 |-> IF done(k) THEN <<>> ELSE passing[k]]]
  IN  IF groups = <<>> THEN groups
      ELSE FoldLeft(step, [out |-> <<>>, passing |-> [k \in 0..Len(groups[1].key) - 1 |-> <<>>]], [i \in DOMAIN groups |-> i]).out

\* make_group_row: the keys, the other column from the first row (a total: from the last), the aggregates.
MakeGroupRow(q, group) ==
  LET other == IF group.kept = Len(group.key) THEN group.rows[1].v ELSE Last(group.rows).v
      keys == [g |-> group.key[1], v |-> IF q.group = 2 THEN group.key[2] ELSE other, kept |-> group.kept]
  IN  keys @@ ComputeAggregates(group.rows, Present(group.rows))

Having(q, row) == ~q.having \/ (IF "count" \in DOMAIN row THEN row.count[1] >= 2 ELSE row.v # Null /\ row.v[1] >= 2)

\* dedupe: the first row of each set that shows the same values.
Dedupe(q, rows) == FirstOfEach(rows, LAMBDA r : [c \in q.show |-> KeyOf(Value(r, c))])

OffsetLimit(q, rows) ==
  LET from == IF q.offset < Len(rows) THEN q.offset ELSE Len(rows)
      rest == SubSeq(rows, from + 1, Len(rows))
  IN  IF q.limit # NoLimit /\ Len(rest) > q.limit THEN SubSeq(rest, 1, q.limit) ELSE rest

\* The rest of a grouped query: HAVING, DISTINCT, ORDER BY, OFFSET and LIMIT.
Totals(q, groups) == IF q.rollup THEN Rollup(groups) ELSE groups
GroupsHaving(q, groups) == SelectSeq([i \in DOMAIN groups |-> MakeGroupRow(q, groups[i])], LAMBDA r : Having(q, r))
Distinct(q, rows) == IF q.distinct THEN Dedupe(q, rows) ELSE rows
Grouped(q, rows) == OffsetLimit(q, OrderRows(Distinct(q, GroupsHaving(q, Totals(q, GroupRows(q, rows)))), q.order))

\* The rest of a query without GROUP BY: OFFSET and LIMIT cut the rows before DISTINCT looks at
\* them and before the aggregates are computed.
RowsHaving(q, rows) == IF q.agg THEN rows ELSE SelectSeq(rows, LAMBDA r : Having(q, r))
Aggregated(q, rows) ==
  IF q.agg THEN SelectSeq(<<ComputeAggregates(rows, PresentParallel(rows, 2))>>, LAMBDA r : Having(q, r)) ELSE rows
Ungrouped(q, rows) == Aggregated(q, Distinct(q, OffsetLimit(q, RowsHaving(q, rows))))

\* exec_select from the rows of a scan on.
AfterOrder(q, rows) == IF q.group > 0 THEN Grouped(q, rows) ELSE Ungrouped(q, rows)
Generic(q, rows) == AfterOrder(q, OrderRows(KeyOrder(rows), q.order))

----------------------------------------------------------------------------
\* The paths through an index.  They ask for no aggregate, and not whether there is a GROUP BY or HAVING.
FastPath(q) == q.path # "scan" /\ ~q.agg /\ ~q.distinct /\ q.limit = NoLimit /\ q.offset = 0 /\ q.order = <<>>
TopK(q) == q.path = "range" /\ ~q.agg /\ ~q.distinct /\ q.offset = 0 /\ q.limit # NoLimit /\ Len(q.order) = 1 /\ q.order[1].col = "v"

\* A range of the secondary index, bucket after bucket.
IndexOrder(rows) == StableSort(rows, LAMBDA a, b : Cmp(a.v, b.v) < 0)

\* exec_select: the rows are the ones that meet the condition, which is on v and excludes Null when
\* there is a path.
ExecSelect(q, rows) ==
  CASE FastPath(q) -> IndexOrder(rows)
    [] TopK(q) -> LET found == IF q.order[1].asc THEN IndexOrder(rows) ELSE Reverse(IndexOrder(rows))
                  IN  IF Len(found) > q.limit THEN SubSeq(found, 1, q.limit) ELSE found
    [] OTHER -> Generic(q, rows)

----------------------------------------------------------------------------
(***************************************************************************)
(* What the clauses mean, without an order of work.                        *)
(***************************************************************************)
KeyedBy(q, row, k) == [i \in 1..k |-> KeyOf(KeyVector(q, row)[i])]

\* The numbers a set of rows comes to.
Meaning(S) ==
  LET vals == {r \in S : r.v # Null}
      keys == {r.v[1] : r \in vals}
  IN  [count |-> <<Cardinality(S), 0>>, values |-> Cardinality(vals), distinct |-> Cardinality(keys),
       sum |-> IF vals = {} THEN Null ELSE <<FoldLeft(LAMBDA n, r : n + r.v[1], 0, SetToSeq(vals))>>,
       sumdistinct |-> IF keys = {} THEN Null ELSE <<FoldLeft(LAMBDA n, k : n + k, 0, SetToSeq(keys))>>,
       min |-> IF keys = {} THEN Null ELSE <<CHOOSE k \in keys : \A j \in keys : k <= j>>,
       max |-> IF keys = {} THEN Null ELSE <<CHOOSE k \in keys : \A j \in keys : k >= j>>]

Aggs == {"count", "values", "distinct", "sum", "sumdistinct", "min", "max"}
Numbers(row) == [c \in Aggs |-> row[c]]

\* One row for each key there is, and with totals for each prefix of a key.
GroupMeaning(q, rows) ==
  LET n == Len(KeyColumns(q))
      S == ToSet(rows)
  IN  UNION {{[key |-> KeyedBy(q, r, k), n |-> Meaning({x \in S : KeyedBy(q, x, k) = KeyedBy(q, r, k)})] : r \in S}
             : k \in IF q.rollup THEN 0..n ELSE {n}}
KeyShown(q, row) == [i \in 1..row.kept |-> KeyOf(row[KeyColumns(q)[i]])]

Bare(q) == [q EXCEPT !.having = FALSE, !.distinct = FALSE, !.limit = NoLimit, !.offset = 0, !.order = <<>>]

\* The groups are those of GroupMeaning, each once, and a total comes after every row of its prefix.
GroupsAre(q, out, meant) ==
  /\ {[key |-> KeyShown(q, out[i]), n |-> Numbers(out[i])] : i \in DOMAIN out} = meant
  /\ Len(out) = Cardinality(meant)
  /\ \A i, j \in DOMAIN out :
       out[i].kept < out[j].kept /\ SubSeq(KeyShown(q, out[j]), 1, out[i].kept) = KeyShown(q, out[i]) => j < i
GroupsAsMeant(q, rows) == GroupsAre(q, Grouped(Bare(q), rows), GroupMeaning(q, rows))

\* HAVING, DISTINCT, ORDER BY, OFFSET and LIMIT of the whole: the rows of one query are those of the
\* query without the clause that the clause allows.  plain has neither DISTINCT nor LIMIT, bare no LIMIT.
Shown(q, r) == [c \in q.show |-> KeyOf(Value(r, c))]
ClausesAllow(q, bare, plain, cut) ==
  /\ \A i, j \in DOMAIN bare : i < j => ~RowOrderLess(bare[j], bare[i], q.order)
  /\ q.distinct => /\ {Shown(q, bare[i]) : i \in DOMAIN bare} = {Shown(q, plain[i]) : i \in DOMAIN plain}
                   /\ \A i, j \in DOMAIN bare : i # j => Shown(q, bare[i]) # Shown(q, bare[j])
  /\ Len(cut) = Cardinality({i \in DOMAIN bare : q.offset < i /\ (q.limit = NoLimit \/ i <= q.offset + q.limit)})
  /\ \A i \in DOMAIN cut : cut[i] = bare[i + q.offset]

\* Aggregates without GROUP BY are one row about all the rows, which HAVING keeps or drops.
TotalAsMeant(q, out, rows) ==
  IF q.having /\ Len(rows) < 2 THEN out = <<>> ELSE Len(out) = 1 /\ Numbers(out[1]) = Meaning(ToSet(rows))

\* The order keys of an answer, or its rows when there is no order.
Outline(q, out) == IF q.order = <<>> THEN ToSet(out) ELSE [i \in DOMAIN out |-> KeyOf(Value(out[i], q.order[1].col))]
SameAnswer(q, fast, slow) == Outline(q, fast) = Outline(q, slow) /\ Len(fast) = Len(slow)

Unlimited(q) == [q EXCEPT !.limit = NoLimit, !.offset = 0]
Agree(q, rows, slow) ==
  /\ SameAnswer(q, ExecSelect(q, rows), slow)
  /\ ClausesAllow(q, Generic(Unlimited(q), rows), Generic([Unlimited(q) EXCEPT !.distinct = FALSE], rows), slow)

\* Where the code does something else.  Without GROUP BY, OFFSET and LIMIT cut the rows before DISTINCT and the aggregates see
\* them, and DISTINCT drops rows before the aggregates do; the index paths look at neither GROUP BY nor HAVING.
CutFirst(q) == q.group = 0 /\ (q.distinct \/ q.agg) /\ (q.limit # NoLimit \/ q.offset > 0)
DistinctFirst(q) == q.group = 0 /\ q.distinct /\ q.agg
IndexAlone(q) == (FastPath(q) \/ TopK(q)) /\ (q.group > 0 \/ q.having)

SelectAsMeant(q, rows) ==
  \/ CutFirst(q) \/ DistinctFirst(q) \/ IndexAlone(q)
  \/ /\ Agree(q, rows, Generic(q, rows))
     /\ q.group = 0 /\ q.agg => TotalAsMeant(q, ExecSelect(q, rows), rows)
=============================================================================
