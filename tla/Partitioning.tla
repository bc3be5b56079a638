---------------------------- MODULE Partitioning ----------------------------
(***************************************************************************)
(* Partitioned tables (executor_partition.cpp): which partition a row goes *)
(* to, which partitions a WHERE can be narrowed to, and how a statement on *)
(* the table becomes one statement per partition.                          *)
(*                                                                         *)
(* info is [kind, parts]; a part is an upper bound (or Top, MAXVALUE) for  *)
(* RANGE, a set of values for LIST, its number for HASH.  Values are       *)
(* those of SqlValues.  A WHERE is a sequence of comparisons joined by AND *)
(* of the partition column, [op, val]; val is a value, a set of values     *)
(* for IN, or Column, the name of another column.  The partition column is *)
(* not NULL.                                                               *)
(***************************************************************************)
EXTENDS SqlValues, FiniteSets

Top == <<98, 0>>
Column == <<99, 0>>  \* compared as a text, a name comes after every number
None == <<>>

\* cmp_val: two numbers by value, else as texts.
CmpVal(a, b) == IF a[1] < b[1] THEN -1 ELSE IF a[1] > b[1] THEN 1 ELSE 0

\* std::stoll, 0 for what is no number.
Stoll(v) == IF v[1] >= Top[1] THEN 0 ELSE v[1]

First(S) == IF S = {} THEN 0 ELSE CHOOSE i \in S : \A j \in S : i <= j

\* partition_child_for_value; 0 when there is none.
ChildFor(info, v) ==
  CASE info.kind = "range" -> First({i \in DOMAIN info.parts : info.parts[i] = Top \/ CmpVal(v, info.parts[i]) < 0})
    [] info.kind = "list"  -> First({i \in DOMAIN info.parts : v \in info.parts[i]})
    [] info.kind = "hash"  -> 1 + (Stoll(v) % Len(info.parts))

----------------------------------------------------------------------------
\* extract_pk_gap_range with narrow_lo and narrow_hi: the interval that the comparisons leave, <<value, inclusive>> or None.
NarrowLo(r, v, incl) ==
  LET c == CmpVal(v, r.lo[1])
  IN  IF r.lo = None THEN [r EXCEPT !.lo = <<v, incl>>]
      ELSE IF c > 0 THEN [r EXCEPT !.lo = <<v, incl>>]
      ELSE IF c = 0 /\ ~incl THEN [r EXCEPT !.lo = <<v, FALSE>>] ELSE r
NarrowHi(r, v, incl) ==
  LET c == CmpVal(v, r.hi[1])
  IN  IF r.hi = None THEN [r EXCEPT !.hi = <<v, incl>>]
      ELSE IF c < 0 THEN [r EXCEPT !.hi = <<v, incl>>]
      ELSE IF c = 0 /\ ~incl THEN [r EXCEPT !.hi = <<v, FALSE>>] ELSE r
GapRange(where) ==
  LET leaf(r, x) == CASE x.op = "eq" -> NarrowHi(NarrowLo(r, x.val, TRUE), x.val, TRUE)
                      [] x.op = "gt" -> NarrowLo(r, x.val, FALSE)
                      [] x.op = "ge" -> NarrowLo(r, x.val, TRUE)
                      [] x.op = "lt" -> NarrowHi(r, x.val, FALSE)
                      [] x.op = "le" -> NarrowHi(r, x.val, TRUE)
                      [] OTHER -> r
  IN  FoldLeft(leaf, [lo |-> None, hi |-> None], where)

\* gap_range_contains: the gap locks and the ranges SERIALIZABLE remembers ask it of an inserted key.
GapContains(r, v) ==
  /\ r.lo # None => CmpVal(v, r.lo[1]) > 0 \/ (CmpVal(v, r.lo[1]) = 0 /\ r.lo[2])
  /\ r.hi # None => CmpVal(v, r.hi[1]) < 0 \/ (CmpVal(v, r.hi[1]) = 0 /\ r.hi[2])

\* find_eq_or_in_values: the values of the first comparison that names some, {} when none does.
EqOrIn(where) ==
  LET named == First({i \in DOMAIN where : where[i].op \in {"eq", "in"}})
  IN  IF named = 0 THEN {} ELSE IF where[named].op = "eq" THEN {where[named].val} ELSE where[named].val

BugOverlaps(info, r, i) ==
  LET lo == IF i = 1 THEN None ELSE info.parts[i - 1]
  IN  /\ ~(info.parts[i] # Top /\ r.lo # None /\ CmpVal(info.parts[i], r.lo[1]) <= 0)
      /\ ~(lo # None /\ r.hi # None /\ CmpVal(lo, r.hi[1]) >= 0)
\* A partition of a RANGE holds [bound before, its own bound).
Overlaps(info, r, i) ==
  LET lo == IF i = 1 THEN None ELSE info.parts[i - 1]
  IN  /\ ~(info.parts[i] # Top /\ r.lo # None /\ CmpVal(info.parts[i], r.lo[1]) <= 0)
      /\ ~(lo # None /\ r.hi # None /\ (CmpVal(lo, r.hi[1]) > 0 \/ (CmpVal(lo, r.hi[1]) = 0 /\ ~r.hi[2])))

\* prune_partition_children: never an empty set; a WHERE that fits no partition is left to the rows.
Prune(info, where) ==
  LET all == DOMAIN info.parts
      orAll(S) == IF S = {} THEN all ELSE S
      values == EqOrIn(where)
      r == GapRange(where)
  IN  CASE info.kind = "range" -> IF r.lo = None /\ r.hi = None THEN all ELSE orAll({i \in all : Overlaps(info, r, i)})
        [] info.kind = "list" -> IF values = {} THEN all ELSE orAll({i \in all : info.parts[i] \cap values # {}})
        [] info.kind = "hash" -> IF Cardinality(values) # 1 THEN all ELSE {ChildFor(info, CHOOSE v \in values : TRUE)}

\* What the WHERE says of a value of the column; `other` is the value of the column it may name.
Holds(leaf, v, other) ==
  LET c(x) == IF x = Column THEN Cmp(v, other) ELSE Cmp(v, x)
  IN  IF leaf.op = "in" THEN v # Null /\ \E x \in leaf.val : c(x) = 0
      ELSE /\ v # Null /\ (leaf.val = Column => other # Null)
           /\ CASE leaf.op = "eq" -> c(leaf.val) = 0
                [] leaf.op = "gt" -> c(leaf.val) > 0
                [] leaf.op = "ge" -> c(leaf.val) >= 0
                [] leaf.op = "lt" -> c(leaf.val) < 0
                [] leaf.op = "le" -> c(leaf.val) <= 0
HoldAll(where, v, other) == \A i \in DOMAIN where : Holds(where[i], v, other)

----------------------------------------------------------------------------
(***************************************************************************)
(* run_routed_statements over the partitions `tabs` (sequences of rows     *)
(* [p, k], p the partition column, k the primary key with it): one         *)
(* statement after the other, in a transaction of its own when none is     *)
(* open.  results[i] is the rows the statement leaves in partition i, or a *)
(* failure.                                                                *)
(***************************************************************************)
RunRouted(tabs, children, inTxn, results) ==
  LET one(st, i) == IF ~st.ok THEN st
                    ELSE IF results[i].ok THEN [st EXCEPT !.tabs[i] = results[i].rows] ELSE [st EXCEPT !.ok = FALSE]
      end == FoldLeft(one, [ok |-> TRUE, tabs |-> tabs], children)
  IN  IF end.ok \/ inTxn THEN end ELSE [ok |-> FALSE, tabs |-> tabs]

Done(rows) == [ok |-> TRUE, rows |-> rows]
HasKey(rows, r) == \E i \in DOMAIN rows : rows[i].k = r.k /\ KeyOf(rows[i].p) = KeyOf(r.p)

\* route_partitioned_insert: a row without a partition refuses the statement before anything runs; each partition takes its rows or refuses.
RouteInsert(info, tabs, rows, inTxn) ==
  LET child(r) == ChildFor(info, r.p)
      order == FirstOfEach([i \in DOMAIN rows |-> child(rows[i])], LAMBDA c : c)
      mine(i) == SelectSeq(rows, LAMBDA r : child(r) = i)
      twice(s) == \E a, b \in DOMAIN s : a # b /\ s[a].k = s[b].k /\ KeyOf(s[a].p) = KeyOf(s[b].p)
      run(i, old) == IF (\E n \in DOMAIN mine(i) : HasKey(old, mine(i)[n])) \/ twice(mine(i)) THEN [ok |-> FALSE, rows |-> old] ELSE Done(old \o mine(i))
  IN  IF \E i \in DOMAIN rows : child(rows[i]) = 0 THEN [ok |-> FALSE, tabs |-> tabs]
      ELSE RunRouted(tabs, order, inTxn, [i \in DOMAIN tabs |-> run(i, tabs[i])])

\* ORDER BY the partition column ("asc", "desc", or "" without one), then LIMIT.
Cut(rows, order, limit) ==
  LET sorted == StableSort(rows, LAMBDA a, b : (order = "asc" /\ Cmp(a.p, b.p) < 0) \/ (order = "desc" /\ Cmp(a.p, b.p) > 0))
  IN  SubSeq(sorted, 1, IF limit < Len(sorted) THEN limit ELSE Len(sorted))

\* rows_of_limit: the rows of one table that a DELETE or an UPDATE with ORDER BY or LIMIT takes.
RowsOfLimit(rows, where, order, limit) == Cut(SelectSeq(rows, LAMBDA r : HoldAll(where, r.p, r.k)), order, limit)

\* route_partitioned_delete: every partition gets the whole statement, ORDER BY and LIMIT with it.  An UPDATE is routed in
\* the same way and may not change the partition column.
RouteDelete(info, tabs, where, order, limit, inTxn) ==
  LET taken(i) == ToSet(RowsOfLimit(tabs[i], where, order, limit))
  IN  RunRouted(tabs, SelectSeq([i \in DOMAIN info.parts |-> i], LAMBDA i : i \in Prune(info, where)), inTxn,
                [i \in DOMAIN tabs |-> Done(SelectSeq(tabs[i], LAMBDA r : r \notin taken(i)))])

\* route_partitioned_select: the rows of the partitions one after the other, ORDER BY and LIMIT applied to them all.
RouteSelect(info, tabs, where, order, limit) ==
  Cut(FlattenSeq([i \in DOMAIN info.parts |->
        IF i \in Prune(info, where) THEN SelectSeq(tabs[i], LAMBDA r : HoldAll(where, r.p, r.k)) ELSE <<>>]), order, limit)

----------------------------------------------------------------------------
AllRows(tabs) == UNION {{tabs[i][n] : n \in DOMAIN tabs[i]} : i \in DOMAIN tabs}
Filled(info, rows) == [i \in DOMAIN info.parts |-> SelectSeq(rows, LAMBDA r : ChildFor(info, r.p) = i)]

\* The comparisons that are read as they are meant: with values, and for LIST values spelt as the partition lists them.
AsRead(info, where) ==
  \A i \in DOMAIN where :
    LET vals == IF where[i].op = "in" THEN where[i].val ELSE {where[i].val}
    IN  Column \notin vals /\ (info.kind = "list" => \A v \in vals : v[2] = 0)

\* A DELETE with a LIMIT that rows of several partitions meet: the LIMIT is taken in each of them.
LimitEach(p, found) == p.limit < Len(found) /\ \E a, b \in ToSet(found) : ChildFor(p.info, a.p) # ChildFor(p.info, b.p)

\* A partitioned table answers a SELECT and a DELETE as a plain table with the same rows does, ORDER BY and LIMIT included,
\* whatever partitions the WHERE was narrowed to; except a DELETE with a LIMIT over several partitions, which takes that many
\* rows of each.  Outside a transaction an INSERT of several rows puts all of them in or none.
RoutedAsMeant(p) ==
  LET tabs == Filled(p.info, p.rows)
      found == SelectSeq(p.rows, LAMBDA r : HoldAll(p.where, r.p, r.k))
      select == RouteSelect(p.info, tabs, p.where, p.order, p.limit)
      deleted == AllRows(tabs) \ AllRows(RouteDelete(p.info, tabs, p.where, p.order, p.limit, p.inTxn).tabs)
      plain == Cut(found, p.order, p.limit)
      insert == RouteInsert(p.info, tabs, p.more, p.inTxn)
  IN  /\ AsRead(p.info, p.where) =>
           /\ ToSet(select) \subseteq ToSet(found) /\ Len(select) = Len(plain)
           /\ p.order # "" => select = plain
           /\ deleted \subseteq ToSet(found)
           /\ LimitEach(p, found) \/ deleted = ToSet(plain)
      /\ IF insert.ok THEN AllRows(insert.tabs) = AllRows(tabs) \cup {p.more[i] : i \in DOMAIN p.more}
         ELSE p.inTxn \/ insert.tabs = tabs
      \* the gap a locking read takes covers every key its WHERE takes
      /\ AsRead(p.info, p.where) => \A i \in DOMAIN found : GapContains(GapRange(p.where), found[i].p)
      \* a key is looked for where it would be: no two partitions take one
      /\ \A a, b \in AllRows(insert.tabs) : KeyOf(a.p) = KeyOf(b.p) /\ a.k = b.k => a = b

=============================================================================
