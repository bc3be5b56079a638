------------------------------- MODULE Writes -------------------------------
(***************************************************************************)
(* Statements that write many rows at once: the check of unique keys of an *)
(* UPDATE (executor_update_unique.cpp), MERGE (executor_merge.cpp), UPDATE *)
(* and DELETE over a join (executor_multi.cpp) and the routing of a        *)
(* statement to the partitions of its table (executor_partition.cpp).      *)
(*                                                                         *)
(* Each is a function of the rows a statement finds.  Values are those of  *)
(* SqlValues.  Conditions are abstracted to the comparisons the plans tell *)
(* apart.                                                                  *)
(***************************************************************************)
EXTENDS SqlValues, FiniteSets

Over(f, g) == [x \in DOMAIN f \cup DOMAIN g |-> IF x \in DOMAIN g THEN g[x] ELSE f[x]]
Rows(s) == {s[i] : i \in DOMAIN s}

(***************************************************************************)
(* update_unique_violation.  u.old holds the key of every live row of the  *)
(* table, u.new the key the statement gives to each row it rewrites; u.pk  *)
(* is the order of the primary key, u.by the order an ORDER BY gives, or   *)
(* <<>>; u.indexed says that the WHERE compares the key column and an      *)
(* index is on it; u.multi that the key has several columns.               *)
(***************************************************************************)
Targets(u) == DOMAIN u.new
Changed(u, i) == KeyOf(u.old[i]) # KeyOf(u.new[i])
HeldByTargets(u) == {KeyOf(u.old[i]) : i \in Targets(u)}

\* rows_in_key_order, and the order of an index on the key (then by primary key).
KeyOrder(u) == SelectSeq(u.pk, LAMBDA i : i \in Targets(u))
IndexOrder(u) == StableSort(KeyOrder(u), LAMBDA i, j : Cmp(u.old[i], u.old[j]) < 0)
PlausibleOrders(u) ==
  IF u.by # <<>> THEN {SelectSeq(u.by, LAMBDA i : i \in Targets(u))}
  ELSE {KeyOrder(u)} \cup IF u.indexed THEN {IndexOrder(u)} ELSE {}

\* first_clash: whether a row is given a key that another of the rows still holds.
FirstClash(u, order) ==
  LET write(st, i) ==
        LET held == st.held \ {KeyOf(u.old[i])}
        IN  IF u.new[i] # Null /\ KeyOf(u.new[i]) \in held THEN [held |-> held, clash |-> TRUE]
            ELSE [st EXCEPT !.held = held \cup ({KeyOf(u.new[i])} \ {Null})]
  IN  FoldLeft(write, [held |-> HeldByTargets(u) \ {Null}, clash |-> FALSE], order).clash

\* Whether a row the statement does not rewrite holds one of the keys nobody among the rewritten rows holds.
Taken(u) ==
  \E i \in Targets(u) :
    /\ u.new[i] # Null /\ KeyOf(u.new[i]) \notin HeldByTargets(u)
    /\ IF u.multi THEN \E j \in DOMAIN u.old \ Targets(u) : KeyOf(u.old[j]) = KeyOf(u.new[i])
       ELSE Changed(u, i) /\ \E j \in DOMAIN u.old : KeyOf(u.old[j]) = KeyOf(u.new[i])

Chained(u) == \E i \in Targets(u) : Changed(u, i) /\ u.new[i] # Null /\ KeyOf(u.new[i]) \in HeldByTargets(u)
Repeated(u) == \E i, j \in Targets(u) : i # j /\ u.new[i] # Null /\ KeyOf(u.new[i]) = KeyOf(u.new[j])

BugUniqueViolation(u) == Repeated(u) \/ (Chained(u) /\ \E o \in PlausibleOrders(u) : FirstClash(u, o)) \/ Taken(u)
UniqueViolation(u) ==
  /\ \E i \in Targets(u) : Changed(u, i)
  /\ \/ Repeated(u)
     \/ Chained(u) /\ \A o \in PlausibleOrders(u) : FirstClash(u, o)
     \/ Taken(u)

\* What it should say: the rows are rewritten one by one, and no two rows of the table may have one key at any time.
TwoAtOnce(keys) == \E i, j \in DOMAIN keys : i # j /\ keys[i] # Null /\ KeyOf(keys[i]) = KeyOf(keys[j])
Clashes(u, order) ==
  LET write(st, i) == LET now == [st.keys EXCEPT ![i] = u.new[i]]
                      IN  [keys |-> now, clash |-> st.clash \/ TwoAtOnce(now)]
  IN  FoldLeft(write, [keys |-> u.old, clash |-> FALSE], order).clash
UniqueAsMeant(u) == UniqueViolation(u) <=> \A o \in PlausibleOrders(u) : Clashes(u, o)

(***************************************************************************)
(* exec_merge.  m.target and m.source are rows [k, v], k the primary key   *)
(* of the target; m.on names the column the ON compares; m.keyed says that *)
(* the comparison can be hashed.  m.update is the column WHEN MATCHED sets *)
(* to the v of the source ("" without the clause), m.delete whether there  *)
(* is WHEN MATCHED DELETE, each only for a v of 1 when its `if` is set,    *)
(* m.first that the UPDATE was written first; m.insert that there is WHEN  *)
(* NOT MATCHED; m.kept are the target keys a foreign key refers to.        *)
(***************************************************************************)
OnHolds(m, t, s) == t[m.on] # Null /\ s[m.on] # Null /\ t[m.on][1] = s[m.on][1]
Candidates(m, s) ==
  LET all == [i \in DOMAIN m.target |-> i]
  IN  IF ~m.keyed THEN all
      ELSE SelectSeq(all, LAMBDA i : s[m.on] # Null /\ m.target[i][m.on] # Null /\ KeyOf(m.target[i][m.on]) = KeyOf(s[m.on]))
Matched(m, s) == LET hits == SelectSeq(Candidates(m, s), LAMBDA i : OnHolds(m, m.target[i], s))
                 IN  IF hits = <<>> THEN 0 ELSE Head(hits)
When(cond, s) == ~cond \/ s.v = <<1, 0>>

MergePlan(m) ==
  LET add(p, s) ==
        LET i == Matched(m, s)
            update == m.update # "" /\ When(m.updateIf, s)
            delete == m.delete /\ When(m.deleteIf, s)
            key == m.target[i].k
        IN  CASE i = 0 -> IF m.insert THEN [p EXCEPT !.ins = Append(@, s)] ELSE p
              [] i # 0 /\ delete /\ ~(m.first /\ update) -> [p EXCEPT !.del = @ \cup {key}]
              [] i # 0 /\ update /\ ~(delete /\ ~m.first) -> [p EXCEPT !.upd = Over(@, [x \in {key} |-> s.v])]
              [] OTHER -> p
  IN  FoldLeft(add, [upd |-> <<>>, del |-> {}, ins |-> <<>>], m.source)

Keys(rows) == [i \in DOMAIN rows |-> rows[i].k]
Insertable(rows, ins) == ~TwoAtOnce(Keys(rows \o ins)) /\ \A i \in DOMAIN ins : ins[i].k # Null
Rewritten(rows, upd, c) == [i \in DOMAIN rows |-> IF rows[i].k \in DOMAIN upd THEN [rows[i] EXCEPT ![c] = upd[rows[i].k]] ELSE rows[i]]

\* The UPDATE of a MERGE, as update_unique_violation sees it: no ORDER BY and no WHERE, so the order of the primary key.
KeysMoved(m, p) ==
  LET rows == {i \in DOMAIN m.target : m.target[i].k \in DOMAIN p.upd}
  IN  [old |-> Keys(m.target), new |-> [i \in rows |-> IF m.update = "k" THEN p.upd[m.target[i].k] ELSE m.target[i].k],
       pk |-> StableSort([i \in DOMAIN m.target |-> i], LAMBDA i, j : Cmp(m.target[i].k, m.target[j].k) < 0),
       by |-> <<>>, indexed |-> FALSE, multi |-> FALSE]

\* The inserts are checked, the deletes are checked, then the UPDATE, the DELETE and the INSERT run, each a statement
\* of its own that fails with nothing of it done.  The DELETE names its rows by the keys they had before the UPDATE.
Applied(m, p) ==
  LET updated == Rewritten(m.target, p.upd, m.update)
      deleted == SelectSeq(updated, LAMBDA r : KeyOf(r.k) \notin {KeyOf(k) : k \in p.del})
      refused(rows) == [ok |-> FALSE, rows |-> rows]
  IN  CASE ~Insertable(m.target, p.ins) -> refused(m.target)
        [] \E k \in p.del : k \in m.kept -> refused(m.target)
        [] UniqueViolation(KeysMoved(m, p)) \/ \E i \in DOMAIN updated : updated[i].k = Null -> refused(m.target)
        [] ~Insertable(deleted, p.ins) -> refused(deleted)
        [] OTHER -> [ok |-> TRUE, rows |-> deleted \o p.ins]
ExecMerge(m) == Applied(m, MergePlan(m))

\* A key the UPDATE of a MERGE takes from a row that the DELETE then looks for by it, and one that it gives to a row
\* where the INSERT, checked before, then wants to put another.
MovedAway(m) == LET p == MergePlan(m) IN m.update = "k" /\ \E k \in p.del \cap DOMAIN p.upd : KeyOf(p.upd[k]) # KeyOf(k)
MovedInto(m) == LET p == MergePlan(m) IN m.update = "k" /\ \E k \in DOMAIN p.upd, i \in DOMAIN p.ins : KeyOf(p.upd[k]) = KeyOf(p.ins[i].k)

\* A MERGE is done as a whole or not at all, unless it moves a row to the key of one it inserts (then the UPDATE and the
\* DELETE stay).  When it is done, each target row is deleted if a source row that meets it asks for that, else holds the
\* value of the last that updates it; each source row that meets none is there, and no other row; unless a row is both
\* moved and deleted, which the DELETE no longer finds.
MergeAsMeant(m) ==
  LET r == ExecMerge(m)
      wants(i, deletes) == {j \in DOMAIN m.source :
         /\ Matched([m EXCEPT !.keyed = FALSE], m.source[j]) = i
         /\ LET u == m.update # "" /\ When(m.updateIf, m.source[j])
                d == m.delete /\ When(m.deleteIf, m.source[j])
            IN  IF deletes THEN d /\ (m.first => ~u) ELSE u /\ (~m.first => ~d)}
      last(S) == CHOOSE j \in S : \A l \in S : l <= j
      want(i) == IF wants(i, FALSE) = {} THEN m.target[i] ELSE [m.target[i] EXCEPT ![m.update] = m.source[last(wants(i, FALSE))].v]
      new == IF m.insert THEN {j \in DOMAIN m.source : Matched([m EXCEPT !.keyed = FALSE], m.source[j]) = 0} ELSE {}
  IN  IF ~r.ok THEN r.rows = m.target \/ MovedInto(m)
      ELSE \/ MovedAway(m)
           \/ Rows(r.rows) = {want(i) : i \in {x \in DOMAIN m.target : wants(x, TRUE) = {}}} \cup {m.source[j] : j \in new}

(***************************************************************************)
(* exec_multi_update and exec_multi_delete over a chain of up to three     *)
(* tables, joined on v.  A merged row gives values to <<table, column>>    *)
(* and to <<"", column>>, the plain name, which the first table that has   *)
(* it keeps.  w.tables are the tables in order, w.types the joins,         *)
(* w.data the rows [k, v] of each.                                         *)
(***************************************************************************)
InsertPrefixed(merged, t, row) ==
  Over([c \in {<<"", "k">>, <<"", "v">>} |-> row[c[2]]],
       Over(merged, [c \in {<<t, "k">>, <<t, "v">>} |-> row[c[2]]]))
Nulls(cols) == [c \in cols |-> Null]
Plain(rows) == IF rows = <<>> THEN {} ELSE {c \in DOMAIN rows[1] : c[1] = ""}

JoinOn(merged, from, t) == merged[<<from, "v">>] # Null /\ merged[<<t, "v">>] # Null /\ KeyOf(merged[<<from, "v">>]) = KeyOf(merged[<<t, "v">>])

\* hashed_write_join and the loops it replaces: the rows so far with the rows of the next table.
WriteJoin(left, t, from, rows, type) ==
  LET pairs(l) == SelectSeq([j \in DOMAIN rows |-> InsertPrefixed(l, t, rows[j])], LAMBDA x : <<from, "v">> \in DOMAIN x /\ JoinOn(x, from, t))
      hits(j) == SelectSeq([i \in DOMAIN left |-> InsertPrefixed(left[i], t, rows[j])], LAMBDA x : <<from, "v">> \in DOMAIN x /\ JoinOn(x, from, t))
  IN  CASE type = "inner" -> FlattenSeq([i \in DOMAIN left |-> pairs(left[i])])
        [] type = "left"  -> FlattenSeq([i \in DOMAIN left |->
                               IF pairs(left[i]) # <<>> THEN pairs(left[i])
                               ELSE <<Over(left[i], Nulls({<<t, "k">>, <<t, "v">>}))>>])
        [] type = "right" -> FlattenSeq([j \in DOMAIN rows |->
                               IF hits(j) # <<>> THEN hits(j) ELSE <<InsertPrefixed(Nulls(Plain(left)), t, rows[j])>>])

MatchedRows(w) ==
  LET first == [i \in DOMAIN w.data[w.tables[1]] |-> InsertPrefixed(<<>>, w.tables[1], w.data[w.tables[1]][i])]
      join(cur, n) == WriteJoin(cur, w.tables[n], w.tables[n - 1], w.data[w.tables[n]], w.types[n - 1])
  IN  FoldLeft(join, first, [n \in 1..(Len(w.tables) - 1) |-> n + 1])

\* merged_row_key: the key of table t in a joined row; Null for a row the join padded.
MergedKey(row, t) == IF <<t, "k">> \in DOMAIN row THEN row[<<t, "k">>] ELSE row[<<"", "k">>]
Cell(row, c) == IF c \in DOMAIN row THEN row[c] ELSE Null

\* The rows of each table of w.targets that the join matched go.
MultiDelete(w) ==
  LET matched == MatchedRows(w)
      keys(t) == {MergedKey(matched[n], t) : n \in DOMAIN matched} \ {Null}
  IN  [t \in DOMAIN w.data |-> IF t \in w.targets THEN SelectSeq(w.data[t], LAMBDA r : r.k \notin keys(t)) ELSE w.data[t]]

\* SET t.v = other.v for each <<t, other>> of w.sets, with the values of the join made before anything is written.
MultiUpdate(w) ==
  LET matched == MatchedRows(w)
      put(t)  == LET one(upd, row) == IF MergedKey(row, t) = Null THEN upd
                                      ELSE Over(upd, [x \in {MergedKey(row, t)} |-> Cell(row, <<w.sets[t], "v">>)])
                 IN  FoldLeft(one, <<>>, matched)
  IN  [t \in DOMAIN w.data |-> IF t \in DOMAIN w.sets THEN Rewritten(w.data[t], put(t), "v") ELSE w.data[t]]

\* The join as SQL means it: a position in each table, 0 where it is padded.
RECURSIVE JoinMeans(_, _)
JoinMeans(w, n) ==
  LET here == DOMAIN w.data[w.tables[n]]
      meets(p, j) == LET f == w.tables[n - 1]
                     IN  p[n - 1] # 0 /\ w.data[f][p[n - 1]].v # Null /\ w.data[w.tables[n]][j].v # Null
                         /\ KeyOf(w.data[f][p[n - 1]].v) = KeyOf(w.data[w.tables[n]][j].v)
      before == JoinMeans(w, n - 1)
      hits == {Append(p, j) : p \in before, j \in here} \cap {Append(p, j) : p \in {x \in before : x[n - 1] # 0}, j \in here}
      good == {x \in hits : meets(SubSeq(x, 1, n - 1), x[n])}
  IN  IF n = 1 THEN {<<i>> : i \in here}
      ELSE good \cup (IF w.types[n - 1] = "left" THEN {Append(p, 0) : p \in {x \in before : ~\E j \in here : meets(x, j)}} ELSE {})
                \cup (IF w.types[n - 1] = "right" THEN {Append([i \in 1..(n - 1) |-> 0], j) : j \in {y \in here : ~\E p \in before : meets(p, y)}} ELSE {})

\* A RIGHT JOIN of no rows although the tables before it have some.
LosesNames(w) ==
  \E n \in 2..Len(w.tables) : w.types[n - 1] = "right" /\ JoinMeans(w, n - 1) = {} /\ \E m \in 1..(n - 1) : w.data[w.tables[m]] # <<>>

At(w, t) == CHOOSE n \in DOMAIN w.tables : w.tables[n] = t
\* An UPDATE or a DELETE over a join changes the rows the join matched and no other, each table from the values
\* there were before the statement, so that two tables may exchange theirs.
MultiAsMeant(w) ==
  LosesNames(w) \/
  LET means == JoinMeans(w, Len(w.tables))
      met(t, i) == {p \in means : p[At(w, t)] = i}
      deleted == MultiDelete(w)
      updated == MultiUpdate(w)
  IN  /\ \A t \in w.targets : deleted[t] = SelectSeq(w.data[t], LAMBDA r : met(t, CHOOSE i \in DOMAIN w.data[t] : w.data[t][i] = r) = {})
      /\ \A t \in DOMAIN w.sets : \A i \in DOMAIN w.data[t] :
           LET other == w.sets[t]
               given == {IF p[At(w, other)] = 0 THEN Null ELSE w.data[other][p[At(w, other)]].v : p \in met(t, i)}
           IN  updated[t][i].k = w.data[t][i].k /\ updated[t][i].v \in (IF given = {} THEN {w.data[t][i].v} ELSE given)
      /\ \A t \in DOMAIN w.data \ DOMAIN w.sets : updated[t] = w.data[t]
=============================================================================
