------------------------------- MODULE Joins -------------------------------
(***************************************************************************)
(* How a SELECT joins two tables: the planner's choice of an algorithm     *)
(* (engine/planner.cpp), the algorithms (engine/join.cpp, and the two      *)
(* index nested loops of executor_select.cpp) and the order in which a     *)
(* chain of inner joins is done.                                           *)
(*                                                                         *)
(* A key is <<number, spelling>>: <<7, 0>> and <<7, 1>> are the texts "7"  *)
(* and "7.0".  Rows are known by their position, a joined row is           *)
(* <<left, right>>, and 0 stands for a side padded with NULLs.  A query is *)
(* a record: the keys of the two tables (left, right), the join type, the  *)
(* ON and WHERE conditions, the class of the key columns, the index there  *)
(* is (index), the row estimates the planner works with (est for the left  *)
(* rows, dead for the versions the right table holds that nobody sees,     *)
(* extra for the rows a probe returns beyond the first), whether a         *)
(* transaction is open (txn) and whether a table has an alias (aliased).   *)
(***************************************************************************)
EXTENDS Integers, SequencesExt, FiniteSetsExt

Null == <<9, 0>> \* sorts as the text NULL does: after every number

\* Two key values are equal for ON: a text column by its text, any other by the number.
Norm(cls, k) == IF cls = "text" THEN k ELSE <<k[1], 0>>
Equal(cls, a, b) == a # Null /\ b # Null /\ Norm(cls, a) = Norm(cls, b)

\* eval_condexpr of the ON condition: k = k, k = k AND id <= id, or k < k.
OnMatch(q, p) ==
  LET a == q.left[p[1]]
      b == q.right[p[2]]
  IN  CASE q.on = "eq"     -> Equal(q.cls, a, b)
        [] q.on = "eq_and" -> Equal(q.cls, a, b) /\ p[1] <= p[2]
        [] q.on = "less"   -> a # Null /\ b # Null /\ a[1] < b[1]

\* The WHERE condition on a joined row; a comparison with a padded column is not true.
Where(q, p) ==
  CASE q.where = "none"       -> TRUE
    [] q.where = "left"       -> p[1] = 1
    [] q.where = "right"      -> p[2] = 1
    [] q.where = "right_null" -> p[2] = 0
    [] q.where = "both"       -> 0 \notin {p[1], p[2]} /\ p[1] # p[2]

\* expr_owner: the table whose columns alone the WHERE condition reads; -1 when there is none.
ExprOwner(q) == CASE q.where = "left" -> 0
                  [] q.where \in {"right", "right_null"} -> 1
                  [] OTHER -> -1

Ids(keys) == [i \in DOMAIN keys |-> i]
Pairs(ls, rs) == FlattenSeq([i \in DOMAIN ls |-> [j \in DOMAIN rs |-> <<ls[i], rs[j]>>]])
Swap(ps) == [i \in DOMAIN ps |-> <<ps[i][2], ps[i][1]>>]

----------------------------------------------------------------------------
\* std::stable_sort of the rows by sort_cmp of their keys.
Sorted(ids, key) ==
  LET before(i, j) == \/ key[ids[i]][1] < key[ids[j]][1]
                      \/ key[ids[i]][1] = key[ids[j]][1] /\ i < j
  IN  [n \in DOMAIN ids |-> ids[CHOOSE j \in DOMAIN ids :
                                  Cardinality({i \in DOMAIN ids : before(i, j)}) = n - 1]]

\* The rows at the front of a sorted sequence whose keys are below, or equal to, a key.
Below(ids, key, k) == SelectSeq(ids, LAMBDA i : key[i][1] < k[1])
Run(ids, key, k) == SelectSeq(ids, LAMBDA i : key[i][1] = k[1])
After(ids, s) == SubSeq(ids, Len(s) + 1, Len(ids))

RECURSIVE MergeInner(_, _, _, _)
\* sort_merge_join, INNER: both sides advance, a NULL is stepped over, equal runs are paired.
MergeInner(ls, rs, lkey, rkey) ==
  IF ls = <<>> \/ rs = <<>> THEN <<>>
  ELSE LET a == lkey[Head(ls)]
           b == rkey[Head(rs)]
       IN  CASE a = Null     -> MergeInner(Tail(ls), rs, lkey, rkey)
             [] b = Null     -> MergeInner(ls, Tail(rs), lkey, rkey)
             [] a[1] < b[1]  -> MergeInner(Tail(ls), rs, lkey, rkey)
             [] a[1] > b[1]  -> MergeInner(ls, Tail(rs), lkey, rkey)
             [] OTHER -> LET lrun == Run(ls, lkey, a)
                             rrun == Run(rs, rkey, a)
                         IN  Pairs(lrun, rrun) \o MergeInner(After(ls, lrun), After(rs, rrun), lkey, rkey)

RECURSIVE MergeOuter(_, _, _, _)
\* sort_merge_join, LEFT; RIGHT is the same walk with the sides exchanged.
MergeOuter(ls, rs, lkey, rkey) ==
  IF ls = <<>> THEN <<>>
  ELSE LET k == lkey[Head(ls)]
           from == After(rs, Below(rs, rkey, k))
           found == IF k = Null THEN <<>> ELSE Run(from, rkey, k)
       IN  Pairs(<<Head(ls)>>, IF found = <<>> THEN <<0>> ELSE found) \o MergeOuter(Tail(ls), from, lkey, rkey)

SortMergeJoin(q, ls, rs) ==
  LET sl == Sorted(ls, q.left)
      sr == Sorted(rs, q.right)
  IN  CASE q.type = "inner" -> MergeInner(sl, sr, q.left, q.right)
        [] q.type = "left"  -> MergeOuter(sl, sr, q.left, q.right)
        [] q.type = "right" -> Swap(MergeOuter(sr, sl, q.right, q.left))

\* The rows of a hash bucket, in the order they went in; a NULL key goes in none and finds none.
Bucket(ids, key, k, cls) == SelectSeq(ids, LAMBDA i : Equal(cls, key[i], k))

\* hash_join: the keys by normalize_numeric_key.
HashJoin(q, ls, rs) ==
  LET matches(i, others, key, k) == Pairs(<<i>>, Bucket(others, key, k, "number"))
      padded(i, others, key, k) == LET m == matches(i, others, key, k) IN IF m = <<>> THEN <<<<i, 0>>>> ELSE m
  IN  CASE q.type = "inner" -> FlattenSeq([n \in DOMAIN ls |-> matches(ls[n], rs, q.right, q.left[ls[n]])])
        [] q.type = "left"  -> FlattenSeq([n \in DOMAIN ls |-> padded(ls[n], rs, q.right, q.left[ls[n]])])
        [] q.type = "right" -> Swap(FlattenSeq([n \in DOMAIN rs |-> padded(rs[n], ls, q.left, q.right[rs[n]])]))

\* hashed_join_verified: the bucket by the equality of the ON, every pair checked against the whole ON.
HashedJoinVerified(q, ls, rs) ==
  LET ok(ps) == SelectSeq(ps, LAMBDA p : OnMatch(q, p))
      ofLeft(i) == ok(Pairs(<<i>>, Bucket(rs, q.right, q.left[i], q.cls)))
      ofRight(j) == ok(Pairs(Bucket(ls, q.left, q.right[j], q.cls), <<j>>))
      orPad(ps, pad) == IF ps = <<>> THEN <<pad>> ELSE ps
      lefts == FlattenSeq([n \in DOMAIN ls |-> IF q.type = "inner" THEN ofLeft(ls[n])
                                               ELSE orPad(ofLeft(ls[n]), <<ls[n], 0>>)])
      matched == {p[2] : p \in ToSet(lefts)}
      alone == SelectSeq(rs, LAMBDA j : j \notin matched)
  IN  CASE q.type = "right" -> FlattenSeq([n \in DOMAIN rs |-> orPad(ofRight(rs[n]), <<0, rs[n]>>)])
        [] q.type = "full"  -> lefts \o Pairs(<<0>>, alone)
        [] OTHER            -> lefts

\* nested_loop_join; an INNER or CROSS join that is the last one keeps only what the WHERE keeps.
NestedLoopJoin(q, ls, rs) ==
  LET on(p) == q.type = "cross" \/ OnMatch(q, p)
      ofLeft(i) == SelectSeq(Pairs(<<i>>, rs), on)
      ofRight(j) == SelectSeq(Pairs(ls, <<j>>), on)
      orPad(ps, pad) == IF ps = <<>> THEN <<pad>> ELSE ps
      lefts == FlattenSeq([n \in DOMAIN ls |-> orPad(ofLeft(ls[n]), <<ls[n], 0>>)])
      matched == {p[2] : p \in ToSet(lefts)}
  IN  CASE q.type \in {"inner", "cross"} ->
             SelectSeq(Pairs(ls, rs), LAMBDA p : on(p) /\ Where(q, p))
        [] q.type = "left"  -> lefts
        [] q.type = "right" -> FlattenSeq([n \in DOMAIN rs |-> orPad(ofRight(rs[n]), <<0, rs[n]>>)])
        [] q.type = "full"  -> lefts \o Pairs(<<0>>, SelectSeq(rs, LAMBDA j : j \notin matched))

\* The two index nested loops read every row of the probed table that is visible: what the
\* WHERE has taken out of it beforehand comes back here, and goes again at the end.
IndexNL(q, ls) == HashJoin([q EXCEPT !.type = "inner"], ls, Ids(q.right))
ReverseIndexNL(q, rs) ==
  FlattenSeq([n \in DOMAIN rs |-> Pairs(Bucket(Ids(q.left), q.left, q.right[rs[n]], "number"), <<rs[n]>>)])

----------------------------------------------------------------------------
\* Arithmetic of the estimates: floor(n * max(log2(m), 1)).
TimesLog(n, m) == IF m <= 2 THEN n ELSE Max({c \in 0..30 : 2^c <= m^n}) \* (m^n within 31 bits)
FloorLog(m) == IF m <= 2 THEN 1 ELSE Max({c \in 0..30 : 2^c <= m})

\* choose_join_algo: index loops where an index is on the column, else the cheapest by its estimate.
ChooseJoinAlgo(q) ==
  LET right == Len(q.right) + q.dead
      nl    == q.est * right
      hash  == 3 * (q.est + right)
      shape == q.on = "eq" /\ q.cls = "number"
      fwd   == IF shape /\ q.index = "right_pk" THEN {TimesLog(q.est, right)} ELSE {}
      rev   == IF shape /\ q.first /\ q.index \in {"left_pk", "left_secondary", "left_hash"}
               THEN {TimesLog(right, q.est) + (IF q.index = "left_pk" THEN 0 ELSE right * q.extra)} ELSE {}
      n     == q.est + right
  IN  CASE nl <= hash /\ \A x \in fwd \cup rev : x >= nl -> "nested_loop"
        [] ~shape -> "nested_loop"
        [] \E x \in rev : x <= hash /\ \A y \in fwd : x <= y -> "reverse_index"
        [] \E x \in fwd : x <= hash -> "index"
        [] n * FloorLog(n) <= hash -> "sort_merge"
        [] OTHER -> "hash"

\* A mutant: the condition is applied to the right rows of a left join as well.
BugPushedRight(q) == IF ExprOwner(q) = 1
                     THEN SelectSeq(Ids(q.right), LAMBDA j : Where(q, <<0, j>>)) ELSE Ids(q.right)

\* The WHERE conjuncts applied to one table before the join: to the left rows of inner and
\* left joins, to the right rows of inner joins.
PushedLeft(q) == IF q.type \in {"inner", "left"} /\ ExprOwner(q) = 0
                 THEN SelectSeq(Ids(q.left), LAMBDA i : Where(q, <<i, 0>>)) ELSE Ids(q.left)
PushedRight(q) == IF q.type = "inner" /\ ExprOwner(q) = 1
                  THEN SelectSeq(Ids(q.right), LAMBDA j : Where(q, <<0, j>>)) ELSE Ids(q.right)

\* The join loop of exec_select for one join: what is done with what, then the WHERE.
\* q.first: it is the first join of the statement, so the planner's choice may be used.
ExecJoin(q) ==
  LET ls == PushedLeft(q)
      rs == PushedRight(q)
      algo == IF q.type = "inner" /\ ~q.aliased THEN ChooseJoinAlgo(q) ELSE "none"
      hashable == /\ \/ q.type \in {"left", "right", "full"}
                     \/ q.type = "inner" /\ (algo \in {"none", "nested_loop"} \/ ~q.first)
                  /\ q.on \in {"eq", "eq_and"} /\ q.cls # "mixed"
      joined == CASE hashable -> HashedJoinVerified(q, ls, rs)
                  [] algo = "sort_merge" -> SortMergeJoin(q, ls, rs)
                  [] algo = "hash" \/ (algo \in {"index", "reverse_index"} /\ q.txn) -> HashJoin(q, ls, rs)
                  [] algo = "index" -> IndexNL(q, ls)
                  [] algo = "reverse_index" -> ReverseIndexNL(q, rs)
                  [] OTHER -> NestedLoopJoin(q, ls, rs)
  IN  SelectSeq(joined, LAMBDA p : Where(q, p))

----------------------------------------------------------------------------
(***************************************************************************)
(* A chain of inner joins, 1..n in the order they are written; refs[j] are *)
(* the tables the ON of join j names besides its own (0: the FROM table),  *)
(* size[j] its rows, equi[j] whether its ON is one equality.               *)
(***************************************************************************)
Joinable(ch, j, done) == ch.refs[j] \subseteq done \cup {0, j}

\* reorder_joins_dp: the cheapest order for every set of joins; NoOrder where there is none.
\* Of two that cost the same the one found first stays, the one whose last join is the later.
NoOrder == [cost |-> -1, card |-> 0, order |-> <<>>]
DpEntry(ch) ==
  LET n == Len(ch.refs)
      best[S \in SUBSET (1..n)] ==
        IF S = {} THEN [cost |-> 0, card |-> ch.base, order |-> <<>>]
        ELSE LET step(j) == LET e == best[S \ {j}] IN
                   [cost  |-> e.cost + (IF ch.equi[j] THEN e.card + ch.size[j] ELSE e.card * ch.size[j]),
                    card  |-> IF ch.equi[j] THEN Max({e.card, ch.size[j]}) ELSE e.card * ch.size[j],
                    order |-> Append(e.order, j)]
                 last == {j \in S : best[S \ {j}].cost >= 0 /\ Joinable(ch, j, S \ {j})}
                 cheapest == {j \in last : \A k \in last : step(j).cost <= step(k).cost}
             IN  IF last = {} THEN NoOrder ELSE step(Max(cheapest))
  IN  best[1..n]

RECURSIVE ReorderGreedy(_, _, _)
\* reorder_joins_greedy: of those that can be joined now the smallest, the first that is left if none can.
ReorderGreedy(ch, done, left) ==
  IF left = {} THEN <<>>
  ELSE LET can == {j \in left : Joinable(ch, j, done)}
           least == {j \in can : \A k \in can : ch.size[j] <= ch.size[k]}
           pick == Min(IF can = {} THEN left ELSE least)
       IN  <<pick>> \o ReorderGreedy(ch, done \cup {pick}, left \ {pick})

ReorderJoins(ch) ==
  LET e == DpEntry(ch)
  IN  IF e.cost >= 0 THEN e.order ELSE ReorderGreedy(ch, {}, 1..Len(ch.refs))

----------------------------------------------------------------------------
\* The answer by the meaning of the join types, whatever computes it.
JoinMeaning(q) ==
  LET L == DOMAIN q.left
      R == DOMAIN q.right
      met == {p \in L \X R : q.type = "cross" \/ OnMatch(q, p)}
      padL == IF q.type \in {"left", "full"} THEN {<<i, 0>> : i \in {i \in L : \A j \in R : <<i, j>> \notin met}} ELSE {}
      padR == IF q.type \in {"right", "full"} THEN {<<0, j>> : j \in {j \in R : \A i \in L : <<i, j>> \notin met}} ELSE {}
  IN  {p \in met \cup padL \cup padR : Where(q, p)}

SameRows(s, S) == ToSet(s) = S /\ Len(s) = Cardinality(S)

\* A chain is in scope when every ON names tables that are there by then.
InScope(ch, order) == \A n \in DOMAIN order : Joinable(ch, order[n], {order[m] : m \in 1..n - 1})
=============================================================================
