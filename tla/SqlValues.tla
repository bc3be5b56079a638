----------------------------- MODULE SqlValues -----------------------------
(***************************************************************************)
(* The values the query algorithms tell apart.  A value is Null or         *)
(* <<key, spelling>>: two numbers of one value written differently (7 and  *)
(* 7.0), or two texts the collation takes for one ('Apple' and 'apple'),   *)
(* have the same key and different spellings.                              *)
(***************************************************************************)
EXTENDS Integers, SequencesExt

Null == <<>>

\* normalize_numeric_key, collation::key: what GROUP BY, DISTINCT and the set operations compare.
KeyOf(v) == IF v = Null THEN Null ELSE <<v[1]>>

\* cmp_key: Null sorts before every value.
Cmp(a, b) ==
  CASE a = Null /\ b = Null -> 0
    [] a = Null /\ b # Null -> -1
    [] a # Null /\ b = Null -> 1
    [] OTHER -> IF a[1] < b[1] THEN -1 ELSE IF a[1] > b[1] THEN 1 ELSE 0

\* std::stable_sort with the given strict order.
StableSort(s, Less(_, _)) ==
  LET put(sorted, x) == InsertAt(sorted, 1 + Len(SelectSeq(sorted, LAMBDA y : ~Less(x, y))), x)
  IN  FoldLeft(put, <<>>, s)

\* The elements of s of which none before has the same key: the first of each.
FirstOfEach(s, Key(_)) ==
  LET keep(kept, x) == IF \E i \in DOMAIN kept : Key(kept[i]) = Key(x) THEN kept ELSE Append(kept, x)
  IN  FoldLeft(keep, <<>>, s)
=============================================================================
