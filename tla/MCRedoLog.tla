------------------------------ MODULE MCRedoLog ------------------------------
(* RedoLog for TLC: sessions are interchangeable, and so are tables.          *)
EXTENDS RedoLog, TLC

Symmetry == Permutations(Sessions) \cup Permutations(Tables)

\* Bound: where two tables have been changed, two transactions between two starts; else MaxId.
Changed == {tb \in Tables : \E v \in mem[tb] \cup file[tb] : v.id # 0}
FewOverTwoTables == Cardinality(Changed) < 2 \/ next_id <= 3
=============================================================================
