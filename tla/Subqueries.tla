----------------------------- MODULE Subqueries -----------------------------
(***************************************************************************)
(* Subqueries of a statement: which column of which enclosing query a      *)
(* reference takes, and what is kept of an answer.                         *)
(*                                                                         *)
(* A subquery q has the references q.refs (how many queries out each       *)
(* points), the values q.vals that were put in place of references, at     *)
(* most one subquery of its own (q.inner), and the address q.at it lies    *)
(* at.  It is a test of a WHERE ("cond"), whose answer is kept by its      *)
(* address, or a value ("value"), whose answer is kept in the node.  Its   *)
(* answer says everything it was made from: the data as they were, the     *)
(* values it took and the answers of its own subquery for each of its two  *)
(* rows.  A copy is always made where the last one was: the addresses the  *)
(* allocator may hand out again are handed out again.                      *)
(***************************************************************************)
EXTENDS Integers, Sequences, SequencesExt, FiniteSets

OwnRows == <<1, 2>>

\* A reference points out of the statement that was walked.
RECURSIVE refers_outside(_, _)
refers_outside(q, depth) ==
  \/ \E f \in q.refs : f > depth
  \/ q.inner # <<>> /\ refers_outside(q.inner[1], depth + 1)

\* The row's value in place of each reference to it: those that point depth + 1 queries out.
RECURSIVE substitute_outer(_, _, _)
substitute_outer(q, depth, row) ==
  LET taken == q.refs \cap {depth + 1}
  IN  [q EXCEPT !.refs = @ \ taken,
                !.vals = [f \in taken \cup DOMAIN @ |-> IF f \in taken THEN row ELSE @[f]],
                !.inner = IF @ = <<>> THEN <<>> ELSE <<substitute_outer(@[1], depth + 1, row)>>]

\* What a session keeps: answers and "is it correlated" by address, good for one statement and until something is written; the
\* number of statements run, of the running one, and of the writing ones that ended; the version of the data.
Empty == [x \in {} |-> 0]
Start == [cache |-> Empty, correlated |-> Empty, statement |-> 0, after |-> 0, node |-> Empty,
          serial |-> 0, running |-> 0, writes |-> 0, data |-> 0]

BugSync(m) ==
  IF m.statement = m.running THEN m
  ELSE [m EXCEPT !.cache = Empty, !.correlated = Empty, !.statement = m.running, !.after = m.writes]

sync_subquery_caches(m) ==
  IF m.statement = m.running /\ m.after = m.writes THEN m
  ELSE [m EXCEPT !.cache = Empty, !.correlated = Empty, !.statement = m.running, !.after = m.writes]

\* A copy runs with caches of its own, and the statement's come back after it.
EnterCopy(m) == [m EXCEPT !.cache = Empty, !.correlated = Empty, !.statement = 0, !.after = 0]
LeaveCopy(m, was) == [m EXCEPT !.cache = was.cache, !.correlated = was.correlated, !.statement = was.statement, !.after = was.after]

\* A statement begins and ends; while it runs it is the one the subqueries belong to.
BeginStatement(m) == [m EXCEPT !.serial = @ + 1, !.running = m.serial + 1]
EndStatement(m, was, writes) == [m EXCEPT !.running = was.running, !.writes = @ + (IF writes THEN 1 ELSE 0), !.data = @ + (IF writes THEN 1 ELSE 0)]

Put(f, x, v) == [y \in DOMAIN f \cup {x} |-> IF y = x THEN v ELSE f[y]]
Forget(f, S) == [y \in DOMAIN f \ S |-> f[y]]

\* Each returns [a |-> the answer, m |-> what the session keeps after it].
RECURSIVE Ask(_, _, _)
Asked(s, one) == [as |-> Append(s.as, one.a), m |-> one.m]

\* On a copy, with the row's values in: a SELECT, or (UNION, WITH) a statement of its own.
InCopy(q, m) == [EnterCopy(m) EXCEPT !.node = Forget(@, {q.at + 1})]
RunCopy(copy, start) ==
  IF copy.inner = <<>> THEN [as |-> <<>>, m |-> start]
  ELSE FoldLeft(LAMBDA s, r : Asked(s, Ask(copy.inner[1], r, s.m)), [as |-> <<>>, m |-> start], OwnRows)
CopyRan(q, m, copy, ran) ==
  [a |-> [data |-> m.data, vals |-> copy.vals, inner |-> ran.as],
   m |-> LeaveCopy(IF q.union THEN EndStatement(ran.m, m, FALSE) ELSE ran.m, m)]
WithCopy(q, m, copy) == CopyRan(q, m, copy, RunCopy(copy, IF q.union THEN BeginStatement(InCopy(q, m)) ELSE InCopy(q, m)))
CopyOf(q, stmt) == IF stmt.inner = <<>> THEN stmt ELSE [stmt EXCEPT !.inner[1].at = q.at + 1]
run_subquery(q, row, correlated, m) == WithCopy(q, m, CopyOf(q, IF correlated THEN substitute_outer(q, 0, row) ELSE q))

subquery_is_correlated(q, m) == IF q.at \in DOMAIN m.correlated THEN m.correlated[q.at] ELSE refers_outside(q, 0)

\* A condition: the answer of one that takes nothing from the row is kept by its address.
KeepInCache(q, ran) == [ran EXCEPT !.m.cache = Put(@, q.at, ran.a)]
EvalKnown(q, row, correlated, m) ==
  IF correlated THEN run_subquery(q, row, TRUE, m)
  ELSE IF q.at \in DOMAIN m.cache THEN [a |-> m.cache[q.at], m |-> m]
  ELSE KeepInCache(q, run_subquery(q, row, FALSE, m))
EvalSynced(q, row, correlated, m) == EvalKnown(q, row, correlated, [m EXCEPT !.correlated = Put(@, q.at, correlated)])
EvalSingle(q, row, m) == EvalSynced(q, row, subquery_is_correlated(q, m), m)
eval_single_with_subquery(q, row, m) == EvalSingle(q, row, sync_subquery_caches(m))

\* A value: the answer is kept in the node.
KeepInNode(q, m, ran) == [ran EXCEPT !.m.node = Put(@, q.at, [in |-> m.running, after |-> m.writes, answer |-> ran.a])]
scalar_subquery_value(q, row, m) ==
  IF refers_outside(q, 0) THEN run_subquery(q, row, TRUE, m)
  ELSE IF q.at \in DOMAIN m.node /\ m.node[q.at].in = m.running /\ m.node[q.at].after = m.writes
       THEN [a |-> m.node[q.at].answer, m |-> m]
  ELSE KeepInNode(q, m, run_subquery(q, row, FALSE, m))
Ask(q, row, m) == IF q.kind = "value" THEN scalar_subquery_value(q, row, m) ELSE eval_single_with_subquery(q, row, m)

\* A statement of a procedure asks its subquery for each row; after the rows of w.writes a statement of a trigger writes, which
\* may ask the same subquery at another address.
TriggerRan(w, begun, was) == EndStatement(IF w.asks THEN Ask([w.q EXCEPT !.at = 9], 3, begun).m ELSE begun, was, TRUE)
RowRan(w, i, s) == IF i \in w.writes THEN [s EXCEPT !.m = TriggerRan(w, BeginStatement(@), @)] ELSE s
StatementRan(w, m, ran) == [as |-> ran.as, m |-> EndStatement(ran.m, m, w.writes # {})]
execute_statement(w, m) ==
  StatementRan(w, m, FoldLeft(LAMBDA s, i : RowRan(w, i, Asked(s, Ask(w.q, w.rows[i], s.m))),
                              [as |-> <<>>, m |-> [BeginStatement(m) EXCEPT !.node = Empty]], [i \in DOMAIN w.rows |-> i]))

AfterOne(s, one) == [as |-> Append(s.as, one.as), m |-> one.m]
RunAll(statements) == FoldLeft(LAMBDA s, w : AfterOne(s, execute_statement(w, s.m)), [as |-> <<>>, m |-> Start], statements)

----------------------------------------------------------------------------
(* What they mean: every subquery asked anew, each reference the value of  *)
(* the query it points to.                                                 *)

RECURSIVE Means(_, _, _)
Means(q, env, data) ==
  [data |-> data,
   vals |-> [f \in q.refs \cup DOMAIN q.vals |-> IF f \in q.refs THEN env[f] ELSE q.vals[f]],
   inner |-> IF q.inner = <<>> THEN <<>> ELSE [i \in DOMAIN OwnRows |-> Means(q.inner[1], <<OwnRows[i]>> \o env, data)]]

WritesBefore(statements, s, i) ==
  LET before == {<<t, j>> \in (1..s) \X (1..3) : j \in statements[t].writes /\ (t < s \/ j < i)}
      ended == {t \in 1..(s - 1) : statements[t].writes # {}}
  IN  Cardinality(before) + Cardinality(ended)

Answered(statements, as) ==
  \A s \in DOMAIN statements : \A i \in DOMAIN statements[s].rows :
    as[s][i] = Means(statements[s].q, <<statements[s].rows[i]>>, WritesBefore(statements, s, i))
AnswersAsMeant(statements) == Answered(statements, RunAll(statements).as)
=============================================================================
