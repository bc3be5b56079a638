------------------------------ MODULE Derived ------------------------------
(***************************************************************************)
(* The tables a SELECT makes for itself: a derived table, a view, a table  *)
(* of the information schema and a common table expression are run first,  *)
(* kept as a table in the shared database while the rest of the query      *)
(* reads them, and taken away again.                                       *)
(*                                                                         *)
(* A query is a tree; its kind is                                          *)
(*   "table"    SELECT FROM name                                           *)
(*   "derived"  SELECT FROM (inner) AS name                                *)
(*   "join"     SELECT FROM name JOIN (inner) AS alias                     *)
(*   "info"     SELECT FROM information_schema.x                           *)
(*   "with"     WITH name AS (inner) rest                                  *)
(* A FROM name that is a view runs the view's query.  The state of a run   *)
(* is [tables, temps, views, left, out]; left counts the scans until the   *)
(* statement is stopped (KILL QUERY, MAX_EXECUTION_TIME): the scan throws. *)
(***************************************************************************)
EXTENDS Integers, FiniteSets

Info == "information_schema.x"

Ok(st) == [st EXCEPT !.out = "ok"]
Err(st) == [st EXCEPT !.out = "error"]

\* deadline::tick inside a scan.
Scan(st) == IF st.left = 0 THEN [st EXCEPT !.out = "thrown"] ELSE [Ok(st) EXCEPT !.left = @ - 1]

Taken(st, name) == name \in st.tables \cup DOMAIN st.views
Make(st, name) == [st EXCEPT !.tables = @ \cup {name}, !.temps = @ \cup {name}]

Drop(st, names) == [st EXCEPT !.tables = @ \ names, !.temps = @ \ names]

\* What follows a call: nothing when it threw, else the rest.
After(st, then) == IF st.out = "thrown" THEN st ELSE then

RECURSIVE ExecSelect(_, _)
RECURSIVE ExecuteWithS(_, _)

\* exec_select_with_subquery: the inner statement is a statement of its own, the outer part is not.
ExecSelectWithSubquery(st, inner, alias) ==
  IF Taken(st, alias) THEN Err(st)
  ELSE LET r == ExecuteWithS(st, inner)
       IN  IF r.out = "error" THEN r
           ELSE LET o == ExecSelect(Make(r, alias), [kind |-> "table", name |-> alias]) IN After(o, Drop(o, {alias}))

\* Mutant: the view comes back only when its query has answered.
BugExecView(st, name) ==
  LET without == [st EXCEPT !.views = [v \in DOMAIN st.views \ {name} |-> st.views[v]]]
      r == ExecSelectWithSubquery(without, st.views[name], name)
  IN  IF r.out = "ok" THEN [r EXCEPT !.views = st.views] ELSE r

\* The view is out of the way while its name is the alias of its own rows.
ExecView(st, name) ==
  LET without == [st EXCEPT !.views = [v \in DOMAIN st.views \ {name} |-> st.views[v]]]
      r == ExecSelectWithSubquery(without, st.views[name], name)
  IN  After(r, [r EXCEPT !.views = [v \in DOMAIN r.views \cup {name} |-> IF v = name THEN st.views[name] ELSE r.views[v]]])

\* JOIN (SELECT ...) AS d: made before the rest of the query looks at its FROM table.
ExecJoinDerived(st, q) ==
  IF Taken(st, q.alias) THEN Err(st)
  ELSE LET r == ExecuteWithS(st, q.inner)
       IN  IF r.out = "error" THEN r
           ELSE LET o == ExecSelect(Make(r, q.alias), [kind |-> "table", name |-> q.name]) IN After(o, Drop(o, {q.alias}))

ExecInfoSchema(st) ==
  IF Info \in st.tables THEN Scan(st)
  ELSE LET o == ExecSelect(Make(st, Info), [kind |-> "info"]) IN After(o, Drop(o, {Info}))

ExecSelect(st, q) ==
  CASE q.kind = "derived" -> ExecSelectWithSubquery(st, q.inner, q.name)
    [] q.kind = "join"    -> ExecJoinDerived(st, q)
    [] q.kind = "info"    -> ExecInfoSchema(st)
    [] q.kind = "table" /\ q.name \in DOMAIN st.views -> ExecView(st, q.name)
    [] OTHER -> IF q.name \in st.tables THEN Scan(st) ELSE Err(st)

\* exec_with: both halves are statements of their own.
ExecWith(st, q) ==
  IF Taken(st, q.name) THEN Err(st)
  ELSE LET r == ExecuteWithS(st, q.inner)
       IN  IF r.out = "error" THEN r
           ELSE Drop(ExecuteWithS([Make(r, q.name) EXCEPT !.temps = r.temps], q.rest), {q.name})

\* execute_with_s: what is thrown in a statement ends there, as its error.
ExecuteWithS(st, q) ==
  LET r == IF q.kind = "with" THEN ExecWith(st, q) ELSE ExecSelect(st, q)
  IN  IF r.out = "thrown" THEN Err(r) ELSE r

----------------------------------------------------------------------------
Start(tables, views, left) == [tables |-> tables, temps |-> {}, views |-> views, left |-> left, out |-> "none"]
Names(st) == [tables |-> st.tables, temps |-> st.temps, views |-> st.views]

\* Does the query make tables for itself outside a statement of their own?
RECURSIVE MakesTables(_, _)
MakesTables(q, views) ==
  CASE q.kind = "with"  -> MakesTables(q.inner, views) \/ MakesTables(q.rest, views)
    [] q.kind = "table" -> q.name \in DOMAIN views
    [] OTHER            -> TRUE

RECURSIVE ReadsInfo(_)
ReadsInfo(q) == CASE q.kind = "info" -> TRUE
                  [] q.kind = "table" -> FALSE
                  [] q.kind = "with" -> ReadsInfo(q.inner) \/ ReadsInfo(q.rest)
                  [] OTHER -> ReadsInfo(q.inner)

DerivedRestores(tables, views, left, q) ==
  LET st == Start(tables, views, left)
      r == ExecuteWithS(st, q)
      free == ExecuteWithS(Start(tables, views, 99), q)
  IN  /\ Names(free) = Names(st)
      /\ ~MakesTables(q, views) => Names(r) = Names(st)
      /\ left = 0 /\ ~ReadsInfo(q) /\ (\A v \in DOMAIN views : ~ReadsInfo(views[v])) => Names(r) = Names(st)
      /\ r.tables \ tables = r.temps
      /\ DOMAIN views \ DOMAIN r.views \subseteq r.temps
=============================================================================
