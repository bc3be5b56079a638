---------------------------- MODULE MCStatements ----------------------------
(* Statements over three tables: c refers to p, p refers to g. *)
EXTENDS Statements, TLC

CONSTANTS s1, s2

MCMaxStmts == s1 :> 2 @@ s2 :> 1
MCOrder   == <<"c", "g", "p">>
MCParents == [t \in {"c", "g", "p"} |-> CASE t = "c" -> {"p"} [] t = "p" -> {"g"} [] t = "g" -> {}]

S(k, T, r, o) == [kind |-> k, tables |-> T, row |-> r, open |-> o]

\* the INSERT and the UPDATE open a transaction, the others run in the one that is open or alone
MCMenu ==
    {S("select", {"c"}, None, FALSE), S("view", {"p"}, None, FALSE),
     S("insert", {"c"}, "b", TRUE), S("update", {"p"}, "a", TRUE), S("delete", {"g"}, "a", FALSE),
     S("multi", {"c", "p"}, "a", FALSE), S("ddl", {"c"}, None, FALSE), S("call", {"p"}, "a", FALSE)}
=============================================================================
