----------------------------- MODULE MCQueries -----------------------------
(***************************************************************************)
(* Small inputs for the algorithms of query processing.  Every behaviour   *)
(* takes one case, of one kind, and stops; each invariant speaks of the    *)
(* cases of its kind.                                                      *)
(***************************************************************************)
EXTENDS Integers, Sequences, FiniteSets

VARIABLE case

J == INSTANCE Joins
Sel == INSTANCE Select
W == INSTANCE Windows
Set == INSTANCE SetOps
D == INSTANCE Derived
Wr == INSTANCE Writes
P == INSTANCE Partitioning
Ins == INSTANCE Inserts
Pr == INSTANCE Procedures
Tx == INSTANCE Texts
F == INSTANCE Files
C == INSTANCE Conditions
Sub == INSTANCE Subqueries
Num == INSTANCE Numbers
Pa == INSTANCE Parser

KeyTexts == {J!Null, <<7, 0>>, <<7, 1>>, <<8, 0>>}
UpTo(S, n) == UNION {[1..m -> S] : m \in 0..n}
IsKey(s) == \A i, j \in DOMAIN s : s[i] # J!Null /\ (s[i][1] = s[j][1] => i = j)

Families == {"ParsedText", "WrappedText", "IntegerArithmetic", "Quotient", "Rounded", "Summed", "Day", "Interval", "OneCondition", "ManyConditions", "Expression", "NestedSubqueries", "SavedRow", "SavedTable", "Directory", "Dump", "PreparedText", "TypedText", "Script", "Table", "Conversation", "ProcedureBody", "TriggerChain", "InsertRows", "PlannedJoin", "PlainJoin", "JoinAlgorithms", "JoinChain", "GroupedSelect", "SelectClauses", "WindowOverRows", "SetOperation", "RecursiveCte", "DerivedTables", "UniqueUpdate", "MergeRows", "WriteOverJoin", "Routed", "RoutedInsert"}
Init == \E f \in Families : case = [kind |-> "start", family |-> f]
Fresh(f) == case = [kind |-> "start", family |-> f]

\* An inner join as the planner plans it.
PlannedJoin ==
  /\ Fresh("PlannedJoin")
  /\ \E l, r \in UpTo(KeyTexts, 2), w \in {"none", "left", "right"}, e \in {2, 8}, d \in {0, 4, 7}, x \in {0, 5},
        ix \in {"none", "right_pk", "left_pk", "left_secondary", "left_hash"}, t, f \in BOOLEAN :
       /\ ix = "right_pk" => IsKey(r)
       /\ ix = "left_pk" => IsKey(l)
       /\ x = 0 \/ ix \in {"left_secondary", "left_hash"}
       /\ case' = [kind |-> "join", left |-> l, right |-> r, type |-> "inner", on |-> "eq", where |-> w, cls |-> "number",
                   est |-> e, dead |-> d, extra |-> x, index |-> ix, txn |-> t, first |-> f, aliased |-> FALSE]

\* Any join of two tables without an index.
PlainJoin ==
  /\ Fresh("PlainJoin")
  /\ \E l, r \in UpTo(KeyTexts, 2), w \in {"none", "left", "right", "right_null", "both"},
        ty \in {"inner", "left", "right", "full", "cross"}, o \in {"eq", "eq_and", "less"},
        cl \in {"number", "text", "mixed"}, al \in BOOLEAN :
       case' = [kind |-> "join", left |-> l, right |-> r, type |-> ty, on |-> o, where |-> w, cls |-> cl,
                est |-> Len(l), dead |-> 0, extra |-> 0, index |-> "none", txn |-> FALSE, first |-> TRUE, aliased |-> al]

\* The algorithms side by side.
JoinAlgorithms ==
  /\ Fresh("JoinAlgorithms")
  /\ \E l, r \in UpTo(KeyTexts, 3), ty \in {"inner", "left", "right"} :
       case' = [kind |-> "algorithms", left |-> l, right |-> r, type |-> ty, on |-> "eq", where |-> "none", cls |-> "number"]

\* Chains of three joins that are in scope as they are written.
JoinChain ==
  /\ Fresh("JoinChain")
  /\ \E r2 \in SUBSET (0..1), r3 \in SUBSET (0..2), size \in [1..3 -> {1, 3}], equi \in [1..3 -> BOOLEAN] :
       case' = [kind |-> "chain", base |-> 2, refs |-> <<{0}, r2, r3>>, size |-> size, equi |-> equi]

\* A SELECT of one table: what its clauses do with up to three rows, lying in any order.
Values == {Sel!Null, <<1, 0>>, <<1, 1>>, <<2, 0>>}
Lying == {<<1, 2, 3>>, <<3, 1, 2>>}
RowsOf(G, V) == {[i \in DOMAIN s |-> [id |-> lie[i], g |-> s[i][1], v |-> s[i][2]]] : s \in UpTo(G \X V, 3), lie \in Lying}
Orders == {<<>>, <<[col |-> "v", asc |-> TRUE]>>, <<[col |-> "v", asc |-> FALSE]>>,
           <<[col |-> "count", asc |-> FALSE], [col |-> "g", asc |-> TRUE]>>}
GroupedSelect ==
  /\ Fresh("GroupedSelect")
  /\ \E rows \in RowsOf({Sel!Null, <<1, 0>>, <<1, 1>>}, {Sel!Null, <<1, 0>>, <<2, 0>>}), n \in {1, 2}, r \in BOOLEAN :
       case' = [kind |-> "groups", rows |-> rows,
                q |-> [group |-> n, rollup |-> r, agg |-> TRUE, having |-> FALSE, distinct |-> FALSE, show |-> {"g"},
                       order |-> <<>>, limit |-> Sel!NoLimit, offset |-> 0, path |-> "scan"]]
SelectClauses ==
  /\ Fresh("SelectClauses")
  /\ \E rows \in RowsOf({<<1, 0>>}, Values), n \in {0, 1, 2}, a, h, d \in BOOLEAN,
        o \in Orders, l \in {Sel!NoLimit, 0, 2}, f \in {0, 1}, p \in {"scan", "point", "range"} :
       /\ p # "scan" => \A i \in DOMAIN rows : rows[i].v # Sel!Null
       /\ p = "point" => \A i, j \in DOMAIN rows : rows[i].v[1] = rows[j].v[1]
       /\ a # (n > 0) => (n = 0 /\ o = <<>>) \/ p # "scan" \* a scan with GROUP BY is the same without aggregates
       /\ case' = [kind |-> "select", rows |-> rows,
                   q |-> [group |-> n, rollup |-> FALSE, agg |-> a, having |-> h, distinct |-> d, show |-> {"v"},
                          order |-> o, limit |-> l, offset |-> f, path |-> p]]

\* A window over up to three rows, the second in a partition of its own or not.
Bounds == [at : {"first", "here", "last"}, n : {0}] \cup [at : {"before", "after"}, n : {1, 2}]
Frames == {W!NoFrame} \cup {f \in [unit : {"rows", "range"}, start : Bounds, end : Bounds] :
                              f.start.at # "last" /\ f.end.at # "first" /\ (f.start.at = "here" => f.end.at # "before")
                              /\ (f.start.at = "after" => f.end.at \in {"after", "last"})}
WindowOverRows ==
  /\ Fresh("WindowOverRows")
  /\ \E o \in UpTo({W!Null, <<1, 0>>, <<1, 1>>, <<3, 0>>}, 3) \ {<<>>}, alone \in {0, 2},
        ord \in {"none", "asc", "desc"}, f \in Frames :
       /\ ord = "none" => f.unit # "range"
       /\ case' = [kind |-> "window", w |-> [order |-> ord, frame |-> f],
                   rows |-> [i \in DOMAIN o |-> [p |-> IF i = alone THEN 1 ELSE 2, o |-> o[i], v |-> IF i = 1 THEN W!Null ELSE <<i, 0>>]]]

\* UNION, INTERSECT and EXCEPT of two sides of up to three rows.
Cells == {Set!Null, <<1, 0>>, <<1, 1>>, <<2, 0>>}
SetOperation ==
  /\ Fresh("SetOperation")
  /\ \E l, r \in UpTo({<<c>> : c \in Cells}, 3), op \in {"union", "intersect", "except"}, all \in BOOLEAN,
        o \in {<<>>, <<[col |-> "a", nth |-> 0, asc |-> TRUE]>>, <<[col |-> "", nth |-> 1, asc |-> FALSE]>>}, cut \in {<<Set!NoLimit, 0>>, <<1, 1>>} :
       /\ o # <<>> \/ cut[2] = 0
       /\ Len(l) + Len(r) <= 4
       /\ case' = [kind |-> "setop", left |-> [names |-> <<"a">>, rows |-> l], right |-> [names |-> <<"b">>, rows |-> r],
                   q |-> [op |-> op, all |-> all, order |-> o, limit |-> cut[1], offset |-> cut[2]]]

\* A recursive CTE over a graph of three nodes.
RecursiveCte ==
  /\ Fresh("RecursiveCte")
  /\ \E edges \in UpTo({1, 2, 3} \X {1, 2, 3}, 3), base \in {<<>>, <<1>>, <<1, 1>>, <<1, 2>>}, cap \in {2, 5} :
       case' = [kind |-> "cte", edges |-> edges, base |-> base, cap |-> cap]

\* A SELECT of tables, views, derived tables and common table expressions, two deep; stopped or not.
From == [kind : {"table"}, name : {"t", "v", "w", "d"}] \cup {[kind |-> "info"]}
Over(Q) == [kind : {"derived"}, name : {"d", "v", "t"}, inner : Q]
           \cup [kind : {"join"}, name : {"t", "v", "d"}, alias : {"d", "v"}, inner : Q]
           \cup [kind : {"with"}, name : {"d", "v"}, inner : Q, rest : From]
OneView(q) == [x \in {"v"} |-> q]
DerivedTables ==
  /\ Fresh("DerivedTables")
  /\ \E q \in From \cup Over(From) \cup Over(Over(From)), left \in {0, 1, 2, 99}, body \in From, n \in {0, 1, 2} :
       /\ body.kind = "table" => body.name # "w"
       /\ n < 2 => body = [kind |-> "info"]
       /\ case' = [kind |-> "derived", q |-> q, left |-> left,
                   views |-> IF n = 0 THEN <<>>
                             ELSE IF n = 1 THEN OneView([kind |-> "table", name |-> "t"])
                             ELSE [x \in {"v", "w"} |-> IF x = "v" THEN body ELSE [kind |-> "table", name |-> "v"]]]

\* An UPDATE of some of three rows that changes a unique column.
Perms(n) == {s \in [1..n -> 1..n] : \A i, j \in 1..n : i # j => s[i] # s[j]}
UniqueUpdate ==
  /\ Fresh("UniqueUpdate")
  /\ \E old \in [1..3 -> {Wr!Null, <<1, 0>>, <<2, 0>>, <<3, 0>>}], T \in SUBSET (1..3), pk \in {<<1, 2, 3>>, <<3, 1, 2>>},
        by \in {<<>>} \cup Perms(3), ix, multi \in BOOLEAN :
       \E new \in [T -> {Wr!Null, <<1, 0>>, <<1, 1>>, <<2, 0>>, <<3, 0>>}] :
         /\ T # {} /\ ~Wr!TwoAtOnce(old)
         /\ by # <<>> => pk = <<1, 2, 3>> /\ ~ix
         /\ case' = [kind |-> "unique", u |-> [old |-> old, new |-> new, pk |-> pk, by |-> by, indexed |-> ix, multi |-> multi]]

\* MERGE of up to two rows into up to two.
Pairs(K, V) == [k : K, v : V]
MergeRows ==
  /\ Fresh("MergeRows")
  /\ \E t \in UpTo(Pairs({<<1, 0>>, <<2, 0>>}, {Wr!Null, <<1, 0>>, <<2, 0>>}), 2),
        s \in UpTo(Pairs({<<1, 1>>, <<2, 0>>, <<3, 0>>}, {<<1, 0>>, <<2, 0>>}), 2),
        on \in {"k", "v"}, u \in {"", "v", "k"}, d, uif, dif, f, ins, keyed \in BOOLEAN, kept \in {{}, {<<1, 0>>}} :
       /\ (on = "k" => \A i \in DOMAIN t : t[i].v = <<2, 0>>) /\ (on = "v" => kept = {} /\ \A i \in DOMAIN s : s[i].k # <<1, 1>>)
       /\ ~Wr!TwoAtOnce(Wr!Keys(t)) /\ (uif => u # "") /\ (dif => d) /\ (f => d /\ u # "") /\ (d \/ kept = {})
       /\ case' = [kind |-> "merge", m |-> [target |-> t, source |-> s, on |-> on, keyed |-> keyed, update |-> u, updateIf |-> uif,
                                            delete |-> d, deleteIf |-> dif, first |-> f, insert |-> ins, kept |-> kept]]

\* UPDATE and DELETE over a join of two or three tables of up to two rows.
Tab(n) == {[i \in DOMAIN s |-> [k |-> <<i, 0>>, v |-> s[i]]] : s \in UpTo({Wr!Null, <<1, 0>>, <<2, 0>>}, n)}
WriteOverJoin ==
  /\ Fresh("WriteOverJoin")
  /\ \E a, b \in Tab(2), c \in Tab(1), ts \in {<<"a", "b">>, <<"a", "b", "c">>}, types \in [1..2 -> {"inner", "left", "right"}],
        sets \in {[a |-> "b", b |-> "a"], [a |-> "b"]}, targets \in {{"a"}, {"a", "b"}} :
       /\ targets = {"a"} \/ DOMAIN sets = {"a", "b"}
       /\ Len(ts) = 2 => types[2] = "inner" /\ c = <<>>
       /\ case' = [kind |-> "multi", w |-> [tables |-> ts, types |-> types, data |-> [a |-> a, b |-> b, c |-> c], sets |-> sets, targets |-> targets]]

\* A partitioned table of up to two rows, a WHERE of up to two comparisons, an INSERT of up to two rows.
Infos == {[kind |-> "range", parts |-> <<<<2, 0>>, <<4, 0>>>>], [kind |-> "range", parts |-> <<<<2, 0>>, <<3, 0>>, P!Top>>],
          [kind |-> "list", parts |-> <<{<<1, 0>>, <<3, 0>>}, {<<2, 0>>}>>], [kind |-> "hash", parts |-> <<1, 2>>]}
Numbers == {<<1, 0>>, <<2, 0>>, <<3, 0>>, <<4, 0>>}
PRows(n) == UpTo([p : Numbers, k : {<<1, 0>>, <<3, 0>>}], n)
Wheres == UpTo([op : {"eq", "lt", "le", "gt", "ge"}, val : {<<2, 0>>, <<2, 1>>, <<3, 0>>, P!Column}] \cup [op : {"in"}, val : {{<<2, 0>>}, {<<2, 1>>, <<3, 0>>}}], 2)
Routing(info, rows) ==
  /\ \A i, j \in DOMAIN rows : i < j => rows[i].p[1] < rows[j].p[1]
  /\ \A i \in DOMAIN rows : P!ChildFor(info, rows[i].p) # 0
Routed ==
  /\ Fresh("Routed")
  /\ \E info \in Infos, rows \in PRows(2) :
       /\ Routing(info, rows)
       /\ \E where \in Wheres, l \in {1, 9}, o \in {"", "asc", "desc"} :
            /\ Len(where) = 2 => where[1].op \in {"lt", "le"} /\ where[2].op # "in" /\ l = 9
            /\ l = 9 => o = ""
            /\ case' = [kind |-> "routed", p |-> [info |-> info, rows |-> rows, more |-> <<>>, where |-> where, inTxn |-> FALSE, order |-> o, limit |-> l]]
RoutedInsert ==
  /\ Fresh("RoutedInsert")
  /\ \E info \in Infos, rows \in PRows(1), more \in PRows(2), t \in BOOLEAN :
       /\ Routing(info, rows)
       /\ case' = [kind |-> "routed", p |-> [info |-> info, rows |-> rows, more |-> more, where |-> <<>>, inTxn |-> t, order |-> "", limit |-> 9]]

\* INSERT, INSERT IGNORE, ON DUPLICATE KEY UPDATE and REPLACE of up to three rows into a table of up to two.
InsertRows ==
  /\ Fresh("InsertRows")
  /\ \E table \in {<<>>, <<[k |-> 1, u |-> 1]>>, <<[k |-> 1, u |-> 1], [k |-> 2, u |-> 2]>>},
        rows \in UpTo([k : {0, 1, 9}, u : {0, 1, 2}, fault : {"no"}], 3) \cup UpTo([k : {0, 1, 9}, u : {1, 2}, fault : {"no", "column", "check"}], 2),
        mode \in {"abort", "ignore", "update", "replace"}, c \in {0, 2, 3}, multi, fs \in BOOLEAN, a \in {"u", "other"}, kept \in {{}, {1}} :
       /\ c >= Len(table)
       /\ kept # {} => mode = "replace" /\ c = 2
       /\ a = "u" => mode = "update"
       /\ case' = [kind |-> "insert", q |-> [table |-> table, rows |-> rows, mode |-> mode, counter |-> c, multi |-> multi, fromSelect |-> fs, assign |-> a, kept |-> kept]]

\* CALL of a procedure: a loop of up to three statements, or a loop in a loop, and a statement after it.
Basics == {[op |-> "set", var |-> "x", from |-> "x", by |-> 1], [op |-> "write", table |-> "t", from |-> "x"]}
Signals(L) == [op : {"leave", "iterate"}, label : L]
Ifs(B) == {[op |-> "if", below |-> 1, then |-> <<s>>, other |-> <<>>] : s \in B}
          \cup {[op |-> "if", below |-> 2, then |-> <<>>, other |-> <<s>>] : s \in B}
LoopsOf(l, bodies) == [op : {"while", "repeat"}, label : {l}, below : {2}, body : bodies] \cup [op : {"loop"}, label : {l}, body : bodies]
Select1 == [op |-> "select"]
OneLoop == LoopsOf("l", UpTo(Basics \cup Ifs(Signals({"", "l", "k"})), 3) \ {<<>>})
TwoLoops == LoopsOf("l", {<<[op |-> "set", var |-> "x", from |-> "x", by |-> 1], i, t>> :
                           i \in LoopsOf("k", UpTo(Basics \cup Ifs(Signals({"", "l", "k"})), 2) \ {<<>>}), t \in Basics})
Calls == [op : {"call"}, proc : {"p", "q"}, arg : {"@u", "x", "one", "bad"}]
Bodies == {<<s, [op |-> "write", table |-> "a", from |-> "x"]>> : s \in OneLoop \cup TwoLoops}
          \cup UpTo(Basics \cup Calls \cup {Select1, [op |-> "fail"], [op |-> "ddl"], [op |-> "leave", label |-> ""], [op |-> "set", var |-> "@u", from |-> "x", by |-> 0]}
                     \cup Ifs({[op |-> "call", proc |-> "p", arg |-> "x"]}), 2)
ProcedureBody ==
  /\ Fresh("ProcedureBody")
  /\ \E b \in Bodies, u \in {0, 1}, kill \in {2, 99} :
       case' = [kind |-> "call", s |-> [op |-> "call", proc |-> "p", arg |-> "@u"], u |-> u, kill |-> kill, vars |-> [x |-> 7],
                e |-> [procs |-> [p |-> b, q |-> <<[op |-> "set", var |-> "x", from |-> "x", by |-> 1], [op |-> "write", table |-> "t", from |-> "x"]>>],
                       trigs |-> [x \in {} |-> <<>>]]]

\* A statement that writes t, whose triggers write a and change NEW; those of a write t again.
InTrigger == {[op |-> "write", table |-> "a", from |-> "NEW"], [op |-> "set", var |-> "NEW", from |-> "NEW", by |-> 1], [op |-> "set", var |-> "x", from |-> "NEW", by |-> 0],
              [op |-> "call", proc |-> "p", arg |-> "NEW"], [op |-> "ddl"], [op |-> "fail"],
              [op |-> "if", below |-> 2, then |-> <<[op |-> "set", var |-> "NEW", from |-> "x", by |-> 1]>>, other |-> <<[op |-> "write", table |-> "a", from |-> "x"]>>],
              [op |-> "loop", label |-> "l", body |-> <<[op |-> "leave", label |-> "l"], [op |-> "ddl"]>>],
              [op |-> "loop", label |-> "l", body |-> <<[op |-> "leave", label |-> "k"], [op |-> "ddl"]>>]} \cup Signals({"", "l"})
TriggerChain ==
  /\ Fresh("TriggerChain")
  /\ \E b \in UpTo(InTrigger, 2), ti, ta \in {"before", "after"}, second \in UpTo({[op |-> "write", table |-> "t", from |-> "NEW"], [op |-> "ddl"], [op |-> "set", var |-> "NEW", from |-> "one", by |-> 1]}, 1),
        pb \in {<<>>, <<[op |-> "write", table |-> "t", from |-> "x"]>>, <<[op |-> "call", proc |-> "p", arg |-> "x"]>>, <<[op |-> "ddl"]>>},
        s \in {[op |-> "write", table |-> "t", from |-> "one"], [op |-> "call", proc |-> "p", arg |-> "one"],
               [op |-> "while", label |-> "", below |-> 2, body |-> <<[op |-> "set", var |-> "x", from |-> "x", by |-> 1], [op |-> "write", table |-> "t", from |-> "x"]>>]} :
       case' = [kind |-> "trigger", s |-> s, u |-> 0, kill |-> 99, vars |-> [x |-> 1],
                e |-> [procs |-> [p |-> pb], trigs |-> [t |-> <<[timing |-> ti, body |-> b]>>, a |-> <<[timing |-> ta, body |-> second]>>]]]

\* A row of two columns; a table of two rows; up to three calls on the directory of a server that has files of the first
\* versions; a database of up to two tables that is backed up, and the one its backup is restored over.
Contents == UpTo({"q", "\\", "nl", "ctl", "l2", "l3", "c", "n"}, 3)
SavedRow ==
  /\ Fresh("SavedRow")
  /\ \E a \in Contents, b \in UpTo({"q", "\\", "c", "l2"}, 2) : case' = [kind |-> "row", row |-> <<a, b>>]
SavedTable ==
  /\ Fresh("SavedTable")
  /\ \E r \in UpTo({<<>>} \cup [1..2 -> UpTo({"q", "\\", "l2"}, 1)], 2) : case' = [kind |-> "rows", rows |-> r]
OldFiles == {<<"", "a", k>> : k \in {"rdb", "json", "schema"}} \cup {<<"", "indexes", "json">>}
DiskCalls == [call : {"save", "schema", "cut", "index", "delete", "dropdb"}, t : {<<"rusql", "a">>, <<"d", "a">>}, n : {6}]
             \cup [call : {"save", "delete"}, t : {<<"d", "indexes">>}, n : {6}]
             \cup [call : {"torn"}, t : {<<"rusql", "a">>}, n : {1, 3, 4, 5}] \cup [call : {"torn"}, t : {<<"d", "a">>}, n : {1}]
Directory ==
  /\ Fresh("Directory")
  /\ \E o \in SUBSET OldFiles, c \in UpTo(DiskCalls, 3) :
       case' = [kind |-> "directory", old |-> [p \in o |-> p[3]], ops |-> [i \in DOMAIN c |-> [call |-> c[i].call, t |-> c[i].t, n |-> c[i].n, x |-> <<"one", "two", "three">>[i]]]]
Dumped == [keyed : BOOLEAN, unique : BOOLEAN, rows : UpTo({<<<<"NULL">>, <<>>>>, <<<<"-", "-">>, <<"x">>>>, <<<<"'">>, <<"nl", "x">>>>, <<<<"x", ";">>, <<"\\">>>>, <<<<"nl", "-", "-">>, <<"'", "'">>>>}, 2)]
Server(dbs) == [dbs |-> dbs, cur |-> 1]
Dump ==
  /\ Fresh("Dump")
  /\ \E n \in 0..2, b \in BOOLEAN, asked \in 1..2 : \E d \in [1..n -> Dumped] :
       case' = [kind |-> "dump", one |-> Server([x \in {2} |-> d]), asked |-> asked,
                other |-> Server([x \in 1..(IF b THEN 2 ELSE asked) |-> [t \in 1..2 |-> [keyed |-> FALSE, unique |-> FALSE, rows |-> <<<<<<"x">>, <<"x">>>>>>]]])]


\* A prepared statement of up to four characters with up to two values.
PreparedText ==
  /\ Fresh("PreparedText")
  /\ \E t \in UpTo({"'", "\\", "bq", "?", "x", "=", "sp"}, 4),
        v \in UpTo({<<"5">>, <<"-", "5">>, <<"'">>, <<"\\">>, <<"?", "\\">>, <<"NULL">>, <<"x", "'">>}, 2) :
       /\ Len(v) <= Cardinality({i \in DOMAIN t : t[i] = "?"})
       /\ case' = [kind |-> "prepared", text |-> t, values |-> v]

\* Five characters of input; the rows of a table; a script of up to two statements; what is typed on up to three lines.
TypedText ==
  /\ Fresh("TypedText")
  /\ \E t \in UpTo({";", "'", "\\", "bq", "-", "nl", "/*", "*/", "/*!", "x"}, 4) \cup [1..5 -> {";", "'", "\\", "-", "nl", "/*", "*/"}] : case' = [kind |-> "typed", text |-> t]
Table ==
  /\ Fresh("Table")
  /\ \E w \in {0, 4}, c \in UpTo(UpTo({"\\", "nl", "|", "sp", "n", "s"}, 2), 2) \cup [1..1 -> [1..3 -> {"\\", "nl", "|", "sp", "n", "tab"}]] :
       case' = [kind |-> "table", cells |-> c, width |-> w]
Queries == {<<"SELECT", "x">>, <<"SELECT", "END", "FROM", "x">>, <<"SELECT", "CASE", "WHEN", "x", "THEN", "x", "END">>,
            <<"SELECT", "CASE", "WHEN", "x", "THEN", "END", "ELSE", "x", "END", ",", "x">>, <<"SELECT", "'", ";", "BEGIN", "'">>,
            <<"SELECT", "x", "AND", "END", "AND", "BEGIN">>}
InBlock == Queries \cup {<<"IF", "x", "THEN">> \o q \o <<";", "END", "IF">> : q \in Queries}
           \cup {<<"CASE", "x", "WHEN", "x", "THEN">> \o q \o <<";", "END", "CASE">> : q \in Queries}
           \cup {<<"BEGIN">> \o q \o <<";", "END">> : q \in Queries}
Scripts == Queries \cup {<<"BEGIN">>, <<"BEGIN", "WORK">>, <<"CREATE", "x", "(", "BEGIN", "INT", ",", "END", "INT", ")">>}
           \cup {<<"CREATE", "x", "BEGIN">> \o a \o <<";", "END">> : a \in InBlock}
           \cup {<<"CREATE", "x", "BEGIN">> \o a \o <<";">> \o b \o <<";", "END">> : a, b \in InBlock}
Script ==
  /\ Fresh("Script")
  /\ \E a \in Scripts, b \in Queries \cup {<<"BEGIN">>} : \E w \in {<<a>>, <<a, b>>, <<b, a>>} : case' = [kind |-> "script", statements |-> w]
Typed == {<<>>, <<"SELECT", "x">>, <<"SELECT", "x", ";">>, <<"x", ";", "sp">>, <<"x", ";", "SELECT">>, <<"x", ";", "SELECT", "x", ";">>, <<"SELECT", "'", ";">>, <<"'", ";">>,
          <<"CREATE", "BEGIN">>, <<"END", ";">>, <<"x", ";", "CREATE", "BEGIN">>, <<";">>, <<"help">>, <<"exit">>, <<"-", "-", ";">>, <<"\\", "status">>}
Conversation == Fresh("Conversation") /\ \E l \in UpTo(Typed, 4) : case' = [kind |-> "talk", lines |-> l]

\* Conditions of one comparison: with a value, a range, a list, a subquery of up to two rows.
Text(l, w, p, a) == [lead |-> l, whole |-> w, place |-> p, as |-> a]
Numerals == {Text(0, TRUE, 0, "0"), Text(7, TRUE, 3, "7"), Text(7, TRUE, 4, "7.0"), Text(10, TRUE, 2, "10")}
Words == {Text(0, FALSE, 6, "abc"), Text(0, FALSE, 6, "ABC"), Text(7, FALSE, 5, "7a")}
Columns(V) == [op : {"col"}, cls : {"Number"}, text : (V \cap Numerals) \cup {C!Null}] \cup [op : {"col"}, cls : {"Text", "Unknown"}, text : V \cup {C!Null}]
Columned == Columns(Numerals \cup Words)
Literals == [text : Numerals \cup Words, quoted : {TRUE}] \cup [text : Numerals \cup {C!Null}, quoted : {FALSE}]
Ops == {"eq", "ne", "lt", "ge"}
Answers(cls) == UpTo({C!Null} \cup (IF cls = "Number" THEN Numerals ELSE Numerals \cup Words), 2)
OneCondition ==
  /\ Fresh("OneCondition")
  /\ \/ \E l, r \in Columned, is \in Ops \cup {"null", "notnull", "gt", "le"} : case' = [kind |-> "leaf", c |-> [op |-> "compare", left |-> l, right |-> r, is |-> is]]
     \/ \E l \in Columned, lo, hi \in Literals, n \in BOOLEAN : case' = [kind |-> "leaf", c |-> [op |-> "between", left |-> l, lo |-> lo, hi |-> hi, neg |-> n]]
     \/ \E l \in Columned, v \in UpTo(Literals, 2) \ {<<>>}, n \in BOOLEAN : case' = [kind |-> "leaf", c |-> [op |-> "in list", left |-> l, list |-> v, neg |-> n]]
     \/ \E l \in Columned, rc \in {"Number", "Text", "Unknown"} : \E v \in Answers(rc) :
          \/ \E n, corr \in BOOLEAN : case' = [kind |-> "leaf", c |-> [op |-> "in", left |-> l, right_class |-> rc, values |-> v, neg |-> n, correlated |-> corr]]
          \/ \E is \in Ops, q \in {"any", "all"} : case' = [kind |-> "leaf", c |-> [op |-> "quantified", left |-> l, right_class |-> rc, values |-> v, is |-> is, quantifier |-> q]]
          \/ \E is \in Ops : case' = [kind |-> "leaf", c |-> [op |-> "scalar", left |-> l, right_class |-> rc, values |-> v, is |-> is]]
     \/ \E v \in Answers("Number"), n, mk \in BOOLEAN : case' = [kind |-> "leaf", c |-> [op |-> "exists", left |-> [op |-> "num", cls |-> "Number", text |-> C!One], values |-> v, neg |-> n, marked |-> mk]]
     \/ \E a, b \in Columns({Text(7, TRUE, 3, "7"), Text(7, TRUE, 4, "7.0"), Text(0, FALSE, 6, "abc")}), n \in BOOLEAN :
          \E v \in UpTo([1..2 -> {C!Null, Text(7, TRUE, 4, "7.0"), Text(0, FALSE, 6, "ABC")}], 2) :
            case' = [kind |-> "leaf", c |-> [op |-> "row in", left |-> a, row |-> <<a, b>>, values |-> v, neg |-> n]]

\* AND, OR and NOT, three deep, over conditions that are true, false, unknown, and one that fails.
NumberOf(t) == [op |-> "num", cls |-> "Number", text |-> t]
Compared(is, t) == [op |-> "compare", left |-> NumberOf(C!One), right |-> NumberOf(t), is |-> is]
Leaves == {Compared("eq", C!One), Compared("eq", C!Zero), Compared("ne", C!Null), [op |-> "scalar", left |-> NumberOf(C!One), right_class |-> "Number", values |-> <<C!One, C!Zero>>, is |-> "eq"]}
Grown(T) == T \cup [op : {"and", "or"}, lhs : T, rhs : T] \cup [op : {"not"}, inner : T]
ManyConditions == Fresh("ManyConditions") /\ \E c \in Grown(Grown(Leaves)) : case' = [kind |-> "tree", c |-> c]

\* COALESCE, NULLIF and CASE of two columns or constants, compared with a column.
Operands == Columned \cup {[op |-> "str", cls |-> "Text", text |-> t] : t \in {C!Null, Text(7, TRUE, 3, "7")}}
Expression ==
  /\ Fresh("Expression")
  /\ \E a, b \in Operands, r \in Columns({Text(7, TRUE, 4, "7.0"), Text(0, FALSE, 6, "ABC")}), o \in {"coalesce", "nullif", "case"}, w \in Leaves \ {x \in Leaves : x.op = "scalar"} :
       /\ o # "case" => w = Compared("eq", C!One)
       /\ case' = [kind |-> "expr", c |-> [op |-> "compare", left |-> a, right |-> r, is |-> "eq"],
                   e |-> IF o = "case" THEN [op |-> o, args |-> <<a, b>>, when |-> [op |-> "pred", cond |-> w]] ELSE [op |-> o, args |-> <<a, b>>]]

\* A subquery three deep, asked for up to three rows by one or two statements of a procedure.
Nest(refs, at, inner) == [kind : {"cond", "value"}, refs : SUBSET refs, union : BOOLEAN, inner : inner, at : {at}, vals : {[x \in {0} |-> 1]}]
Nested == Nest({1}, 1, {<<>>} \cup {<<q>> : q \in Nest({1, 2}, 2, {<<>>} \cup {<<r>> : r \in {n \in Nest({1, 2, 3}, 3, {<<>>}) : ~n.union}})})
Again(q) == LET set(n) == [n EXCEPT !.vals = [x \in {0} |-> 2]]
            IN  IF q.inner = <<>> THEN set(q)
                ELSE IF q.inner[1].inner = <<>> THEN [set(q) EXCEPT !.inner = <<set(q.inner[1])>>]
                ELSE [set(q) EXCEPT !.inner = <<[set(q.inner[1]) EXCEPT !.inner = <<set(q.inner[1].inner[1])>>]>>]
NestedSubqueries ==
  /\ Fresh("NestedSubqueries")
  /\ \E q \in Nested, rows \in {<<1, 2>>, <<1, 2, 1>>}, w \in {{}, {1}}, asks \in BOOLEAN :
       LET one == [q |-> q, rows |-> rows, writes |-> w, asks |-> asks]
       IN  /\ asks => w # {}
           /\ \E more \in {<<>>, <<[one EXCEPT !.q = Again(q)]>>} : case' = [kind |-> "nested", statements |-> <<one>> \o more]

\* Integers near zero and near the limits; decimals of up to two places; the sums of up to three; days around the turn of a
\* century and of the year 0; times of the days around 1970.
Edge == (-3..3) \cup {-10000, -9999, -5000, -4999, -100, -99, 99, 100, 101, 4999, 5000, 9998, 9999}
Decimals(S) == [u : S, s : 0..2]
IntegerArithmetic == Fresh("IntegerArithmetic") /\ \E op \in {"+", "-", "*"}, a, b \in Edge : case' = [kind |-> "integers", op |-> op, a |-> a, b |-> b]
Quotient == Fresh("Quotient") /\ \E a, b \in Decimals(-14..14) : case' = [kind |-> "quotient", a |-> a, b |-> b]
Rounded == Fresh("Rounded") /\ \E d \in Decimals(-160..160), p \in -3..2 : case' = [kind |-> "rounded", d |-> d, places |-> p]
Summed == Fresh("Summed") /\ \E v \in UpTo(Decimals({-999, -40, -1, 0, 5, 10, 100, 998, 1000}), 3) : case' = [kind |-> "sum", values |-> v]
Day == Fresh("Day") /\ \E z \in {-719528, -25932, 10591, 47116}, n \in -3..800 : case' = [kind |-> "day", z |-> z + n]
Interval ==
  /\ Fresh("Interval")
  /\ \E d \in {-400, -31, -1, 0, 30, 58, 59, 60, 789}, s \in {0, 1, 3599, 86399}, mi \in {0, 1, 9}, n \in {-25, -13, -10, -1, 0, 1, 2, 11, 13, 25},
        unit \in {"month", "quarter", "year", "day", "hour", "second", "microsecond"} :
       case' = [kind |-> "interval", t |-> [date |-> Num!civil_from_days(d), sec |-> s, micro |-> mi], unit |-> unit, n |-> n]

\* Two operators over three operands, with NOT or a minus before them and with parentheses; and such a text inside another.
Operators == {"OR", "AND", "=", "<=", "<=>", "XOR", "|", "&", "<<", "+", "-", "||", "*", "/", "^", "%", "DIV"}
OnePerLevel == Operators \ {"<=", "XOR", "+", "/", "^", "%"}
TextOf(X, Y, Z, O) == [x : X, y : Y, z : Z, o1 : O, o2 : O, sign : {"", "NOT", "-"}, group : {"", "left", "right"}]
ParsedText == Fresh("ParsedText") /\ \E q \in TextOf({"a", "1"}, {"b", "-1"}, {"c", "'it''s'", "'x\\\\b'", "[a b]"}, Operators) : case' = [kind |-> "parsed", q |-> q]
Inside(s) ==
  LET group == <<"(">> \o s \o <<")">>
  IN  {group, <<"NOT">> \o group, s \o <<"AND", "NOT", "EXISTS", "(", "SELECT", ")">>, s \o <<"IS", "NOT", "true">>, group \o <<"IS", "NULL">>,
       <<"a", "IN", "(">> \o s \o <<",", "1", ")">>, <<"a", "NOT", "IN", "(", "1", ",">> \o s \o <<")">>, group \o <<"IN", "(", "1", ",", "'s'", ",", "NULL", ")">>,
       group \o <<"IN", "(", "SELECT", ")">>, <<"a", "NOT", "BETWEEN">> \o s \o <<"AND", "b">>, group \o <<"BETWEEN", "1", "AND", "'s'">>,
       group \o <<"LIKE", "'x\\%'">>, <<"a", "IN", "(", "'it''s'", ",", "'x\\%'", ")", "AND">> \o group, <<"[a b]">>, <<"(", "[a b]", ")">>, <<"a", "LIKE">> \o s, <<"a", "LIKE">> \o group, s \o <<"=", "NULL">>, <<"a", "<", "(", "SELECT", ")", "+">> \o s, <<"a", "=", "ANY", "(", "SELECT", ")", "OR">> \o s,
       <<"(", "a", ",">> \o s \o <<")", "<", "(", "1", ",", "b", ")">>, <<"(", "a", ",", "b", ")", "NOT", "IN", "(", "(", "1", ",", "2", ")", ",", "(">> \o s \o <<",", "c", ")", ")">>,
       <<"(", "a", ",">> \o group \o <<")", "IN", "(", "SELECT", ")">>, <<"CASE", "WHEN">> \o s \o <<"THEN">> \o s \o <<"END">>,
       <<"CASE", "a", "WHEN", "NULL", "THEN", "1", "WHEN">> \o group \o <<"THEN", "b", "ELSE">> \o s \o <<"END">>, <<"IF", "(">> \o s \o <<",", "1", ",">> \o s \o <<")", "*", "b">>,
       <<"CAST", "(">> \o s \o <<"AS", "SIGNED", ")">>, <<"f", "(", "a", ",">> \o s \o <<")", "-">> \o group, <<"DATE_ADD", "(", "a", ",", "INTERVAL">> \o group \o <<"DAY", ")">>,
       <<"a", "-", "INTERVAL">> \o group \o <<"DAY">>, <<"SUM", "(">> \o s \o <<")", ">", "1">>, <<"SUM", "(", "SUM", "(">> \o s \o <<")", ")", "/", "~">> \o group}
WrappedText == Fresh("WrappedText") /\ \E q \in TextOf({"a"}, {"b"}, {"c"}, OnePerLevel) : \E ts \in Inside(Pa!Written(q)) : case' = [kind |-> "wrapped", text |-> ts]

Next ==
  \/ ParsedText
  \/ WrappedText
  \/ IntegerArithmetic
  \/ Quotient
  \/ Rounded
  \/ Summed
  \/ Day
  \/ Interval
  \/ OneCondition
  \/ ManyConditions
  \/ Expression
  \/ NestedSubqueries
  \/ SavedRow
  \/ SavedTable
  \/ Directory
  \/ Dump
  \/ PreparedText
  \/ TypedText
  \/ Table
  \/ Script
  \/ Conversation
  \/ ProcedureBody
  \/ TriggerChain
  \/ InsertRows
  \/ PlannedJoin
  \/ PlainJoin
  \/ JoinAlgorithms
  \/ JoinChain
  \/ GroupedSelect
  \/ SelectClauses
  \/ WindowOverRows
  \/ SetOperation
  \/ RecursiveCte
  \/ DerivedTables
  \/ UniqueUpdate
  \/ MergeRows
  \/ WriteOverJoin
  \/ Routed
  \/ RoutedInsert

Spec == Init /\ [][Next]_case

\* Whatever the planner chooses, whichever rows the WHERE has taken out beforehand and whatever
\* else is open, a join returns the rows its type means; the hash joins return them in the order
\* of the nested loop; and a chain that is reordered names in every ON only tables that are there.
JoinsAgree ==
  /\ case.kind = "join" => J!SameRows(J!ExecJoin(case), J!JoinMeaning(case))
  /\ case.kind = "algorithms" =>
       LET ls == J!Ids(case.left)
           rs == J!Ids(case.right)
           loop == J!NestedLoopJoin(case, ls, rs)
       IN  /\ J!SameRows(loop, J!JoinMeaning(case))
           /\ J!SameRows(J!SortMergeJoin(case, ls, rs), J!JoinMeaning(case))
           /\ J!HashJoin(case, ls, rs) = loop
           /\ J!HashedJoinVerified(case, ls, rs) = loop
  /\ case.kind = "chain" =>
       /\ J!InScope(case, J!ReorderJoins(case))
       /\ J!InScope(case, J!ReorderGreedy(case, {}, 1..3))

\* GROUP BY makes one row of each key there is (7 and 7.0 are one, the NULLs are one), with the
\* aggregates of its rows; ROLLUP adds the total of each prefix of a key, after the rows it
\* counts; aggregates without GROUP BY are one row.  HAVING, ORDER BY, DISTINCT, OFFSET and LIMIT do
\* to a result what they say, and a range of an index, with or without LIMIT, answers what the scan
\* does.  Excepted, without GROUP BY: OFFSET or LIMIT with DISTINCT or aggregates (the rows are cut
\* first) and DISTINCT with aggregates; and GROUP BY without aggregates or HAVING on an index path,
\* which looks at neither.
SelectsAsMeant ==
  /\ case.kind = "groups" => Sel!GroupsAsMeant(case.q, case.rows)
  /\ case.kind = "select" => Sel!SelectAsMeant(case.q, case.rows)

\* Ranks, frames and frame aggregates are those the window means, row by row: ties, NULLs, DESC,
\* frames that reach over an edge of the partition and frames with no row included.
WindowsAsMeant ==
  case.kind = "window" => \A r \in DOMAIN case.rows : W!WindowAsMeant(case.w, case.rows, r)

\* UNION, INTERSECT and EXCEPT, with and without ALL, return each row as often as they mean, in the
\* order asked for and under the names of the left side; a recursive CTE returns what its term leads
\* to, whether a turn reads the last turn's rows or all of them.
SetOpsAsMeant ==
  /\ case.kind = "setop" => /\ Set!SetOpAsMeant(case.q, case.left, case.right)
                            /\ Set!FailsOnlyUnnamed(case.q, case.left, case.right)
  /\ case.kind = "cte" => Set!CteAsMeant(case.edges, case.base, case.cap)

\* A query leaves the tables and the views of the database as it found them, whether it answers or
\* fails on the way (a name that is taken, a table that is not there, a view of itself); so does one that
\* is stopped before it has made a table, or in a common table expression.  What a stopped query leaves
\* behind is a table it made, and a view it leaves out is one whose rows it was reading.
DerivedRestores ==
  case.kind = "derived" => D!DerivedRestores({"t"}, case.views, case.left, case.q)

\* A SELECT answers what it means through its clauses, its windows, the set operations over it and the tables
\* that stand for its views and subqueries (executor_select.cpp, executor_window.cpp, executor_setop.cpp, executor_cte.cpp).
QueriesAsMeant == SelectsAsMeant /\ WindowsAsMeant /\ SetOpsAsMeant /\ DerivedRestores

\* An UPDATE is refused for a unique key exactly when its rows, written one by one in every order a plan may take, clash;
\* a MERGE does what its clauses say of each row, as a whole or not at all, except one that moves a row to the key of another
\* it inserts or moves a row it also deletes; an UPDATE or a DELETE over a join changes the rows the join matched and no
\* other, from the values there were before it.
RowsWrittenAsMeant ==
  /\ case.kind = "unique" => Wr!UniqueAsMeant(case.u)
  /\ case.kind = "merge" => Wr!MergeAsMeant(case.m)
  /\ case.kind = "multi" => Wr!MultiAsMeant(case.w)

\* A partitioned table answers SELECT, DELETE and INSERT as a plain table with its rows does, whichever partitions
\* the WHERE was narrowed to, and a locking read's gap covers every key it took; except a DELETE with a LIMIT over several
\* partitions, which takes that many rows of each.
RoutedAsMeant == case.kind = "routed" => P!RoutedAsMeant(case.p)

\* INSERT in all its forms: one row per key, nothing left of a statement that fails, the rows its rows make one by one, and
\* numbers that no row has, of which LAST_INSERT_ID() is the first that was given to a row.
InsertsAsMeant == case.kind = "insert" => Ins!InsertAsMeant(case.q)

\* A statement that writes rows leaves the rows it means, or none: UPDATE, DELETE and MERGE, INSERT in its forms, and each of
\* them on a partitioned table (executor_update.cpp, executor_merge.cpp, executor_multi.cpp, executor_dml.cpp, executor_partition.cpp).
WritesAsMeant == RowsWrittenAsMeant /\ RoutedAsMeant /\ InsertsAsMeant

\* A CALL does what the statements of its body mean, LEAVE and ITERATE out of nested loops included, and gives the caller
\* its variables back however it ends; triggers give the session back its variables, and keep their signals to themselves
\* except a LEAVE or ITERATE that no loop of the trigger takes, which they leave behind; and what is decided of a statement
\* before it runs (it writes nothing; the redo log describes all it writes) is true of what it then does.
ProceduresAsMeant ==
  case.kind \in {"call", "trigger"} =>
    Pr!StatementAsMeant(case.kind, case.e, case.s, Pr!Start(case.vars, case.u, case.kill))

\* A prepared statement runs with the values it was given: EXECUTE whatever quotes and backslashes they hold, the binary
\* protocol with strings of any quotes and no backslash (mysql.cpp:669), both where no "?" touches a word or a value or is in
\* a comment; a result table is read as it was written; a text is cut into statements where they were put together, each of which the lexer reads as one;
\* and the client gets an answer to each statement it sent.
TextsAsMeant ==
  /\ case.kind = "prepared" => Tx!PreparedAsMeant(case.text, case.values) /\ Tx!BoundAsMeant(case.text, case.values)
  /\ case.kind = "table" => Tx!CellsAsMeant(case.cells, case.width)
  /\ case.kind = "typed" => Tx!PiecesAreStatements(case.text)
  /\ case.kind = "script" => Tx!CutAsWritten(case.statements)
  /\ case.kind = "talk" => Tx!ConversationAsMeant(case.lines)

\* A row, a table and a database are read back as they were written, a table also from the files of the first versions;
\* a write that a crash cuts off leaves the file as it was, a DROP that one cuts off the table, nothing, or an older file of it.
\* Except: a table called indexes, the files without a database when "rusql" is dropped, a database restored under another
\* name, unique keys, and values with a ";", a backslash or a line that begins with "--" (DirectoryAsMeant, DumpAsMeant).
FilesAsMeant ==
  /\ case.kind = "row" => F!RowReadsBack(case.row)
  /\ case.kind = "rows" => F!TableReadsBack(case.rows)
  /\ case.kind = "directory" => F!DirectoryAsMeant(case.old, case.ops)
  /\ case.kind = "dump" => F!DumpAsMeant(2, case.one, case.other, case.asked)

\* An integer that overflows is told without being made; quotients, roundings, sums and averages are the exact ones whatever the
\* order and the scales, and are given up only when an integer does not hold them; days are counted as the calendar has them.
NumbersAsMeant ==
  /\ case.kind = "integers" => Num!IntegersAsMeant(case.op, case.a, case.b)
  /\ case.kind = "quotient" => Num!QuotientAsMeant(case.a, case.b)
  /\ case.kind = "rounded" => Num!RoundedAsMeant(case.d, case.places)
  /\ case.kind = "sum" => Num!SumAsMeant(case.values)
  /\ case.kind = "day" => Num!CalendarAsMeant(case.z)
  /\ case.kind = "interval" => Num!IntervalAsMeant(case.t, case.unit, case.n)

\* A condition answers true, false or unknown as SQL means it, through every operator, list, subquery and kept set of keys, and a
\* leaf that fails does not decide what is decided without it; a subquery answers for the row, the enclosing queries and the data
\* it is asked with, though answers are kept by the address of a node, where the next copy of it may lie.
ConditionsAsMeant ==
  /\ case.kind = "leaf" => C!LeafAsMeant(case.c)
  /\ case.kind = "tree" => C!TreeAsMeant(case.c)
  /\ case.kind = "expr" => C!ExprAsMeant(case.e, case.c)
  /\ case.kind = "nested" => Sub!AnswersAsMeant(case.statements)

TextAsMeant(text) == Pa!GrammarsAgree(text) /\ Pa!ReadsBack(text)

\* A text is the expression that the levels of its operators make of it; it is the same condition in a WHERE as it is a value in a
\* select list, however a parenthesis begins; and what is kept as text (the argument of an aggregate) is read back as what it was,
\* except a column after LIKE, a condition after INTERVAL, a string with a backslash and a name that needs backquotes.
ParsingAsMeant ==
  /\ case.kind = "parsed" => Pa!ParsedAsMeant(case.q)
  /\ case.kind \in {"parsed", "wrapped"} => TextAsMeant(IF case.kind = "parsed" THEN Pa!Written(case.q) ELSE case.text)

\* An expression has the value SQL gives it: the text is read as it is meant, conditions in three values, subqueries with their kept
\* answers, numbers and dates (parser_expr.cpp, executor_where.cpp, executor_subquery.cpp, executor_eval.cpp).
ExpressionsAsMeant == ParsingAsMeant /\ ConditionsAsMeant /\ NumbersAsMeant

=============================================================================
