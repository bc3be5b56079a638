------------------------------- MODULE Files -------------------------------
(***************************************************************************)
(* What is written and read back: a row as JSON (row_json.cpp), the file   *)
(* of a table and the directory the files are in (disk.cpp), and the SQL   *)
(* text of BACKUP, which RESTORE cuts into statements and runs             *)
(* (executor_backup.cpp).                                                  *)
(*                                                                         *)
(* Texts are sequences of atoms as in Texts; "q" is the double quote,      *)
(* "ctl" a control character, "l2" and "l3" the first byte of a character  *)
(* of two and of three bytes, "c" a byte that continues one.  A row maps   *)
(* its columns, numbers here, to texts.                                    *)
(***************************************************************************)
EXTENDS Integers, Sequences, FiniteSets, SequencesExt
T == INSTANCE Texts

Failed == [ok |-> FALSE]
Utf8Length(s, i) ==
  LET more(n) == \A k \in 1..n : T!At(s, i + k) = "c"
  IN  CASE T!At(s, i) = "l2" /\ more(1) -> 2
        [] T!At(s, i) = "l3" /\ more(2) -> 3
        [] OTHER -> 0
RECURSIVE Valid(_, _)
Valid(s, i) == i > Len(s) \/ (IF s[i] \in {"l2", "l3", "c"} THEN Utf8Length(s, i) > 0 /\ Valid(s, i + Utf8Length(s, i)) ELSE Valid(s, i + 1))
IsUtf8(s) == Valid(s, 1)

\* append_json_string: text that is not UTF-8 makes the writer throw.
Escapes == [x \in {"q", "\\", "nl", "ctl"} |-> CASE x = "q" -> "q" [] x = "\\" -> "\\" [] x = "nl" -> "n" [] OTHER -> "u0001"]

\* Mutant: the backslash is written as it is.
BugEscaped(s, i) == IF s[i] \in DOMAIN Escapes \ {"\\"} THEN <<"\\", Escapes[s[i]]>> ELSE <<s[i]>>
Escaped(s, i) == IF s[i] \in DOMAIN Escapes THEN <<"\\", Escapes[s[i]]>> ELSE <<s[i]>>
AppendJsonString(s) ==
  LET out[n \in 0..Len(s)] == IF n = 0 THEN <<"q">> ELSE out[n - 1] \o Escaped(s, n)
  IN  IF IsUtf8(s) THEN [ok |-> TRUE, text |-> Append(out[Len(s)], "q")] ELSE Failed

RECURSIVE ReadJsonString(_, _, _)
\* read_json_string from after the opening quote: [ok, value, next].
ReadJsonString(s, i, value) ==
  LET back == [y \in {"q", "\\", "n", "u0001"} |-> CASE y = "n" -> "nl" [] y = "u0001" -> "ctl" [] OTHER -> y]
      wide == Utf8Length(s, i)
  IN  IF i > Len(s) \/ s[i] \in {"nl", "ctl", "c"} THEN Failed
      ELSE IF s[i] \in {"l2", "l3"} THEN IF wide = 0 THEN Failed ELSE ReadJsonString(s, i + wide, value \o SubSeq(s, i, i + wide - 1))
      ELSE IF s[i] = "q" THEN [ok |-> TRUE, value |-> value, next |-> i + 1]
      ELSE IF s[i] # "\\" THEN ReadJsonString(s, i + 1, Append(value, s[i]))
      ELSE IF T!At(s, i + 1) \in DOMAIN back THEN ReadJsonString(s, i + 2, Append(value, back[s[i + 1]])) ELSE Failed

\* append_row_json, the columns in order; a column's name is its number.
Columns(row) == SetToSortSeq(DOMAIN row, LAMBDA a, b : a < b)
RowToJson(row) ==
  LET cols == Columns(row)
      cell(n) == <<"q", ToString(cols[n]), "q", ":">> \o AppendJsonString(row[cols[n]]).text
      out[n \in 0..Len(cols)] == IF n = 0 THEN <<"{">> ELSE out[n - 1] \o (IF n > 1 THEN <<",">> ELSE <<>>) \o cell(n)
  IN  IF \A c \in DOMAIN row : AppendJsonString(row[c]).ok THEN [ok |-> TRUE, text |-> Append(out[Len(cols)], "}")] ELSE Failed

RECURSIVE ReadFlatObject(_, _, _)
\* read_flat_object: the members from position i on, after those in row; names must increase.
Member(s, row, name, v) ==
  LET all == [c \in DOMAIN row \cup {name} |-> IF c = name THEN v.value ELSE row[c]]
  IN  CASE ~v.ok \/ (\E c \in DOMAIN row : c >= name) -> Failed
        [] v.ok /\ (\A c \in DOMAIN row : c < name) /\ T!At(s, v.next) = "}" -> [ok |-> v.next = Len(s), row |-> all]
        [] v.ok /\ (\A c \in DOMAIN row : c < name) /\ T!At(s, v.next) = "," -> ReadFlatObject(s, v.next + 1, all)
        [] OTHER -> Failed
ReadFlatObject(s, i, row) ==
  IF SubSeq(s, i + 2, i + 4) # <<"q", ":", "q">> \/ T!At(s, i) # "q" THEN Failed
  ELSE Member(s, row, CHOOSE n \in 0..9 : ToString(n) = T!At(s, i + 1), ReadJsonString(s, i + 5, <<>>))
Empty == [c \in {} |-> <<>>]
RowFromJson(s) == IF s = <<"{", "}">> THEN [ok |-> TRUE, row |-> Empty] ELSE IF T!At(s, 1) # "{" THEN Failed ELSE ReadFlatObject(s, 2, Empty)

\* A row is what its text says, and text that is no UTF-8 is refused.
IsRead(j, row) == IF \A c \in DOMAIN row : IsUtf8(row[c]) THEN j.ok /\ RowFromJson(j.text) = [ok |-> TRUE, row |-> row] ELSE ~j.ok
RowReadsBack(row) == IsRead(RowToJson(row), row)

-----------------------------------------------------------------------------
(* The file of a table: a header with the number of rows, then the packed  *)
(* rows, each after its length.  Packing (lz4) keeps the size, so a file   *)
(* that is cut does not unpack.                                            *)

Body(json) == FlattenSeq([i \in DOMAIN json |-> <<ToString(Len(json[i].text))>> \o json[i].text])
FileOf(count, body) == [ok |-> TRUE, count |-> count, size |-> Len(body), body |-> body]
Saved(json) == IF \E i \in DOMAIN json : ~json[i].ok THEN Failed ELSE FileOf(Len(json), Body(json))
SaveTable(rows) == Saved([i \in DOMAIN rows |-> RowToJson(rows[i])])

RECURSIVE ReadRows(_, _, _)
\* The rows of an unpacked file: none after the first that is cut; one that is no row is passed over.
Row(r) == IF r.ok THEN <<r.row>> ELSE <<>>
Reading(raw, pos, n, len) ==
  IF pos + len > Len(raw) THEN <<>> ELSE Row(RowFromJson(SubSeq(raw, pos + 1, pos + len))) \o ReadRows(raw, pos + len + 1, n - 1)
ReadRows(raw, pos, n) ==
  IF n = 0 \/ pos > Len(raw) THEN <<>> ELSE Reading(raw, pos, n, CHOOSE k \in 0..99 : ToString(k) = raw[pos])
LoadRdb(f) == IF Len(f.body) # f.size THEN <<>> ELSE ReadRows(f.body, 1, f.count)
ReadsBack(f, rows) == f.ok => LoadRdb(f) = rows
TableReadsBack(rows) == ReadsBack(SaveTable(rows), rows)

-----------------------------------------------------------------------------
(* The directory: the files by <<database, name, kind>>; the files of the  *)
(* first versions have no database, and are the tables of "rusql".         *)

Has(dir, p) == p \in DOMAIN dir
Written(dir, p, x) == [q \in DOMAIN dir \cup {p} |-> IF q = p THEN x ELSE dir[q]]
Unlinked(dir, S) == [q \in DOMAIN dir \ S |-> dir[q]]
Flat(t) == t[1] = "rusql"

\* load_table and load_schema: the database's file, else the one without a database.
LoadTable(dir, t) ==
  CASE Has(dir, <<t[1], t[2], "rdb">>) -> dir[<<t[1], t[2], "rdb">>]
    [] ~Has(dir, <<t[1], t[2], "rdb">>) /\ Flat(t) /\ Has(dir, <<"", t[2], "rdb">>) -> dir[<<"", t[2], "rdb">>]
    [] ~Has(dir, <<t[1], t[2], "rdb">>) /\ Flat(t) /\ ~Has(dir, <<"", t[2], "rdb">>) /\ Has(dir, <<"", t[2], "json">>) -> dir[<<"", t[2], "json">>]
    [] OTHER -> "none"
LoadSchema(dir, t) ==
  CASE Has(dir, <<t[1], t[2], "schema">>) -> dir[<<t[1], t[2], "schema">>]
    [] ~Has(dir, <<t[1], t[2], "schema">>) /\ Flat(t) /\ Has(dir, <<"", t[2], "schema">>) -> dir[<<"", t[2], "schema">>]
    [] OTHER -> "none"
\* delete_table removes the files one after the other, those of the database first; n of them when a crash stops it there.
Removed(t) == LET kinds(d) == <<<<d, t[2], "rdb">>, <<d, t[2], "json">>, <<d, t[2], "schema">>>>
              IN  kinds(t[1]) \o IF Flat(t) THEN kinds("") ELSE <<>>
DeleteTable(dir, t, n) == Unlinked(dir, {Removed(t)[i] : i \in DOMAIN Removed(t) \cap 1..n})
ListTables(dir) == {<<IF p[1] = "" THEN "rusql" ELSE p[1], p[2]>> : p \in {q \in DOMAIN dir : q[3] = "schema"}}
LoadIndexMeta(dir, d) ==
  CASE Has(dir, <<d, "indexes", "json">>) -> dir[<<d, "indexes", "json">>]
    [] ~Has(dir, <<d, "indexes", "json">>) /\ d = "rusql" /\ Has(dir, <<"", "indexes", "json">>) -> dir[<<"", "indexes", "json">>]
    [] OTHER -> "none"

\* One call on the directory; a crash in the middle of a write leaves the file as it was, and one with the suffix .tmp
\* ("cut"), one in the middle of a DROP leaves the files after the n-th ("torn").
Call(dir, op) ==
  CASE op.call = "save" -> Written(dir, <<op.t[1], op.t[2], "rdb">>, op.x)
    [] op.call = "schema" -> Written(dir, <<op.t[1], op.t[2], "schema">>, op.x)
    [] op.call = "cut" -> Written(dir, <<op.t[1], op.t[2], "tmp">>, op.x)
    [] op.call = "index" -> Written(dir, <<op.t[1], "indexes", "json">>, op.x)
    [] op.call = "dropdb" -> Unlinked(dir, {p \in DOMAIN dir : p[1] = op.t[1]})
    [] op.call = "torn" -> DeleteTable(dir, op.t, op.n)
    [] op.call = "delete" -> DeleteTable(dir, op.t, 6)
Called(dir, ops) == FoldLeft(LAMBDA d, op : Call(d, op), dir, ops)

\* What may be read of t after the calls, when `first` was read before them and `flat` are the contents of its files of the first
\* versions: what was last saved; nothing once it was dropped; either of the two, or what is in an older file, once a crash
\* stopped its DROP.
MayRead(ops, t, call, first, flat) ==
  LET step(r, op) ==
        CASE op.t = t /\ op.call = call -> [r EXCEPT !.may = {op.x}]
          [] op.t = t /\ op.call = "torn" -> [r EXCEPT !.may = @ \cup {"none"} \cup r.flat]
          [] (op.t = t /\ op.call = "delete") \/ (op.call = "dropdb" /\ op.t[1] = t[1]) -> [may |-> {"none"}, flat |-> {}]
          [] OTHER -> r
  IN  FoldLeft(step, [may |-> {first}, flat |-> flat], ops).may
FlatFiles(old, t, kinds) == {old[p] : p \in {<<"", t[2], k>> : k \in IF Flat(t) THEN kinds ELSE {}} \cap DOMAIN old}

\* After any calls a table reads as it was last saved and as nothing once it was dropped, also one whose files are of the first
\* versions; after a crash inside its DROP it may still be there, or its older file come back, which the newer one stood before.
\* Except: dropping a table called indexes (views, view_sql) removes the file <table>.json, that of the indexes, and dropping
\* the database "rusql" leaves the files that have no database.
DirectoryAsMeant(old, ops) ==
  LET dir == Called(old, ops)
      all == {<<"rusql", "a">>, <<"d", "a">>}
      meta == SelectSeq(ops, LAMBDA op : op.call \in {"index", "dropdb"})
      droppedIndexes == \E i \in DOMAIN ops : ops[i].t[2] = "indexes" /\ ops[i].call \in {"delete", "torn"}
      droppedFlat == \E i \in DOMAIN ops : ops[i].call = "dropdb" /\ Flat(ops[i].t)
  IN  droppedFlat \/
      /\ \A t \in all : /\ LoadTable(dir, t) \in MayRead(ops, t, "save", LoadTable(old, t), FlatFiles(old, t, {"rdb", "json"}))
                        /\ LoadSchema(dir, t) \in MayRead(ops, t, "schema", LoadSchema(old, t), FlatFiles(old, t, {"schema"}))
      /\ \A t \in all : t \in ListTables(dir) <=> LoadSchema(dir, t) # "none"
      /\ droppedIndexes \/ \A d \in {"rusql", "d"} :
           LoadIndexMeta(dir, d) \in MayRead([i \in DOMAIN meta |-> [meta[i] EXCEPT !.t[2] = ""]], <<d, "">>, "index", LoadIndexMeta(old, d), {})

-----------------------------------------------------------------------------
(* BACKUP and RESTORE.  A server is [dbs, cur]: its databases and the one  *)
(* in use; a database is a function from its tables to                     *)
(* [keyed, unique, rows], and a row is a sequence of values.  Databases    *)
(* and tables are named by numbers.                                        *)

Value(v) == IF v = <<"NULL">> THEN v ELSE T!Quoted(v, {"'"})
List(vs) == LET l[n \in 0..Len(vs)] == IF n = 0 THEN <<>> ELSE l[n - 1] \o (IF n > 1 THEN <<",", "sp">> ELSE <<>>) \o Value(vs[n]) IN l[Len(vs)]
InsertText(t, row) == <<"INSERT", "sp", "bq", t, "bq", "sp", "(">> \o List(row) \o <<")", ";", "nl">>

\* build_create_table_ddl: the columns and the primary key; not the unique keys.
CreateText(t, keyed) == <<"CREATE", "sp", "bq", t, "bq", "sp">> \o (IF keyed THEN <<"PRIMARY">> ELSE <<"(", ")">>) \o <<";", "nl">>
\* exec_backup: a comment, the database, then each table dropped, created and filled, in the order of the names.
BackupText(srv, d) ==
  LET db == srv.dbs[d]
      names == SetToSortSeq(DOMAIN db, LAMBDA a, b : a < b)
      table(n) == LET t == ToString(names[n]) tab == db[names[n]]
                  IN  <<"DROP", "sp", "bq", t, "bq", ";", "nl">> \o CreateText(t, tab.keyed)
                      \o FlattenSeq([i \in DOMAIN tab.rows |-> InsertText(t, tab.rows[i])])
  IN  <<"-", "-", "sp", "x", "nl", "DATABASE", "sp", "bq", ToString(d), "bq", ";", "nl", "USE", "sp", "bq", ToString(d), "bq", ";", "nl">>
      \o FlattenSeq([n \in DOMAIN names |-> table(n)])

RECURSIVE CutAt(_, _)
CutOff(s, c, i) == IF i > Len(s) THEN <<s>> ELSE <<SubSeq(s, 1, i - 1)>> \o CutAt(SubSeq(s, i + 1, Len(s)), c)
CutAt(s, c) == CutOff(s, c, T!Upto(s, 1, LAMBDA j : s[j] = c))
Comment(line) == LET t == T!Trim(line) IN T!At(t, 1) = "-" /\ T!At(t, 2) = "-"

\* exec_restore: cut at every ";", the lines that are comments left out.
Joined(lines) == FlattenSeq([i \in DOMAIN lines |-> (IF i > 1 THEN <<"nl">> ELSE <<>>) \o lines[i]])
Solid(piece) == T!Trim(Joined(SelectSeq(CutAt(piece, "nl"), LAMBDA l : ~Comment(l))))
Solids(cut) == SelectSeq([i \in DOMAIN cut |-> Solid(cut[i])], LAMBDA p : p # <<>>)
Pieces(s) == Solids(CutAt(s, ";"))

\* The statement a piece is run as; "error" when it is none.
IsNamed(toks) == Len(toks) >= 2 /\ \E n \in 0..9 : toks[2] = T!Tok("name", <<ToString(n)>>)
NameIn(toks) == CHOOSE n \in 0..9 : toks[2] = T!Tok("name", <<ToString(n)>>)
ValuesIn(toks) == SelectSeq(SubSeq(toks, 4, Len(toks) - 1), LAMBDA k : k # T!Tok("sym", ","))
RowOf(values) == [i \in DOMAIN values |-> IF values[i].kind = "str" THEN values[i].text ELSE <<values[i].text>>]
Parsed(toks) ==
  CASE Len(toks) = 2 /\ IsNamed(toks) /\ toks[1].kind = "sym" /\ toks[1].text \in {"DATABASE", "USE", "DROP"} ->
         [kind |-> toks[1].text, name |-> NameIn(toks)]
    [] Len(toks) >= 3 /\ IsNamed(toks) /\ toks[1] = T!Tok("word", <<"CREATE">>) ->
         [kind |-> "CREATE", name |-> NameIn(toks), keyed |-> toks[3] = T!Tok("sym", "PRIMARY")]
    [] Len(toks) >= 5 /\ IsNamed(toks) /\ toks[1] = T!Tok("sym", "INSERT") /\ toks[3] = T!Tok("sym", "(") /\ Last(toks) = T!Tok("sym", ")") ->
         [kind |-> "INSERT", name |-> NameIn(toks), row |-> RowOf(ValuesIn(toks))]
    [] OTHER -> [kind |-> "error", name |-> 0]
Statement(p) == Parsed(T!Lex(p))
Without(f, x) == [y \in DOMAIN f \ {x} |-> f[y]]
With(f, x, v) == [y \in DOMAIN f \cup {x} |-> IF y = x THEN v ELSE f[y]]
Run(srv, st) ==
  LET db == srv.dbs[srv.cur]
      now(tables) == [srv EXCEPT !.dbs[srv.cur] = tables]
  IN  CASE st.kind = "DATABASE" /\ st.name \notin DOMAIN srv.dbs -> [srv EXCEPT !.dbs = With(@, st.name, [t \in {} |-> <<>>])]
        [] st.kind = "USE" /\ st.name \in DOMAIN srv.dbs -> [srv EXCEPT !.cur = st.name]
        [] st.kind = "DROP" -> now(Without(db, st.name))
        [] st.kind = "CREATE" /\ st.name \notin DOMAIN db -> now(With(db, st.name, [keyed |-> st.keyed, unique |-> FALSE, rows |-> <<>>]))
        [] st.kind = "INSERT" /\ st.name \in DOMAIN db -> now([db EXCEPT ![st.name].rows = Append(@, st.row)])
        [] OTHER -> srv
\* RESTORE FROM the text DATABASE d.
Restore(srv, text, d) == FoldLeft(LAMBDA v, p : Run(v, Statement(p)), [srv EXCEPT !.cur = d], Pieces(text))

\* The tables of the database "from", backed up on one server and restored on another, are tables of the database "to" there.
Holds(srv, to, db) == to \in DOMAIN srv.dbs /\ \A t \in DOMAIN db : t \in DOMAIN srv.dbs[to] /\ srv.dbs[to][t] = db[t]
Restored(from, one, other, asked, to) == Holds(Restore(other, BackupText(one, from), asked), to, one.dbs[from])

\* Each is what it was, in the database RESTORE names, so long as no value holds a ";", a backslash or a line that looks
\* like a comment, no table has a unique key, and the database named is the one the backup was made of: the USE in the text
\* comes after the one RESTORE makes, so another name is not restored into.
DumpAsMeant(from, one, other, asked) ==
  LET db == one.dbs[from]
      useOverrides == asked # from
  IN  ~useOverrides /\ (\A t \in DOMAIN db : /\ ~db[t].unique
                            /\ \A i \in DOMAIN db[t].rows : \A j \in DOMAIN db[t].rows[i] :
                                 LET v == db[t].rows[i][j]
                                 IN  \A k \in DOMAIN v : v[k] \notin {";", "\\"} /\ ~(v[k] = "nl" /\ Comment(SubSeq(v, k + 1, Len(v)))))
      => Restored(from, one, other, asked, asked)
=============================================================================
