------------------------------ MODULE Catalog ------------------------------
(***************************************************************************)
(* The statements that define tables, indexes and databases                *)
(* (executor_ddl.cpp), what they keep in memory and what they write to the *)
(* disk, and what a restart reads back (executor_core.cpp).                *)
(*                                                                         *)
(* A name is a sequence of its parts between underscores: <<d, "a">> is    *)
(* the table a of the database d, the index i on it is kept under          *)
(* <<d, "a", "i">>, the code's "<table>_<index>", which is also the name   *)
(* of the table a_i.  The partition p of a is the table                    *)
(* <<d, "a", "", "p">>, the code's "<table>__<p>"; statements do not name  *)
(* it.  DDL holds the structural lock, so a statement is one step.         *)
(***************************************************************************)
EXTENDS Integers, SequencesExt, FiniteSets

CONSTANTS Databases,  \* the databases there may be
          Tables,     \* the names statements use for tables, <<database, name>>
          IndexNames, \* the names of indexes and of unique keys
          Columns,    \* the columns a table may have besides its key
          Partitions, \* the names of partitions
          Statements  \* bound: how many statements a behaviour has

VARIABLES
  schema,   \* catalog.tables: [cols, keys, fks, parts, parted] of each table
  trees,    \* indexes: what the tree under a key was built from, <<table>> or <<table, column>>
  meta,     \* index_meta, hash_index_meta and composite_indexes: [table, cols, kind] of each index
  perTable, \* the tables with an entry in table_locks, table_data_locks, table_stats
  dbs,      \* databases
  current,  \* current_db of the session, "" when there is none
  disk,     \* [schema, index]: the files of the tables, and of each database's indexes
  stale,    \* history: databases that have lost their last index without their file being written
  clashed,  \* history: a table and an index were kept under one name, or a RENAME took another table's tree along
  loose,    \* history: tables that a foreign key was declared against while there was none, or that went with their database
  told      \* statements so far

vars == <<schema, trees, meta, perTable, dbs, current, disk, stale, clashed, loose, told>>

Db(name) == name[1]
None == [x \in {} |-> x]
Key(t, i) == Append(t, i)
Child(t, p) == t \o <<"", p>>
WithParts(t) == {t} \cup {Child(t, p) : p \in schema[t].parts}
Without(f, S) == [x \in DOMAIN f \ S |-> f[x]]
Over(f, g) == [x \in DOMAIN f \cup DOMAIN g |-> IF x \in DOMAIN g THEN g[x] ELSE f[x]]
One(x, v) == [y \in {x} |-> v]
\* An entry of f under each name new gives; the first that comes keeps the name.
Moved(f, new(_)) == [y \in {new(x) : x \in DOMAIN f} |-> f[CHOOSE x \in DOMAIN f : new(x) = y]]
OfDb(m, d) == [k \in {x \in DOMAIN m : Db(x) = d} |-> m[k]]

Init ==
  /\ schema = None /\ trees = None /\ meta = None
  /\ perTable = {} /\ stale = {} /\ clashed = FALSE /\ loose = {} /\ told = 0
  /\ dbs = Databases
  /\ current \in Databases
  /\ disk = [schema |-> None, index |-> [d \in Databases |-> None]]

\* Mutant: nothing is written when there is no index left.
BugPersist(m) == [d \in Databases |-> IF \E k \in DOMAIN m : Db(k) = d THEN OfDb(m, d) ELSE disk.index[d]]
\* The file of every database that has an index is written; when none has one, that of the current database.
persist_index_meta(m) ==
  LET has == {Db(k) : k \in DOMAIN m}
  IN  [d \in Databases |-> IF d \in has \/ (has = {} /\ d = current) THEN OfDb(m, d) ELSE disk.index[d]]

\* Bound: a behaviour is not followed further once a tree is known to be damaged.
Tell == told < Statements /\ ~clashed /\ told' = told + 1

----------------------------------------------------------------------------
Schema(cols, keys, fks) == [cols |-> cols, keys |-> keys, fks |-> fks, parts |-> {}, parted |-> FALSE]
Fk(c, parent) == [in |-> c, ref |-> parent]
Missing(fks) == {fk.ref : fk \in fks} \ DOMAIN schema

\* exec_create with the partitions of the table; the parents of its foreign keys are not looked up.
exec_create(t, cols, fks, parts) ==
  /\ Tell /\ Db(t) \in dbs /\ t \notin DOMAIN schema
  /\ LET base == Schema(cols, {}, fks)
         made == Over([x \in {Child(t, p) : p \in parts} |-> base], One(t, [base EXCEPT !.parts = parts, !.parted = parts # {}]))
     IN  /\ schema' = Over(schema, made)
         /\ trees' = Over(trees, [x \in DOMAIN made |-> <<x>>])
         /\ perTable' = perTable \cup DOMAIN made
         /\ disk' = [disk EXCEPT !.schema = Over(@, made)]
  /\ loose' = loose \cup (Missing(fks) \ {t})
  /\ UNCHANGED <<meta, dbs, current>>

\* exec_create_index under a key: a tree that is there already is kept.
Treed(tr, key, t, cols) == IF Len(cols) > 1 \/ key \in DOMAIN tr THEN tr ELSE Over(tr, One(key, <<t, cols[1]>>))

\* exec_create_like: the columns, keys and indexes of the other table, without its foreign keys.
exec_create_like(t, from) ==
  /\ Tell /\ Db(t) \in dbs /\ from \in DOMAIN schema /\ t \notin DOMAIN schema
  /\ LET copy == Schema(schema[from].cols, schema[from].keys, {})
         secondary == {k \in DOMAIN meta : meta[k].table = from}
         there(k) == t \o SubSeq(k, Len(from) + 1, Len(k))
         index == [m \in {there(k) : k \in secondary} |-> [meta[CHOOSE k \in secondary : there(k) = m] EXCEPT !.table = t]]
         tree == [k \in {k \in DOMAIN index : index[k].kind = "btree"} |-> <<t, index[k].cols[1]>>]
     IN  /\ schema' = Over(schema, One(t, copy))
         /\ trees' = Over(tree, Over(trees, One(t, <<t>>)))
         /\ perTable' = perTable \cup {t}
         /\ meta' = Over(meta, index)
         /\ disk' = [schema |-> Over(disk.schema, One(t, copy)),
                     index |-> IF index = None THEN disk.index ELSE persist_index_meta(meta')]
  /\ UNCHANGED <<dbs, current, loose>>

\* Mutant: the indexes stay.
BugGone(out) ==
  /\ schema' = Without(schema, out) /\ trees' = Without(trees, out) /\ perTable' = perTable \ out
  /\ disk' = [disk EXCEPT !.schema = Without(@, out)]
  /\ UNCHANGED meta

\* What goes with the tables `out`: everything kept by their name, and their indexes.
Gone(out) ==
  LET index == {k \in DOMAIN meta : meta[k].table \in out}
  IN  /\ schema' = Without(schema, out)
      /\ trees' = Without(trees, out \cup {k \in index : meta[k].kind = "btree"})
      /\ meta' = Without(meta, index)
      /\ perTable' = perTable \ out
      /\ disk' = [schema |-> Without(disk.schema, out),
                  index |-> IF index = {} THEN disk.index ELSE persist_index_meta(meta')]

\* exec_drop: refused while the foreign key of another table refers to it.
exec_drop(t) ==
  /\ Tell /\ t \in DOMAIN schema
  /\ \A o \in DOMAIN schema \ {t} : \A fk \in schema[o].fks : fk.ref # t
  /\ Gone(WithParts(t))
  /\ UNCHANGED <<dbs, current, loose>>

----------------------------------------------------------------------------
\* exec_alter: the schema of t becomes sc, in memory and on the disk.  A partitioned table takes no such change.
Alter(t, sc) ==
  /\ ~schema[t].parted
  /\ schema' = [schema EXCEPT ![t] = sc]
  /\ disk' = [disk EXCEPT !.schema = Over(@, One(t, sc))]
  /\ UNCHANGED <<perTable, dbs, current>>
Altered(t, sc) == Alter(t, sc) /\ UNCHANGED <<trees, meta, loose>>

AddPartition(t, p) ==
  /\ schema[t].parted /\ p \notin schema[t].parts
  /\ LET made == Over(One(t, [schema[t] EXCEPT !.parts = @ \cup {p}]),
                      One(Child(t, p), [schema[t] EXCEPT !.parts = {}, !.parted = FALSE]))
     IN  /\ schema' = Over(schema, made)
         /\ disk' = [disk EXCEPT !.schema = Over(@, made)]
  /\ trees' = Over(trees, One(Child(t, p), <<Child(t, p)>>))
  /\ perTable' = perTable \cup {Child(t, p)}
  /\ UNCHANGED <<meta, dbs, current, loose>>

DropPartition(t, p) ==
  /\ p \in schema[t].parts
  /\ LET parent == One(t, [schema[t] EXCEPT !.parts = @ \ {p}])
     IN  /\ schema' = Over(Without(schema, {Child(t, p)}), parent)
         /\ disk' = [disk EXCEPT !.schema = Over(Without(@, {Child(t, p)}), parent)]
  /\ trees' = Without(trees, {Child(t, p)})
  /\ perTable' = perTable \ {Child(t, p)}
  /\ UNCHANGED <<meta, dbs, current, loose>>

AddColumn(t, c) == c \notin schema[t].cols /\ Altered(t, [schema[t] EXCEPT !.cols = @ \cup {c}])

\* The foreign keys of the column go with it; the indexes and keys that name it stay.
DropColumn(t, c) ==
  /\ c \in schema[t].cols
  /\ Altered(t, [schema[t] EXCEPT !.cols = @ \ {c}, !.fks = {fk \in @ : fk.in # c}])

\* A foreign key goes where its column goes, and the indexes follow; a key over several columns keeps the old name.
RenameColumn(t, c, to) ==
  /\ c \in schema[t].cols /\ to \notin schema[t].cols /\ ~schema[t].parted
  /\ LET as(x) == IF x = c THEN to ELSE x
         sc == [schema[t] EXCEPT !.cols = {as(x) : x \in @}, !.fks = {[fk EXCEPT !.in = as(@)] : fk \in @}]
         index(m) == IF m.table = t THEN [m EXCEPT !.cols = [i \in DOMAIN @ |-> as(@[i])]] ELSE m
     IN  /\ schema' = [schema EXCEPT ![t] = sc]
         /\ meta' = [k \in DOMAIN meta |-> index(meta[k])]
         /\ trees' = [k \in DOMAIN trees |-> IF k \in DOMAIN meta /\ meta[k].table = t THEN <<t, as(meta[k].cols[1])>> ELSE trees[k]]
         /\ disk' = [schema |-> Over(disk.schema, One(t, sc)), index |-> persist_index_meta(meta')]
  /\ UNCHANGED <<perTable, dbs, current, loose>>

AddForeignKey(t, c, parent) ==
  /\ c \in schema[t].cols /\ \A fk \in schema[t].fks : fk.in # c
  /\ Alter(t, [schema[t] EXCEPT !.fks = @ \cup {Fk(c, parent)}])
  /\ loose' = loose \cup Missing({Fk(c, parent)})
  /\ UNCHANGED <<trees, meta>>

DropForeignKey(t, fk) == fk \in schema[t].fks /\ Altered(t, [schema[t] EXCEPT !.fks = @ \ {fk}])

AddUniqueConstraint(t, n, cols) ==
  /\ cols \subseteq schema[t].cols
  /\ Altered(t, [schema[t] EXCEPT !.keys = @ \cup {[name |-> n, on |-> cols]}])

\* The entries under the table's name move, then every tree whose key begins with it, the one just moved and
\* those of other tables among them; what is there already under the new key stays.  The
\* foreign keys that refer to the table follow and the tables that hold them are saved.
RenameTable(t, to) ==
  /\ to \notin DOMAIN schema /\ ~schema[t].parted
  /\ LET under(k) == IsPrefix(t, k) /\ k # t
         after(k) == to \o SubSeq(k, Len(t) + 1, Len(k))
         name(k) == IF k = t THEN to ELSE k
         index(m) == IF m.table = t THEN [m EXCEPT !.table = to] ELSE m
         of(m) == IF m[1] = t THEN <<to>> \o Tail(m) ELSE m
         moved == Moved([k \in DOMAIN trees \ (IF to \in DOMAIN trees THEN {t} ELSE {}) |-> of(trees[k])], name)
         own == [k \in {x \in DOMAIN moved : ~under(x)} |-> moved[k]]
         fks(F) == {[fk EXCEPT !.ref = IF @ = t THEN to ELSE @] : fk \in F}
         now == Moved([x \in DOMAIN schema |-> [schema[x] EXCEPT !.fks = fks(@)]], LAMBDA x : IF x = t THEN to ELSE x)
         saved == {x \in DOMAIN now : x = to \/ \E fk \in now[x].fks : fk.ref = to}
     IN  /\ schema' = now
         /\ trees' = Over(Moved([k \in {x \in DOMAIN moved : under(x)} |-> moved[k]], after), own)
         /\ meta' = Moved([k \in DOMAIN meta |-> index(meta[k])], LAMBDA k : IF meta[k].table = t THEN after(k) ELSE k)
         /\ perTable' = (perTable \ {t}) \cup {to}
         /\ disk' = [schema |-> Without(Over(disk.schema, [x \in saved |-> now[x]]), {t}), index |-> persist_index_meta(meta')]
  /\ UNCHANGED <<dbs, current, loose>>

\* exec_create_index, ADD INDEX too.
exec_create_index(t, n, cols, kind) ==
  /\ \A k \in DOMAIN meta : meta[k].table = t => k # Key(t, n)
  /\ kind = "btree" \/ Len(cols) = 1
  /\ meta' = Over(One(Key(t, n), [table |-> t, cols |-> cols, kind |-> IF Len(cols) = 1 THEN kind ELSE "composite"]), meta)
  /\ trees' = IF kind = "btree" THEN Treed(trees, Key(t, n), t, cols) ELSE trees
  /\ disk' = [disk EXCEPT !.index = persist_index_meta(meta')]
  /\ UNCHANGED <<schema, perTable, dbs, current, loose>>

\* exec_drop_index with the table it is on, or with none: then the first index of that name goes.
DropIndexAt(key) ==
  /\ key \in DOMAIN meta
  /\ meta' = Without(meta, {key})
  /\ trees' = IF meta[key].kind = "btree" THEN Without(trees, {key}) ELSE trees
  /\ disk' = [disk EXCEPT !.index = persist_index_meta(meta')]
  /\ UNCHANGED <<schema, perTable, dbs, current, loose>>
exec_drop_index(t, n) == DropIndexAt(Key(t, n))

\* A unique key of that name goes; without one, an index of that name, of whatever table.
DropConstraint(t, n) ==
  LET named == {k \in schema[t].keys : k.name = n}
  IN  IF named # {} THEN Altered(t, [schema[t] EXCEPT !.keys = @ \ named])
      ELSE /\ ~schema[t].parted
           /\ \E key \in DOMAIN meta : Last(key) = n /\ DropIndexAt(key)

----------------------------------------------------------------------------
exec_create_database(d) ==
  /\ Tell /\ d \notin dbs
  /\ dbs' = dbs \cup {d} /\ current' = d
  /\ disk' = [disk EXCEPT !.index[d] = None]
  /\ UNCHANGED <<schema, trees, meta, perTable, loose>>

\* exec_drop_database: everything under the prefix goes, and the directory.
exec_drop_database(d) ==
  /\ Tell /\ d \in dbs
  /\ LET others(f) == Without(f, DOMAIN OfDb(f, d))
     IN  /\ schema' = others(schema) /\ trees' = others(trees) /\ meta' = others(meta)
         /\ perTable' = {t \in perTable : Db(t) # d}
         /\ disk' = [schema |-> others(disk.schema), index |-> [disk.index EXCEPT ![d] = None]]
         /\ loose' = loose \cup DOMAIN OfDb(schema, d)
  /\ dbs' = dbs \ {d}
  /\ IF current # d THEN UNCHANGED current
     ELSE IF dbs' = {} THEN current' = "" ELSE current' \in dbs'

exec_use(d) == Tell /\ d \in dbs /\ current' = d /\ UNCHANGED <<schema, trees, meta, perTable, dbs, disk, loose>>

\* The start of the server: schemas, then indexes, are read from the files and built again.  Bound: not from a
\* stale file, which would bring indexes back that are gone.
Loaded ==
  LET index == [k \in UNION {DOMAIN disk.index[d] : d \in dbs} |-> disk.index[Db(k)][k]]
      tree == [k \in {x \in DOMAIN index : index[x].kind = "btree"} |-> <<index[k].table, index[k].cols[1]>>]
      pk == [t \in DOMAIN disk.schema |-> <<t>>]
  IN  [schema |-> disk.schema, meta |-> index, trees |-> Over(tree, pk)]
Restart ==
  /\ Tell /\ stale = {}
  /\ schema' = Loaded.schema /\ meta' = Loaded.meta /\ trees' = Loaded.trees
  /\ perTable' = DOMAIN disk.schema
  /\ current' \in IF dbs = {} THEN {""} ELSE dbs
  /\ UNCHANGED <<dbs, disk, loose>>

ColumnLists == {<<c>> : c \in Columns} \cup {<<c, d>> : c, d \in Columns}
AlterTable ==
  /\ Tell
  /\ \E t \in Tables \cap DOMAIN schema :
       \/ \E p \in Partitions : AddPartition(t, p) \/ DropPartition(t, p)
       \/ \E c \in Columns : AddColumn(t, c) \/ DropColumn(t, c)
       \/ \E c, to \in Columns : RenameColumn(t, c, to)
       \/ \E c \in Columns, parent \in Tables : AddForeignKey(t, c, parent)
       \/ \E fk \in schema[t].fks : DropForeignKey(t, fk)
       \/ \E n \in IndexNames : AddUniqueConstraint(t, n, Columns) \/ DropConstraint(t, n)
       \/ \E to \in Tables : Db(to) = Db(t) /\ RenameTable(t, to)
       \/ \E n \in IndexNames, cols \in ColumnLists, k \in {"btree", "hash"} :
            (\A i \in DOMAIN cols : cols[i] \in schema[t].cols) /\ exec_create_index(t, n, cols, k)
       \/ \E n \in IndexNames : exec_drop_index(t, n)

\* A RENAME of t finds the tree of another table under t's prefix, or that of t itself under its new name.
RenameTakesAnother ==
  \E t \in DOMAIN schema \ DOMAIN schema' : DOMAIN schema' \ DOMAIN schema # {} /\ \E x \in DOMAIN schema' : IsPrefix(t, x)
\* The file of the database was not written when its last index went.
LastIndexUnwritten(d) ==
  /\ OfDb(meta, d) # None /\ OfDb(meta', d) = None
  /\ d # current \/ DOMAIN meta' # {}

Next ==
  /\ \/ \E t \in Tables, parts \in {{}, Partitions}, parent \in {{}} \cup {{Fk(c, x)} : c \in Columns, x \in Tables} :
          exec_create(t, Columns, parent, parts)
     \/ \E t, from \in Tables : exec_create_like(t, from)
     \/ \E t \in Tables : exec_drop(t)
     \/ AlterTable
     \/ \E d \in Databases : exec_create_database(d) \/ exec_drop_database(d) \/ exec_use(d)
     \/ Restart
  /\ stale' = {d \in dbs' : OfDb(meta', d) = None /\ (d \in stale \/ LastIndexUnwritten(d))}
  /\ clashed' = (clashed \/ DOMAIN schema' \cap DOMAIN meta' # {} \/ RenameTakesAnother)

Spec == Init /\ [][Next]_vars

----------------------------------------------------------------------------
\* Whatever statements have run: every table has the locks and the primary key tree of its own rows, every index
\* belongs to a table that exists and its tree holds the column the index names, no storage is left of what is gone,
\* and a parent that a foreign key was declared against is there as long as the key is (executor_ddl.cpp).  Excepted are
\* names that clash: an index i of a beside a table a_i, and RENAME of a table a beside a table a_i or to such a name.
CatalogConsistent == clashed \/
  /\ perTable = DOMAIN schema
  /\ \A t \in DOMAIN schema : t \in DOMAIN trees /\ trees[t] = <<t>>
  /\ \A t \in DOMAIN schema : \A fk \in schema[t].fks : fk.ref \in DOMAIN schema \cup loose
  /\ \A k \in DOMAIN meta : /\ meta[k].table \in DOMAIN schema
                            /\ meta[k].kind = "btree" => k \in DOMAIN trees /\ trees[k] = <<meta[k].table, meta[k].cols[1]>>
  /\ DOMAIN trees \subseteq DOMAIN schema \cup DOMAIN meta

\* A server that stopped now would start with the tables, partitions, keys and indexes it has, and no others: each
\* statement that changes one saves what it changed (executor_core.cpp, SharedDatabase::open).  Excepted are clashing
\* names as above, and the indexes of a database that lost its last one while another database had some, or while it was
\* not the current one: its file is not written and they come back (persist_index_meta).
RestartFindsCatalog == clashed \/
  /\ Loaded.schema = schema
  /\ \A d \in dbs \ stale : OfDb(Loaded.meta, d) = OfDb(meta, d) /\ OfDb(Loaded.trees, d) = OfDb(trees, d)
=============================================================================
