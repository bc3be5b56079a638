------------------------------ MODULE MCTables ------------------------------
(***************************************************************************)
(* The parts that keep tables: the keys of two tables (Integrity), the     *)
(* B+tree, the indexes of a table, the catalog, the caches of the unique   *)
(* checks and the log files.  A behaviour is one of one part; the          *)
(* variables of the others are Off, and the two tables of Integrity empty. *)
(***************************************************************************)
EXTENDS Integrity, TLC

CONSTANTS s1, s2

VARIABLES
  part,
  root, map, ops,
  schema, trees, meta, perTable, dbs, current, disk, stale, clashed, loose, told,
  versions, pktree, buckets, hash, comp, pos, active, txn, work, xlock, claims, writes, lost,
  live, table, taken, probe, order, hidden,
  file, synced, known, ids, doing, state, point, serial, faults, meant

Tree == INSTANCE BTree WITH ORDER <- 6, Keys <- {1, 5, 9, 10, 13, 14, 16, 18, 21, 25}, Prefill <- 24, MaxOps <- 2
Cat == INSTANCE Catalog WITH Databases <- {"d"}, Tables <- {<<"d", "a">>, <<"d", "b">>}, IndexNames <- {"i"},
                             Columns <- {"c", "e"}, Partitions <- {"p", "q"}, Statements <- 5
\* two databases, and tables whose names go on where another's ends
Two == INSTANCE Catalog WITH Databases <- {"d", "e"}, Tables <- {<<"d", "a">>, <<"d", "b">>, <<"d", "a", "i">>, <<"e", "a">>},
                             IndexNames <- {"i"}, Columns <- {"c"}, Partitions <- {}, Statements <- 4
Ind == INSTANCE Indexes WITH Sessions <- {1, 2}, Pks <- {1, 2}, Vals <- {1, 2}, MaxWrites <- 4, rows <- versions
Prb == INSTANCE UniqueProbe WITH Values <- {1, 2}, Copies <- 2, StreakNeeded <- 1, MinRows <- 2, Sections <- 5, Tables <- 2
Log == INSTANCE LogFile WITH Txns <- {1, 2}, MaxSerial <- 2, MaxFaults <- 1

MCMax == s1 :> 2 @@ s2 :> 2
MCMenu ==
  {[op |-> "insP", key |-> 1, ref |-> Null],
   [op |-> "insC", key |-> 1, ref |-> 1],
   [op |-> "updP", key |-> 1, to |-> 2],
   [op |-> "updC", key |-> 1, to |-> 1],
   [op |-> "updC", key |-> 1, to |-> 2],
   [op |-> "delP", keys |-> {1, 2}],
   [op |-> "delC", keys |-> {1}]}
MCRules ==
  {[del |-> "restrict", upd |-> "restrict"], [del |-> "cascade", upd |-> "cascade"], [del |-> "setnull", upd |-> "setnull"]}
MCBases ==
  {{Row("p", 1, Null, Zero)}, {Row("p", 1, Null, Zero), Row("c", 1, 1, Zero)}, {Row("p", 2, Null, Zero), Row("c", 1, 2, Zero)}}

Off == "off"
Is(p) == part = p
NoKeys == \* Integrity
  /\ rows = {} /\ race = {} /\ open = [s \in Sessions |-> FALSE] /\ pc = [s \in Sessions |-> "idle"]
  /\ held = Off /\ want = Off /\ stmt = Off /\ todo = Off /\ quiet = Off /\ doomed = Off /\ rule = Off
NoTree == root = Off /\ map = Off /\ ops = Off
NoCatalog ==
  /\ schema = Off /\ trees = Off /\ meta = Off /\ perTable = Off /\ dbs = Off /\ current = Off /\ disk = Off
  /\ stale = Off /\ clashed = Off /\ loose = Off /\ told = Off
NoIndexes ==
  /\ versions = Off /\ pktree = Off /\ buckets = Off /\ hash = Off /\ comp = Off /\ pos = Off /\ active = Off
  /\ txn = Off /\ work = Off /\ xlock = Off /\ claims = Off /\ writes = Off /\ lost = Off
NoProbe == live = Off /\ table = Off /\ taken = Off /\ probe = Off /\ order = Off /\ hidden = Off
NoLog ==
  /\ file = Off /\ synced = Off /\ known = Off /\ ids = Off /\ doing = Off /\ state = Off /\ point = Off
  /\ serial = Off /\ faults = Off /\ meant = Off

TablesInit ==
  \/ Is("keys") /\ Init /\ NoTree /\ NoCatalog /\ NoIndexes /\ NoProbe /\ NoLog
  \/ Is("tree") /\ Tree!Init /\ NoKeys /\ NoCatalog /\ NoIndexes /\ NoProbe /\ NoLog
  \/ Is("catalog") /\ Cat!Init /\ NoKeys /\ NoTree /\ NoIndexes /\ NoProbe /\ NoLog
  \/ Is("databases") /\ Two!Init /\ NoKeys /\ NoTree /\ NoIndexes /\ NoProbe /\ NoLog
  \/ Is("indexes") /\ Ind!Init /\ NoKeys /\ NoTree /\ NoCatalog /\ NoProbe /\ NoLog
  \/ Is("probe") /\ Prb!Init /\ NoKeys /\ NoTree /\ NoCatalog /\ NoIndexes /\ NoLog
  \/ Is("log") /\ Log!Init /\ NoKeys /\ NoTree /\ NoCatalog /\ NoIndexes /\ NoProbe

TreeVars == <<root, map, ops>>
CatVars == <<schema, trees, meta, perTable, dbs, current, disk, stale, clashed, loose, told>>
IndVars == <<versions, pktree, buckets, hash, comp, pos, active, txn, work, xlock, claims, writes, lost>>
PrbVars == <<live, table, taken, probe, order, hidden>>
LogVars == <<file, synced, known, ids, doing, state, point, serial, faults, meant>>

\* Only the statements of Integrity wait for one another; the others may stop.
Stopped == part # "keys" /\ UNCHANGED <<vars, part, TreeVars, CatVars, IndVars, PrbVars, LogVars>>

TablesNext ==
  \/ Is("keys") /\ Next /\ UNCHANGED <<part, TreeVars, CatVars, IndVars, PrbVars, LogVars>>
  \/ Is("tree") /\ Tree!Next /\ UNCHANGED <<part, vars, CatVars, IndVars, PrbVars, LogVars>>
  \/ Is("catalog") /\ Cat!Next /\ UNCHANGED <<part, vars, TreeVars, IndVars, PrbVars, LogVars>>
  \/ Is("databases") /\ Two!Next /\ UNCHANGED <<part, vars, TreeVars, IndVars, PrbVars, LogVars>>
  \/ Is("indexes") /\ Ind!Next /\ UNCHANGED <<part, vars, TreeVars, CatVars, PrbVars, LogVars>>
  \/ Is("probe") /\ Prb!Next /\ UNCHANGED <<part, vars, TreeVars, CatVars, IndVars, LogVars>>
  \/ Is("log") /\ Log!Next /\ UNCHANGED <<part, vars, TreeVars, CatVars, IndVars, PrbVars>>
  \/ Stopped

TablesSpec == TablesInit /\ [][TablesNext]_<<part, vars, TreeVars, CatVars, IndVars, PrbVars, LogVars>>

----------------------------------------------------------------------------
(* The invariants of the other parts, each where its part is.              *)

\* The B+tree answers points, ranges and scans as the map it stands for does, whatever was split and merged (btree.cpp).
TreeAnswersAsAMap == Is("tree") => Tree!AnswersAsAMap

\* Tables, indexes, locks and trees go together, whatever DDL has run, and a server that stopped after any DDL
\* statement would start with the tables and indexes it had, in one database or several (executor_ddl.cpp).  Excepted are
\* tables and indexes kept under one name, a RENAME that finds another table's tree under its prefix, and the indexes of a
\* database whose last one went while its file was not written.
CatalogSurvives ==
  /\ Is("catalog") => Cat!CatalogConsistent /\ Cat!RestartFindsCatalog
  /\ Is("databases") => Two!CatalogConsistent /\ Two!RestartFindsCatalog

\* A condition answered through any of the indexes finds the rows a scan finds, for readers and for writers (executor_select.cpp).
IndexesAnswerAsScans == Is("indexes") => Ind!IndexAnswersAsScan

\* No cache of a unique or foreign key check calls a value absent that a live row holds (unique_probe.cpp).
ProbesHideNothing == Is("probe") => Prb!ProbeHidesNothing

\* The write-ahead log and the undo log read back as the records they should hold, up to a break (wal.cpp, txn_manager.cpp).
LogsReadBack == Is("log") => Log!LogReadsBack
=============================================================================
