# RuSQL in TLA+

RuSQL is a relational database engine in C++: an SQL parser and executor over in-memory tables, kept
durable by a redo log and table files, served to many sessions by one thread each. This directory models
the engine as far as its correctness depends on the order in which threads, failures and restarts happen,
and the algorithms of query processing as far as they can be compared with what SQL means. TLC checks the
models on small instances; TLAPS proves the invariants of the concurrent core for instances of any size.

Paths below are relative to `src/code/backend/core/` unless they begin with `src/`; `executor_x` stands for
`src/engine/executor/executor_x.cpp`.

## 1. The system

A session thread parses a statement and runs it in `SQLExecutor`. It takes the structural lock of the
database (shared, or exclusive for DDL, CALL, backup and checkpoints), then the locks of the tables
it names or reaches through foreign keys (shared, or exclusive for COMMIT, ROLLBACK and writes over
joins), then a data lock for each phase that reads or changes rows; these are all `FairSharedMutex`es.
Rows are claimed in the `LockManager` by transaction id; a statement that must wait for a row gives its
locks up, sleeps and starts over. Versions carry `_xmin` and `_xmax`. COMMIT validates, writes one batch to
the redo log, has it synced together with others, takes its id out of `active_txn_ids` and may vacuum. A
checkpoint rewrites the tables' files and empties the log; a start runs the undo of the write-ahead log and
then replays the redo log.

| Component | State | What makes it hard | What makes it correct | Module |
|---|---|---|---|---|
| Lock manager (`src/engine/lock_manager.cpp`) | lock entries, wait-for edges, gap locks, predicate reads, one condition variable | all sleepers share one variable; edges move while threads sleep; deadlines and KILL race a grant | no conflicting claims, no lost wake-up, no stale edge; waits end | `LockManager`, `RowLockTable` |
| `FairSharedMutex` (`include/engine/sync.hpp`) | three counters, exclusive_count, one condition variable | who is notified when; writers ahead of readers | a reader-writer lock, no lost wake-up, no starved writer | `FairSharedMutex`, `RWLock` |
| Transactions and versions (`executor_txn`, `executor_dml`, `executor_update`, `executor_delete`) | active ids, snapshots, read sets, versions | BEGIN and COMMIT are several critical sections; autocommit ids never enter `active_txn_ids` | no forked row; only committed work is read; rollbacks leave no trace; snapshots repeat | `Mvcc` |
| Statement scheduling (`executor_core`) and query cache (`src/engine/query_cache.cpp`) | locks held by a statement, kept answers and generations | phases with the locks given back in between; a result stored after the invalidation | nobody touches rows another is changing; no answer older than its question; every statement ends | `Statements` |
| Keys and foreign keys (`executor_row_check`, `executor_cascade`, `executor_update_unique`) | row versions of two tables, claims | checks and writes in different holds of the data lock | unique keys stay unique; what races an orphan needs | `Integrity`, `TablesProofs` |
| Redo log (`src/transaction/redo_log.cpp`, `executor_redo`), buffer pool's `save_committed` | the log, its handle, appended and synced numbers, files | crashes between any two steps; shared fsyncs; failing writes | acknowledged work survives, undecided work does not, a row is recovered once | `RedoLog` |
| Group commit (`src/transaction/group_commit.cpp`) | flushing flag, generation | leader and followers; arrivals around the fsync | no follower forgotten; durable on return | `GroupCommit` |
| Undo and write-ahead log (`src/transaction/txn_manager.cpp`, `wal.cpp`, `executor_txn`) | undo records, marks, the two files | order of two recoveries; savepoints; torn records | losers are undone, winners are not; the files read back | `UndoLog`, `LogFile` |
| Indexes (`src/storage/btree.cpp`, `executor_update`, `executor_select`) | B+tree, buckets, hash and composite copies | splits and merges; an UPDATE's second half outside the data lock | a sorted map; an index answers as a scan | `BTree`, `Indexes` |
| Caches of key checks (`executor_unique_probe`) | values and order with a stamp | most writers do not tell the cache | nothing live is called absent | `UniqueProbe`, `TablesProofs` |
| Catalog and DDL (`executor_ddl`, `executor_core`) | schemas, trees, files | several files per statement; names that clash | a restart finds what there was | `Catalog` |
| Query processing (`executor_select`, `executor_window`, `executor_setops`, `executor_cte`, `src/engine/planner.cpp`, `join.cpp`, `executor_subquery`, `executor_eval`) | none between statements | fast paths, plans and kept answers must not change the result | the rows SQL means | `Select`, `Windows`, `SetOps`, `Derived`, `Joins`, `Conditions`, `Subqueries`, `Numbers` |
| Writes of many rows, partitions, AUTO_INCREMENT (`executor_dml`, `executor_multi`, `executor_merge`, `executor_partition`) | rows, counters | a statement that fails half way; routing and pruning | all or nothing; the right partitions | `Writes`, `Inserts`, `Partitioning` |
| Procedures, triggers, prepared statements (`executor_proc`, `executor_trigger`) | variables, a signal | LEAVE and ITERATE through calls and triggers | the meaning of the body | `Procedures` |
| Parser, lexer, protocols' texts (`src/parser/parser_expr.cpp`, `src/code/backend/server/src`) | none | an expression is kept as text and parsed again | text and tree say the same | `Parser`, `Texts` |
| Files, row format, backup (`src/storage/disk.cpp`, `row_json.cpp`, `executor_backup`) | a directory | formats, escapes, crashes between two renames | what is written is read back | `Files` |
| Server (`src/code/backend/server/src/main.cpp`, `mysql.cpp`, `executor_show`) | connections, slots, process list | the end of a connection against KILL, limits and running statements | slots exact, KILL aimed, nothing left behind | `Server` |

`PROJECT.json` lists every component with its status, every hazard with its line, and for every
definition that models code the lines it models.

## 2. The modules

Operators named `Bug...` are deliberate defects: each is a plausible slip in the definition that follows
it, and substituting it makes a property fail, so no property holds vacuously. Variables that no code
keeps are marked "(history)".

**LockManager, RowLockTable.** Every public method of `LockManager` holds `mutex_`, so a call is one action
up to the point where it sleeps; what it does after waking is another. `row_locks`, `wait_for`, `gap_locks`,
`predicate_reads` and `predicate_violations` are the maps of those names with ranges left out; `call` is what
a thread is doing; `signalled`, `expired` and `killed` are the condition variable, the deadline and the kill
flag; `claims` is what each call returned (history). The actions are the outcomes of
`acquire`/`acquire_shared` (granted, deadlock, conflict, sleep) and of a wake-up, those of
`register_gap_conflict` with INSERT's earlier copy of the gaps (`GapLocksFor`), the predicate reads, and
`release`. `creates_cycle` follows the single edges, as the code does. `RowLockTable` is what callers rely on;
`ImplementsRowLockTable` is the refinement with `held <- claims`.

**FairSharedMutex, RWLock.** One action per outcome of each method; `SpuriousWake` is the liberty of
`condition_variable::wait`; `exclusive_count` wraps at `CountModulus`. `RWLock` is any number of readers or
one writer, and the mutex refines it.

**Mvcc.** One key per table; a version is a record with `xmin`, `xmax` and a number. The row lock is one id
per table, what `RowLockTable` promises for exclusive claims. The critical sections are the code's:
`BeginSnapshot` and `BeginRegister` are the two uses of `active_txn_ids` in BEGIN; an autocommit statement
takes its id in one step and changes the table in another; INSERT claims, looks at the predicate reads and
pushes its row later; COMMIT validates and releases (`CommitPhase1`) and ends later (`CommitFinish`). The
vacuum is part of the action whose end may trigger it (`MaybeVacuumed`).

**Statements.** `Run` is the loop of `execute_sql_inner`: look in the query cache, note the generations,
take the structural lock, the table locks in order (`LockSet`: the tables named and their foreign-key
neighbours), run the phases of the statement's `Program` under their data locks, give everything back to
wait for a row, invalidate, store and answer. A table is the number of changes committed to it, `floor` is
what has been let go (history).

**Integrity.** The phases of INSERT, UPDATE and DELETE on a parent and a child table between two holds of
the data locks, with claims, waits, RESTRICT, CASCADE and SET NULL; a reference that an UPDATE leaves as it was
is neither checked nor claimed, and what a DELETE plans depends on whether the cache of the references answers
(both outcomes are steps). Six races that leave an orphan are named;
`OrphanNeedsARace` says there is no seventh.

**RedoLog.** One row per table changed by UPDATEs, by autocommit statements and by COMMITs. The log is a
sequence of batches, "flushed" markers and torn tails; `stable` is the prefix an fsync has covered.
`append_batch`, `sync` (start, end, early return, failure), `clear`, `redo_mark_flushed`, the checkpoint (one
file per step), the crash (any prefix of the log that contains the stable one survives) and the recovery (one
file per step again) are the actions. `Recovered` is what `read_all` and `recover_from_redo` make of a file
and a log; the invariants quantify over everything a crash could leave in each state. That
table files are replaced atomically and durably (`write_bytes_atomic`) is taken as given.

**GroupCommit.** `sync_commit` as a program counter per session. The fsync runs with the mutex free and
has a start and an end: it covers what was written at its start and any part of what is written meanwhile. `late`
holds the records that were written after the start of the fsync of the flush their session joined (history).

**UndoLog, LogFile.** `UndoLog` is what the records mean to COMMIT, ROLLBACK, ROLLBACK TO and
`recover_from_wal`, with a crash at any step of a COMMIT and of the two recoveries, which are
interrupted between any two of their writes. `LogFile` is the bytes:
framing, checksums, pruning, the in-memory tracking of what the file holds, torn writes, failed fsyncs and crashes.

**BTree, Indexes, UniqueProbe, Catalog.** `BTree` has the nodes, splits, borrows and merges of the code.
`Indexes` has every copy of a row beside the versions and the reads and writes of them that are not under one
lock. `UniqueProbe` has the stamp that ties the caches to `exclusive_count`. `Catalog` has every DDL statement
with the files it writes and the start that reads them.

**Server.** One thread per connection over both protocols, from the slot among `max_connections` to the
tear-down, with the process list, KILL, KILL QUERY, COM_RESET_CONNECTION and COM_CHANGE_USER.

**Query processing.** `Select`, `Windows`, `SetOps`, `Derived`, `Joins`, `Conditions`, `Subqueries`, `Numbers`,
`Writes`, `Inserts`, `Partitioning`, `Procedures`, `Texts`, `Files` and `Parser` are functions, translated
operation by operation, each compared with a direct definition of what is meant. `SqlValues` has the values
they tell apart: a key and a spelling. `Parser` has the grammar of conditions and values and the text an
expression is kept as; it follows the code where the code differs from MySQL (`^` at the level of `*`, XOR
tighter than comparisons).

`MC...` modules give the instances, `...Proofs` modules the theorems.

## 3. The runs

| Run | Instance | Shows |
|---|---|---|
| `lock` | 3 transactions contending for one row; or 2 and a bystander with 2 rows, a table with gaps and ranges | edges of sleepers are current, no row wake-up is lost, the refinement of `RowLockTable`; if deadlines pass, every wait ends |
| `mutex` | 3 threads, each reader and writer, `CountModulus` 3 | no lost wake-up, writers not starved by readers, refinement of `RWLock` |
| `mvcc` | 3 sessions under RC and RR with autocommit on a vacuumed table, or 2 SERIALIZABLE sessions on two tables; 4 ids, 3 versions | one live version, fresh reads are committed, quiet snapshots repeat, rollbacks leave no trace, write skew needs overlapping COMMITs |
| `redo` | 2 sessions, 2 tables, autocommit and COMMIT, failing writes and fsyncs, 3 ids, 1 crash | acknowledged work is recovered, undecided work is not, each row has one live version |
| `group` | 3 sessions, 2 COMMITs each | durable unless late, every call returns |
| `server` | 2 connections, limits 1 and 2, both protocols | slots exact and within the limits that were in force, KILL aimed, nothing left behind, a killed connection ends |
| `statements` | 2 sessions with 2 and 1 statements of a menu of 8 over c → p → g | no table torn, answers current, every statement ends |
| `undo` | 2 sessions, 2 keys, 2 values, 3 writes, 2 transactions, 1 savepoint, 2 crashes | the recovered table is the committed one, ROLLBACK TO restores |
| `tables` | one part at a time: keys (2 sessions × 2 statements), B+tree (ORDER 6, 24 keys + 2 operations), catalog (2 tables of one database and 5 statements, or 4 of two with names that clash and 4), indexes (2 sessions, 4 writes), probe cache (2 values, 5 sections), log files (2 transactions, 1 fault) | keys unique, orphans need a race, the tree is a map, DDL survives a restart, indexes answer as scans, probes hide nothing, logs read back |
| `queries` | 1.75 million inputs in 39 families | joins, clauses, writes, procedures, texts, files and expressions give what is meant |
| `redo_order` | 2 sessions, 1 table, 2 ids, autocommit, 1 crash | *violated:* batches out of order recover two live versions |
| `undo_savepoint` | 1 session, 2 keys, 2 savepoints | *violated:* ROLLBACK TO loses a row deleted and inserted again |

**Bounds.** Three transactions are the least for a deadlock with shared holders, for a waiter whose row
passes to a third and for a notification that reaches the wrong sleeper. Three ids beyond the initial one let
a transaction overlap one that ends and one that starts. Three versions of a key are an original, a
change and a change of the change. `redo` crashes once, but its invariants speak of every crash that could
happen in every state, one inside or after a recovery included; with two crashes it holds too, beyond the time of a regular run.
`FewOverTwoTables` keeps that run from multiplying histories of two tables that do not meet. Twenty-four
keys at ORDER 6 are three levels, so that two operations reach every rebalancing. `MaxDeadlocks`, `MaxId`, `MaxVersions`,
`MaxCommits`, `MaxCrashes`, `MaxStmts`, `MaxWrites` and `MaxTxns` only stop actions from being taken; they hide no
state of shorter histories. Symmetry is used in safety runs only.

**Fairness.** `lock`: a thread asleep on a row wakes every 100 ms at the latest (`wait_until` with a slice);
one asleep on a gap when signalled or out of time. Nobody is obliged to release or to call; that deadlines
pass is the hypothesis of `EveryWaitEnds`. `mutex`: a signalled thread runs and a statement ends; nobody is
obliged to ask. `group`: a session inside `sync_commit` runs and a signalled follower wakes; spurious wake-ups
are not relied on. `server`: a connection's thread runs; clients may stay silent for ever. `statements`: a
statement that can go on does, and a wait for a row on the exclusive path, which keeps the structural lock,
ends by its deadline.

**Deadlock.** TLC looks for deadlocks in `lock`, `mutex`, `server` and `tables` (the key checks, whose
statements wait for one another). The other configurations switch it off because clients may stop, and
because the bounds on ids and statements make them.

## 4. The proofs

All hold for every value of the constants: sets of transactions, rows, tables, sessions, connections and
threads are arbitrary, and the bounds are any numbers. The assumptions are the ones named in the component
modules, which TLC evaluates in the runs.

*Lock manager* (`NoTxn \notin Txns`, `MaxDeadlocks \in Nat`). The invariant is `LockInv`: types,
`TableMatchesClaims`, `SleeperEdgeIsCurrent`, `NoLostRowWakeup` and `EndedLeavesNothing`. They need each other:
that an ended id has nobody waiting for it rests on edges of sleepers being current; an edge is current after
a release because the release erases the edges to the one who left and signals everybody, and after a grant
because a grant to another transaction only happens if no holder stands in its way. `ClaimsCompatible` and the
refinement of `RowLockTable` follow.

*FairSharedMutex* (finitely many threads, `CountModulus > 1`). Admission is decided by counters, exclusion is
about threads, so `MutexInv` contains `CountersExact`; lemmas say how the cardinality of a set of threads moves
when one enters or leaves. `NoLostWakeup` holds because a predicate can only become true in a step that
notifies everybody. The frozen count and the refinement of `RWLock` follow step by step.

*GroupCommit* (`MaxCommits \in Nat`). `DurableUnlessLate` is not inductive: a follower's record becomes durable by
someone else's fsync. `FollowersOwed` says what a follower that is not late may count on: its record is durable, or the leader has yet to
start its fsync, or the fsync that runs covers the record.

*Mvcc* (levels and autocommit operations among the code's, `MaxId` and `MaxVersions` positive). `Control` says
which session owns which id, that ids in `active_txn_ids` are those of open sessions, that a transaction keeps
the claims of what it has changed until it is validated, and that an INSERT keeps its key between claim and
push. On it rests `RowInv`: whoever made or ended a version has committed or is active, a transaction knows
the tables it has changed, and a key has one live version, both as everybody sees it and as it would be if all
that is undecided were rolled back; without the second a rollback could fork the row. `OneLiveVersion`,
`FreshReadIsCommitted`, `UndecidedIsLocked` and `LiveIsReadable` follow (the last two are in no run), and from
the step of ROLLBACK the action property `RollbackLeavesNoTrace`. `QuietSnapshotRepeats` needs `QuietInv` too: the
snapshot of a quiet BEGIN lists every other id in use but the later ones, no hard delete runs beside it, and
nothing was read before it opened; from there no step can show the snapshot a version it did not show before.
`SkewNeedsARace` needs `SerInv`: in a table a session has dirtied only its own versions are alive to it; a transaction that
has validated keeps its tables until it has ended; what an ended transaction wrote behind a snapshot is ended for
good; and what a SERIALIZABLE transaction first read is still there where nothing was vacuumed. So of two
transactions that each wrote what the other had read, the one that validates later finds a version that was
visible to it and no longer is, unless the two validations overlap.

*Server* (finitely many connections, any limits from 1 on). A place is counted before the limit
is compared, and the limit may be raised or lowered meanwhile. `ceiling` is the largest limit in force since the server was
last empty; `SlotInv` bounds, for every limit from it on, those inside together with those who would still be let in under it. `ListFits` ties the process list and the kill flags to the phases of the connections,
`HoldingsFit` the row lock, the transaction and the LOCK TABLES entry to their owner.

*Statements* (tables in a fixed order, foreign keys among them, any menu of statements). `LockInv`: what a session
holds, its statement or its phase has asked for, in that mode, and a lock held exclusive is held by nobody
else. That a phase's data locks, or for a write over joins the lock set, cover all the rows it touches is a
lemma about `Program` and `LockSet`; `NoTornTable` follows. `CacheInv`: what a SELECT has read was let go when it was
sent, and as long as no generation it noted has moved nothing more has been let go; the same for every kept
answer. `AnswersAreCurrent` follows.

*RedoLog* (kinds among autocommit and COMMIT; failing appends and fsyncs allowed or not; at least one table).
The properties speak of what a recovery would make of the files and of any leavings of the log, so lemmas
first say what `Replay`, `Intact`, `save_committed` and the vacuum make of a set of versions. `IInv` has `Control`
(where a session is, what it holds and who else may be there), `Rows` (one version an id; behind an ended
version that counts there is one at least as late as its end; a file holds nothing open or rolled back and
nothing later than the memory; while recovering, files and memory hold only what the log has written) and
`Logged`. `OnlyCommittedRecovered` follows. `LogInv` holds while no append and no fsync has failed: the numbers of
`append_batch` are places in the log and what is synced is stable (`Positions`); every batch is covered by the
memory, behind a marker or a checkpoint by the file, and while a vacuum is at its marker by the file it has
just written (`Covered`); and whoever was told that its batch is durable, or got its OK, finds the change or a later
one in the file or in the stable part of the log (`Promised`). `AckedRecoverable` follows: the recovered set reaches
the acknowledged id, and its latest version cannot be ended.
`LineHolds` is about the versions of one row as a line: each batch of the log ends the one
before it, the latest version of the file is durably on that line or before it, and the changes that have no batch yet
continue the line from the latest id, that of an open transaction being the last of it; for what is not yet
durable somebody waits. As long as nothing has overtaken the line, the replay then ends every version but the
latest: `RecoversOneVersion`.

*Integrity* (`IntegrityAssumption`, the statements are the six kinds the module has and an UPDATE of a key changes it; `BasesAssumption`, the rows before
the first statement are committed, no key is there twice and no child without its parent). For the unique key, `KeyInv`:
claims of two sessions on one thing are both shared; what an open transaction has written or ended it has claimed;
an INSERT past the check of its key holds the key, and nobody has it; and of two versions of a key, one is ended by the
transaction that wrote the other, or by the one that wrote it (`VersionsApart`), so that no set of commits shows
both. `OneRowPerKey` follows. `OrphanNeedsARace` speaks of what every choice of commits would leave, so its invariant does:
while there has been no race, `Sheltered` says that every child that is there when the transactions of a set commit
has a parent that is there when they do, or a cascade is at it. To keep it through the steps of a statement, an INSERT
about to push holds the value it refers to and its parent is there (`PushReady`), a DELETE about to end parents holds
their values and has ended their children (`EraseReady`), and an UPDATE in its cascade has written the new parent and
holds its key (`FollowReady`).

*UniqueProbe* (no assumption at all; the proof is in `TablesProofs` too). `ProbeInv` is about stamps: neither cache is stamped later than the sum of the lock
counts is now, and one that is stamped now counts, or orders, the rows as they are. Every section that changes
a row raises the sum, so a writer that tells nobody leaves the stamps behind; one that tells the cache is believed only
if the stamp was the sum before it (`ApplySettles`), which a statement that has taken two locks never finds; and
a cascade that tells the cache of each row finds its own stamp. A table that is made anew begins with
smaller sums, but has another identity. `ProbeHidesNothing`, which `ProbesHideNothing` of
the run `tables` checks, follows.

**Left to TLC.** Everything temporal beyond safety (`EveryWaitEnds`, `ReadersDoNotStarveWriters`, `EveryCommitReturns`,
`KilledEnds`, `EveryStatementEnds`), which needs fairness. `RecoveredIsCommitted` and `RollbackToRestores` of `UndoLog`, whose undo is a
fold over the records: what a fold computes needs induction over data. The properties of `tables` and `queries`:
their modules are built from recursive operators (`BTree`, `LogFile`, and all the query algorithms), or are run
as parts of one specification; of these parts `Integrity` and `UniqueProbe` are proved, `Indexes` and `Catalog` are not. `Indexes` filters and folds the
sequence of the versions (`SelectSeq`, `FoldLeft`), which is induction again. `Catalog` moves its maps along names that are
sequences (`Moved`, `IsPrefix`); its invariant would need every name to be cut in one way only, which is what the clashes of section 5 deny.

## 5. Where the code and its documents part

Two disagreements are kept as runs that end in a counterexample (`findings` in `PROJECT.json`): `redo_order`
(two autocommit UPDATEs of a row append in the other order and a crash keeps only the first batch;
`redo_log.hpp:16` says that the order does not matter) and `undo_savepoint` (ROLLBACK TO loses a row that the
transaction had written, deleted and inserted again; `src/docs/mds/FUNCTIONS.md:416` calls it exact).

Others were met on the way. Where there is a formula it is in the module, in no run, and fails within a few
steps on instances of the sizes above.

| Promise | Formula | What happens |
|---|---|---|
| a deadlock is always detected (`lock_manager.cpp:95`) | `SleepersNeverDeadlocked` | two holders of a shared row upgrade, a third joins in between; the walk follows the third only |
| a thread sleeps on a gap only while its holder has it (`lock_manager.hpp:112`) | none | the holder was copied earlier, and the call sleeps before it looks |
| KILL ends a lock wait (`src/docs/mds/SQL.md:430`) | none | the wait for a gap does not look at the flag |
| "Transaction N aborted" (`executor_dml:1346`) | `DeadlockVictimAborted` | the transaction stays open and keeps its locks |
| a waiting writer is passed only by those ahead (`sync.hpp:71`) | none | a writer that arrives takes a free mutex before a signalled one has run |
| the vacuum keeps what snapshots read (`executor_ddl:69`) | `VacuumKeepsNeeded` | the horizon is the least id active now; a snapshot may hold one that has ended since |
| validation misses nothing (`src/docs/mds/DIFF.md:54`) | `NoWriteSkew` | COMMITs with disjoint tables validate while neither has ended (`SkewNeedsARace` is the limit) |
| a phantom fails the reader's COMMIT (`executor_select:3322`) | `PhantomIsFlagged` | INSERT looks at the ranges before its row is there (`executor_dml:1531`) |
| REPEATABLE READ is fixed at BEGIN (`src/docs/mds/FUNCTIONS.md:233`) | `AutocommitIsAfterSnapshot` | an autocommit row is tagged before a BEGIN and pushed after it |
| only READ UNCOMMITTED reads dirty (`src/docs/mds/FUNCTIONS.md:412`) | `NoDirtyRead` | a snapshot between the two halves of another BEGIN does not know its id |
| a hard delete needs that no snapshot is open (`executor_delete:123`) | `HardDeleteSafe` | that is looked at before the rows are erased |
| sync makes every batch up to seq durable (`redo_log.hpp:53`) | `AckedRecoverable` without `~failed` | another append fails and closes the file; sync returns at once |
| one batch and one fsync make a COMMIT durable (`executor_txn:159`) | `AckedRecoverable` without `~failed` | after a failed fsync the ops are gone; a second COMMIT writes nothing |
| a row is recovered once | `RecoversOneVersion` without `~overtaken` | a vacuum after an autocommit statement writes the file before the batch of another is durable |
| a rolled back transaction is gone | `OnlyCommittedRecovered` without its exception | a COMMIT whose fsync failed leaves its batch in the file; ROLLBACK does not take it back |
| the record is durable on return (`group_commit.hpp:22`) | `DurableOnReturn` | a session writes its record and joins after the fsync has begun and before the new generation (`DurableUnlessLate` is the limit) |
| no child without a parent | `NoOrphans` | six races between checks and writes (`executor_dml:1481`; `OrphanNeedsARace` is the limit) |

*Sessions and statements.* COM_QUIT inside a transaction rolls nothing back (`mysql.cpp:1574`, against
`FUNCTIONS.md:366`). A killed or timed-out SELECT of a view or derived table leaves its temporary table behind
and destroys the view (`executor_select:1418`, `executor_core:1842`), and a SELECT of a view changes the shared
maps under the shared structural lock (`executor_core:810`). The COMMIT of a procedure does not invalidate the query
cache, DDL invalidates it after releasing the lock (`executor_core:1830`), and the exclusive path keeps the
structural lock while it waits for a row (`executor_core:1277`). Two UPDATEs can lose each other's change of an
index bucket (`executor_update:742`, `executor_dml:1570`); the properties of `Indexes` hold until that happens (`lost`).

*Logs and files.* COMMIT and ROLLBACK prune the write-ahead log before the undo log (`txn_manager.cpp:406`,
`:433`), and a recovery that finds the first one empty looks no further (`executor_txn:371`). A write that
fails may leave part of a record, behind which later records are not read (`wal.cpp:207`). After a crash
between the record of a legacy COMMIT and its pruning, the replay of an UPDATE overwrites the first version of
the key, whichever that is (`executor_txn:452`). DROP removes the newest file format first, so that after a
crash in between an older file comes back (`disk.cpp:273`), and DROP of a table called `indexes` takes the file of the indexes. BACKUP doubles quotes and leaves backslashes
(`executor_backup:63`); RESTORE cuts at every `;`, in a string too (`:278`), and a USE in the file
(`:196`) overrides the database that RESTORE names (`:264`), though `src/docs/mds/SQL.md:452` promises "백업 파일에서
복원(다른 이름의 DB로도 가능)", a restore into a database of another name: the tables return to the one they came from.

*DDL.* The tree of an index is kept under `<table>_<index>`, a name a table may have, and RENAME of a table moves every tree
under its prefix, the primary tree of another table and its own new one included (`executor_ddl:1015`; `clashed` in `Catalog`).
The index file of a database that has lost its last index is not written while another database has one (`:1756`; `stale`), and
view files are written for one database at a time (`:1463`). ALTER with
several actions is meant to be all or nothing (`:198`) and checks the names of columns only beforehand. RENAME
and DROP COLUMN leave stale metadata; ALTER TABLE … DROP INDEX looks for the index by name only and may take
another table's (`:1211`); TRUNCATE replaces the primary tree and leaves the secondary indexes, and checks no
foreign key (`:462`); ADD FOREIGN KEY on an empty table accepts a missing parent.

*Queries.* The index paths ignore GROUP BY and HAVING without aggregates (`executor_select:1897`, `:2066`).
LIMIT is applied before DISTINCT and before ungrouped aggregates (`:3055`), and DISTINCT drops rows before
ungrouped aggregates count them (`:3061`). After a recursive CTE its later
siblings are never created (`executor_cte:219`); in one, UNION keeps the repeats within a turn and UNION ALL drops
rows that came before. NTILE takes `pos * n / total + 1` (`executor_window:417`), which differs from SQL's for
7 rows in 5 tiles. INTERSECT and EXCEPT with an empty left
side take the right side's names. An unquoted column in a partition or gap condition is read as a literal
(`executor_partition:66`). A quotient
whose kept digits end exactly at the last one shown is cut, not rounded (`executor_eval:211`). `(…) DIV x` and
`(…) XOR x` parse in a select list and not in a condition (`parser_expr.cpp:119`); LIKE with a column, and INTERVAL of
a condition, are not read back from the text they are kept as (`:1530`, `:1573`), nor is a string with a backslash, which
is written as it is (`:1460`) and read as an escape (`lexer.cpp:220`), nor a quoted name of several words, written bare (`:1510`).

*Writes.* ON DUPLICATE KEY UPDATE that meets a row of its own statement changes it without
checking its keys again (`executor_dml:1243`). UPDATE and DELETE with LIMIT on a partitioned table apply it per partition (`executor_partition:316`), and a
routed statement that fails in a transaction keeps the rows of earlier partitions. A MERGE
that moves a row to the key of one it inserts fails after its updates, though a failure is to change nothing
(`executor_merge:211`), and one that moves a row it also deletes looks for it by its old key (`:276`). CALL
answers with the last result table (`executor_proc:76`), WHILE stops after 100000 turns (`:96`), LEAVE in a trigger leaves its signal
behind (`executor_trigger:94`), and the row stays when an AFTER trigger fails. A number is put in for `?` as it is, so
that `-?` with a negative value begins a comment (`executor_proc:357`); over the binary protocol a backslash in a string
parameter is not doubled (`mysql.cpp:669`).

In all these places the properties state what does hold, and the comment at the property names the exception.

## 6. What is not modelled

The grammar of statements and the tree as JSON (they build and copy data); some 200 built-in functions of
strings, dates and JSON (the arithmetic and the calendar under them are in `Numbers`); the thread pool, whose
scans share nothing until they are joined; information schema, users and rights, EXPLAIN and advice; the command
line, the client's and the desktop's user interfaces and the MCP server. Of the modelled parts: ranges of gap
locks are sets of keys in `Partitioning` only (in `LockManager` a range holds the key or it does not); READ
UNCOMMITTED is defined in `Mvcc` and in no run; `RedoLog` has UPDATEs of one row per table, not INSERT and DELETE,
and not the undefined outcome of an fsync on a handle that another thread closes (`redo_log.cpp:80`); the LRU page cache
behind `write_through` is read by no statement; TLS and the layout of packets are left out of `Server`; of the parameters of a
prepared statement over the binary protocol `Texts` has the strings, not the numbers and dates (`mysql.cpp:549`). The
repository compares the built-in functions and statements with reference engines in `src/code/test/diff`.

## 7. Plan

`ThreadPool`: nested loops and shutdown with work queued.
