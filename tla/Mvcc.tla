---------------------------------- MODULE Mvcc ----------------------------------
(* Transactions and row versions: BEGIN, COMMIT and ROLLBACK (executor_txn.cpp, *)
(* txn_manager.cpp), the visibility rules and the vacuum (executor_ddl.cpp,     *)
(* executor_dml.cpp, executor_maint.cpp), and the statements that create and    *)
(* end versions (executor_dml.cpp, executor_update.cpp, executor_delete.cpp).   *)
(*                                                                              *)
(* Every table holds one key.  The row lock of that key is one number, the      *)
(* transaction that claims it: what the LockManager module shows it to be.  A   *)
(* statement that has to wait for the claim is one that is not enabled.  Steps  *)
(* are cut where the code gives up the lock that made them one: between the two *)
(* uses of active_txn_ids in BEGIN, between the validation of a COMMIT and its  *)
(* end, between the claim of an INSERT and the push of its row, and between the *)
(* moment an autocommit statement takes its id (or sees that no transaction is  *)
(* open) and the moment it changes the table.  The id an autocommit statement   *)
(* claims rows with and the one it tags them with are one id here.              *)
EXTENDS Naturals, FiniteSets

CONSTANTS
    Sessions,
    Tables,
    Levels,          \* the isolation levels that BEGIN may run under
    AutoOps,         \* the statements that run outside transactions: insert, update, delete
    Filled,          \* the tables that hold a row at the start
    Busy,            \* the tables that see enough changes to be vacuumed
    MaxId,           \* bound on the transaction ids handed out
    MaxVersions      \* bound on the row versions ever created

ASSUME LevelsAssumption == Levels \subseteq {"RU", "RC", "RR", "SER"}
ASSUME AutoOpsAssumption == AutoOps \subseteq {"insert", "update", "delete"}
ASSUME TablesAssumption == Filled \subseteq Tables /\ Busy \subseteq Tables
ASSUME BoundsAssumption == MaxId \in Nat \ {0} /\ MaxVersions \in Nat \ {0}

VARIABLES
    next_txn_id,      \* TxnIoShared::next_txn_id_
    active_txn_ids,   \* SharedDatabase::active_txn_ids
    rows,             \* the row versions of every table
    next_ver,         \* numbers the versions, so that two of them are told apart
    lock,             \* lock[tb]: the id that claims the key of tb, or 0
    pc,               \* pc[s]: idle, begun (id not yet in active_txn_ids), open, committing
    txn_id,           \* txn_id[s]: the id of the transaction or of the autocommit statement
    level,            \* level[s]
    ctx,              \* ctx[s]: frozen_ctx_, taken by BEGIN
    read_set,         \* read_set[s]: the tables whose row a SERIALIZABLE transaction has read
    ranges,           \* ranges[s]: the tables it has registered a predicate read of
    flagged,          \* the ids whose ranges somebody inserted into
    dirty,            \* dirty[s]: dirty_tables()
    stmt,             \* stmt[s]: the statement in progress
    committed,        \* the ids whose work is committed (history)
    seen,             \* seen[s][tb]: what the first SELECT of tb in the transaction returned
    quiet,            \* quiet[s]: no BEGIN and no autocommit statement overlapped BEGIN (history)
    done              \* the SERIALIZABLE transactions that have committed (history)

idVars == <<next_txn_id, active_txn_ids>>
rowVars == <<rows, next_ver, lock>>
readVars == <<read_set, ranges, flagged, seen>>
history == <<committed, quiet, done>>
vars == <<idVars, rowVars, pc, txn_id, level, ctx, readVars, dirty, stmt, history>>

--------------------------------------------------------------------------------
(* Values *)

Ids == 0 .. MaxId
Versions == [table : Tables, xmin : Ids, xmax : Ids, ver : 1 .. MaxVersions]
Contexts == [cutoff : 0 .. MaxId + 1, in_progress : SUBSET Ids]
NoCtx == [cutoff |-> 0, in_progress |-> {}]
NoStmt == [op |-> "none"]
Statements == {NoStmt} \cup [op : {"insert", "push", "update", "delete", "erase"}, table : Tables]
Unread == {0}

InTxn(s) == pc[s] = "open"
Idle(s) == pc[s] = "idle" /\ stmt[s] = NoStmt
Ready(s) == InTxn(s) /\ stmt[s] = NoStmt

--------------------------------------------------------------------------------
(* is_visible, is_visible_for_read, current_read_ctx *)

is_visible(r) == r.xmax = 0

CommittedAsOf(id, c) == id = 0 \/ (id < c.cutoff /\ id \notin c.in_progress)

is_visible_for_read(r, self, c) ==
    /\ r.xmin = self \/ CommittedAsOf(r.xmin, c)
    /\ r.xmax # 0 => r.xmax # self /\ ~CommittedAsOf(r.xmax, c)

FreshCtx == [cutoff |-> next_txn_id, in_progress |-> active_txn_ids]

\* BUG: REPEATABLE READ reads like READ COMMITTED.
Bugcurrent_read_ctx(s) ==
    IF level[s] = "RU" THEN [cutoff |-> MaxId + 1, in_progress |-> {}] ELSE FreshCtx

current_read_ctx(s) ==
    CASE level[s] = "RU" -> [cutoff |-> MaxId + 1, in_progress |-> {}]
      [] level[s] \in {"RR", "SER"} -> ctx[s]
      [] OTHER -> FreshCtx

Read(s, tb) ==
    {r \in rows : r.table = tb /\ is_visible_for_read(r, txn_id[s], current_read_ctx(s))}

(* oldest_active_txn_id, is_vacuumable *)

oldest_active_txn_id(active) ==
    IF active = {} THEN next_txn_id ELSE CHOOSE m \in active : \A n \in active : m <= n

is_vacuumable(r, horizon) == r.xmax # 0 /\ r.xmax < horizon

\* What maybe_auto_vacuum may make of the versions R: the counter of each of the tables tbs decides
\* whether it is vacuumed.
MaybeVacuumed(R, tbs, active) ==
    {{r \in R : r.table \notin cleaned \/ ~is_vacuumable(r, oldest_active_txn_id(active))} :
        cleaned \in SUBSET (tbs \cap Busy)}

--------------------------------------------------------------------------------
(* Locks *)

\* Session u is in the middle of a statement on tb and holds table_locks[tb] shared.  A statement
\* that waits for the key has given it up; the hard delete and the push of a row wait for nothing.
HoldsTable(u, tb) ==
    /\ stmt[u] # NoStmt
    /\ stmt[u].table = tb
    /\ stmt[u].op \in {"erase", "push"} \/ lock[tb] \in {0, txn_id[u]}

\* BUG: COMMIT gives up the table locks before its id has left active_txn_ids.
BugTableOpen(s, tb) == TRUE

\* No COMMIT has table_locks[tb] exclusively.
TableOpen(s, tb) == \A u \in Sessions \ {s} : ~(pc[u] = "committing" /\ tb \in dirty[u])

\* COMMIT and ROLLBACK take table_locks of their dirty tables exclusively.
TakesDirtyTables(s) ==
    \A tb \in dirty[s] : TableOpen(s, tb) /\ \A u \in Sessions \ {s} : ~HoldsTable(u, tb)

Claimable(tb, id) == lock[tb] \in {0, id}

Released(id) == [tb \in Tables |-> IF lock[tb] = id THEN 0 ELSE lock[tb]]

--------------------------------------------------------------------------------
NewVersion(tb, id, n) == [table |-> tb, xmin |-> id, xmax |-> 0, ver |-> n]

\* Transaction 1 has filled the tables of Filled.
Init ==
    /\ next_txn_id = 2
    /\ active_txn_ids = {}
    /\ rows = {NewVersion(tb, 1, 1) : tb \in Filled}
    /\ next_ver = 2
    /\ lock = [tb \in Tables |-> 0]
    /\ pc = [s \in Sessions |-> "idle"]
    /\ txn_id = [s \in Sessions |-> 0]
    /\ level = [s \in Sessions |-> "RC"]
    /\ ctx = [s \in Sessions |-> NoCtx]
    /\ read_set = [s \in Sessions |-> {}]
    /\ ranges = [s \in Sessions |-> {}]
    /\ flagged = {}
    /\ dirty = [s \in Sessions |-> {}]
    /\ stmt = [s \in Sessions |-> NoStmt]
    /\ committed = {0, 1}
    /\ seen = [s \in Sessions |-> [tb \in Tables |-> Unread]]
    /\ quiet = [s \in Sessions |-> FALSE]
    /\ done = {}

--------------------------------------------------------------------------------
(* exec_begin *)

\* begin_with_snapshot, with active_txn_ids locked: the id and, under REPEATABLE READ and
\* SERIALIZABLE, the snapshot.
BeginSnapshot(s, l) ==
    /\ Idle(s)
    /\ next_txn_id <= MaxId
    /\ next_txn_id' = next_txn_id + 1
    /\ pc' = [pc EXCEPT ![s] = "begun"]
    /\ txn_id' = [txn_id EXCEPT ![s] = next_txn_id]
    /\ level' = [level EXCEPT ![s] = l]
    /\ ctx' = [ctx EXCEPT ![s] =
                  IF l \in {"RR", "SER"}
                  THEN [cutoff |-> next_txn_id + 1, in_progress |-> active_txn_ids]
                  ELSE NoCtx]
    /\ quiet' = [quiet EXCEPT ![s] =
                    \A u \in Sessions : pc[u] # "begun" /\ (pc[u] = "idle" => stmt[u] = NoStmt)]
    /\ UNCHANGED <<active_txn_ids, rowVars, readVars, dirty, stmt, committed, done>>

\* BUG: the id is never registered.
BugBeginRegister(s) ==
    /\ pc[s] = "begun"
    /\ pc' = [pc EXCEPT ![s] = "open"]
    /\ UNCHANGED <<idVars, rowVars, txn_id, level, ctx, readVars, dirty, stmt, history>>

\* ... and, with active_txn_ids locked again, its registration.
BeginRegister(s) ==
    /\ pc[s] = "begun"
    /\ active_txn_ids' = active_txn_ids \cup {txn_id[s]}
    /\ pc' = [pc EXCEPT ![s] = "open"]
    /\ quiet' = [quiet EXCEPT ![s] = @ /\ next_txn_id = txn_id[s] + 1]
    /\ UNCHANGED <<next_txn_id, rowVars, txn_id, level, ctx, readVars, dirty, stmt, committed, done>>

--------------------------------------------------------------------------------
(* Reads *)

\* SELECT: a SERIALIZABLE transaction records the rows it reads and the range it scans.
Select(s, tb) ==
    /\ Ready(s) /\ TableOpen(s, tb)
    /\ LET result == Read(s, tb)
           serializable == level[s] = "SER"
       IN  /\ read_set' = [read_set EXCEPT ![s] =
                              IF serializable /\ result # {} THEN @ \cup {tb} ELSE @]
           /\ ranges' = [ranges EXCEPT ![s] = IF serializable THEN @ \cup {tb} ELSE @]
           /\ seen' = [seen EXCEPT ![s][tb] = IF @ = Unread THEN {r.ver : r \in result} ELSE @]
    /\ UNCHANGED <<idVars, rowVars, pc, txn_id, level, ctx, flagged, dirty, stmt, history>>

--------------------------------------------------------------------------------
(* The versions that statements end and create *)

\* A version for every version that is updated, numbered from next_ver.
Successors(targets, tb, id) ==
    {NewVersion(tb, id, next_ver + Cardinality({q \in targets : q.ver < r.ver})) : r \in targets}

EndedBy(R, targets, id) ==
    {IF r \in targets THEN [r EXCEPT !.xmax = id] ELSE r : r \in R}

\* UPDATE replaces the versions visible in a snapshot taken under the exclusive data lock.
UpdateTargets(tb, id) ==
    {r \in rows : r.table = tb /\ is_visible_for_read(r, id, FreshCtx)}

\* INSERT and DELETE go by the newest versions, whoever created them.
LiveVersions(tb) == {r \in rows : r.table = tb /\ is_visible(r)}

\* A session takes part in a statement with its transaction, or with an id of its own.
Runs(s, op, tb) == stmt[s] = [op |-> op, table |-> tb]

\* A transaction's statement has changed the table; an autocommit statement ends here, committed, and
\* may vacuum the tables V: the counter of the table decides.
StatementEnds(s, tb, R, V) ==
    IF InTxn(s)
    THEN /\ rows' = R
         /\ lock' = [lock EXCEPT ![tb] = txn_id[s]]
         /\ dirty' = [dirty EXCEPT ![s] = @ \cup {tb}]
         /\ UNCHANGED <<txn_id, committed>>
    ELSE /\ rows' \in MaybeVacuumed(R, V, active_txn_ids)
         /\ lock' = Released(txn_id[s])
         /\ committed' = committed \cup {txn_id[s]}
         /\ txn_id' = [txn_id EXCEPT ![s] = 0]
         /\ UNCHANGED dirty

TakeId(s, op, tb) ==
    /\ Idle(s) /\ TableOpen(s, tb)
    /\ next_txn_id <= MaxId
    /\ next_txn_id' = next_txn_id + 1
    /\ txn_id' = [txn_id EXCEPT ![s] = next_txn_id]
    /\ stmt' = [stmt EXCEPT ![s] = [op |-> op, table |-> tb]]
    /\ UNCHANGED <<active_txn_ids, rowVars, pc, level, ctx, readVars, dirty, history>>

--------------------------------------------------------------------------------
(* INSERT *)

\* Outside a transaction the row gets its _xmin before its key is claimed.
AutoInsertTag(s, tb) ==
    /\ "insert" \in AutoOps
    /\ LiveVersions(tb) = {}
    /\ TakeId(s, "insert", tb)

\* The duplicate check, the claim and the transactions that have scanned the table, all under the
\* shared data lock.
InsertClaim(s, tb) ==
    /\ Ready(s) \/ Runs(s, "insert", tb)
    /\ TableOpen(s, tb)
    /\ Claimable(tb, txn_id[s])
    /\ LiveVersions(tb) = {}
    /\ next_ver <= MaxVersions
    /\ lock' = [lock EXCEPT ![tb] = txn_id[s]]
    /\ flagged' = flagged \cup {txn_id[u] : u \in {u \in Sessions \ {s} : tb \in ranges[u]}}
    /\ stmt' = [stmt EXCEPT ![s] = [op |-> "push", table |-> tb]]
    /\ UNCHANGED <<idVars, rows, next_ver, pc, txn_id, level, ctx, read_set, ranges, seen, dirty, history>>

\* The session waited for the key and finds a row there: a transaction keeps the claim (as it does
\* that of a SELECT ... FOR UPDATE, which is the same step).
InsertDuplicate(s, tb) ==
    /\ Ready(s) \/ Runs(s, "insert", tb)
    /\ TableOpen(s, tb)
    /\ Claimable(tb, txn_id[s])
    /\ LiveVersions(tb) # {}
    /\ lock' = IF InTxn(s) THEN [lock EXCEPT ![tb] = txn_id[s]] ELSE lock
    /\ txn_id' = IF InTxn(s) THEN txn_id ELSE [txn_id EXCEPT ![s] = 0]
    /\ stmt' = [stmt EXCEPT ![s] = NoStmt]
    /\ UNCHANGED <<idVars, rows, next_ver, pc, level, ctx, readVars, dirty, history>>

\* The row enters the table, under the exclusive data lock.
InsertPush(s, tb) ==
    /\ Runs(s, "push", tb)
    /\ next_ver <= MaxVersions
    /\ StatementEnds(s, tb, rows \cup {NewVersion(tb, txn_id[s], next_ver)}, {tb})
    /\ next_ver' = next_ver + 1
    /\ stmt' = [stmt EXCEPT ![s] = NoStmt]
    /\ UNCHANGED <<idVars, pc, level, ctx, readVars, quiet, done>>

(* UPDATE *)

AutoUpdateTag(s, tb) ==
    /\ "update" \in AutoOps
    /\ TakeId(s, "update", tb)

Update(s, tb) ==
    /\ Ready(s) \/ Runs(s, "update", tb)
    /\ TableOpen(s, tb)
    /\ LET targets == UpdateTargets(tb, txn_id[s]) IN
       /\ InTxn(s) => targets # {}
       /\ targets # {} => Claimable(tb, txn_id[s])
       /\ next_ver + Cardinality(targets) <= MaxVersions + 1
       /\ StatementEnds(s, tb, EndedBy(rows, targets, txn_id[s]) \cup Successors(targets, tb, txn_id[s]),
                        {tb})
       /\ next_ver' = next_ver + Cardinality(targets)
    /\ stmt' = [stmt EXCEPT ![s] = NoStmt]
    /\ UNCHANGED <<idVars, pc, level, ctx, readVars, quiet, done>>

(* DELETE *)

\* Outside a transaction DELETE looks whether any transaction is open: if none is, it removes the
\* versions for good.
AutoDeleteTag(s, tb) ==
    /\ "delete" \in AutoOps
    /\ TakeId(s, IF active_txn_ids = {} THEN "erase" ELSE "delete", tb)

DeleteSoft(s, tb) ==
    /\ Ready(s) \/ Runs(s, "delete", tb)
    /\ TableOpen(s, tb)
    /\ InTxn(s) => LiveVersions(tb) # {}
    /\ LiveVersions(tb) # {} => Claimable(tb, txn_id[s])
    /\ StatementEnds(s, tb, EndedBy(rows, LiveVersions(tb), txn_id[s]), {})
    /\ stmt' = [stmt EXCEPT ![s] = NoStmt]
    /\ UNCHANGED <<idVars, next_ver, pc, level, ctx, readVars, quiet, done>>

\* The hard delete claims nothing.
DeleteHard(s, tb) ==
    /\ Runs(s, "erase", tb)
    /\ StatementEnds(s, tb, rows \ LiveVersions(tb), {tb})
    /\ stmt' = [stmt EXCEPT ![s] = NoStmt]
    /\ UNCHANGED <<idVars, next_ver, pc, level, ctx, readVars, quiet, done>>

\* A statement that cannot have the key fails: Deadlock, or the wait runs out of time.
LockWaitFails(s) ==
    /\ stmt[s].op \in {"insert", "update", "delete"}
    /\ ~Claimable(stmt[s].table, txn_id[s])
    /\ txn_id' = [txn_id EXCEPT ![s] = 0]
    /\ stmt' = [stmt EXCEPT ![s] = NoStmt]
    /\ UNCHANGED <<idVars, rowVars, pc, level, ctx, readVars, dirty, history>>

--------------------------------------------------------------------------------
(* The end of a transaction *)

\* The session and its transaction's traces, once the transaction has ended.
EndSession(s) ==
    /\ active_txn_ids' = active_txn_ids \ {txn_id[s]}
    /\ pc' = [pc EXCEPT ![s] = "idle"]
    /\ txn_id' = [txn_id EXCEPT ![s] = 0]
    /\ level' = [level EXCEPT ![s] = "RC"]
    /\ ctx' = [ctx EXCEPT ![s] = NoCtx]
    /\ read_set' = [read_set EXCEPT ![s] = {}]
    /\ seen' = [seen EXCEPT ![s] = [tb \in Tables |-> Unread]]
    /\ quiet' = [quiet EXCEPT ![s] = FALSE]
    /\ dirty' = [dirty EXCEPT ![s] = {}]

\* LockManager::release: the claims, the predicate reads and the flag of the transaction go.
ReleaseLocks(s) ==
    /\ lock' = Released(txn_id[s])
    /\ ranges' = [ranges EXCEPT ![s] = {}]
    /\ flagged' = flagged \ {txn_id[s]}

\* BUG: what the transaction ended stays ended.
Bugapply_rollback(s) ==
    /\ rows' = {r \in rows : r.xmin # txn_id[s]}
    /\ ReleaseLocks(s)
    /\ EndSession(s)
    /\ UNCHANGED <<next_txn_id, next_ver, stmt, committed, done>>

\* The versions the transaction created go, those it ended come back.
apply_rollback(s) ==
    /\ rows' = {IF r.xmax = txn_id[s] THEN [r EXCEPT !.xmax = 0] ELSE r :
                    r \in {r \in rows : r.xmin # txn_id[s]}}
    /\ ReleaseLocks(s)
    /\ EndSession(s)
    /\ UNCHANGED <<next_txn_id, next_ver, stmt, committed, done>>

\* ROLLBACK, or the end of the connection.
Rollback(s) ==
    /\ Ready(s)
    /\ TakesDirtyTables(s)
    /\ apply_rollback(s)

NowCtx == [cutoff |-> MaxId + 1, in_progress |-> active_txn_ids]

\* BUG: COMMIT compares the snapshot with itself.
BugReadsAreStale(s) ==
    \E r \in rows :
        /\ r.table \in read_set[s]
        /\ is_visible_for_read(r, txn_id[s], ctx[s]) # is_visible_for_read(r, txn_id[s], current_read_ctx(s))

\* validate_serializable: a version of a row that was read is visible now and was not at BEGIN, or
\* the other way round.
ReadsAreStale(s) ==
    \E r \in rows :
        /\ r.table \in read_set[s]
        /\ is_visible_for_read(r, txn_id[s], ctx[s]) # is_visible_for_read(r, txn_id[s], NowCtx)

SerializationFailure(s) == level[s] = "SER" /\ (ReadsAreStale(s) \/ txn_id[s] \in flagged)

\* COMMIT whose validation fails rolls back.
CommitRefused(s) ==
    /\ Ready(s)
    /\ TakesDirtyTables(s)
    /\ SerializationFailure(s)
    /\ apply_rollback(s)

\* The tables of the read set whose first SELECT showed a version of somebody else.
ReadBeforeWrite(s) ==
    {tb \in read_set[s] : \E v \in seen[s][tb] : \A r \in rows : r.table = tb /\ r.xmin = txn_id[s] => r.ver # v}

Committing == {u \in Sessions : pc[u] = "committing"}

\* exec_commit_phase1: the validation and the release of the row locks, under the exclusive locks of
\* the dirty tables, which stay locked.
CommitPhase1(s) ==
    /\ Ready(s)
    /\ TakesDirtyTables(s)
    /\ ~SerializationFailure(s)
    /\ pc' = [pc EXCEPT ![s] = "committing"]
    /\ ReleaseLocks(s)
    /\ done' = IF level[s] = "SER"
               THEN done \cup {[id |-> txn_id[s], ctx |-> ctx[s], reads |-> ReadBeforeWrite(s), writes |-> dirty[s],
                                quiet |-> quiet[s], beside |-> {txn_id[u] : u \in Committing}]}
               ELSE done
    /\ UNCHANGED <<idVars, rows, next_ver, txn_id, level, ctx, read_set, seen, dirty, stmt, committed, quiet>>

\* ... and, the transaction being durable, its end and the vacuum of the tables it changed.
CommitFinish(s) ==
    /\ pc[s] = "committing"
    /\ rows' \in MaybeVacuumed(rows, dirty[s], active_txn_ids \ {txn_id[s]})
    /\ committed' = committed \cup {txn_id[s]}
    /\ EndSession(s)
    /\ UNCHANGED <<next_txn_id, next_ver, lock, ranges, flagged, stmt, done>>

--------------------------------------------------------------------------------
\* VACUUM of a table or of all takes the whole database exclusively.
Vacuum ==
    /\ \A s \in Sessions : pc[s] # "committing" /\ \A tb \in Tables : ~HoldsTable(s, tb)
    /\ rows' \in MaybeVacuumed(rows, Tables, active_txn_ids)
    /\ rows' # rows
    /\ UNCHANGED <<idVars, next_ver, lock, pc, txn_id, level, ctx, readVars, dirty, stmt, history>>

Statement(s, tb) ==
    \/ Select(s, tb)
    \/ AutoInsertTag(s, tb) \/ InsertClaim(s, tb) \/ InsertDuplicate(s, tb) \/ InsertPush(s, tb)
    \/ AutoUpdateTag(s, tb) \/ Update(s, tb)
    \/ AutoDeleteTag(s, tb) \/ DeleteSoft(s, tb) \/ DeleteHard(s, tb)

Transaction(s) ==
    \/ \E l \in Levels : BeginSnapshot(s, l)
    \/ BeginRegister(s)
    \/ Rollback(s) \/ CommitRefused(s) \/ CommitPhase1(s) \/ CommitFinish(s)

Next ==
    \/ \E s \in Sessions : Transaction(s) \/ LockWaitFails(s) \/ \E tb \in Tables : Statement(s, tb)
    \/ Vacuum

Spec == Init /\ [][Next]_vars

--------------------------------------------------------------------------------
(* Properties *)

\* A transaction began quietly if no other BEGIN and no autocommit statement was in progress during
\* either half of its BEGIN: quiet[s].

Vers(R) == {r.ver : r \in R}

\* What a READ COMMITTED statement would read of tb now.
FreshRead(tb) == {r \in rows : r.table = tb /\ is_visible_for_read(r, 0, FreshCtx)}

Frozen(s) == InTxn(s) /\ level[s] \in {"RR", "SER"}

\* Every variable holds a value of its kind, and nobody claims, tags or reads with an id that was not
\* handed out.
TypeOK ==
    /\ next_txn_id \in 2 .. MaxId + 1
    /\ active_txn_ids \subseteq 1 .. next_txn_id - 1
    /\ rows \subseteq Versions
    /\ next_ver \in 2 .. MaxVersions + 1
    /\ lock \in [Tables -> 0 .. next_txn_id - 1]
    /\ pc \in [Sessions -> {"idle", "begun", "open", "committing"}]
    /\ txn_id \in [Sessions -> 0 .. next_txn_id - 1]
    /\ level \in [Sessions -> {"RU", "RC", "RR", "SER"}]
    /\ ctx \in [Sessions -> Contexts]
    /\ read_set \in [Sessions -> SUBSET Tables]
    /\ ranges \in [Sessions -> SUBSET Tables]
    /\ flagged \subseteq Ids
    /\ dirty \in [Sessions -> SUBSET Tables]
    /\ stmt \in [Sessions -> Statements]
    /\ committed \subseteq Ids
    /\ seen \in [Sessions -> [Tables -> SUBSET (0 .. MaxVersions)]]
    /\ quiet \in [Sessions -> BOOLEAN]

\* A key has at most one version that nobody has ended: updates, deletes and inserts of it, autocommit
\* or not, never fork it (executor_update.cpp, executor_txn.cpp: the "version fork" comments).
OneLiveVersion == \A tb \in Tables : Cardinality(LiveVersions(tb)) <= 1

\* READ COMMITTED reads what is committed and nothing else: a version is visible to a statement that
\* starts now exactly if the transaction that made it has committed and the one that ended it, if
\* any, has not.
FreshReadIsCommitted ==
    \A r \in rows :
        is_visible_for_read(r, 0, FreshCtx) <=> r.xmin \in committed /\ (r.xmax = 0 \/ r.xmax \notin committed)

\* Whoever has created or ended a version and has not yet decided its fate holds the row's lock, so
\* apply_rollback may remove and revive versions by their ids alone.
UndecidedIsLocked ==
    \A r \in rows, s \in Sessions :
        pc[s] = "open" /\ txn_id[s] \in {r.xmin, r.xmax} => lock[r.table] = txn_id[s] /\ r.table \in dirty[s]

\* A row that a committed transaction left alive is not lost: when its key is not claimed and no
\* statement or commit is in progress there, READ COMMITTED sees the version that is alive.
LiveIsReadable ==
    \A tb \in Tables :
        lock[tb] = 0 /\ (\A s \in Committing : tb \notin dirty[s]) => LiveVersions(tb) = FreshRead(tb)

\* ROLLBACK, of the client or of a refused COMMIT, changes nothing that others read.
RollbackLeavesNoTrace ==
    [][\A s \in Sessions : pc[s] = "open" /\ pc'[s] = "idle" =>
          \A tb \in Tables : Vers(FreshRead(tb))' = Vers(FreshRead(tb))]_vars

\* The snapshot of a transaction that began quietly never shows a version that its first read of the
\* table did not, and goes on showing all of those if no transaction was open when it was taken
\* (begin_with_snapshot, is_visible_for_read, is_vacuumable).
QuietSnapshotRepeats ==
    \A s \in Sessions, tb \in Tables :
        Frozen(s) /\ quiet[s] /\ tb \notin dirty[s] /\ seen[s][tb] # Unread =>
            /\ Vers(Read(s, tb)) \subseteq seen[s][tb]
            /\ ctx[s].in_progress = {} => Vers(Read(s, tb)) = seen[s][tb]

\* a read what b wrote later, in a table that is not vacuumed.
Misses(a, b) == (a.reads \cap b.writes) \ Busy # {} /\ ~CommittedAsOf(b.id, a.ctx)

\* Of two SERIALIZABLE transactions that each read a row the other wrote, one fails, provided the
\* versions they ended have not been vacuumed, neither was validated while the other was between its
\* validation and its end, and both began quietly (validate_serializable).  That the row was there to
\* be read is part of it: what is inserted into a range that was read as empty is PhantomIsFlagged.
SkewNeedsARace ==
    \A a, b \in done :
        a # b /\ a.quiet /\ b.quiet /\ a.id \notin b.beside /\ b.id \notin a.beside
            => ~(Misses(a, b) /\ Misses(b, a))

(* What the comments and documents say of the code *)

\* docs/mds/DIFF.md:54 and DATE.md:351: commit-time validation misses no anomaly.
NoWriteSkew ==
    \A a, b \in done : a # b => ~(Misses(a, b) /\ Misses(b, a))

\* executor_select.cpp:3322-3333: an INSERT that puts a row into a range which a SERIALIZABLE
\* transaction has scanned fails the COMMIT of that transaction, so the row finds it flagged.
PhantomIsFlagged ==
    [][\A s \in Sessions : \A tb \in ranges[s] :
          LiveVersions(tb) = {} /\ (\E r \in rows' \ rows : r.table = tb /\ r.xmin # txn_id[s])
              => txn_id[s] \in flagged]_vars

\* Version r is committed and visible to the open snapshot of s.
NeededBy(s, r) == Frozen(s) /\ r.xmin \in committed /\ is_visible_for_read(r, txn_id[s], ctx[s])

Kept(r) == \E q \in rows' : q.table = r.table /\ q.ver = r.ver

\* executor.hpp:572-581, docs/mds/FUNCTIONS.md:417: the vacuum keeps every version that an open
\* snapshot can see.
VacuumKeepsNeeded ==
    [][\A s \in Sessions, r \in rows : NeededBy(s, r) /\ quiet[s] /\ r.xmax # 0 => Kept(r)]_vars

\* executor_delete.cpp:123-127: DELETE removes a row for good only when no open snapshot may need it.
HardDeleteSafe ==
    [][\A s \in Sessions, r \in rows : NeededBy(s, r) /\ is_visible(r) => Kept(r)]_vars

\* docs/mds/FUNCTIONS.md:233: REPEATABLE READ reads as of BEGIN, so a statement outside transactions
\* that ends after BEGIN changes nothing of what it reads.
AutocommitIsAfterSnapshot ==
    [][\A s, u \in Sessions, tb \in Tables :
          Frozen(s) /\ tb \notin dirty[s] /\ pc[u] = "idle" /\ Runs(u, "push", tb) /\ stmt'[u] = NoStmt
              => Vers(Read(s, tb))' = Vers(Read(s, tb))]_vars

\* docs/mds/FUNCTIONS.md:412: only READ UNCOMMITTED reads what is not committed.
NoDirtyRead ==
    \A s \in Sessions, tb \in Tables :
        InTxn(s) /\ level[s] # "RU" /\ TableOpen(s, tb) =>
            \A r \in Read(s, tb) : r.xmin \in committed \cup {txn_id[s]}
================================================================================
