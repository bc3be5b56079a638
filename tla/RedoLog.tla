--------------------------------- MODULE RedoLog ---------------------------------
(* Durability by the redo log: redo_log.cpp, executor_redo.cpp and the parts of   *)
(* execute_commit_grouped and BufferPool that decide what reaches the disk.        *)
(*                                                                                *)
(* Every table holds one row, changed by UPDATEs: a statement ends the live        *)
(* version and makes a new one, numbered by the id of its transaction.  A COMMIT   *)
(* has the table to itself until it is durable; an autocommit statement shares it  *)
(* and gives up the row before its batch is written.  A crash loses the memory     *)
(* and any part of the log that no fsync has covered; a table file is replaced     *)
(* atomically and is durable when it is written (write_bytes_atomic).              *)
EXTENDS Integers, Sequences, FiniteSetsExt

CONSTANTS
    Sessions,
    Tables,
    Kinds,           \* "auto": autocommit statements, "commit": explicit transactions
    WriteFails,      \* whether the append of a batch may fail
    SyncFails,       \* whether an fsync of the log may fail
    MaxId,           \* bound on the transaction ids
    MaxCrashes,      \* bound on the crashes
    NoTable,
    NoSession

ASSUME KindsAssumption == Kinds \subseteq {"auto", "commit"}
ASSUME FailuresAssumption == WriteFails \in BOOLEAN /\ SyncFails \in BOOLEAN
ASSUME BoundsAssumption == MaxId \in Nat /\ MaxCrashes \in Nat
ASSUME NamesAssumption == NoTable \notin Tables /\ NoSession \notin Sessions /\ Tables # {}

VARIABLES
    mode,        \* up, checkpoint (the structural lock is held), down, recovering
    mem,         \* mem[tb]: SharedDatabase::tables
    file,        \* file[tb]: the .rdb file
    log,         \* the batches of rusql.redo, in file order
    stable,      \* how many of them an fsync has covered
    fp,          \* fp_ is open
    appended, synced,
    redo_dirty,
    syncing,     \* the session that is inside fsync and what it covers
    pending,     \* the tables a checkpoint or the recovery has still to write
    next_id,
    open,        \* active_txn_ids
    pc,          \* how far the statement or the COMMIT of a session has come
    job,         \* job[s]: the change the session makes
    seq,         \* seq[s]: what append_batch returned
    crashes,
    acked,       \* the changes whose client got its OK (history)
    undone,      \* the ids rolled back since the last start (history)
    failed,      \* whether an append or an fsync has failed (history)
    overtaken    \* whether a batch was written before that of an earlier change of its row, or a file before the batch
                 \* of a change it holds was durable (history)

logVars == <<log, stable, fp, appended, synced, redo_dirty, syncing>>
sessVars == <<pc, job, seq, open, next_id>>
history == <<acked, undone, failed, overtaken>>
vars == <<mode, mem, file, logVars, pending, sessVars, crashes, history>>

--------------------------------------------------------------------------------
(* Values *)

Ids == 0 .. MaxId
Versions == [id : Ids, xmax : Ids]
Batch(j) == [kind |-> "batch", table |-> j.table, id |-> j.id, ended |-> j.ended]
Flushed(tb) == [kind |-> "flushed", table |-> tb, id |-> 0, ended |-> 0]
Torn == [kind |-> "torn", table |-> NoTable, id |-> 0, ended |-> 0]
Entries == [kind : {"batch", "flushed", "torn"}, table : Tables \cup {NoTable}, id : Ids, ended : Ids]
NoJob == [kind |-> "none", table |-> NoTable, id |-> 0, ended |-> 0, logged |-> FALSE,
          committing |-> FALSE]
Jobs == [kind : Kinds \cup {"none"}, table : Tables \cup {NoTable}, id : Ids, ended : Ids,
         logged : BOOLEAN, committing : BOOLEAN]

NoSync == [session |-> NoSession, target |-> 0, covers |-> 0]

Live(R) == {v \in R : v.xmax = 0}

\* A session holds the table lock of tb: shared for a statement, exclusive for a COMMIT.
InCall == {"changed", "appended", "durable", "finished", "vacuumed", "marked"}
Busy(s, tb) == job[s].table = tb /\ pc[s] \in InCall
Exclusive(s, tb) == Busy(s, tb) /\ job[s].kind = "commit" /\ job[s].committing

\* A session rewrites the file of tb: it holds the data lock.
Flushing(s, tb) == job[s].table = tb /\ pc[s] \in {"vacuumed", "marked"}

\* A transaction that is still open has claimed the row of tb.
Claims(s, tb) == job[s].table = tb /\ job[s].kind = "commit"

--------------------------------------------------------------------------------
(* What a recovery makes of a table file and a log: read_all and recover_from_redo *)

\* read_all stops at the first batch that is not whole.
Intact(l) ==
    LET torn == {i \in 1 .. Len(l) : l[i].kind = "torn"}
    IN  SubSeq(l, 1, IF torn = {} THEN Len(l) ELSE Min(torn) - 1)

\* The places of the batches of tb that are not older than its last marker.
Relevant(l, tb) ==
    {i \in 1 .. Len(l) : /\ l[i].kind = "batch" /\ l[i].table = tb
                         /\ \A k \in i .. Len(l) : l[k] # Flushed(tb)}

\* First every version that was made and is not in the file, then every version that was ended.
Replay(R, l, at) ==
    LET made == {[id |-> l[i].id, xmax |-> 0] : i \in {i \in at : \A v \in R : v.id # l[i].id}}
        ends(v) == {i \in at : l[i].ended = v.id}
    IN  {IF v.xmax = 0 /\ ends(v) # {} THEN [v EXCEPT !.xmax = l[Min(ends(v))].id] ELSE v : v \in R \cup made}

Recovered(tb, l) == Replay(file[tb], Intact(l), Relevant(Intact(l), tb))

--------------------------------------------------------------------------------
(* BufferPool::save_committed *)

\* BUG: the file gets what open transactions have done too.
Bugsave_committed(R) == R

save_committed(R) ==
    {IF v.xmax \in open THEN [v EXCEPT !.xmax = 0] ELSE v : v \in {v \in R : v.id \notin open}}

Init ==
    /\ mode = "up"
    /\ mem = [tb \in Tables |-> {[id |-> 0, xmax |-> 0]}]
    /\ file = mem
    /\ log = <<>> /\ stable = 0
    /\ fp = FALSE
    /\ appended = 0 /\ synced = 0
    /\ redo_dirty = {}
    /\ syncing = NoSync
    /\ pending = {}
    /\ next_id = 1
    /\ open = {}
    /\ pc = [s \in Sessions |-> "idle"]
    /\ job = [s \in Sessions |-> NoJob]
    /\ seq = [s \in Sessions |-> 0]
    /\ crashes = 0
    /\ acked = {}
    /\ undone = {}
    /\ failed = FALSE /\ overtaken = FALSE

--------------------------------------------------------------------------------
(* Statements *)

\* UPDATE of the row of tb: its claim is free, no COMMIT and no flush has the table.
Change(s, kind, tb) ==
    /\ mode = "up" /\ pc[s] = "idle"
    /\ next_id <= MaxId
    /\ \A u \in Sessions : ~Claims(u, tb) /\ ~Flushing(u, tb)
    /\ \E v \in Live(mem[tb]) :
          /\ mem' = [mem EXCEPT ![tb] = (@ \ {v}) \cup {[v EXCEPT !.xmax = next_id], [id |-> next_id, xmax |-> 0]}]
          /\ job' = [job EXCEPT ![s] = [NoJob EXCEPT !.kind = kind, !.table = tb, !.id = next_id, !.ended = v.id]]
    /\ open' = IF kind = "commit" THEN open \cup {next_id} ELSE open
    /\ pc' = [pc EXCEPT ![s] = IF kind = "commit" THEN "open" ELSE "changed"]
    /\ next_id' = next_id + 1
    /\ UNCHANGED <<mode, file, logVars, pending, seq, crashes, history>>

\* A COMMIT or a ROLLBACK takes the table lock of its table exclusively.
TakesTable(s) ==
    /\ mode = "up" /\ pc[s] \in {"open", "failed"}
    /\ \A u \in Sessions \ {s} : ~Busy(u, job[s].table)

\* execute_commit_grouped up to write_redo_batch.  A COMMIT that failed may be sent again.
Commit(s) ==
    /\ TakesTable(s)
    /\ pc' = [pc EXCEPT ![s] = "changed"]
    /\ job' = [job EXCEPT ![s].committing = TRUE]
    /\ UNCHANGED <<mode, mem, file, logVars, pending, seq, open, next_id, crashes, history>>

\* apply_rollback
Rollback(s) ==
    /\ TakesTable(s)
    /\ mem' = [mem EXCEPT ![job[s].table] =
                  {IF v.xmax = job[s].id THEN [v EXCEPT !.xmax = 0] ELSE v : v \in {v \in @ : v.id # job[s].id}}]
    /\ open' = open \ {job[s].id}
    /\ undone' = undone \cup {job[s].id}
    /\ pc' = [pc EXCEPT ![s] = "idle"]
    /\ job' = [job EXCEPT ![s] = NoJob]
    /\ UNCHANGED <<mode, file, logVars, pending, seq, next_id, crashes, acked, failed, overtaken>>

\* Once the batch is durable the id of a COMMIT leaves active_txn_ids.
Finish(s) ==
    /\ mode = "up" /\ pc[s] = "durable"
    /\ open' = open \ {job[s].id}
    /\ pc' = [pc EXCEPT ![s] = "finished"]
    /\ UNCHANGED <<mode, mem, file, logVars, pending, job, seq, next_id, crashes, history>>

Reply(s) ==
    /\ mode = "up" /\ pc[s] = "finished"
    /\ acked' = acked \cup {[table |-> job[s].table, id |-> job[s].id]}
    /\ pc' = [pc EXCEPT ![s] = "idle"]
    /\ job' = [job EXCEPT ![s] = NoJob]
    /\ UNCHANGED <<mode, mem, file, logVars, pending, seq, open, next_id, crashes, undone, failed, overtaken>>

\* The autocommit statements that have changed tb and not written their batch.
Unlogged(tb) == {u \in Sessions : Busy(u, tb) /\ job[u].kind = "auto" /\ ~job[u].logged}

--------------------------------------------------------------------------------
(* append_batch *)

\* take_redo_ops has handed the ops over before: there is nothing to write.
NothingToLog(s) ==
    /\ mode = "up" /\ pc[s] = "changed" /\ job[s].logged
    /\ pc' = [pc EXCEPT ![s] = "durable"]
    /\ UNCHANGED <<mode, mem, file, logVars, pending, job, seq, open, next_id, crashes, history>>

append_batch(s, entry) ==
    /\ log' = Append(log, entry)
    /\ fp' = TRUE
    /\ appended' = appended + 1
    /\ seq' = [seq EXCEPT ![s] = appended + 1]

\* write_redo_batch up to its sync
WriteBatch(s) ==
    /\ mode = "up" /\ pc[s] = "changed" /\ ~job[s].logged
    /\ redo_dirty' = redo_dirty \cup {job[s].table}
    /\ append_batch(s, Batch(job[s]))
    /\ job' = [job EXCEPT ![s].logged = TRUE]
    /\ pc' = [pc EXCEPT ![s] = "appended"]
    /\ overtaken' = (overtaken \/ \E u \in Unlogged(job[s].table) : job[u].id < job[s].id)
    /\ UNCHANGED <<mode, mem, file, stable, synced, syncing, pending, open, next_id, crashes, acked, undone, failed>>

\* An error ends an autocommit statement; a COMMIT leaves its transaction open.
Fails(s) ==
    IF job[s].kind = "commit"
    THEN /\ pc' = [pc EXCEPT ![s] = "failed"]
         /\ job' = [job EXCEPT ![s].logged = TRUE, ![s].committing = FALSE]
    ELSE /\ pc' = [pc EXCEPT ![s] = "idle"]
         /\ job' = [job EXCEPT ![s] = NoJob]

\* fwrite or fflush fails, possibly after a part of the batch has reached the file.
WriteBatchFails(s) ==
    /\ WriteFails
    /\ mode = "up" /\ pc[s] = "changed" /\ ~job[s].logged
    /\ redo_dirty' = redo_dirty \cup {job[s].table}
    /\ log' \in {log, Append(log, Torn)}
    /\ fp' = FALSE
    /\ Fails(s)
    /\ failed' = TRUE
    /\ UNCHANGED <<mode, mem, file, stable, appended, synced, syncing, pending, seq, open, next_id, crashes, acked, undone, overtaken>>

--------------------------------------------------------------------------------
(* sync: sync_mu_ is held from SyncStart to SyncEnd *)

Waits(s) == mode = "up" /\ pc[s] \in {"appended", "marked"}

\* What follows the sync: a batch is durable; a vacuum lets its statement go on.
Synced(s) ==
    IF pc[s] = "appended" THEN "durable"
    ELSE IF job[s].kind = "auto" THEN "changed"
    ELSE IF job[s].committing THEN "finished" ELSE "open"

\* Another fsync has covered the batch, or the file is not open: nothing to do.
SyncReturns(s) ==
    /\ Waits(s) /\ syncing = NoSync
    /\ synced >= seq[s] \/ ~fp
    /\ pc' = [pc EXCEPT ![s] = Synced(s)]
    /\ UNCHANGED <<mode, mem, file, logVars, pending, job, seq, open, next_id, crashes, history>>

SyncStart(s) ==
    /\ Waits(s) /\ syncing = NoSync
    /\ synced < seq[s] /\ fp
    /\ syncing' = [session |-> s, target |-> appended, covers |-> Len(log)]
    /\ UNCHANGED <<mode, mem, file, log, stable, fp, appended, synced, redo_dirty, pending, sessVars, crashes, history>>

\* BUG: what is synced is read after the fsync.
BugSyncEnd(s) ==
    /\ syncing.session = s
    /\ stable' = Max({stable, syncing.covers})
    /\ synced' = appended
    /\ syncing' = NoSync
    /\ pc' = [pc EXCEPT ![s] = Synced(s)]
    /\ UNCHANGED <<mode, mem, file, log, fp, appended, redo_dirty, pending, job, seq, open, next_id, crashes, history>>

SyncEnd(s) ==
    /\ syncing.session = s
    /\ stable' = Max({stable, syncing.covers})
    /\ synced' = syncing.target
    /\ syncing' = NoSync
    /\ pc' = [pc EXCEPT ![s] = Synced(s)]
    /\ UNCHANGED <<mode, mem, file, log, fp, appended, redo_dirty, pending, job, seq, open, next_id, crashes, history>>

\* The batch stays in the file.
SyncFailed(s) ==
    /\ SyncFails
    /\ syncing.session = s /\ pc[s] = "appended"
    /\ syncing' = NoSync
    /\ Fails(s)
    /\ failed' = TRUE
    /\ UNCHANGED <<mode, mem, file, log, stable, fp, appended, synced, redo_dirty, pending, seq, open, next_id, crashes, acked, undone, overtaken>>

--------------------------------------------------------------------------------
(* Table files *)

Vacuumable(tb) ==
    {v \in mem[tb] : v.xmax # 0 /\ v.xmax < (IF open = {} THEN next_id ELSE Min(open))}

\* maybe_auto_vacuum at the end of a statement or of a COMMIT: the file is rewritten under the data lock.
Vacuum(s) ==
    LET tb == job[s].table
        kept == mem[tb] \ Vacuumable(tb)
    IN  /\ mode = "up"
        /\ \/ job[s].kind = "auto" /\ pc[s] = "changed"
           \/ job[s].kind = "commit" /\ pc[s] \in {"open", "finished"}
        /\ Vacuumable(tb) # {}
        /\ \A u \in Sessions \ {s} : ~Exclusive(u, tb) /\ ~Flushing(u, tb)
        /\ mem' = [mem EXCEPT ![tb] = kept]
        /\ file' = [file EXCEPT ![tb] = save_committed(kept)]
        /\ pc' = IF log = <<>> THEN pc ELSE [pc EXCEPT ![s] = "vacuumed"]
        /\ overtaken' = (overtaken \/ \E u \in Sessions : Busy(u, tb) /\ job[u].kind = "auto" /\ pc[u] \in {"changed", "appended"})
        /\ UNCHANGED <<mode, logVars, pending, job, seq, open, next_id, crashes, acked, undone, failed>>

\* redo_mark_flushed up to its sync
redo_mark_flushed(s) ==
    /\ mode = "up" /\ pc[s] = "vacuumed"
    /\ append_batch(s, Flushed(job[s].table))
    /\ pc' = [pc EXCEPT ![s] = "marked"]
    /\ UNCHANGED <<mode, mem, file, stable, synced, redo_dirty, syncing, pending, job, open, next_id, crashes, history>>

\* maybe_checkpoint_redo: the structural lock waits until no statement runs.
Checkpoint ==
    /\ mode = "up" /\ log # <<>>
    /\ \A s \in Sessions : pc[s] \notin InCall
    /\ mode' = "checkpoint"
    /\ pending' = redo_dirty
    /\ UNCHANGED <<mem, file, logVars, sessVars, crashes, history>>

\* One table of a checkpoint, or of the recovery.
FlushTable(tb) ==
    /\ tb \in pending
    /\ file' = [file EXCEPT ![tb] = save_committed(mem[tb])]
    /\ pending' = pending \ {tb}
    /\ UNCHANGED <<mode, mem, logVars, sessVars, crashes, history>>

\* BUG: the log goes before the files are written.
BugAllFlushed == TRUE

AllFlushed == pending = {}

\* RedoLog::clear
clear ==
    /\ log' = <<>> /\ stable' = 0
    /\ fp' = FALSE
    /\ synced' = appended
    /\ redo_dirty' = {}

CheckpointDone ==
    /\ mode = "checkpoint" /\ AllFlushed
    /\ clear
    /\ mode' = "up"
    /\ pending' = {}
    /\ UNCHANGED <<mem, file, appended, syncing, sessVars, crashes, history>>

--------------------------------------------------------------------------------
(* Crash and recovery *)

\* The memory is lost, and any end of the log that no fsync has covered.
Crash ==
    /\ mode # "down" /\ crashes < MaxCrashes
    /\ mode' = "down"
    /\ crashes' = crashes + 1
    /\ log' \in {SubSeq(log, 1, k) : k \in stable .. Len(log)}
    /\ stable' = Len(log')
    /\ mem' = [tb \in Tables |-> {}]
    /\ fp' = FALSE
    /\ appended' = 0 /\ synced' = 0
    /\ redo_dirty' = {} /\ syncing' = NoSync /\ pending' = {}
    /\ open' = {}
    /\ next_id' = 1
    /\ pc' = [s \in Sessions |-> "idle"]
    /\ job' = [s \in Sessions |-> NoJob]
    /\ seq' = [s \in Sessions |-> 0]
    /\ UNCHANGED <<file, history>>

\* recover_from_redo up to the files it writes
Recover ==
    /\ mode = "down"
    /\ mem' = [tb \in Tables |-> Recovered(tb, log)]
    /\ pending' = {tb \in Tables : mem'[tb] # file[tb]}
    /\ mode' = "recovering"
    /\ UNCHANGED <<file, logVars, sessVars, crashes, history>>

\* The ids go on behind the highest one that a row carries.
RecoverDone ==
    /\ mode = "recovering" /\ AllFlushed
    /\ clear
    /\ mode' = "up"
    /\ pending' = {}
    /\ next_id' = 1 + Max(UNION {{v.id, v.xmax} : v \in UNION {mem[tb] : tb \in Tables}})
    /\ undone' = {}
    /\ UNCHANGED <<mem, file, appended, syncing, pc, job, seq, open, crashes, acked, failed, overtaken>>

--------------------------------------------------------------------------------
Session(s) ==
    \/ \E kind \in Kinds, tb \in Tables : Change(s, kind, tb)
    \/ Commit(s) \/ Rollback(s) \/ Finish(s) \/ Reply(s)
    \/ NothingToLog(s) \/ WriteBatch(s) \/ WriteBatchFails(s)
    \/ SyncReturns(s) \/ SyncStart(s) \/ SyncEnd(s) \/ SyncFailed(s)
    \/ Vacuum(s) \/ redo_mark_flushed(s)

Next ==
    \/ \E s \in Sessions : Session(s)
    \/ Checkpoint \/ CheckpointDone
    \/ \E tb \in Tables : FlushTable(tb)
    \/ Crash \/ Recover \/ RecoverDone

Spec == Init /\ [][Next]_vars

--------------------------------------------------------------------------------
(* Properties *)

\* What a crash at this moment could leave of the log.
Leavings == {SubSeq(log, 1, k) : k \in stable .. Len(log)}

\* The log, the sequence numbers and the two counters of RedoLog stay in their domains, and what an
\* fsync has covered is never longer than the file or, between two resets, than what was appended.
TypeOK ==
    /\ mode \in {"up", "checkpoint", "down", "recovering"}
    /\ \A tb \in Tables : mem[tb] \subseteq Versions /\ file[tb] \subseteq Versions
    /\ log \in Seq(Entries)
    /\ stable \in 0 .. Len(log)
    /\ fp \in BOOLEAN
    /\ appended \in Nat /\ synced \in 0 .. appended
    /\ redo_dirty \subseteq Tables /\ pending \subseteq Tables
    /\ syncing.session \in Sessions \cup {NoSession} /\ syncing.covers \in 0 .. Len(log)
    /\ next_id \in 1 .. MaxId + 1
    /\ open \subseteq 1 .. MaxId
    /\ pc \in [Sessions -> InCall \cup {"idle", "open", "failed"}]
    /\ job \in [Sessions -> Jobs]
    /\ \A s \in Sessions : seq[s] \in 0 .. appended
    /\ crashes \in 0 .. MaxCrashes

\* Wherever the program stops, a change whose client was told OK is there after the restart, or a later
\* one of the same row is: no order of appends, shared fsyncs, vacuums, checkpoints, recoveries and
\* crashes loses it, as long as every append and fsync succeeds (redo_log.hpp, "Makes every batch up to
\* `seq` durable").
AckedRecoverable ==
    ~failed => \A l \in Leavings : \A a \in acked : \E v \in Live(Recovered(a.table, l)) : v.id >= a.id

\* Wherever the program stops, no restart brings back what a transaction did that is open or was rolled
\* back, be it from a file a vacuum or a checkpoint wrote meanwhile (save_committed) or from the log; a
\* transaction rolled back after its COMMIT had written its batch and failed in the fsync is excepted.
OnlyCommittedRecovered ==
    LET unwanted == undone \cup {job[s].id : s \in {s \in Sessions : pc[s] = "open"}}
        written(l) == {l[i].id : i \in {i \in 1 .. Len(l) : l[i].kind = "batch"}}
    IN  \A l \in Leavings : \A tb \in Tables : \A v \in Recovered(tb, l) :
            {v.id, v.xmax} \cap unwanted \subseteq written(l)

\* Wherever the program stops, a row has one live version after the restart: the replay of any part of the
\* log on files written at any time neither forks nor loses it, as long as every append and fsync succeeds
\* and nothing overtakes a batch: neither one of a later change of the row nor a file that holds the change
\* (executor_redo.cpp, recover_from_redo).
RecoversOneVersion ==
    ~failed /\ ~overtaken => \A l \in Leavings : \A tb \in Tables : Cardinality(Live(Recovered(tb, l))) = 1

\* What redo_log.hpp:16 says of the replay: it "yields the same end state regardless of the order batches were
\* appended in", so that a row has one live version whatever was appended first.
RecoversInAnyOrder ==
    ~failed => \A l \in Leavings : \A tb \in Tables : Cardinality(Live(Recovered(tb, l))) = 1
================================================================================
