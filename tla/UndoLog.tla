------------------------------ MODULE UndoLog ------------------------------
(***************************************************************************)
(* How a transaction is taken back, wholly or to a savepoint, and how the  *)
(* database is put together again after the process died: the undo log and *)
(* the write-ahead log of transaction/txn_manager.cpp and wal.cpp, COMMIT, *)
(* ROLLBACK and SAVEPOINT of executor_txn.cpp, the table file written by   *)
(* storage/buffer_pool.cpp and the two recoveries a start runs, first of   *)
(* the write-ahead log, then of the redo log.                              *)
(*                                                                         *)
(* One table.  A row is a chain of versions in the order the code pushes   *)
(* them; the order is kept because the replay of an UPDATE overwrites the  *)
(* first row of the key.  Row claims keep two open transactions from       *)
(* touching one key, and a COMMIT holds the table's lock from its first    *)
(* step to its last, so its steps are interrupted by nothing but a crash.  *)
(* A crash is the death of the process: what was handed to the system      *)
(* stays in the files.                                                     *)
(***************************************************************************)
EXTENDS Integers, FiniteSets, SequencesExt, TLC

CONSTANTS Sessions,   \* the sessions
          Keys,       \* primary keys
          Values,     \* the other column
          Names,      \* names of savepoints
          MaxWrites,  \* bound: row changes in a behaviour
          MaxTxns,    \* bound: transactions in a behaviour
          MaxSaves,   \* bound: savepoints set in a behaviour
          MaxCrashes, \* bound: crashes in a behaviour
          Legacy      \* whether a transaction may run a statement the redo log does not cover

VARIABLES rows,    \* the table in memory: versions [k, v, xmin, xmax], xmax 0 = not ended
          file,    \* the table's file
          wal,     \* the write-ahead log: records [op, t, k, v]
          undo,    \* the undo log's file: entries [t, op, k, new, old]
          redo,    \* the redo log: operations [kind, ver, xmax]
          txn,     \* per session: its TransactionManager and how far its statement is
          active,  \* active_txn_ids
          boot,    \* "up", "down", or the step of the start that comes next
          todo,    \* the transactions recover_from_wal has still to look at
          ids,     \* the last transaction id handed out
          sure,    \* history: what the acknowledged commits made of the table
          maybe,   \* history: what the commit under way makes of it
          torn,    \* history: one of the two cases recovery is known not to survive has happened
          count    \* bounds: changes, transactions and crashes so far

vars == <<rows, file, wal, undo, redo, txn, active, boot, todo, ids, sure, maybe, torn, count>>

Version == [k : Keys, v : Values, xmin : Nat, xmax : Nat]
NoTxn == [id |-> 0, pc |-> "none", log |-> <<>>, ops |-> <<>>, marks |-> <<>>,
          saves |-> <<>>, shot |-> FALSE, reborn |-> FALSE]

(***************************************************************************)
(* What the rows mean.  For a set of transactions still open: the live     *)
(* versions as the pairs of key and value with the number of their copies. *)
(***************************************************************************)
Alive(rs) == {i \in DOMAIN rs : rs[i].xmax = 0}
Meaning(rs) == [k \in Keys |-> [v \in Values |->
                    Cardinality({i \in Alive(rs) : rs[i].k = k /\ rs[i].v = v})]]

\* BufferPool::save_committed: the rows without what the transactions in open did.
Committed(rs, open) ==
  LET kept == SelectSeq(rs, LAMBDA r : r.xmin \notin open)
  IN  [i \in DOMAIN kept |-> [kept[i] EXCEPT !.xmax = IF @ \in open THEN 0 ELSE @]]

\* What the table means to transaction t, and to everybody once t has committed.
MeaningWith(t) == Meaning(Committed(rows, active \ {t}))

\* apply_rollback, and the undo of recover_from_wal: the same rule for one transaction.
TakenBack(rs, t) == Committed(rs, {t})

Init ==
  /\ \E v \in Values, k \in Keys : rows = <<[k |-> k, v |-> v, xmin |-> 0, xmax |-> 0]>>
  /\ file = rows
  /\ wal = <<>> /\ undo = <<>> /\ redo = <<>>
  /\ txn = [s \in Sessions |-> NoTxn]
  /\ active = {} /\ boot = "up" /\ todo = <<>> /\ ids = 0
  /\ sure = Meaning(rows) /\ maybe = sure /\ torn = FALSE
  /\ count = [writes |-> 0, txns |-> 0, saves |-> 0, crashes |-> 0]

\* No session is inside a COMMIT or a ROLLBACK: the table's lock is free.  Bound: a behaviour is
\* not followed further once a row is known to be damaged.
Quiet == boot = "up" /\ ~torn /\ \A s \in Sessions : txn[s].pc \in {"none", "open"}
Open(s) == Quiet /\ txn[s].pc = "open"
Logs == <<file, wal, undo, redo>>

----------------------------------------------------------------------------
\* exec_begin
Begin(s) ==
  /\ Quiet /\ txn[s].pc = "none" /\ count.txns < MaxTxns
  /\ ids' = ids + 1
  /\ active' = active \cup {ids'}
  /\ txn' = [txn EXCEPT ![s] = [NoTxn EXCEPT !.id = ids', !.pc = "open"]]
  /\ count' = [count EXCEPT !.txns = @ + 1]
  /\ UNCHANGED <<rows, Logs, boot, todo, sure, maybe, torn>>

\* No other open transaction has created or ended a version of the key (its row claim).
Mine(s, k) == \A i \in DOMAIN rows : rows[i].k = k =>
                 {rows[i].xmin, rows[i].xmax} \cap (active \ {txn[s].id}) = {}
Tip(k) == {i \in Alive(rows) : rows[i].k = k}

\* TransactionManager::log_insert, log_update and log_delete: one WAL record, one undo entry
\* (in memory and in the file), the redo operations and the mark of how many there are.
Logged(s, op, k, v, entry, more) ==
  LET t == txn[s].id
      e == [t |-> t, op |-> op, k |-> k, new |-> entry.new, old |-> entry.old]
      all == txn[s].ops \o more
  IN  /\ wal' = Append(wal, [op |-> op, t |-> t, k |-> entry.new, v |-> v])
      /\ undo' = Append(undo, e)
      /\ txn' = [txn EXCEPT ![s].log = Append(@, e), ![s].ops = all,
                            ![s].marks = Append(@, Len(all)), ![s].shot = FALSE,
                            ![s].reborn = @ \/ (op = "I" /\ \E i \in DOMAIN rows :
                                              rows[i].k = k /\ rows[i].xmin = t)]
      /\ count' = [count EXCEPT !.writes = @ + 1]
      /\ UNCHANGED <<file, redo, active, boot, todo, ids, sure, maybe, torn>>

InsertOp(ver) == [kind |-> "Insert", ver |-> ver, xmax |-> 0]
SetXmaxOp(ver, t) == [kind |-> "SetXmax", ver |-> ver, xmax |-> t]

\* INSERT of a key no live row has.
Insert(s, k, v) ==
  LET new == [k |-> k, v |-> v, xmin |-> txn[s].id, xmax |-> 0]
  IN  /\ Open(s) /\ count.writes < MaxWrites /\ Mine(s, k) /\ Tip(k) = {}
      /\ rows' = Append(rows, new)
      /\ Logged(s, "I", k, v, [new |-> k, old |-> new], <<InsertOp(new)>>)

\* UPDATE, which may change the key: the old version ends, a new one is pushed.
Update(s, k, nk, v) ==
  \E i \in Tip(k) :
    LET t == txn[s].id
        new == [k |-> nk, v |-> v, xmin |-> t, xmax |-> 0]
    IN  /\ Open(s) /\ count.writes < MaxWrites /\ Mine(s, k)
        /\ nk # k => Mine(s, nk) /\ Tip(nk) = {}
        /\ rows' = Append([rows EXCEPT ![i].xmax = t], new)
        /\ Logged(s, "U", k, v, [new |-> nk, old |-> rows[i]], <<SetXmaxOp(rows[i], t), InsertOp(new)>>)

\* DELETE: the version ends.
Delete(s, k) ==
  \E i \in Tip(k) :
    LET t == txn[s].id
    IN  /\ Open(s) /\ count.writes < MaxWrites /\ Mine(s, k)
        /\ rows' = [rows EXCEPT ![i].xmax = t]
        /\ Logged(s, "D", k, rows[i].v, [new |-> k, old |-> rows[i]], <<SetXmaxOp(rows[i], t)>>)

----------------------------------------------------------------------------
\* create_savepoint: an older one of the name goes, the new one is the last.
Savepoint(s, n) ==
  /\ Open(s) /\ count.saves < MaxSaves
  /\ txn' = [txn EXCEPT ![s].saves = Append(SelectSeq(@, LAMBDA p : p.name # n),
                                            [name |-> n, len |-> Len(txn[s].log), saw |-> MeaningWith(txn[s].id)]),
                        ![s].shot = FALSE]
  /\ count' = [count EXCEPT !.saves = @ + 1]
  /\ UNCHANGED <<rows, Logs, active, boot, todo, ids, sure, maybe, torn>>

Release(s, n) ==
  /\ Open(s)
  /\ \E i \in DOMAIN txn[s].saves :
       /\ txn[s].saves[i].name = n
       /\ txn' = [txn EXCEPT ![s].saves = RemoveAt(@, i), ![s].shot = FALSE]
  /\ UNCHANGED <<rows, Logs, active, boot, todo, ids, sure, maybe, torn, count>>

\* Two row images are the same but for _xmax.
Same(r, q) == [r EXCEPT !.xmax = 0] = [q EXCEPT !.xmax = 0]

\* Mutant: any version of the key the transaction ended comes back.
BugRevived(rs, t, e) ==
  LET at == {i \in DOMAIN rs : rs[i].k = e.k /\ rs[i].xmax = t}
  IN  IF at = {} THEN rs ELSE [rs EXCEPT ![Min(at)].xmax = 0]

\* The first version of the image which transaction t ended lives again.
Revived(rs, t, e) ==
  LET at == {i \in DOMAIN rs : rs[i].k = e.k /\ rs[i].xmax = t /\ Same(rs[i], e.old)}
  IN  IF at = {} THEN rs ELSE [rs EXCEPT ![Min(at)].xmax = 0]

\* exec_rollback_to for one entry of the undo log.
UndoneEntry(rs, e) ==
  CASE e.op = "I" -> SelectSeq(rs, LAMBDA r : ~(r.k = e.k /\ r.xmin = e.t))
    [] e.op = "U" -> Revived(SelectSeq(rs, LAMBDA r : ~(r.k = e.new /\ r.xmin = e.t /\ r.xmax = 0)), e.t, e)
    [] e.op = "D" -> Revived(rs, e.t, e)

\* rewrite_txn: the file's entries of the transaction are replaced by what is left of them.
Rewritten(t, log) == SelectSeq(undo, LAMBDA e : e.t # t) \o log

\* Mutant: the redo operations of what is taken back stay.
BugRollbackTo(s, n) ==
  /\ Open(s)
  /\ \E i \in DOMAIN txn[s].saves :
       LET sp == txn[s].saves[i]
           log == SubSeq(txn[s].log, 1, sp.len)
           back == Reverse(SubSeq(txn[s].log, sp.len + 1, Len(txn[s].log)))
       IN  /\ sp.name = n
           /\ txn' = [txn EXCEPT ![s].log = log, ![s].marks = SubSeq(@, 1, sp.len),
                                 ![s].saves = SubSeq(@, 1, i), ![s].shot = TRUE]
           /\ undo' = Rewritten(txn[s].id, log)
           /\ rows' = FoldLeft(UndoneEntry, rows, back)
  /\ torn' = (torn \/ txn[s].reborn)
  /\ UNCHANGED <<file, wal, redo, active, boot, todo, ids, sure, maybe, count>>

RollbackTo(s, n) ==
  /\ Open(s)
  /\ \E i \in DOMAIN txn[s].saves :
       LET sp == txn[s].saves[i]
           log == SubSeq(txn[s].log, 1, sp.len)
           back == Reverse(SubSeq(txn[s].log, sp.len + 1, Len(txn[s].log)))
       IN  /\ sp.name = n
           /\ txn' = [txn EXCEPT ![s].log = log,
                                 ![s].ops = IF sp.len = 0 THEN <<>> ELSE SubSeq(@, 1, txn[s].marks[sp.len]),
                                 ![s].marks = SubSeq(@, 1, sp.len),
                                 ![s].saves = SubSeq(@, 1, i),
                                 ![s].shot = TRUE]
           /\ undo' = Rewritten(txn[s].id, log)
           /\ rows' = FoldLeft(UndoneEntry, rows, back)
  /\ torn' = (torn \/ txn[s].reborn)
  /\ UNCHANGED <<file, wal, redo, active, boot, todo, ids, sure, maybe, count>>

----------------------------------------------------------------------------
At(s, pc) == boot = "up" /\ txn[s].pc = pc
Goto(s, pc) == txn' = [txn EXCEPT ![s].pc = pc]

\* execute_commit_grouped.  Whether a statement of the transaction was one the redo operations
\* do not describe (redo_incomplete) is a choice made here, where alone it is read.  If there
\* was none: one batch and its fsync.
CommitBatch(s) ==
  /\ Open(s)
  /\ redo' = redo \o txn[s].ops
  /\ maybe' = MeaningWith(txn[s].id)
  /\ Goto(s, "prune")
  /\ UNCHANGED <<rows, file, wal, undo, active, boot, todo, ids, sure, torn, count>>

\* exec_commit_phase1, not covered: the table's file is written and marked in the redo log.
CommitFlush(s) ==
  /\ Open(s) /\ Legacy /\ txn[s].log # <<>>
  /\ file' = Committed(rows, active \ {txn[s].id})
  /\ maybe' = MeaningWith(txn[s].id)
  /\ Goto(s, "mark")
  /\ UNCHANGED <<rows, wal, undo, redo, active, boot, todo, ids, sure, torn, count>>

CommitMark(s) ==
  /\ At(s, "mark")
  /\ redo' = Append(redo, [kind |-> "TableFlushed"])
  /\ Goto(s, "record")
  /\ UNCHANGED <<rows, file, wal, undo, active, boot, todo, ids, sure, maybe, torn, count>>

\* commit_write_record and the fsync.
CommitRecord(s) ==
  /\ At(s, "record") \/ (Open(s) /\ Legacy /\ txn[s].log = <<>>)
  /\ wal' = Append(wal, [op |-> "C", t |-> txn[s].id])
  /\ maybe' = MeaningWith(txn[s].id)
  /\ Goto(s, "prune")
  /\ UNCHANGED <<rows, file, undo, redo, active, boot, todo, ids, sure, torn, count>>

Without(log, t) == SelectSeq(log, LAMBDA e : e.t # t)

\* commit_finalize, its first half and its second.
PruneWal(s) ==
  /\ At(s, "prune")
  /\ wal' = Without(wal, txn[s].id)
  /\ Goto(s, "end")
  /\ UNCHANGED <<rows, file, undo, redo, active, boot, todo, ids, sure, maybe, torn, count>>

\* The keys a transaction has changed; a savepoint another one set means the committed rows.
Touched(s) == UNION {{txn[s].log[i].k, txn[s].log[i].new} : i \in DOMAIN txn[s].log}

CommitEnd(s) ==
  /\ At(s, "end")
  /\ undo' = Without(undo, txn[s].id)
  /\ active' = active \ {txn[s].id}
  /\ sure' = maybe
  /\ txn' = [u \in Sessions |->
               IF u = s THEN NoTxn
               ELSE [txn[u] EXCEPT !.saves = [i \in DOMAIN @ |->
                       [@[i] EXCEPT !.saw = [k \in Keys |-> IF k \in Touched(s) THEN maybe[k] ELSE @[k]]]]]]
  /\ UNCHANGED <<rows, file, wal, redo, boot, todo, ids, maybe, torn, count>>

\* apply_rollback: the logs are pruned (abort), then the rows are put right.
Rollback(s) ==
  /\ Open(s)
  /\ wal' = Without(wal, txn[s].id)
  /\ Goto(s, "undo")
  /\ UNCHANGED <<rows, file, undo, redo, active, boot, todo, ids, sure, maybe, torn, count>>

RollbackRows(s) ==
  /\ At(s, "undo")
  /\ undo' = Without(undo, txn[s].id)
  /\ active' = active \ {txn[s].id}
  /\ rows' = IF txn[s].log = <<>> THEN rows ELSE TakenBack(rows, txn[s].id)
  /\ txn' = [txn EXCEPT ![s] = NoTxn]
  /\ UNCHANGED <<file, wal, redo, boot, todo, ids, sure, maybe, torn, count>>

\* checkpoint_redo_locked: the file takes what is committed, the redo log is emptied (module
\* RedoLog has the crash between the two).
Checkpoint ==
  /\ Quiet /\ redo # <<>>
  /\ file' = Committed(rows, active)
  /\ redo' = <<>>
  /\ UNCHANGED <<rows, wal, undo, txn, active, boot, todo, ids, sure, maybe, torn, count>>

----------------------------------------------------------------------------
Crash ==
  /\ boot # "down" /\ ~torn /\ count.crashes < MaxCrashes
  /\ torn' = (torn \/ \E t \in 1..ids : \E i \in DOMAIN wal : wal[i] = [op |-> "C", t |-> t])
  /\ rows' = <<>> /\ active' = {}
  /\ txn' = [s \in Sessions |-> NoTxn]
  /\ boot' = "down" /\ todo' = <<>>
  /\ maybe' = IF boot # "up" \/ \E s \in Sessions : txn[s].pc \in {"mark", "record", "prune", "end"} THEN maybe ELSE sure
  /\ count' = [count EXCEPT !.crashes = @ + 1]
  /\ UNCHANGED <<Logs, ids, sure>>

IsCommit(r) == r.op = "C"

\* The start reads the file, and the write-ahead log's transactions in the order of their ids.
Load ==
  /\ boot = "down"
  /\ rows' = file
  /\ todo' = SetToSortSeq({wal[i].t : i \in {j \in DOMAIN wal : ~IsCommit(wal[j])}}, <)
  /\ boot' = IF wal = <<>> THEN "redo" ELSE "wal"
  /\ UNCHANGED <<Logs, txn, active, ids, sure, maybe, torn, count>>

HasCommit(t) == \E i \in DOMAIN wal : IsCommit(wal[i]) /\ wal[i].t = t

\* recover_from_wal, one record of a committed transaction.
Replayed(rs, r) ==
  LET at == {i \in DOMAIN rs : rs[i].k = r.k}
      image == [k |-> r.k, v |-> r.v, xmin |-> r.t, xmax |-> 0]
  IN  CASE r.op = "I" -> IF at = {} THEN Append(rs, image) ELSE rs
        [] r.op = "U" -> IF at = {} THEN rs ELSE [rs EXCEPT ![Min(at)] = image]
        [] r.op = "D" -> SelectSeq(rs, LAMBDA q : q.k # r.k)

\* recover_from_wal, one transaction: replay, or undo if the undo log has entries of it.
RecoveredTxn(rs, t) ==
  IF HasCommit(t)
  THEN FoldLeft(Replayed, rs, SelectSeq(wal, LAMBDA r : r.t = t /\ ~IsCommit(r)))
  ELSE IF \E i \in DOMAIN undo : undo[i].t = t THEN TakenBack(rs, t) ELSE rs

\* The file is written for every transaction that changes the rows.
RecoverWal ==
  /\ boot = "wal" /\ todo # <<>>
  /\ rows' = RecoveredTxn(rows, Head(todo))
  /\ file' = rows'
  /\ todo' = Tail(todo)
  /\ UNCHANGED <<wal, undo, redo, txn, active, boot, ids, sure, maybe, torn, count>>

\* wal_clear, then clear_undo_log_file
ClearWal ==
  /\ boot = "wal" /\ todo = <<>>
  /\ wal' = <<>>
  /\ boot' = "clear"
  /\ UNCHANGED <<rows, file, undo, redo, txn, active, todo, ids, sure, maybe, torn, count>>

ClearUndo ==
  /\ boot = "clear"
  /\ undo' = <<>>
  /\ boot' = "redo"
  /\ UNCHANGED <<rows, file, wal, redo, txn, active, todo, ids, sure, maybe, torn, count>>

\* recover_from_redo: what precedes the last flush of the table is dropped; a logged copy of
\* a version is added when fewer copies are there, then the ends are set the same way.
Kept == LET flushes == {i \in DOMAIN redo : redo[i].kind = "TableFlushed"}
            from == IF flushes = {} THEN 0 ELSE Max(flushes)
        IN  SubSeq(redo, from + 1, Len(redo))
OfKind(kind) == SelectSeq(Kept, LAMBDA o : o.kind = kind)
Earlier(ops, i, Like(_)) == Cardinality({j \in 1..i : Like(ops[j])})
Copies(rs, ver) == {i \in DOMAIN rs : Same(rs[i], ver)}

AddVersions(rs) ==
  LET ops == OfKind("Insert")
      missing == {i \in DOMAIN ops :
                    Earlier(ops, i, LAMBDA o : Same(o.ver, ops[i].ver)) > Cardinality(Copies(rs, ops[i].ver))}
  IN  rs \o [n \in 1..Cardinality(missing) |-> ops[SetToSortSeq(missing, <)[n]].ver]

Ended(rs, o) ==
  LET live == {i \in Copies(rs, o.ver) : rs[i].xmax = 0}
  IN  IF live = {} THEN rs ELSE [rs EXCEPT ![Min(live)].xmax = o.xmax]

EndVersions(rs) ==
  LET ops == OfKind("SetXmax")
      done(i) == Cardinality({p \in Copies(rs, ops[i].ver) : rs[p].xmax = ops[i].xmax})
      due == {i \in DOMAIN ops :
                Earlier(ops, i, LAMBDA o : Same(o.ver, ops[i].ver) /\ o.xmax = ops[i].xmax) > done(i)}
  IN  FoldLeft(LAMBDA r, i : Ended(r, ops[i]), rs, SetToSortSeq(due, <))

RecoverRedo ==
  LET done == EndVersions(AddVersions(rows))
  IN  /\ boot = "redo"
      /\ rows' = done
      /\ file' = IF done = rows THEN file ELSE done
      /\ boot' = "ready"
      /\ UNCHANGED <<wal, undo, redo, txn, active, todo, ids, sure, maybe, torn, count>>

\* The redo log is emptied, the ids go on above the ones the rows carry, and the database is up:
\* what it means from here on is what it was found to mean.
Ready ==
  /\ boot = "ready"
  /\ redo' = <<>>
  /\ ids' = Max({0} \cup {rows[i].xmin : i \in DOMAIN rows} \cup {rows[i].xmax : i \in DOMAIN rows})
  /\ boot' = "up"
  /\ sure' = Meaning(rows) /\ maybe' = sure'
  /\ UNCHANGED <<rows, file, wal, undo, txn, active, todo, torn, count>>

Next ==
  \/ \E s \in Sessions :
       \/ Begin(s) \/ Rollback(s) \/ RollbackRows(s)
       \/ CommitBatch(s) \/ CommitFlush(s) \/ CommitMark(s) \/ CommitRecord(s) \/ PruneWal(s) \/ CommitEnd(s)
       \/ \E k \in Keys : Delete(s, k)
       \/ \E k \in Keys, v \in Values : Insert(s, k, v)
       \/ \E k, nk \in Keys, v \in Values : Update(s, k, nk, v)
       \/ \E n \in Names : Savepoint(s, n) \/ Release(s, n) \/ RollbackTo(s, n)
  \/ Checkpoint \/ Crash \/ Load \/ RecoverWal \/ ClearWal \/ ClearUndo \/ RecoverRedo \/ Ready

Spec == Init /\ [][Next]_vars

----------------------------------------------------------------------------
(***************************************************************************)
(* The logs and the rows hold what the code puts there.                    *)
(***************************************************************************)
TypeOK ==
  /\ rows \in Seq(Version) /\ file \in Seq(Version)
  /\ boot \in {"up", "down", "wal", "clear", "redo", "ready"}
  /\ active \subseteq 1..ids
  /\ \A s \in Sessions : Len(txn[s].marks) = Len(txn[s].log)

(***************************************************************************)
(* A start after any crash, itself interrupted or not, finds the table as  *)
(* the acknowledged commits left it, or with the one commit that was under *)
(* way as a whole: open transactions, the part of a transaction a ROLLBACK *)
(* TO took back, and half-pruned logs leave nothing (recover_from_wal,     *)
(* recover_from_redo, save_committed).  Two cases are excepted.  A crash   *)
(* that hits a commit the redo log does not cover after its record: a      *)
(* replayed UPDATE overwrites the version it ended and leaves the row      *)
(* twice, and records taken back by ROLLBACK TO are replayed as well.  And *)
(* the ROLLBACK TO of RollbackToIsExact below, after which the redo        *)
(* operations hold a row that memory has lost.                             *)
(***************************************************************************)
RecoveredIsCommitted == boot = "ready" => Meaning(rows) \in {sure, maybe} \/ torn

\* Right after a ROLLBACK TO the transaction sees what it saw at the savepoint.
Restored(s) ==
  txn[s].pc = "open" /\ txn[s].shot => MeaningWith(txn[s].id) = Last(txn[s].saves).saw

(***************************************************************************)
(* ROLLBACK TO restores what the transaction saw when it set the savepoint *)
(* (exec_rollback_to, rollback_to_savepoint), unless it has inserted a key *)
(* again of which it had created a version before.                         *)
(***************************************************************************)
RollbackToRestores == \A s \in Sessions : txn[s].reborn \/ Restored(s)

(***************************************************************************)
(* ROLLBACK TO restores the state of the savepoint however often the       *)
(* transaction changed one key (docs/mds/FUNCTIONS.md:224).  The undo of   *)
(* an INSERT erases every version of the key the transaction created, the  *)
(* one an earlier UPDATE of it left included (exec_rollback_to).           *)
(***************************************************************************)
RollbackToIsExact == \A s \in Sessions : Restored(s)

\* For TLC: sessions, keys and values are interchangeable.
Sym == Permutations(Sessions) \cup Permutations(Keys) \cup Permutations(Values)
=============================================================================
