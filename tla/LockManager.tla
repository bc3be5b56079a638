------------------------------ MODULE LockManager ------------------------------
(* The row-lock manager: core/src/engine/lock_manager.cpp.                      *)
(*                                                                              *)
(* Shared and exclusive claims on rows, gap locks and predicate reads on        *)
(* tables, one wait-for edge per transaction, and the threads that sleep on the *)
(* manager's single condition variable.  Every public method holds mutex_, so   *)
(* one method call, up to the point where it sleeps, is one step; a thread that *)
(* sleeps gives mutex_ up, and everything it does after waking is another step. *)
(*                                                                              *)
(* A transaction id is used by one session thread and never again once the      *)
(* transaction has ended, as the ids are drawn from one counter.                *)
EXTENDS Naturals, Sequences

CONSTANTS
    Txns,            \* transaction ids, the one-off ids of autocommit statements included
    Rows,            \* lockable (table, key) pairs
    Tables,          \* tables whose gaps are locked and whose ranges are read
    NoTxn,           \* "no entry in wait_for_"
    MaxDeadlocks     \* bound on the length of deadlock_history_

ASSUME NoTxnAssumption == NoTxn \notin Txns
ASSUME MaxDeadlocksAssumption == MaxDeadlocks \in Nat

VARIABLES
    row_locks,              \* the lock entry of each row
    wait_for,               \* wait_for[t]: the transaction t waits for, or NoTxn
    deadlock_history,       \* the refused requests: <<who asked, who held>>
    gap_locks,              \* gap_locks[tb]: the transactions with a gap lock on tb
    predicate_reads,        \* predicate_reads[tb]: the transactions that read a range of tb
    predicate_violations,   \* the transactions whose range someone inserted into
    call,                   \* call[t]: what the thread of t is doing in the manager
    signalled,              \* the sleepers cv_.notify_all() has been called for
    expired,                \* the sleepers whose deadline has passed
    killed,                 \* the sleepers whose session was told to KILL QUERY
    claims,                 \* claims[t][r]: what acquire() has told t it holds
    ended                   \* the transactions that have released their locks for good

lockVars == <<row_locks, claims>>
waitVars == <<wait_for, deadlock_history>>
rangeVars == <<gap_locks, predicate_reads, predicate_violations>>
threadVars == <<call, signalled, expired, killed>>
vars == <<lockVars, waitVars, rangeVars, threadVars, ended>>

------------------------------------------------------------------------------
(* Values *)

Free == [mode |-> "free", holders |-> {}]
LockEntry == [mode : {"free", "S", "X"}, holders : SUBSET Txns]
LockModes == {"S", "X"}

Idle == [op |-> "idle"]
RowWait(r, m) == [op |-> "row", row |-> r, mode |-> m]
GapSeen(tb, h) == [op |-> "seen", table |-> tb, holder |-> h]
GapWait(tb, h) == [op |-> "gap", table |-> tb, holder |-> h]
ReadSeen(h) == [op |-> "read", holder |-> h]

Calls == {Idle}
         \cup [op : {"row"}, row : Rows, mode : LockModes]
         \cup [op : {"seen", "gap"}, table : Tables, holder : Txns]
         \cup [op : {"read"}, holder : Txns]

Sleeping(t) == call[t].op \in {"row", "gap"}

Ready(t) == t \notin ended /\ call[t].op = "idle"

------------------------------------------------------------------------------
(* try_grant_exclusive_locked, try_grant_shared_locked, creates_cycle *)

\* BUG: a shared request is granted whatever the row's mode.
BugBlockersShared(t, r, m) == IF m = "X" THEN row_locks[r].holders \ {t} ELSE {}

\* The holders that stand in the way of t taking r in mode m.  An exclusive request tolerates only
\* t's own lock (the sole shared holder upgrades); a shared one is stopped by another's exclusive lock.
Blockers(t, r, m) ==
    IF m = "X" \/ row_locks[r].mode = "X" THEN row_locks[r].holders \ {t} ELSE {}

\* The row's entry once t has been granted r in mode m.
Granted(t, r, m) ==
    CASE m = "X" -> [mode |-> "X", holders |-> {t}]
      [] m = "S" /\ row_locks[r].mode = "X" -> row_locks[r]
      [] OTHER -> [mode |-> "S", holders |-> row_locks[r].holders \cup {t}]

Grant(t, r, m) ==
    /\ Blockers(t, r, m) = {}
    /\ row_locks' = [row_locks EXCEPT ![r] = Granted(t, r, m)]
    /\ claims' = [claims EXCEPT ![t][r] = IF @ = "X" THEN @ ELSE m]

\* Whether following the wait-for edges from `to` arrives at `from`: every set of transactions that
\* contains `to` and is closed under the edges contains `from`.
creates_cycle(from, to) ==
    \A S \in SUBSET Txns :
        (to \in S /\ \A u \in S : wait_for[u] # NoTxn => wait_for[u] \in S) => from \in S

------------------------------------------------------------------------------
Init ==
    /\ row_locks = [r \in Rows |-> Free]
    /\ wait_for = [t \in Txns |-> NoTxn]
    /\ deadlock_history = <<>>
    /\ gap_locks = [tb \in Tables |-> {}]
    /\ predicate_reads = [tb \in Tables |-> {}]
    /\ predicate_violations = {}
    /\ call = [t \in Txns |-> Idle]
    /\ signalled = {}
    /\ expired = {}
    /\ killed = {}
    /\ claims = [t \in Txns |-> [r \in Rows |-> "none"]]
    /\ ended = {}

------------------------------------------------------------------------------
(* The start of a call that may wait: the request is refused as a deadlock, or  *)
(* the edge is recorded and the call returns Conflict (timeout 0) or sleeps.    *)

RefuseAsDeadlock(t, h) ==
    /\ creates_cycle(t, h)
    /\ Len(deadlock_history) < MaxDeadlocks
    /\ deadlock_history' = Append(deadlock_history, <<t, h>>)
    /\ UNCHANGED wait_for

RecordEdge(t, h) ==
    /\ ~creates_cycle(t, h)
    /\ wait_for' = [wait_for EXCEPT ![t] = h]
    /\ UNCHANGED deadlock_history

FallAsleep(t, wait) ==
    /\ call' = [call EXCEPT ![t] = wait]
    /\ UNCHANGED <<signalled, expired, killed>>

\* The call of t returns: the deadline and the KILL it was subject to are gone with it.
Return(t) ==
    /\ call' = [call EXCEPT ![t] = Idle]
    /\ signalled' = signalled \ {t}
    /\ expired' = expired \ {t}
    /\ killed' = killed \ {t}

EraseEdge(t) == wait_for' = [wait_for EXCEPT ![t] = NoTxn]

------------------------------------------------------------------------------
(* acquire() and acquire_shared() *)

\* Granted on the first try: an edge left by an earlier refused request stays.
AcquireGranted(t, r, m) ==
    /\ Ready(t)
    /\ Grant(t, r, m)
    /\ UNCHANGED <<waitVars, rangeVars, threadVars, ended>>

AcquireDeadlock(t, r, m) ==
    /\ Ready(t)
    /\ \E h \in Blockers(t, r, m) : RefuseAsDeadlock(t, h)
    /\ UNCHANGED <<lockVars, rangeVars, threadVars, ended>>

\* timeout <= 0: the edge to the holder outlives the call.
AcquireConflict(t, r, m) ==
    /\ Ready(t)
    /\ \E h \in Blockers(t, r, m) : RecordEdge(t, h)
    /\ UNCHANGED <<lockVars, rangeVars, threadVars, ended>>

\* timeout > 0: the thread sleeps on cv_.
AcquireWait(t, r, m) ==
    /\ Ready(t)
    /\ \E h \in Blockers(t, r, m) : RecordEdge(t, h)
    /\ FallAsleep(t, RowWait(r, m))
    /\ UNCHANGED <<lockVars, rangeVars, ended>>

WakeGranted(t) ==
    /\ call[t].op = "row"
    /\ Grant(t, call[t].row, call[t].mode)
    /\ EraseEdge(t)
    /\ Return(t)
    /\ UNCHANGED <<deadlock_history, rangeVars, ended>>

\* Whether a thread that woke and is still blocked returns Timeout.
GiveUp(t) == t \in expired \cup killed

WakeTimeout(t) ==
    /\ call[t].op = "row"
    /\ Blockers(t, call[t].row, call[t].mode) # {}
    /\ GiveUp(t)
    /\ EraseEdge(t)
    /\ Return(t)
    /\ UNCHANGED <<lockVars, deadlock_history, rangeVars, ended>>

\* Still blocked, and time left: the edge moves to a present holder, with no look for a cycle.
WakeRefresh(t) ==
    /\ call[t].op = "row"
    /\ ~GiveUp(t)
    /\ \E h \in Blockers(t, call[t].row, call[t].mode) : wait_for' = [wait_for EXCEPT ![t] = h]
    /\ signalled' = signalled \ {t}
    /\ UNCHANGED <<lockVars, deadlock_history, rangeVars, call, expired, killed, ended>>

\* A thread asleep on a row wakes on a notification, spuriously, or by itself every 100 ms.
WakeOnRow(t) == WakeGranted(t) \/ WakeTimeout(t) \/ WakeRefresh(t)

------------------------------------------------------------------------------
(* Gap locks: acquire_gap(), gap_locks_for(), register_gap_conflict() *)

\* Ranges are left to the executor; what the manager keeps and sweeps is who holds a gap on a table.
AcquireGap(t, tb) ==
    /\ Ready(t)
    /\ gap_locks' = [gap_locks EXCEPT ![tb] = @ \cup {t}]
    /\ UNCHANGED <<lockVars, waitVars, predicate_reads, predicate_violations, threadVars, ended>>

\* INSERT copies the gap locks of its table and picks another transaction whose range holds its key.
\* The manager's mutex is free again when it acts on that copy.
GapLocksFor(t, tb) ==
    /\ Ready(t)
    /\ \E h \in gap_locks[tb] \ {t} : call' = [call EXCEPT ![t] = GapSeen(tb, h)]
    /\ UNCHANGED <<lockVars, waitVars, rangeVars, signalled, expired, killed, ended>>

GapDeadlock(t) ==
    /\ call[t].op = "seen"
    /\ RefuseAsDeadlock(t, call[t].holder)
    /\ Return(t)
    /\ UNCHANGED <<lockVars, rangeVars, ended>>

\* The first call of the pair, with timeout 0; INSERT then lets its table locks go and calls again.
GapConflict(t) ==
    /\ call[t].op = "seen"
    /\ RecordEdge(t, call[t].holder)
    /\ UNCHANGED <<lockVars, rangeVars, threadVars, ended>>

\* The call with time left sleeps before it looks whether the gap is still held.
GapSleep(t) ==
    /\ call[t].op = "seen"
    /\ RecordEdge(t, call[t].holder)
    /\ FallAsleep(t, GapWait(call[t].table, call[t].holder))
    /\ UNCHANGED <<lockVars, rangeVars, ended>>

\* No time is left for the second call: Conflict again, which INSERT reports as a lock wait timeout.
GapNoTime(t) ==
    /\ call[t].op = "seen"
    /\ RecordEdge(t, call[t].holder)
    /\ Return(t)
    /\ UNCHANGED <<lockVars, rangeVars, ended>>

still_held(t) == call[t].holder \in gap_locks[call[t].table]

WakeGapGranted(t) ==
    /\ call[t].op = "gap"
    /\ ~still_held(t)
    /\ EraseEdge(t)
    /\ Return(t)
    /\ UNCHANGED <<lockVars, deadlock_history, rangeVars, ended>>

\* BUG: the loop goes back to sleep without a look at the clock.
BugGapOutOfTime(t) == FALSE

GapOutOfTime(t) == t \in expired

WakeGapTimeout(t) ==
    /\ call[t].op = "gap"
    /\ still_held(t)
    /\ GapOutOfTime(t)
    /\ EraseEdge(t)
    /\ Return(t)
    /\ UNCHANGED <<lockVars, deadlock_history, rangeVars, ended>>

WakeGapAgain(t) ==
    /\ call[t].op = "gap"
    /\ still_held(t)
    /\ ~GapOutOfTime(t)
    /\ signalled' = signalled \ {t}
    /\ UNCHANGED <<lockVars, waitVars, rangeVars, call, expired, killed, ended>>

WakeOnGap(t) == WakeGapGranted(t) \/ WakeGapTimeout(t) \/ WakeGapAgain(t)

------------------------------------------------------------------------------
(* Predicate reads: register_predicate_read(), flag_ and take_predicate_violation() *)

RegisterPredicateRead(t, tb) ==
    /\ Ready(t)
    /\ predicate_reads' = [predicate_reads EXCEPT ![tb] = @ \cup {t}]
    /\ UNCHANGED <<lockVars, waitVars, gap_locks, predicate_violations, threadVars, ended>>

\* INSERT copies the ranges read on its table and finds its new row in another transaction's; that
\* transaction may have ended by the time it is flagged.
PredicateReadsFor(t, tb) ==
    /\ Ready(t)
    /\ \E h \in predicate_reads[tb] \ {t} : call' = [call EXCEPT ![t] = ReadSeen(h)]
    /\ UNCHANGED <<lockVars, waitVars, rangeVars, signalled, expired, killed, ended>>

FlagPredicateViolation(t) ==
    /\ call[t].op = "read"
    /\ predicate_violations' = predicate_violations \cup {call[t].holder}
    /\ Return(t)
    /\ UNCHANGED <<lockVars, waitVars, gap_locks, predicate_reads, ended>>

\* COMMIT of a flagged transaction fails and takes the flag; the transaction stays open.
TakePredicateViolation(t) ==
    /\ Ready(t)
    /\ t \in predicate_violations
    /\ predicate_violations' = predicate_violations \ {t}
    /\ UNCHANGED <<lockVars, waitVars, gap_locks, predicate_reads, threadVars, ended>>

------------------------------------------------------------------------------
(* release(): COMMIT, ROLLBACK, or the end of an autocommit statement (RowClaimGuard) *)

Without(t, entry) ==
    LET rest == entry.holders \ {t} IN
    IF rest = {} THEN Free ELSE [entry EXCEPT !.holders = rest]

\* BUG: only the edge from t goes.
BugEdgesWithout(t) == [wait_for EXCEPT ![t] = NoTxn]

EdgesWithout(t) == [u \in Txns |-> IF u = t \/ wait_for[u] = t THEN NoTxn ELSE wait_for[u]]

GapsWithout(t) == [tb \in Tables |-> gap_locks[tb] \ {t}]

\* BUG: cv_.notify_one().
BugNotified == IF \E u \in Txns : Sleeping(u) THEN signalled \cup {CHOOSE u \in Txns : Sleeping(u)} ELSE {}

\* cv_.notify_all()
Notified == {u \in Txns : Sleeping(u)}

Release(t) ==
    /\ Ready(t)
    /\ row_locks' = [r \in Rows |-> Without(t, row_locks[r])]
    /\ claims' = [claims EXCEPT ![t] = [r \in Rows |-> "none"]]
    /\ wait_for' = EdgesWithout(t)
    /\ gap_locks' = GapsWithout(t)
    /\ predicate_reads' = [tb \in Tables |-> predicate_reads[tb] \ {t}]
    /\ predicate_violations' = predicate_violations \ {t}
    /\ signalled' = Notified
    /\ ended' = ended \cup {t}
    /\ UNCHANGED <<deadlock_history, call, expired, killed>>

------------------------------------------------------------------------------
(* The clock and KILL QUERY *)

DeadlinePasses(t) ==
    /\ Sleeping(t) /\ t \notin expired
    /\ expired' = expired \cup {t}
    /\ UNCHANGED <<lockVars, waitVars, rangeVars, call, signalled, killed, ended>>

KillQuery(t) ==
    /\ Sleeping(t) /\ t \notin killed
    /\ killed' = killed \cup {t}
    /\ UNCHANGED <<lockVars, waitVars, rangeVars, call, signalled, expired, ended>>

------------------------------------------------------------------------------
Acquire(t) ==
    \E r \in Rows, m \in LockModes :
        \/ AcquireGranted(t, r, m)
        \/ AcquireDeadlock(t, r, m)
        \/ AcquireConflict(t, r, m)
        \/ AcquireWait(t, r, m)

Gaps(t) ==
    \/ \E tb \in Tables : AcquireGap(t, tb) \/ GapLocksFor(t, tb)
    \/ GapDeadlock(t) \/ GapConflict(t) \/ GapSleep(t) \/ GapNoTime(t)

Predicates(t) ==
    \/ \E tb \in Tables : RegisterPredicateRead(t, tb) \/ PredicateReadsFor(t, tb)
    \/ FlagPredicateViolation(t)
    \/ TakePredicateViolation(t)

\* Every transaction has ended: nothing is left to do.
Finished == ended = Txns /\ UNCHANGED vars

Next ==
    \/ \E t \in Txns : \/ Acquire(t) \/ WakeOnRow(t)
                       \/ Gaps(t) \/ WakeOnGap(t)
                       \/ Predicates(t)
                       \/ Release(t)
                       \/ DeadlinePasses(t) \/ KillQuery(t)
    \/ Finished

Spec == Init /\ [][Next]_vars

\* A sleeper on a row wakes at least every 100 ms; one on a gap when it is notified or out of time.
\* Nobody is obliged to call the manager, to release or to KILL.
Fairness ==
    \A t \in Txns : /\ WF_vars(WakeOnRow(t))
                     /\ WF_vars(t \in signalled \cup expired /\ WakeOnGap(t))

\* Deadlines pass.
ClockFairness == \A t \in Txns : WF_vars(DeadlinePasses(t))

FairSpec == Spec /\ Fairness

------------------------------------------------------------------------------
(* Properties *)

TypeOK ==
    /\ row_locks \in [Rows -> LockEntry]
    /\ wait_for \in [Txns -> Txns \cup {NoTxn}]
    /\ deadlock_history \in Seq(Txns \X Txns)
    /\ gap_locks \in [Tables -> SUBSET Txns]
    /\ predicate_reads \in [Tables -> SUBSET Txns]
    /\ predicate_violations \in SUBSET Txns
    /\ call \in [Txns -> Calls]
    /\ signalled \in SUBSET Txns
    /\ expired \in SUBSET Txns
    /\ killed \in SUBSET Txns
    /\ claims \in [Txns -> [Rows -> {"none", "S", "X"}]]
    /\ ended \in SUBSET Txns

\* No two transactions have been told by acquire()/acquire_shared() that they hold one row in
\* conflicting modes, whatever was granted on a retry after a sleep or by an upgrade.
ClaimsCompatible ==
    \A r \in Rows : \A t, u \in Txns :
        t # u /\ claims[t][r] = "X" => claims[u][r] = "none"

\* The lock table is what the transactions believe: an entry's holders are those told they hold the
\* row and not released since, and it is exclusive exactly when its one holder was told so.
TableMatchesClaims ==
    \A r \in Rows :
        /\ row_locks[r].holders = {t \in Txns : claims[t][r] # "none"}
        /\ row_locks[r].mode = "free" <=> row_locks[r].holders = {}
        /\ row_locks[r].mode = "X" <=> \E t \in Txns : claims[t][r] = "X"
        /\ row_locks[r].mode = "X" => \E t \in Txns : row_locks[r].holders = {t}

\* A thread asleep on a row whose edge is set waits for a transaction that holds that row and stops it:
\* no edge of a sleeper survives its holder, however often the row changes hands.
SleeperEdgeIsCurrent ==
    \A t \in Txns :
        call[t].op = "row" /\ wait_for[t] # NoTxn
            => wait_for[t] \in Blockers(t, call[t].row, call[t].mode)

\* No wake-up of a row is lost: a thread asleep on a row with no notification pending has an edge, so
\* somebody who will call release() holds the row.
NoLostRowWakeup ==
    \A t \in Txns : call[t].op = "row" /\ t \notin signalled => wait_for[t] # NoTxn

\* Nothing of an ended transaction is left after release(): no call, lock, gap, range or edge of its
\* own, and nobody asleep on a row with an edge to an id that will never release.
EndedLeavesNothing ==
    \A t \in ended :
        /\ call[t] = Idle
        /\ \A r \in Rows : t \notin row_locks[r].holders
        /\ \A tb \in Tables : t \notin gap_locks[tb] \cup predicate_reads[tb]
        /\ wait_for[t] = NoTxn
        /\ \A u \in Txns : wait_for[u] = t => call[u].op # "row"

\* If deadlines pass, every wait ends, in a deadlock nobody detected too, and on a gap whose holder has
\* gone: the deadline of the call bounds it, however often the thread is woken for a row that has gone to
\* somebody else.
EveryWaitEnds == ClockFairness => \A t \in Txns : Sleeping(t) ~> ~Sleeping(t)

\* The claims follow the abstract lock table.
Abstract == INSTANCE RowLockTable WITH held <- claims
ImplementsRowLockTable == Abstract!Spec

(* What the comments and documents say of the code *)

\* lock_manager.cpp:95: a cycle that forms while a thread sleeps is always completed by another
\* transaction's own acquire() call, which detects it: no set of sleepers is blocked from within.
SleepersNeverDeadlocked ==
    ~ \E S \in SUBSET Txns \ {{}} :
          \A t \in S : call[t].op = "row" /\ Blockers(t, call[t].row, call[t].mode) \cap S # {}

\* "Deadlock detected: ... Transaction <t> aborted.": the refused transaction holds no row any more,
\* so those who wait for it go on.
DeadlockVictimAborted ==
    \A i \in 1 .. Len(deadlock_history) :
        \A r \in Rows : claims[deadlock_history[i][1]][r] = "none"
=============================================================================
