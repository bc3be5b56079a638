-------------------------- MODULE LockManagerProofs --------------------------
(* What the row-lock manager guarantees for any number of transactions, rows   *)
(* and tables.                                                                 *)
EXTENDS LockManager, TLAPS

------------------------------------------------------------------------------
(* Facts about the values *)

\* What a thread waits for is read off the record of its call.
LEMMA CallShape ==
    ASSUME NEW c \in Calls
    PROVE  /\ c.op \in {"idle", "row", "seen", "gap", "read"}
           /\ c.op = "row" => c.row \in Rows /\ c.mode \in LockModes
           /\ c.op \in {"seen", "gap"} => c.table \in Tables /\ c.holder \in Txns
           /\ c.op = "read" => c.holder \in Txns
  BY DEF Calls, Idle, RowWait, GapSeen, GapWait, ReadSeen, LockModes

LEMMA CallMembers ==
    /\ Idle \in Calls
    /\ \A r \in Rows, m \in LockModes : RowWait(r, m) \in Calls
    /\ \A tb \in Tables, h \in Txns : GapSeen(tb, h) \in Calls /\ GapWait(tb, h) \in Calls
    /\ \A h \in Txns : ReadSeen(h) \in Calls
    /\ Idle.op = "idle"
    /\ \A r, m : RowWait(r, m).op = "row" /\ RowWait(r, m).row = r /\ RowWait(r, m).mode = m
    /\ \A tb, h : GapSeen(tb, h).op = "seen" /\ GapWait(tb, h).op = "gap"
    /\ \A h : ReadSeen(h).op = "read"
  BY DEF Calls, Idle, RowWait, GapSeen, GapWait, ReadSeen

\* A grant and a release leave well-formed lock entries.
LEMMA EntryTypes ==
    ASSUME TypeOK, NEW t \in Txns, NEW r \in Rows
    PROVE  /\ \A m \in LockModes : Granted(t, r, m) \in LockEntry
           /\ \A m \in LockModes : Blockers(t, r, m) \in SUBSET Txns
           /\ Without(t, row_locks[r]) \in LockEntry
  <1>1. row_locks[r] \in LockEntry
    BY DEF TypeOK
  <1>2. \A m \in LockModes : Granted(t, r, m) \in LockEntry
    BY <1>1 DEF Granted, LockEntry, LockModes
  <1>3. \A m \in LockModes : Blockers(t, r, m) \in SUBSET Txns
    BY <1>1 DEF Blockers, LockEntry
  <1>4. Without(t, row_locks[r]) \in LockEntry
    BY <1>1 DEF Without, LockEntry, Free
  <1> QED
    BY <1>2, <1>3, <1>4

\* The three ways a call touches its own thread's state keep that state typed.
LEMMA ThreadTypes ==
    ASSUME TypeOK, NEW t \in Txns
    PROVE  /\ Return(t) => /\ call' \in [Txns -> Calls]
                           /\ signalled' \in SUBSET Txns
                           /\ expired' \in SUBSET Txns
                           /\ killed' \in SUBSET Txns
           /\ \A c \in Calls : FallAsleep(t, c) => /\ call' \in [Txns -> Calls]
                                                   /\ signalled' \in SUBSET Txns
                                                   /\ expired' \in SUBSET Txns
                                                   /\ killed' \in SUBSET Txns
           /\ EraseEdge(t) => wait_for' \in [Txns -> Txns \cup {NoTxn}]
  <1>1. EraseEdge(t) => wait_for' \in [Txns -> Txns \cup {NoTxn}]
    BY DEF TypeOK, EraseEdge
  <1>2. ASSUME Return(t)
        PROVE  /\ call' \in [Txns -> Calls] /\ signalled' \in SUBSET Txns
               /\ expired' \in SUBSET Txns /\ killed' \in SUBSET Txns
    BY <1>2, CallMembers DEF TypeOK, Return
  <1>3. ASSUME NEW c \in Calls, FallAsleep(t, c)
        PROVE  /\ call' \in [Txns -> Calls] /\ signalled' \in SUBSET Txns
               /\ expired' \in SUBSET Txns /\ killed' \in SUBSET Txns
    BY <1>3 DEF TypeOK, FallAsleep
  <1> QED
    BY <1>1, <1>2, <1>3

LEMMA EdgeTypes ==
    ASSUME TypeOK, NEW t \in Txns, NEW h \in Txns
    PROVE  /\ RecordEdge(t, h) => /\ wait_for' \in [Txns -> Txns \cup {NoTxn}]
                                  /\ deadlock_history' \in Seq(Txns \X Txns)
           /\ RefuseAsDeadlock(t, h) => /\ wait_for' \in [Txns -> Txns \cup {NoTxn}]
                                        /\ deadlock_history' \in Seq(Txns \X Txns)
  <1>1. RecordEdge(t, h) => /\ wait_for' \in [Txns -> Txns \cup {NoTxn}]
                            /\ deadlock_history' \in Seq(Txns \X Txns)
    BY DEF TypeOK, RecordEdge
  <1>2. ASSUME RefuseAsDeadlock(t, h)
        PROVE  /\ wait_for' \in [Txns -> Txns \cup {NoTxn}]
               /\ deadlock_history' \in Seq(Txns \X Txns)
    <2>1. <<t, h>> \in Txns \X Txns
      OBVIOUS
    <2> QED
      BY <1>2, <2>1 DEF TypeOK, RefuseAsDeadlock
  <1> QED
    BY <1>1, <1>2

LEMMA GrantTypes ==
    ASSUME TypeOK, NEW t \in Txns, NEW r \in Rows, NEW m \in LockModes, Grant(t, r, m)
    PROVE  /\ row_locks' \in [Rows -> LockEntry]
           /\ claims' \in [Txns -> [Rows -> {"none", "S", "X"}]]
  <1>1. row_locks' \in [Rows -> LockEntry]
    BY EntryTypes DEF TypeOK, Grant
  <1>2. claims' \in [Txns -> [Rows -> {"none", "S", "X"}]]
    BY DEF TypeOK, Grant, LockModes
  <1> QED
    BY <1>1, <1>2

------------------------------------------------------------------------------
(* Type correctness *)

LEMMA TypeStep == TypeOK /\ [Next]_vars => TypeOK'
  <1> SUFFICES ASSUME TypeOK, [Next]_vars PROVE TypeOK'
    OBVIOUS
  <1> USE DEF lockVars, waitVars, rangeVars, threadVars
  <1>1. ASSUME NEW t \in Txns, Acquire(t) PROVE TypeOK'
    <2> PICK r \in Rows, m \in LockModes :
            \/ AcquireGranted(t, r, m) \/ AcquireDeadlock(t, r, m)
            \/ AcquireConflict(t, r, m) \/ AcquireWait(t, r, m)
      BY <1>1 DEF Acquire
    <2>0. Blockers(t, r, m) \in SUBSET Txns
      BY EntryTypes
    <2>1. CASE AcquireGranted(t, r, m)
      BY <2>1, GrantTypes DEF AcquireGranted, TypeOK
    <2>2. CASE AcquireDeadlock(t, r, m)
      BY <2>0, <2>2, EdgeTypes DEF AcquireDeadlock, TypeOK
    <2>3. CASE AcquireConflict(t, r, m)
      BY <2>0, <2>3, EdgeTypes DEF AcquireConflict, TypeOK
    <2>4. CASE AcquireWait(t, r, m)
      BY <2>0, <2>4, EdgeTypes, ThreadTypes, CallMembers DEF AcquireWait, TypeOK
    <2> QED
      BY <2>1, <2>2, <2>3, <2>4
  <1>2. ASSUME NEW t \in Txns, WakeOnRow(t) PROVE TypeOK'
    <2>0. call[t].row \in Rows /\ call[t].mode \in LockModes
      BY <1>2, CallShape DEF WakeOnRow, WakeGranted, WakeTimeout, WakeRefresh, TypeOK
    <2>1. CASE WakeGranted(t)
      BY <2>0, <2>1, GrantTypes, ThreadTypes DEF WakeGranted, TypeOK
    <2>2. CASE WakeTimeout(t)
      BY <2>2, ThreadTypes DEF WakeTimeout, TypeOK
    <2>3. CASE WakeRefresh(t)
      <3>1. Blockers(t, call[t].row, call[t].mode) \in SUBSET Txns
        BY <2>0, EntryTypes
      <3> QED
        BY <2>3, <3>1 DEF WakeRefresh, TypeOK
    <2> QED
      BY <1>2, <2>1, <2>2, <2>3 DEF WakeOnRow
  <1>3. ASSUME NEW t \in Txns, Gaps(t) PROVE TypeOK'
    <2>0. call[t].op = "seen" => call[t].table \in Tables /\ call[t].holder \in Txns
      BY CallShape DEF TypeOK
    <2>1. ASSUME NEW tb \in Tables, AcquireGap(t, tb) PROVE TypeOK'
      BY <2>1 DEF AcquireGap, TypeOK
    <2>2. ASSUME NEW tb \in Tables, GapLocksFor(t, tb) PROVE TypeOK'
      BY <2>2, CallMembers DEF GapLocksFor, TypeOK
    <2>3. CASE GapDeadlock(t)
      BY <2>0, <2>3, EdgeTypes, ThreadTypes DEF GapDeadlock, TypeOK
    <2>4. CASE GapConflict(t)
      BY <2>0, <2>4, EdgeTypes DEF GapConflict, TypeOK
    <2>5. CASE GapSleep(t)
      BY <2>0, <2>5, EdgeTypes, ThreadTypes, CallMembers DEF GapSleep, TypeOK
    <2>6. CASE GapNoTime(t)
      BY <2>0, <2>6, EdgeTypes, ThreadTypes DEF GapNoTime, TypeOK
    <2> QED
      BY <1>3, <2>1, <2>2, <2>3, <2>4, <2>5, <2>6 DEF Gaps
  <1>4. ASSUME NEW t \in Txns, WakeOnGap(t) PROVE TypeOK'
    <2>1. CASE WakeGapGranted(t)
      BY <2>1, ThreadTypes DEF WakeGapGranted, TypeOK
    <2>2. CASE WakeGapTimeout(t)
      BY <2>2, ThreadTypes DEF WakeGapTimeout, TypeOK
    <2>3. CASE WakeGapAgain(t)
      BY <2>3 DEF WakeGapAgain, TypeOK
    <2> QED
      BY <1>4, <2>1, <2>2, <2>3 DEF WakeOnGap
  <1>5. ASSUME NEW t \in Txns, Predicates(t) PROVE TypeOK'
    <2>1. ASSUME NEW tb \in Tables, RegisterPredicateRead(t, tb) PROVE TypeOK'
      BY <2>1 DEF RegisterPredicateRead, TypeOK
    <2>2. ASSUME NEW tb \in Tables, PredicateReadsFor(t, tb) PROVE TypeOK'
      BY <2>2, CallMembers DEF PredicateReadsFor, TypeOK
    <2>3. CASE FlagPredicateViolation(t)
      <3>1. call[t].holder \in Txns
        BY <2>3, CallShape DEF FlagPredicateViolation, TypeOK
      <3> QED
        BY <2>3, <3>1, ThreadTypes DEF FlagPredicateViolation, TypeOK
    <2>4. CASE TakePredicateViolation(t)
      BY <2>4 DEF TakePredicateViolation, TypeOK
    <2> QED
      BY <1>5, <2>1, <2>2, <2>3, <2>4 DEF Predicates
  <1>6. ASSUME NEW t \in Txns, Release(t) PROVE TypeOK'
    <2>1. row_locks' \in [Rows -> LockEntry]
      BY <1>6, EntryTypes DEF Release
    <2>2. claims' \in [Txns -> [Rows -> {"none", "S", "X"}]]
      BY <1>6 DEF Release, TypeOK
    <2>3. wait_for' \in [Txns -> Txns \cup {NoTxn}]
      BY <1>6 DEF Release, EdgesWithout, TypeOK
    <2>4. gap_locks' \in [Tables -> SUBSET Txns] /\ predicate_reads' \in [Tables -> SUBSET Txns]
      BY <1>6 DEF Release, GapsWithout, TypeOK
    <2>5. /\ predicate_violations' \in SUBSET Txns
          /\ signalled' \in SUBSET Txns
          /\ ended' \in SUBSET Txns
      BY <1>6 DEF Release, Notified, TypeOK
    <2> QED
      BY <1>6, <2>1, <2>2, <2>3, <2>4, <2>5 DEF Release, TypeOK
  <1>7. ASSUME NEW t \in Txns, DeadlinePasses(t) \/ KillQuery(t) PROVE TypeOK'
    BY <1>7 DEF DeadlinePasses, KillQuery, TypeOK
  <1>8. CASE UNCHANGED vars
    BY <1>8 DEF vars, TypeOK
  <1> QED
    BY <1>1, <1>2, <1>3, <1>4, <1>5, <1>6, <1>7, <1>8 DEF Next, Finished

LEMMA InitType == Init => TypeOK
  BY CallMembers DEF Init, TypeOK, LockEntry, Free

\* The state of the manager keeps its types: in particular an edge always names a transaction, and a
\* thread is always in one of the five places its calls have.
THEOREM TypeCorrect == Spec => []TypeOK
  BY InitType, TypeStep, PTL DEF Spec

------------------------------------------------------------------------------
(* The lock table and the claims *)

\* The steps that touch the lock table: a grant to a transaction that has not ended, and a release.
LEMMA LockSteps ==
    ASSUME TypeOK, EndedLeavesNothing, [Next]_vars
    PROVE  \/ \E t \in Txns \ ended, r \in Rows, m \in LockModes : Grant(t, r, m) /\ ended' = ended
           \/ \E t \in Txns : Release(t)
           \/ UNCHANGED lockVars /\ ended' = ended
  <1> USE DEF lockVars, waitVars, rangeVars, threadVars
  <1>1. ASSUME NEW t \in Txns, Acquire(t)
        PROVE  \/ \E r \in Rows, m \in LockModes : Grant(t, r, m) /\ ended' = ended /\ t \notin ended
               \/ UNCHANGED lockVars /\ ended' = ended
    BY <1>1 DEF Acquire, AcquireGranted, AcquireDeadlock, AcquireConflict, AcquireWait, Ready
  <1>2. ASSUME NEW t \in Txns, WakeOnRow(t)
        PROVE  \/ \E r \in Rows, m \in LockModes : Grant(t, r, m) /\ ended' = ended /\ t \notin ended
               \/ UNCHANGED lockVars /\ ended' = ended
    <2>1. CASE WakeGranted(t)
      <3>1. call[t].row \in Rows /\ call[t].mode \in LockModes
        BY <2>1, CallShape DEF WakeGranted, TypeOK
      <3>2. t \notin ended
        BY <2>1, CallMembers DEF WakeGranted, EndedLeavesNothing
      <3> QED
        BY <2>1, <3>1, <3>2 DEF WakeGranted
    <2>2. CASE WakeTimeout(t) \/ WakeRefresh(t)
      BY <2>2 DEF WakeTimeout, WakeRefresh
    <2> QED
      BY <1>2, <2>1, <2>2 DEF WakeOnRow
  <1>3. ASSUME NEW t \in Txns, Gaps(t) \/ WakeOnGap(t) \/ Predicates(t) \/ DeadlinePasses(t) \/ KillQuery(t)
        PROVE  UNCHANGED lockVars /\ ended' = ended
    BY <1>3 DEF Gaps, AcquireGap, GapLocksFor, GapDeadlock, GapConflict, GapSleep, GapNoTime,
                WakeOnGap, WakeGapGranted, WakeGapTimeout, WakeGapAgain,
                Predicates, RegisterPredicateRead, PredicateReadsFor, FlagPredicateViolation,
                TakePredicateViolation, DeadlinePasses, KillQuery
  <1>4. CASE UNCHANGED vars
    BY <1>4 DEF vars
  <1> QED
    BY <1>1, <1>2, <1>3, <1>4 DEF Next, Finished

\* A grant keeps the table and the claims in step: nobody else held the row in a conflicting mode.
LEMMA GrantKeepsMatch ==
    ASSUME TypeOK, TableMatchesClaims,
           NEW t \in Txns, NEW r \in Rows, NEW m \in LockModes, Grant(t, r, m)
    PROVE  TableMatchesClaims'
  <1> SUFFICES ASSUME NEW q \in Rows
               PROVE  /\ row_locks'[q].holders = {u \in Txns : claims'[u][q] # "none"}
                      /\ row_locks'[q].mode = "free" <=> row_locks'[q].holders = {}
                      /\ row_locks'[q].mode = "X" <=> \E u \in Txns : claims'[u][q] = "X"
                      /\ row_locks'[q].mode = "X" => \E u \in Txns : row_locks'[q].holders = {u}
    BY DEF TableMatchesClaims
  <1>1. /\ row_locks[q].holders = {u \in Txns : claims[u][q] # "none"}
        /\ row_locks[q].mode = "free" <=> row_locks[q].holders = {}
        /\ row_locks[q].mode = "X" <=> \E u \in Txns : claims[u][q] = "X"
        /\ row_locks[q].mode = "X" => \E u \in Txns : row_locks[q].holders = {u}
    BY DEF TableMatchesClaims
  <1>2. row_locks[q] \in LockEntry /\ \A u \in Txns : claims[u][q] \in {"none", "S", "X"}
    BY DEF TypeOK
  <1>3. CASE q # r
    <2>1. row_locks'[q] = row_locks[q] /\ \A u \in Txns : claims'[u][q] = claims[u][q]
      BY <1>3 DEF Grant, TypeOK
    <2> QED
      BY <1>1, <2>1
  <1>4. CASE q = r
    <2>1. /\ row_locks'[q] = Granted(t, q, m)
          /\ \A u \in Txns \ {t} : claims'[u][q] = claims[u][q]
          /\ claims'[t][q] = IF claims[t][q] = "X" THEN "X" ELSE m
          /\ Blockers(t, q, m) = {}
      BY <1>4 DEF Grant, TypeOK
    <2>2. CASE m = "X"
      <3>1. row_locks[q].holders \ {t} = {}
        BY <2>1, <2>2 DEF Blockers
      <3>2. \A u \in Txns \ {t} : claims'[u][q] = "none"
        BY <1>1, <2>1, <3>1
      <3>3. row_locks'[q] = [mode |-> "X", holders |-> {t}] /\ claims'[t][q] = "X"
        BY <2>1, <2>2 DEF Granted
      <3> QED
        BY <3>2, <3>3
    <2>3. CASE m = "S" /\ row_locks[q].mode = "X"
      <3>1. row_locks[q].holders = {t}
        BY <1>1, <2>1, <2>3 DEF Blockers
      <3>2. claims[t][q] = "X"
        BY <1>1, <2>3, <3>1
      <3>3. row_locks'[q] = row_locks[q]
        BY <2>1, <2>3 DEF Granted
      <3>4. \A u \in Txns : claims'[u][q] = claims[u][q]
        BY <2>1, <3>2
      <3> QED
        BY <1>1, <3>3, <3>4
    <2>4. CASE m = "S" /\ row_locks[q].mode # "X"
      <3>1. row_locks'[q] = [mode |-> "S", holders |-> row_locks[q].holders \cup {t}]
        BY <2>1, <2>4 DEF Granted
      <3>2. \A u \in Txns : claims[u][q] # "X"
        BY <1>1, <2>4
      <3>3. claims'[t][q] = "S"
        BY <2>1, <2>4, <3>2
      <3>4. \A u \in Txns : claims'[u][q] # "X"
        BY <2>1, <3>2, <3>3
      <3>5. row_locks[q].holders \cup {t} = {u \in Txns : claims'[u][q] # "none"}
        BY <1>1, <2>1, <3>3
      <3> QED
        BY <3>1, <3>4, <3>5
    <2> QED
      BY <2>2, <2>3, <2>4 DEF LockModes
  <1> QED
    BY <1>3, <1>4

LEMMA ReleaseKeepsMatch ==
    ASSUME TypeOK, TableMatchesClaims, NEW t \in Txns, Release(t)
    PROVE  TableMatchesClaims'
  <1> SUFFICES ASSUME NEW q \in Rows
               PROVE  /\ row_locks'[q].holders = {u \in Txns : claims'[u][q] # "none"}
                      /\ row_locks'[q].mode = "free" <=> row_locks'[q].holders = {}
                      /\ row_locks'[q].mode = "X" <=> \E u \in Txns : claims'[u][q] = "X"
                      /\ row_locks'[q].mode = "X" => \E u \in Txns : row_locks'[q].holders = {u}
    BY DEF TableMatchesClaims
  <1>1. /\ row_locks[q].holders = {u \in Txns : claims[u][q] # "none"}
        /\ row_locks[q].mode = "free" <=> row_locks[q].holders = {}
        /\ row_locks[q].mode = "X" <=> \E u \in Txns : claims[u][q] = "X"
        /\ row_locks[q].mode = "X" => \E u \in Txns : row_locks[q].holders = {u}
    BY DEF TableMatchesClaims
  <1>2. row_locks[q] \in LockEntry
    BY DEF TypeOK
  <1>3. /\ row_locks'[q] = Without(t, row_locks[q])
        /\ claims'[t][q] = "none"
        /\ \A u \in Txns \ {t} : claims'[u][q] = claims[u][q]
    BY DEF Release, TypeOK
  <1>4. CASE row_locks[q].holders \ {t} = {}
    <2>1. row_locks'[q] = Free
      BY <1>3, <1>4 DEF Without
    <2>2. \A u \in Txns : claims'[u][q] = "none"
      BY <1>1, <1>3, <1>4
    <2> QED
      BY <2>1, <2>2 DEF Free
  <1>5. CASE row_locks[q].holders \ {t} # {}
    <2>1. /\ row_locks'[q].mode = row_locks[q].mode
          /\ row_locks'[q].holders = row_locks[q].holders \ {t}
      BY <1>2, <1>3, <1>5 DEF Without, LockEntry
    <2>2. row_locks'[q].holders = {u \in Txns : claims'[u][q] # "none"}
      BY <1>1, <1>3, <2>1
    <2>3. row_locks[q].mode = "X" => t \notin row_locks[q].holders
      BY <1>1, <1>5
    <2>4. row_locks'[q].mode = "X" <=> \E u \in Txns : claims'[u][q] = "X"
      BY <1>1, <1>3, <2>1, <2>3
    <2> QED
      BY <1>1, <1>5, <2>1, <2>2, <2>3, <2>4
  <1> QED
    BY <1>4, <1>5

------------------------------------------------------------------------------
(* The edges of the sleepers *)

\* Blockers, of an entry rather than of the row it belongs to.
BlockersIn(entry, t, m) ==
    IF m = "X" \/ entry.mode = "X" THEN entry.holders \ {t} ELSE {}

LEMMA BlockersOfEntry ==
    ASSUME NEW t, NEW r, NEW m
    PROVE  Blockers(t, r, m) = BlockersIn(row_locks[r], t, m)
  BY DEF Blockers, BlockersIn

\* Who stands in a sleeper's way keeps standing there until he releases: a grant to somebody else
\* neither removes him from the row nor weakens what he holds.
LEMMA GrantKeepsBlocker ==
    ASSUME TypeOK, NEW u \in Txns, NEW r \in Rows, NEW m \in LockModes, NEW h \in Blockers(u, r, m),
           NEW t \in Txns, NEW q \in Rows, NEW n \in LockModes, Grant(t, q, n)
    PROVE  h \in BlockersIn(row_locks'[r], u, m)
  <1>1. row_locks[r] \in LockEntry /\ h \in row_locks[r].holders /\ h # u
    BY DEF TypeOK, Blockers
  <1>2. CASE q # r
    <2>1. row_locks'[r] = row_locks[r]
      BY <1>2 DEF Grant, TypeOK
    <2> QED
      BY <2>1 DEF Blockers, BlockersIn
  <1>3. CASE q = r
    <2>1. row_locks'[r] = Granted(t, r, n) /\ Blockers(t, r, n) = {}
      BY <1>3 DEF Grant, TypeOK
    <2>2. CASE n = "X"
      <3>1. h = t
        BY <1>1, <2>1, <2>2 DEF Blockers, BlockersIn
      <3> QED
        BY <1>1, <2>1, <2>2, <3>1 DEF Blockers, BlockersIn, Granted
    <2>3. CASE n = "S" /\ row_locks[r].mode = "X"
      BY <2>1, <2>3 DEF Blockers, BlockersIn, Granted
    <2>4. CASE n = "S" /\ row_locks[r].mode # "X"
      <3>1. m = "X"
        BY <2>4 DEF Blockers, BlockersIn
      <3> QED
        BY <1>1, <2>1, <2>4, <3>1 DEF Blockers, BlockersIn, Granted
    <2> QED
      BY <2>2, <2>3, <2>4 DEF LockModes
  <1> QED
    BY <1>2, <1>3

LEMMA ReleaseKeepsBlocker ==
    ASSUME TypeOK, NEW u \in Txns, NEW r \in Rows, NEW m \in LockModes, NEW h \in Blockers(u, r, m),
           NEW t \in Txns, Release(t), h # t
    PROVE  h \in BlockersIn(row_locks'[r], u, m)
  <1>1. row_locks[r] \in LockEntry /\ h \in row_locks[r].holders \ {t} /\ h # u
    BY DEF TypeOK, Blockers
  <1>2. /\ row_locks'[r].mode = row_locks[r].mode
        /\ row_locks'[r].holders = row_locks[r].holders \ {t}
    BY <1>1 DEF Release, Without, LockEntry
  <1> QED
    BY <1>1, <1>2 DEF Blockers, BlockersIn

\* What a step other than a release does to one thread: it leaves its call, its edge and a pending
\* notification alone; or it ends asleep on a row with an edge to one of those in its way; or it is
\* not asleep on a row.
LEMMA SleeperSteps ==
    ASSUME TypeOK, NEW u \in Txns, [Next]_vars
    PROVE  \/ /\ call'[u] = call[u]
              /\ wait_for'[u] = wait_for[u]
              /\ u \in signalled => u \in signalled'
           \/ call'[u].op # "row"
           \/ /\ wait_for'[u] \in Blockers(u, call'[u].row, call'[u].mode)
              /\ call'[u].row \in Rows
              /\ call'[u].mode \in LockModes
              /\ UNCHANGED row_locks
           \/ \E t \in Txns : Release(t)
  <1> DEFINE Kept == /\ call'[u] = call[u]
                     /\ wait_for'[u] = wait_for[u]
                     /\ u \in signalled => u \in signalled'
             Off == call'[u].op # "row"
             Set == /\ wait_for'[u] \in Blockers(u, call'[u].row, call'[u].mode)
                    /\ call'[u].row \in Rows
                    /\ call'[u].mode \in LockModes
                    /\ UNCHANGED row_locks
  <1> USE DEF lockVars, waitVars, rangeVars, threadVars
  <1>1. ASSUME NEW t \in Txns, Acquire(t) PROVE Kept \/ Off \/ Set
    <2> PICK r \in Rows, m \in LockModes :
            \/ AcquireGranted(t, r, m) \/ AcquireDeadlock(t, r, m)
            \/ AcquireConflict(t, r, m) \/ AcquireWait(t, r, m)
      BY <1>1 DEF Acquire
    <2>1. CASE AcquireGranted(t, r, m)
      BY <2>1 DEF AcquireGranted
    <2>2. CASE AcquireDeadlock(t, r, m)
      BY <2>2 DEF AcquireDeadlock, RefuseAsDeadlock
    <2>3. CASE AcquireConflict(t, r, m)
      <3>1. CASE u = t
        BY <2>3, <3>1 DEF AcquireConflict, Ready
      <3>2. CASE u # t
        BY <2>3, <3>2 DEF AcquireConflict, RecordEdge, TypeOK
      <3> QED
        BY <3>1, <3>2
    <2>4. CASE AcquireWait(t, r, m)
      <3>1. CASE u = t
        <4>1. call'[u] = RowWait(r, m)
          BY <2>4, <3>1 DEF AcquireWait, FallAsleep, TypeOK
        <4>2. wait_for'[u] \in Blockers(u, r, m)
          BY <2>4, <3>1 DEF AcquireWait, RecordEdge, TypeOK
        <4> QED
          BY <2>4, <4>1, <4>2, CallMembers DEF AcquireWait
      <3>2. CASE u # t
        BY <2>4, <3>2 DEF AcquireWait, RecordEdge, FallAsleep, TypeOK
      <3> QED
        BY <3>1, <3>2
    <2> QED
      BY <2>1, <2>2, <2>3, <2>4
  <1>2. ASSUME NEW t \in Txns, WakeOnRow(t) PROVE Kept \/ Off \/ Set
    <2>1. CASE u # t
      BY <1>2, <2>1 DEF WakeOnRow, WakeGranted, WakeTimeout, WakeRefresh, EraseEdge, Return, TypeOK
    <2>2. CASE u = t
      <3>1. CASE WakeGranted(t) \/ WakeTimeout(t)
        BY <2>2, <3>1, CallMembers DEF WakeGranted, WakeTimeout, Return, TypeOK
      <3>2. CASE WakeRefresh(t)
        <4>1. call'[u] = call[u] /\ call[u].row \in Rows /\ call[u].mode \in LockModes
          BY <2>2, <3>2, CallShape DEF WakeRefresh, TypeOK
        <4>2. wait_for'[u] \in Blockers(u, call[u].row, call[u].mode)
          BY <2>2, <3>2 DEF WakeRefresh, TypeOK
        <4> QED
          BY <3>2, <4>1, <4>2 DEF WakeRefresh
      <3> QED
        BY <1>2, <3>1, <3>2 DEF WakeOnRow
    <2> QED
      BY <2>1, <2>2
  <1>3. ASSUME NEW t \in Txns, Gaps(t) PROVE Kept \/ Off
    <2>1. CASE u # t
      BY <1>3, <2>1
         DEF Gaps, AcquireGap, GapLocksFor, GapDeadlock, GapConflict, GapSleep, GapNoTime,
             RecordEdge, RefuseAsDeadlock, FallAsleep, Return, TypeOK
    <2>2. CASE u = t
      BY <1>3, <2>2, CallMembers
         DEF Gaps, AcquireGap, GapLocksFor, GapDeadlock, GapConflict, GapSleep, GapNoTime,
             FallAsleep, Return, TypeOK
    <2> QED
      BY <2>1, <2>2
  <1>4. ASSUME NEW t \in Txns, WakeOnGap(t) PROVE Kept \/ Off
    <2>1. CASE u # t
      BY <1>4, <2>1
         DEF WakeOnGap, WakeGapGranted, WakeGapTimeout, WakeGapAgain, EraseEdge, Return, TypeOK
    <2>2. CASE u = t
      BY <1>4, <2>2, CallMembers
         DEF WakeOnGap, WakeGapGranted, WakeGapTimeout, WakeGapAgain, Return, TypeOK
    <2> QED
      BY <2>1, <2>2
  <1>5. ASSUME NEW t \in Txns, Predicates(t) PROVE Kept \/ Off
    <2>1. CASE u # t
      BY <1>5, <2>1
         DEF Predicates, RegisterPredicateRead, PredicateReadsFor, FlagPredicateViolation,
             TakePredicateViolation, Return, TypeOK
    <2>2. CASE u = t
      BY <1>5, <2>2, CallMembers
         DEF Predicates, RegisterPredicateRead, PredicateReadsFor, FlagPredicateViolation,
             TakePredicateViolation, Return, TypeOK
    <2> QED
      BY <2>1, <2>2
  <1>6. ASSUME NEW t \in Txns, DeadlinePasses(t) \/ KillQuery(t) PROVE Kept
    BY <1>6 DEF DeadlinePasses, KillQuery
  <1>7. CASE UNCHANGED vars
    BY <1>7 DEF vars
  <1> QED
    BY <1>1, <1>2, <1>3, <1>4, <1>5, <1>6, <1>7 DEF Next, Finished

------------------------------------------------------------------------------
(* The inductive invariant *)

\* TableMatchesClaims gives mutual exclusion; that an ended transaction holds nothing is what makes
\* a grant come from an open one; and a sleeper's edge is current because a blocker stays one.
LockInv ==
    /\ TypeOK
    /\ TableMatchesClaims
    /\ SleeperEdgeIsCurrent
    /\ NoLostRowWakeup
    /\ EndedLeavesNothing

LEMMA LockInvInit == Init => LockInv
  <1> SUFFICES ASSUME Init PROVE LockInv
    OBVIOUS
  <1>1. TypeOK
    BY InitType
  <1>2. TableMatchesClaims
    BY DEF Init, TableMatchesClaims, Free
  <1>3. SleeperEdgeIsCurrent /\ NoLostRowWakeup
    BY CallMembers DEF Init, SleeperEdgeIsCurrent, NoLostRowWakeup
  <1>4. EndedLeavesNothing
    BY DEF Init, EndedLeavesNothing
  <1> QED
    BY <1>1, <1>2, <1>3, <1>4 DEF LockInv

LEMMA MatchStep == LockInv /\ [Next]_vars => TableMatchesClaims'
  <1> SUFFICES ASSUME LockInv, [Next]_vars PROVE TableMatchesClaims'
    OBVIOUS
  <1>1. ASSUME NEW t \in Txns, NEW r \in Rows, NEW m \in LockModes, Grant(t, r, m)
        PROVE  TableMatchesClaims'
    BY <1>1, GrantKeepsMatch DEF LockInv
  <1>2. ASSUME NEW t \in Txns, Release(t) PROVE TableMatchesClaims'
    BY <1>2, ReleaseKeepsMatch DEF LockInv
  <1>3. CASE UNCHANGED lockVars
    BY <1>3 DEF lockVars, LockInv, TableMatchesClaims
  <1> QED
    BY <1>1, <1>2, <1>3, LockSteps DEF LockInv

LEMMA EdgeStep == LockInv /\ [Next]_vars => SleeperEdgeIsCurrent' /\ NoLostRowWakeup'
  <1> SUFFICES ASSUME LockInv, [Next]_vars, NEW u \in Txns, call'[u].op = "row"
               PROVE  /\ wait_for'[u] # NoTxn
                             => wait_for'[u] \in BlockersIn(row_locks'[call'[u].row], u, call'[u].mode)
                      /\ u \notin signalled' => wait_for'[u] # NoTxn
    BY DEF SleeperEdgeIsCurrent, NoLostRowWakeup, Blockers, BlockersIn
  <1>0. /\ TypeOK /\ EndedLeavesNothing /\ call[u] \in Calls
        /\ call[u].op = "row" /\ wait_for[u] # NoTxn
               => wait_for[u] \in Blockers(u, call[u].row, call[u].mode)
        /\ call[u].op = "row" /\ u \notin signalled => wait_for[u] # NoTxn
    BY DEF LockInv, TypeOK, SleeperEdgeIsCurrent, NoLostRowWakeup
  <1>1. ASSUME NEW t \in Txns, Release(t)
        PROVE  /\ wait_for'[u] # NoTxn
                      => wait_for'[u] \in BlockersIn(row_locks'[call'[u].row], u, call'[u].mode)
               /\ u \notin signalled' => wait_for'[u] # NoTxn
    <2>1. call' = call /\ signalled' = {v \in Txns : Sleeping(v)}
      BY <1>1 DEF Release, Notified
    <2>2. wait_for'[u] # NoTxn => wait_for'[u] = wait_for[u] /\ wait_for[u] # t
      BY <1>1 DEF Release, EdgesWithout
    <2>3. call[u].row \in Rows /\ call[u].mode \in LockModes
      BY <1>0, <2>1, CallShape
    <2>4. wait_for'[u] # NoTxn => wait_for'[u] \in BlockersIn(row_locks'[call[u].row], u, call[u].mode)
      BY <1>0, <1>1, <2>1, <2>2, <2>3, ReleaseKeepsBlocker
    <2>5. u \in signalled'
      BY <2>1 DEF Sleeping
    <2> QED
      BY <2>1, <2>4, <2>5
  <1>2. CASE /\ call'[u] = call[u]
             /\ wait_for'[u] = wait_for[u]
             /\ u \in signalled => u \in signalled'
             /\ ~ \E t \in Txns : Release(t)
    <2>1. call[u].row \in Rows /\ call[u].mode \in LockModes
      BY <1>0, <1>2, CallShape
    <2>2. ASSUME NEW t \in Txns, NEW r \in Rows, NEW m \in LockModes, Grant(t, r, m)
          PROVE  wait_for[u] # NoTxn => wait_for[u] \in BlockersIn(row_locks'[call[u].row], u, call[u].mode)
      BY <1>0, <1>2, <2>1, <2>2, GrantKeepsBlocker
    <2>3. CASE UNCHANGED lockVars
      BY <1>0, <1>2, <2>3 DEF lockVars, Blockers, BlockersIn
    <2>4. wait_for[u] # NoTxn => wait_for[u] \in BlockersIn(row_locks'[call[u].row], u, call[u].mode)
      BY <1>0, <1>2, <2>2, <2>3, LockSteps
    <2> QED
      BY <1>0, <1>2, <2>4
  <1>3. CASE /\ wait_for'[u] \in Blockers(u, call'[u].row, call'[u].mode)
             /\ call'[u].row \in Rows
             /\ call'[u].mode \in LockModes
             /\ UNCHANGED row_locks
    <2>1. Blockers(u, call'[u].row, call'[u].mode) \in SUBSET Txns
      BY <1>0, <1>3, EntryTypes
    <2>2. wait_for'[u] # NoTxn
      BY <1>3, <2>1, NoTxnAssumption
    <2> QED
      BY <1>3, <2>2 DEF Blockers, BlockersIn
  <1> QED
    BY <1>0, <1>1, <1>2, <1>3, SleeperSteps

\* The thread of an ended transaction stays out of the manager, and nothing new is recorded for it.
LEMMA EndedStays ==
    ASSUME TypeOK, EndedLeavesNothing, [Next]_vars, NEW u \in ended
    PROVE  /\ call'[u] = Idle
           /\ wait_for'[u] = NoTxn
           /\ \A tb \in Tables : u \notin gap_locks'[tb] /\ u \notin predicate_reads'[tb]
  <1> DEFINE Same == /\ call'[u] = call[u]
                     /\ wait_for'[u] = wait_for[u]
             Ranges == \A tb \in Tables : /\ u \in gap_locks'[tb] => u \in gap_locks[tb]
                                          /\ u \in predicate_reads'[tb] => u \in predicate_reads[tb]
  <1> USE DEF lockVars, waitVars, rangeVars, threadVars
  <1>0. /\ u \in Txns
        /\ call[u] = Idle /\ call[u].op = "idle"
        /\ wait_for[u] = NoTxn
        /\ \A tb \in Tables : u \notin gap_locks[tb] /\ u \notin predicate_reads[tb]
    BY CallMembers DEF TypeOK, EndedLeavesNothing
  <1>1. ASSUME NEW t \in Txns, Acquire(t) PROVE Same /\ Ranges
    BY <1>1, <1>0 DEF Acquire, AcquireGranted, AcquireDeadlock, AcquireConflict, AcquireWait, Ready,
                      RefuseAsDeadlock, RecordEdge, FallAsleep, TypeOK
  <1>2. ASSUME NEW t \in Txns, WakeOnRow(t) PROVE Same /\ Ranges
    BY <1>2, <1>0 DEF WakeOnRow, WakeGranted, WakeTimeout, WakeRefresh, EraseEdge, Return, TypeOK
  <1>3. ASSUME NEW t \in Txns, Gaps(t) PROVE Same /\ Ranges
    <2>1. ASSUME NEW tb \in Tables, AcquireGap(t, tb) PROVE Same /\ Ranges
      BY <2>1, <1>0 DEF AcquireGap, Ready, TypeOK
    <2>2. ASSUME NEW tb \in Tables, GapLocksFor(t, tb) PROVE Same /\ Ranges
      BY <2>2, <1>0 DEF GapLocksFor, Ready, TypeOK
    <2>3. CASE GapDeadlock(t) \/ GapConflict(t) \/ GapSleep(t) \/ GapNoTime(t)
      BY <2>3, <1>0 DEF GapDeadlock, GapConflict, GapSleep, GapNoTime, RefuseAsDeadlock, RecordEdge,
                        FallAsleep, Return, TypeOK
    <2> QED
      BY <1>3, <2>1, <2>2, <2>3 DEF Gaps
  <1>4. ASSUME NEW t \in Txns, WakeOnGap(t) PROVE Same /\ Ranges
    BY <1>4, <1>0 DEF WakeOnGap, WakeGapGranted, WakeGapTimeout, WakeGapAgain, EraseEdge, Return, TypeOK
  <1>5. ASSUME NEW t \in Txns, Predicates(t) PROVE Same /\ Ranges
    <2>1. ASSUME NEW tb \in Tables, RegisterPredicateRead(t, tb) PROVE Same /\ Ranges
      BY <2>1, <1>0 DEF RegisterPredicateRead, Ready, TypeOK
    <2>2. ASSUME NEW tb \in Tables, PredicateReadsFor(t, tb) PROVE Same /\ Ranges
      BY <2>2, <1>0 DEF PredicateReadsFor, Ready, TypeOK
    <2>3. CASE FlagPredicateViolation(t) \/ TakePredicateViolation(t)
      BY <2>3, <1>0 DEF FlagPredicateViolation, TakePredicateViolation, Return, TypeOK
    <2> QED
      BY <1>5, <2>1, <2>2, <2>3 DEF Predicates
  <1>6. ASSUME NEW t \in Txns, Release(t)
        PROVE  call'[u] = call[u] /\ wait_for'[u] = NoTxn /\ Ranges
    BY <1>6, <1>0 DEF Release, EdgesWithout, GapsWithout, TypeOK
  <1>7. ASSUME NEW t \in Txns, DeadlinePasses(t) \/ KillQuery(t) PROVE Same /\ Ranges
    BY <1>7 DEF DeadlinePasses, KillQuery
  <1>8. CASE UNCHANGED vars
    BY <1>0, <1>8 DEF vars
  <1>9. call'[u] = call[u] /\ wait_for'[u] = NoTxn /\ Ranges
    BY <1>0, <1>1, <1>2, <1>3, <1>4, <1>5, <1>6, <1>7, <1>8 DEF Next, Finished
  <1> QED
    BY <1>0, <1>9

\* What release() leaves of the transaction it is called for.
LEMMA ReleaseEnds ==
    ASSUME TypeOK, NEW t \in Txns, Release(t)
    PROVE  /\ call'[t] = Idle
           /\ wait_for'[t] = NoTxn
           /\ \A tb \in Tables : t \notin gap_locks'[tb] /\ t \notin predicate_reads'[tb]
           /\ \A r \in Rows : t \notin row_locks'[r].holders
           /\ ended' = ended \cup {t}
           /\ \A u \in Txns, r \in Rows : u \in row_locks'[r].holders => u \in row_locks[r].holders
  <1>1. call[t] = Idle
    BY DEF Release, Ready, TypeOK, Calls, Idle
  <1>2. \A r \in Rows : /\ t \notin Without(t, row_locks[r]).holders
                        /\ \A u \in Txns : u \in Without(t, row_locks[r]).holders => u \in row_locks[r].holders
    BY DEF Without, Free, TypeOK, LockEntry
  <1> QED
    BY <1>1, <1>2 DEF Release, EdgesWithout, GapsWithout, TypeOK

LEMMA EndedStep == LockInv /\ [Next]_vars /\ SleeperEdgeIsCurrent' /\ TypeOK' => EndedLeavesNothing'
  <1> SUFFICES ASSUME LockInv, [Next]_vars, SleeperEdgeIsCurrent', TypeOK', NEW u \in ended'
               PROVE  /\ call'[u] = Idle
                      /\ \A r \in Rows : u \notin row_locks'[r].holders
                      /\ \A tb \in Tables : u \notin gap_locks'[tb] \cup predicate_reads'[tb]
                      /\ wait_for'[u] = NoTxn
                      /\ \A v \in Txns : wait_for'[v] = u => call'[v].op # "row"
    BY DEF EndedLeavesNothing
  <1> USE DEF LockInv
  <1>1. /\ call'[u] = Idle
        /\ wait_for'[u] = NoTxn
        /\ \A tb \in Tables : u \notin gap_locks'[tb] /\ u \notin predicate_reads'[tb]
        /\ \A r \in Rows : u \notin row_locks'[r].holders
    <2>1. ASSUME NEW t \in Txns, Release(t)
          PROVE  /\ call'[u] = Idle
                 /\ wait_for'[u] = NoTxn
                 /\ \A tb \in Tables : u \notin gap_locks'[tb] /\ u \notin predicate_reads'[tb]
                 /\ \A r \in Rows : u \notin row_locks'[r].holders
      <3>1. CASE u = t
        BY <2>1, <3>1, ReleaseEnds
      <3>2. CASE u # t
        <4>1. u \in ended /\ u \in Txns
          BY <2>1, <3>2, ReleaseEnds DEF TypeOK
        <4>2. \A r \in Rows : u \notin row_locks[r].holders
          BY <4>1 DEF EndedLeavesNothing
        <4> QED
          BY <2>1, <4>1, <4>2, EndedStays, ReleaseEnds
      <3> QED
        BY <3>1, <3>2
    <2>2. ASSUME ended' = ended,
                 \/ UNCHANGED lockVars
                 \/ \E t \in Txns \ ended, r \in Rows, m \in LockModes : Grant(t, r, m)
          PROVE  \A r \in Rows : u \notin row_locks'[r].holders
      <3>1. u \in ended /\ u \in Txns /\ \A r \in Rows : u \notin row_locks[r].holders
        BY <2>2 DEF EndedLeavesNothing, TypeOK
      <3>2. ASSUME NEW t \in Txns \ ended, NEW r \in Rows, NEW m \in LockModes, Grant(t, r, m)
            PROVE  \A q \in Rows : u \notin row_locks'[q].holders
        BY <3>1, <3>2 DEF Grant, Granted, TypeOK, LockModes
      <3> QED
        BY <2>2, <3>1, <3>2 DEF lockVars
    <2>3. ASSUME ended' = ended
          PROVE  /\ call'[u] = Idle
                 /\ wait_for'[u] = NoTxn
                 /\ \A tb \in Tables : u \notin gap_locks'[tb] /\ u \notin predicate_reads'[tb]
      <3>1. u \in ended
        BY <2>3
      <3> QED
        BY <3>1, EndedStays
    <2> QED
      BY <2>1, <2>2, <2>3, LockSteps
  <1>2. ASSUME NEW v \in Txns, wait_for'[v] = u, call'[v].op = "row" PROVE FALSE
    <2>1. u \in Txns
      BY DEF TypeOK
    <2>2. u \in Blockers(v, call[v].row, call[v].mode)'
      BY <1>2, <2>1, NoTxnAssumption DEF SleeperEdgeIsCurrent
    <2>3. call'[v].row \in Rows
      BY <1>2, CallShape DEF TypeOK
    <2> QED
      BY <1>1, <2>2, <2>3 DEF Blockers
  <1> QED
    BY <1>1, <1>2

LEMMA LockInvStep == LockInv /\ [Next]_vars => LockInv'
  BY TypeStep, MatchStep, EdgeStep, EndedStep DEF LockInv

LEMMA LockInvHolds == Spec => []LockInv
  BY LockInvInit, LockInvStep, PTL DEF Spec

------------------------------------------------------------------------------
(* The theorems *)

\* The lock table never drifts from what acquire() told its callers, through grants on first try,
\* grants after a sleep, upgrades, re-acquisitions and releases.
THEOREM TableMatches == Spec => []TableMatchesClaims
  BY LockInvHolds, PTL DEF LockInv

LEMMA MatchGivesExclusion == TypeOK /\ TableMatchesClaims => ClaimsCompatible
  BY DEF TypeOK, TableMatchesClaims, ClaimsCompatible

\* Mutual exclusion: what one transaction was told it holds exclusively no other was told it holds.
THEOREM Exclusion == Spec => []ClaimsCompatible
  <1>1. LockInv => ClaimsCompatible
    BY MatchGivesExclusion DEF LockInv
  <1> QED
    BY <1>1, LockInvHolds, PTL

\* A sleeper's edge always names somebody who holds the row it waits for and stops it.
THEOREM EdgesCurrent == Spec => []SleeperEdgeIsCurrent
  BY LockInvHolds, PTL DEF LockInv

\* A sleeper with no notification pending has such an edge: the release that frees it will come
\* from a transaction that still holds the row, and notifies.
THEOREM NoLostWakeup == Spec => []NoLostRowWakeup
  BY LockInvHolds, PTL DEF LockInv

\* Nothing of a transaction survives its release().
THEOREM EndedIsGone == Spec => []EndedLeavesNothing
  BY LockInvHolds, PTL DEF LockInv

------------------------------------------------------------------------------
(* The lock manager implements the abstract lock table *)

LEMMA GrantRefines ==
    ASSUME TypeOK, TableMatchesClaims,
           NEW t \in Txns, NEW r \in Rows, NEW m \in LockModes, Grant(t, r, m)
    PROVE  Abstract!Grant(t, r, m)
  <1>1. ASSUME NEW u \in Txns \ {t} PROVE Abstract!Compatible(claims[u][r], m)
    <2>1. claims[u][r] \in {"none", "S", "X"}
      BY DEF TypeOK
    <2>2. claims[u][r] # "none" => u \in row_locks[r].holders \ {t}
      BY DEF TableMatchesClaims
    <2>3. m = "X" => claims[u][r] = "none"
      BY <2>2 DEF Grant, Blockers
    <2>4. claims[u][r] # "X"
      BY <2>2 DEF Grant, Blockers, TableMatchesClaims
    <2> QED
      BY <2>1, <2>3, <2>4 DEF Abstract!Compatible, LockModes
  <1>2. claims' = [claims EXCEPT ![t][r] = Abstract!Stronger(claims[t][r], m)]
    BY DEF Grant, Abstract!Stronger, TypeOK
  <1> QED
    BY <1>1, <1>2 DEF Abstract!Grant

LEMMA StepRefines == LockInv /\ [Next]_vars => [Abstract!Next]_claims
  <1> SUFFICES ASSUME LockInv, [Next]_vars PROVE [Abstract!Next]_claims
    OBVIOUS
  <1> USE DEF LockInv
  <1>1. ASSUME NEW t \in Txns, NEW r \in Rows, NEW m \in LockModes, Grant(t, r, m)
        PROVE  Abstract!Next
    BY <1>1, GrantRefines DEF Abstract!Next, LockModes
  <1>2. ASSUME NEW t \in Txns, Release(t) PROVE Abstract!Next
    BY <1>2 DEF Release, Abstract!Next, Abstract!ReleaseAll
  <1>3. CASE UNCHANGED lockVars
    BY <1>3 DEF lockVars
  <1> QED
    BY <1>1, <1>2, <1>3, LockSteps

\* Every behaviour of the lock manager is one of the abstract lock table: a row is granted only when
\* no other claim conflicts, and claims are given up only all together.
THEOREM Refinement == Spec => ImplementsRowLockTable
  <1>1. Init => Abstract!Init
    BY DEF Init, Abstract!Init
  <1> QED
    BY <1>1, StepRefines, LockInvHolds, PTL DEF Spec, ImplementsRowLockTable, Abstract!Spec
==============================================================================
