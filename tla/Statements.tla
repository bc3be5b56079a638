----------------------------- MODULE Statements -----------------------------
(***************************************************************************)
(* How Executor::execute schedules a statement (executor_core.cpp): the    *)
(* structural lock, the locks of the tables a statement names or reaches   *)
(* through foreign keys, the data locks its phases take, the wait for a    *)
(* row with everything let go in between, the path that takes the database *)
(* exclusively, and the query cache around it all (execute_sql_inner,      *)
(* query_cache.cpp).  The locks are FairSharedMutex: readers share, and a  *)
(* writer that waits keeps new readers out (see FairSharedMutex.tla).      *)
(* A table is the number of changes committed to it; a writer claims one   *)
(* row, which it may have to wait for.                                     *)
(***************************************************************************)
EXTENDS Naturals, Sequences, FiniteSets

CONSTANTS
    Sessions,
    Order,       \* the tables in the order of their names
    Parents,     \* the tables each table's foreign keys refer to
    Rows,        \* the rows writers claim
    Menu,        \* the statements clients send
    MaxStmts,    \* how many each session sends
    None

Tables == {Order[i] : i \in 1..Len(Order)}
Names  == "names"    \* the maps of tables, views and locks themselves

Kinds  == {"select", "view", "insert", "update", "delete", "multi", "ddl", "call"}

ASSUME OrderAssumption ==
    /\ Order \in Seq(Tables)
    /\ Names \notin Tables
    /\ Parents \in [Tables -> SUBSET Tables]
ASSUME MenuAssumption ==
    /\ Menu \subseteq [kind : Kinds, tables : (SUBSET Tables) \ {{}}, row : Rows \cup {None}, open : BOOLEAN]
    /\ MaxStmts \in [Sessions -> Nat]
ASSUME NoneAssumption == None \notin {"S", "X"}

(***************************************************************************)
(* What a statement takes and touches                                      *)
(***************************************************************************)
Children(t) == {c \in Tables : t \in Parents[c]}

\* fk_children_closure: the tables that refer to t, those that refer to them, and so on: the least set of that kind
ChildrenClosure ==
    [t \in Tables |->
        {c \in Tables : \A S \in SUBSET Tables :
            Children(t) \subseteq S /\ (\A d \in S : Children(d) \subseteq S) => c \in S}]

\* add_fk_neighbors
BugNeighbors(t, parents, children) ==
    (IF parents THEN Parents[t] ELSE {}) \cup (IF children THEN Children(t) ELSE {})

FkNeighbors(t, parents, children) ==
    (IF parents THEN Parents[t] ELSE {}) \cup (IF children THEN ChildrenClosure[t] ELSE {})

\* table_lock_set_for, for a statement that does not fall back to the exclusive path
LockSet(st) ==
    CASE st.kind = "select" -> st.tables
      [] st.kind = "insert" -> UNION {{t} \cup FkNeighbors(t, TRUE, FALSE) : t \in st.tables}
      [] st.kind = "update" -> UNION {{t} \cup FkNeighbors(t, TRUE, TRUE) : t \in st.tables}
      [] st.kind = "delete" -> UNION {{t} \cup FkNeighbors(t, FALSE, TRUE) : t \in st.tables}
      [] st.kind = "multi"  -> UNION {{t} \cup FkNeighbors(t, TRUE, TRUE) : t \in st.tables}
      [] OTHER -> {}

\* COMMIT, ROLLBACK and the statements over several tables take the table locks exclusive
Mode(st) == IF st.kind \in {"multi", "commit", "rollback"} THEN "X" ELSE "S"

Phase(dx, ds, wr, rd) == [dx |-> dx, ds |-> ds, wr |-> wr, rd |-> rd]

\* the phases of exec_select, exec_insert_inner, exec_update_inner, exec_delete_inner, exec_multi_update: data locks taken and rows touched
Program(st) ==
    LET t  == CHOOSE x \in st.tables : TRUE
        up == Parents[t]
        dn == ChildrenClosure[t]
        T  == st.tables
    IN  CASE st.kind = "select" -> <<Phase({}, T, {}, T)>>
          [] st.kind = "insert" -> <<Phase({}, {t} \cup up, {}, {t} \cup up), Phase({t}, {}, {t}, {})>>
          [] st.kind = "update" -> <<Phase({}, {t} \cup up \cup dn, {}, {t} \cup up \cup dn),
                                    Phase({t}, up \cup dn, {t}, up \cup dn), Phase(up \cup dn, {}, dn, up)>>
          [] st.kind = "delete" -> <<Phase({}, {t}, {}, {t}), Phase({t} \cup dn, {}, {t} \cup dn, {}), Phase({t}, {}, {t}, {})>>
          [] st.kind = "multi"  -> <<Phase({}, {}, {}, T), Phase(T, {}, T, {})>>
          [] st.kind = "view"   -> <<Phase({}, {}, {Names}, T)>>
          [] st.kind \in {"ddl", "call"} -> <<Phase({}, {}, Tables \cup {Names}, {})>>
          [] OTHER -> <<Phase({}, {}, {}, {})>>

Writes(st) ==
    CASE st.kind \in {"insert", "multi", "ddl"} -> st.tables
      [] st.kind \in {"update", "delete", "call"} -> UNION {{t} \cup ChildrenClosure[t] : t \in st.tables}
      [] OTHER -> {}

IsSelect(st)    == st.kind = "select"
IsDml(st)       == st.kind \in {"insert", "update", "delete", "multi"}
IsEnd(st)       == st.kind \in {"commit", "rollback"}
IsExclusive(st) == st.kind \in {"ddl", "call"}

VARIABLES
    pc,        \* where the session is in execute_sql_inner / execute
    stmt,      \* the statement it runs
    todo,      \* how many more it sends
    phase,     \* the phase of the program it is in
    struct,    \* its hold of the structural lock
    tlock,     \* its holds of table_locks
    dlock,     \* its holds of table_data_locks
    owner,     \* who has claimed each row
    txn,       \* the session has a transaction open (active_txn_ids)
    dirty,     \* the tables it has written in it
    content,   \* the changes committed to each table
    gen,       \* QueryResultCache::table_generation_
    cache,     \* QueryResultCache::entries_
    before,    \* cache_gens_before of the session's SELECT
    answer,    \* what the SELECT has read
    floor,     \* the changes whose writer has let the table go
    since      \* floor when the statement was sent

locks == <<struct, tlock, dlock>>
data  == <<owner, txn, dirty, content, floor>>
qc    == <<gen, cache, before, answer, since>>
vars  == <<pc, stmt, todo, phase, locks, data, qc>>

Nothing == [t \in Tables |-> None]
NoStmt  == [kind |-> "none", tables |-> {}, open |-> FALSE, row |-> None]
Queries == {st.tables : st \in {m \in Menu : m.kind = "select"}}

Init ==
    /\ pc = [s \in Sessions |-> "idle"]
    /\ stmt = [s \in Sessions |-> NoStmt]
    /\ todo = MaxStmts
    /\ phase = [s \in Sessions |-> 1]
    /\ struct = [s \in Sessions |-> None]
    /\ tlock = [s \in Sessions |-> Nothing] /\ dlock = [s \in Sessions |-> Nothing]
    /\ owner = [r \in Rows |-> None]
    /\ txn = [s \in Sessions |-> FALSE] /\ dirty = [s \in Sessions |-> {}]
    /\ content = [t \in Tables |-> 0] /\ floor = [t \in Tables |-> 0]
    /\ gen = [t \in Tables |-> 0]
    /\ cache = [q \in Queries |-> None]
    /\ before = [s \in Sessions |-> Nothing]
    /\ answer = [s \in Sessions |-> None] /\ since = [s \in Sessions |-> None]

Goto(s, l) == pc' = [pc EXCEPT ![s] = l]

Needed(s) == IF IsEnd(stmt[s]) THEN dirty[s] ELSE LockSet(stmt[s])

\* the first table, in the order of the names, whose lock the session does not have yet
NextTable(s) ==
    LET i == CHOOSE i \in 1..Len(Order) :
               /\ Order[i] \in Needed(s) /\ tlock[s][Order[i]] = None
               /\ \A j \in 1..(i - 1) : Order[j] \in Needed(s) => tlock[s][Order[j]] # None
    IN  Order[i]

TablesHeld(s) == \A t \in Needed(s) : tlock[s][t] # None

Step(s)  == Program(stmt[s])[phase[s]]
DataHeld(s) == \A t \in Step(s).dx \cup Step(s).ds : dlock[s][t] # None
NextData(s) ==
    LET D == Step(s).dx \cup Step(s).ds
        i == CHOOSE i \in 1..Len(Order) :
               /\ Order[i] \in D /\ dlock[s][Order[i]] = None
               /\ \A j \in 1..(i - 1) : Order[j] \in D => dlock[s][Order[j]] # None
    IN  Order[i]
DataMode(s, t) == IF t \in Step(s).dx THEN "X" ELSE "S"

\* FairSharedMutex: shared unless a writer holds or waits, exclusive unless anybody holds
WantsStructX(s) == pc[s] = "exclusive"
WantsTableX(s, t) == pc[s] = "run" /\ Mode(stmt[s]) = "X" /\ ~TablesHeld(s) /\ NextTable(s) = t
WantsDataX(s, t)  ==
    pc[s] = "run" /\ TablesHeld(s) /\ ~DataHeld(s) /\ NextData(s) = t /\ DataMode(s, t) = "X"

\* all the locks of the phase are there: the session is at its rows
AtRows(s) == pc[s] = "run" /\ TablesHeld(s) /\ DataHeld(s)

StructShared(s) == \A r \in Sessions \ {s} : struct[r] # "X" /\ ~WantsStructX(r)
StructExcl(s)   == \A r \in Sessions \ {s} : struct[r] = None
TableFree(s, t, m) ==
    \A r \in Sessions \ {s} : IF m = "X" THEN tlock[r][t] = None ELSE tlock[r][t] # "X" /\ ~WantsTableX(r, t)
DataFree(s, t, m) ==
    \A r \in Sessions \ {s} : IF m = "X" THEN dlock[r][t] = None ELSE dlock[r][t] # "X" /\ ~WantsDataX(r, t)

NoneActive == \A s \in Sessions : ~txn[s]

(***************************************************************************)
(* execute_sql_inner: the cache before the statement                       *)
(***************************************************************************)
\* a client sends a statement; one that writes with autocommit off opens its transaction first (run_sql_text)
Send(s, st) ==
    /\ pc[s] = "idle" /\ todo[s] > 0
    /\ todo' = [todo EXCEPT ![s] = @ - 1]
    /\ stmt' = [stmt EXCEPT ![s] = st]
    /\ txn' = [txn EXCEPT ![s] = @ \/ st.open]
    /\ since' = [since EXCEPT ![s] = IF IsSelect(st) THEN floor ELSE None]
    /\ Goto(s, CASE IsSelect(st) /\ ~txn[s] -> "lookup"
                 [] IsExclusive(st) -> "exclusive"
                 [] OTHER -> "structural")
    /\ UNCHANGED <<phase, locks, owner, dirty, content, floor, gen, cache, before, answer>>

\* QueryResultCache::get: an entry whose tables have moved on is dropped; asked only when no transaction is open.
Hit(s) ==
    LET q == stmt[s].tables IN
    /\ NoneActive
    /\ cache[q] # None
    /\ \A t \in q : cache[q].gen[t] = gen[t]

Lookup(s) ==
    /\ pc[s] = "lookup"
    /\ StructShared(s)
    /\ IF Hit(s)
       THEN /\ answer' = [answer EXCEPT ![s] = cache[stmt[s].tables].ver]
            /\ Goto(s, "answer")
       ELSE /\ Goto(s, "capture")
            /\ UNCHANGED answer
    /\ UNCHANGED <<stmt, todo, phase, locks, data, gen, cache, before, since>>

\* cache_gens_before
Capture(s) ==
    /\ pc[s] = "capture"
    /\ StructShared(s)
    /\ before' = [before EXCEPT ![s] = gen]
    /\ Goto(s, "structural")
    /\ UNCHANGED <<stmt, todo, phase, locks, data, gen, cache, answer, since>>

(***************************************************************************)
(* execute: the locks                                                      *)
(***************************************************************************)
TakeStructural(s) ==
    /\ pc[s] = "structural"
    /\ StructShared(s)
    /\ struct' = [struct EXCEPT ![s] = "S"]
    /\ Goto(s, "run")
    /\ UNCHANGED <<stmt, todo, phase, tlock, dlock, data, qc>>

\* acquire_table_locks, one table at a time, in order
TakeTable(s) ==
    /\ pc[s] = "run" /\ ~TablesHeld(s)
    /\ LET t == NextTable(s) IN
         /\ TableFree(s, t, Mode(stmt[s]))
         /\ tlock' = [tlock EXCEPT ![s][t] = Mode(stmt[s])]
    /\ UNCHANGED <<pc, stmt, todo, phase, struct, dlock, data, qc>>

\* acquire_table_data_locks for the phase, one table at a time, in order
TakeData(s) ==
    /\ pc[s] = "run" /\ TablesHeld(s) /\ ~DataHeld(s)
    /\ LET t == NextData(s) IN
         /\ DataFree(s, t, DataMode(s, t))
         /\ dlock' = [dlock EXCEPT ![s][t] = DataMode(s, t)]
    /\ UNCHANGED <<pc, stmt, todo, phase, struct, tlock, data, qc>>

\* shared->write()
TakeExclusive(s) ==
    /\ pc[s] = "exclusive"
    /\ StructExcl(s)
    /\ struct' = [struct EXCEPT ![s] = "X"]
    /\ Goto(s, "run")
    /\ UNCHANGED <<stmt, todo, phase, tlock, dlock, data, qc>>

(***************************************************************************)
(* The phases                                                              *)
(***************************************************************************)
\* an INSERT claims its key before it writes, the others claim what they are about to change
Claims(s) ==
    \/ stmt[s].kind \in {"insert", "call"} /\ phase[s] = 1
    \/ stmt[s].kind \in {"update", "delete", "multi"} /\ phase[s] = 2
Blocked(s) == owner[stmt[s].row] \notin {None, s}

Disown(s) == [r \in Rows |-> IF owner[r] = s THEN None ELSE owner[r]]


\* a SELECT reads the committed state; its locks go when it returns
Read(s) ==
    /\ AtRows(s) /\ IsSelect(stmt[s])
    /\ answer' = [answer EXCEPT ![s] = [t \in stmt[s].tables |-> content[t]]]
    /\ struct' = [struct EXCEPT ![s] = None]
    /\ tlock' = [tlock EXCEPT ![s] = Nothing] /\ dlock' = [dlock EXCEPT ![s] = Nothing]
    /\ Goto(s, IF txn[s] THEN "answer" ELSE "check")
    /\ UNCHANGED <<stmt, todo, phase, data, gen, cache, before, since>>

\* the row is somebody else's: everything is let go before the wait (release_table_locks_for_block);
\* on the exclusive path there is no guard to let go
BugRelease(s) ==
    /\ dlock' = [dlock EXCEPT ![s] = Nothing]
    /\ UNCHANGED <<struct, tlock>>

ReleaseForBlock(s) ==
    /\ dlock' = [dlock EXCEPT ![s] = Nothing]
    /\ IF IsExclusive(stmt[s])
       THEN UNCHANGED <<struct, tlock>>
       ELSE /\ struct' = [struct EXCEPT ![s] = None]
            /\ tlock' = [tlock EXCEPT ![s] = Nothing]

Block(s) ==
    /\ AtRows(s) /\ Claims(s) /\ Blocked(s)
    /\ ReleaseForBlock(s)
    /\ Goto(s, "wait")
    /\ phase' = [phase EXCEPT ![s] = IF stmt[s].kind = "multi" THEN @ ELSE 1]
    /\ UNCHANGED <<stmt, todo, data, qc>>

\* block_on_row: granted, then reacquire_table_locks_after_block and the statement again from its first phase; a
\* multi-table statement goes on with the rows it had joined before
Granted(s) ==
    /\ pc[s] = "wait" /\ ~Blocked(s)
    /\ owner' = [owner EXCEPT ![stmt[s].row] = s]
    /\ Goto(s, IF IsExclusive(stmt[s]) THEN "run" ELSE "structural")
    /\ UNCHANGED <<stmt, todo, phase, locks, txn, dirty, content, floor, qc>>

\* ... or not in time: the statement fails, its transaction stays open
TimesOut(s) ==
    /\ pc[s] = "wait"
    /\ struct' = [struct EXCEPT ![s] = None]
    /\ Goto(s, "answer")
    /\ UNCHANGED <<stmt, todo, phase, tlock, dlock, data, qc>>

Invalidate(T) ==
    /\ gen' = [t \in Tables |-> IF t \in T THEN gen[t] + 1 ELSE gen[t]]
    /\ cache' = [q \in Queries |-> IF q \cap T # {} THEN None ELSE cache[q]]

Bump(T) == content' = [t \in Tables |-> IF t \in T THEN content[t] + 1 ELSE content[t]]
Settle(T) == floor' = [t \in Tables |-> IF t \in T THEN content'[t] ELSE floor[t]]

\* a phase of an INSERT, UPDATE or DELETE is over: in one of them the row is claimed; what the last wrote is seen at
\* once (autocommit) or at COMMIT; the cache is told while the data locks are still held
NextPhase(s) ==
    /\ AtRows(s) /\ IsDml(stmt[s])
    /\ ~(Claims(s) /\ Blocked(s))
    /\ LET last == phase[s] = Len(Program(stmt[s]))
           W    == Writes(stmt[s])
           auto == last /\ ~txn[s]
       IN  /\ owner' = IF auto THEN Disown(s) ELSE IF Claims(s) THEN [owner EXCEPT ![stmt[s].row] = s] ELSE owner
           /\ Bump(IF auto THEN W ELSE {})
           /\ Settle(IF auto THEN W ELSE {})
           /\ dirty' = [dirty EXCEPT ![s] = IF last /\ txn[s] THEN @ \cup W ELSE @]
           /\ Invalidate(IF last THEN W ELSE {})
           /\ phase' = [phase EXCEPT ![s] = IF last THEN 1 ELSE @ + 1]
           /\ Goto(s, IF last THEN "persist" ELSE "run")
    /\ dlock' = [dlock EXCEPT ![s] = Nothing]
    /\ UNCHANGED <<stmt, todo, struct, tlock, txn, before, answer, since>>

\* persist_autocommit under the statement's locks, which go with it
Persist(s) ==
    /\ pc[s] = "persist"
    /\ struct' = [struct EXCEPT ![s] = None]
    /\ tlock' = [tlock EXCEPT ![s] = Nothing]
    /\ Goto(s, "after")
    /\ UNCHANGED <<stmt, todo, phase, dlock, data, qc>>

\* a SELECT of a view, run under the structural lock held shared (is_pure_read_only): exec_select takes the view out of
\* s.views and puts a table of its name into s.tables
ReadView(s) ==
    /\ AtRows(s) /\ stmt[s].kind = "view"
    /\ struct' = [struct EXCEPT ![s] = None]
    /\ Goto(s, "answer")
    /\ UNCHANGED <<stmt, todo, phase, tlock, dlock, data, qc>>

\* the exclusive path: a definition of a table, or a CALL whose statements write
RunExclusive(s) ==
    /\ AtRows(s) /\ IsExclusive(stmt[s])
    /\ ~(Claims(s) /\ Blocked(s))
    /\ LET W == Writes(stmt[s])
           call == stmt[s].kind = "call"
       IN  /\ Bump(IF txn[s] /\ call THEN {} ELSE W)
           /\ Settle(IF call /\ ~txn[s] THEN W ELSE {})
           /\ owner' = IF ~txn[s] THEN Disown(s) ELSE IF call THEN [owner EXCEPT ![stmt[s].row] = s] ELSE owner
           /\ dirty' = [dirty EXCEPT ![s] = IF txn[s] /\ call THEN @ \cup W ELSE @]
           /\ Invalidate(IF call THEN W ELSE {})
    /\ struct' = [struct EXCEPT ![s] = None]
    /\ Goto(s, "after")
    /\ UNCHANGED <<stmt, todo, phase, tlock, dlock, txn, before, answer, since>>

\* COMMIT (execute_commit_grouped) and ROLLBACK, under the locks of the tables the transaction wrote
BugEnd(s) ==
    /\ AtRows(s) /\ IsEnd(stmt[s])
    /\ LET W == IF stmt[s].kind = "commit" THEN dirty[s] ELSE {} IN Bump(W) /\ Settle(W)
    /\ UNCHANGED <<gen, cache>>
    /\ owner' = Disown(s)
    /\ txn' = [txn EXCEPT ![s] = FALSE] /\ dirty' = [dirty EXCEPT ![s] = {}]
    /\ struct' = [struct EXCEPT ![s] = None]
    /\ tlock' = [tlock EXCEPT ![s] = Nothing]
    /\ Goto(s, "answer")
    /\ UNCHANGED <<stmt, todo, phase, dlock, before, answer, since>>

End(s) ==
    /\ AtRows(s) /\ IsEnd(stmt[s])
    /\ LET W == IF stmt[s].kind = "commit" THEN dirty[s] ELSE {} IN Bump(W) /\ Settle(W) /\ Invalidate(W)
    /\ owner' = Disown(s)
    /\ txn' = [txn EXCEPT ![s] = FALSE] /\ dirty' = [dirty EXCEPT ![s] = {}]
    /\ struct' = [struct EXCEPT ![s] = None]
    /\ tlock' = [tlock EXCEPT ![s] = Nothing]
    /\ Goto(s, "answer")
    /\ UNCHANGED <<stmt, todo, phase, dlock, before, answer, since>>

(***************************************************************************)
(* execute_sql_inner: the cache after the statement                        *)
(***************************************************************************)
\* the generations are compared ...
Check(s) ==
    /\ pc[s] = "check"
    /\ StructShared(s)
    /\ Goto(s, IF NoneActive /\ \A t \in stmt[s].tables : before[s][t] = gen[t] THEN "put" ELSE "answer")
    /\ UNCHANGED <<stmt, todo, phase, locks, data, qc>>

\* ... and the answer is stored with them, unless the query has one already
Put(s) ==
    /\ pc[s] = "put"
    /\ LET q == stmt[s].tables IN
         cache' = [cache EXCEPT ![q] = IF @ # None THEN @ ELSE [ver |-> answer[s], gen |-> [t \in q |-> before[s][t]]]]
    /\ Goto(s, "answer")
    /\ UNCHANGED <<stmt, todo, phase, locks, data, gen, before, answer, since>>

\* the tables a statement names are invalidated (again) once it is over
After(s) ==
    /\ pc[s] = "after"
    /\ StructShared(s)
    /\ Invalidate(IF stmt[s].kind = "call" THEN {} ELSE stmt[s].tables)
    /\ floor' = [t \in Tables |-> IF stmt[s].kind = "ddl" /\ t \in stmt[s].tables THEN content[t] ELSE floor[t]]
    /\ Goto(s, "answer")
    /\ UNCHANGED <<stmt, todo, phase, locks, owner, txn, dirty, content, before, answer, since>>

Answer(s) ==
    /\ pc[s] = "answer"
    /\ stmt' = [stmt EXCEPT ![s] = NoStmt]
    /\ phase' = [phase EXCEPT ![s] = 1]
    /\ before' = [before EXCEPT ![s] = Nothing]
    /\ answer' = [answer EXCEPT ![s] = None] /\ since' = [since EXCEPT ![s] = None]
    /\ Goto(s, "idle")
    /\ UNCHANGED <<todo, locks, data, gen, cache>>

\* a client ends its transaction
Leave(s) ==
    /\ pc[s] = "idle" /\ txn[s]
    /\ \E k \in {"commit", "rollback"} : stmt' = [stmt EXCEPT ![s] = [NoStmt EXCEPT !.kind = k]]
    /\ Goto(s, "structural")
    /\ UNCHANGED <<todo, phase, locks, data, qc>>

Run(s) ==
    \/ Lookup(s) \/ Capture(s)
    \/ TakeStructural(s) \/ TakeTable(s) \/ TakeData(s) \/ TakeExclusive(s)
    \/ Read(s) \/ Block(s) \/ Granted(s) \/ NextPhase(s) \/ Persist(s) \/ ReadView(s) \/ RunExclusive(s) \/ End(s)
    \/ Check(s) \/ Put(s) \/ After(s) \/ Answer(s) \/ Leave(s)

Next == \E s \in Sessions : Run(s) \/ TimesOut(s) \/ \E st \in Menu : Send(s, st)

\* A thread that can go on goes on.  A wait for a row may time out, but only the exclusive path needs it to.
Fairness ==
    \A s \in Sessions : WF_vars(Run(s)) /\ WF_vars(TimesOut(s) /\ IsExclusive(stmt[s]))

Spec == Init /\ [][Next]_vars /\ Fairness

-----------------------------------------------------------------------------
Touched(s) ==
    IF AtRows(s) THEN [wr |-> IF IsEnd(stmt[s]) THEN dirty[s] ELSE Step(s).wr, rd |-> Step(s).rd \cup {Names}]
    ELSE IF struct[s] # None THEN [wr |-> {}, rd |-> {Names}]
    ELSE [wr |-> {}, rd |-> {}]

Clash(r, s) == Touched(r).wr \cap (Touched(s).wr \cup Touched(s).rd) # {}

(* No session changes the rows of a table, or the maps the tables are kept *)
(* in, while another one reads or changes them: the locks that             *)
(* table_lock_set_for chooses and the phases take cover every table a      *)
(* statement reaches, cascades and joins included (executor_core.cpp:1191).*)
(* A SELECT of a view is left out: it changes the maps of tables and views *)
(* under the shared structural lock (executor_core.cpp:1260).              *)
NoTornTable ==
    \A r, s \in Sessions :
        r # s /\ stmt[r].kind # "view" /\ stmt[s].kind # "view" => ~Clash(r, s)

(* What a SELECT answers is no older than what its writers had let go when *)
(* it was sent, whether it comes from the table or from the cache, and     *)
(* whatever COMMIT, write or definition overtook it on its way             *)
(* (executor_dml.cpp:1637).                                                *)
AnswersAreCurrent ==
    \A s \in Sessions :
        pc[s] = "answer" /\ answer[s] # None => \A t \in stmt[s].tables : answer[s][t] >= since[s][t]

(* Every statement ends without the help of a timeout, as long as clients  *)
(* end their transactions: no order of the structural, table, data and row *)
(* locks leaves sessions waiting for each other.  Only the exclusive path, *)
(* which keeps the structural lock while it waits for a row, depends on    *)
(* its timeout.                                                            *)
EveryStatementEnds == \A s \in Sessions : pc[s] # "idle" ~> pc[s] = "idle"
=============================================================================
