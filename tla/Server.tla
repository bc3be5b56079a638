------------------------------- MODULE Server -------------------------------
(***************************************************************************)
(* The connections of the server: server/src/main.cpp (the line protocol)  *)
(* and server/src/mysql.cpp (the MySQL protocol) run one thread each, from *)
(* the place a connection takes among max_connections to the tear-down.    *)
(* What a session holds in the engine is one row lock, one transaction and *)
(* its LOCK TABLES entry for one table.  The process list and the state    *)
(* KILL sets (core/src/engine/executor: register_process,                  *)
(* update_process_command, exec_kill) are shared by all of them.           *)
(***************************************************************************)
EXTENDS Naturals, FiniteSets

CONSTANTS
    Conns,      \* the connections that come and go
    Limits      \* the values SET GLOBAL max_connections gives

None   == "none"
Orphan == "orphan"     \* the transaction of a session that is over

ASSUME ConnsAssumption == IsFiniteSet(Conns) /\ {None, Orphan} \cap Conns = {}
\* the code keeps what it is given between 1 and 100000
ASSUME LimitsAssumption == Limits \subseteq Nat \ {0}

Protocols == {"native", "mysql"}

Statements == {"begin", "write", "end", "lock", "unlock"}

VARIABLES
    open,      \* ServerCounters::open_connections
    limit,     \* ServerCounters::max_connections
    ceiling,   \* the largest limit in force since the server was last empty (history)
    before,    \* what fetch_add returned to the connection
    phase,     \* where the thread of the connection is
    proto,     \* the port it came in at
    sock,      \* "open", or "shut" by the client or by KILL
    command,   \* its entry of the process list: None, "Sleep" or "Query"
    kill,      \* kill_state_: 0, 1 (query), 2 (connection)
    stmt,      \* the statement it runs
    txn,       \* txn.is_active()
    row,       \* who holds the row lock
    tab,       \* its entry in explicit_table_locks
    orphans,   \* a transaction is open that no session can end
    quit       \* a client has sent COM_QUIT with a transaction open (history)

vars == <<open, limit, ceiling, before, phase, proto, sock, command, kill, stmt, txn, row, tab, orphans, quit>>

session == <<command, kill, stmt, txn, row, tab, orphans, quit>>
slots   == <<open, limit, ceiling, before>>

Phases == {"closed", "arrived", "greeted", "idle", "running", "waiting", "done", "changing",
           "answering", "ending", "rollback", "unlock", "freeing"}

(***************************************************************************)
(* The places: a thread adds itself first and asks afterwards, so a        *)
(* connection that will be refused counts against the ones that arrive.    *)
(***************************************************************************)
Init ==
    /\ open = 0
    /\ limit \in Limits
    /\ ceiling = limit
    /\ before = [c \in Conns |-> 0]
    /\ phase = [c \in Conns |-> "closed"]
    /\ proto = [c \in Conns |-> None]
    /\ sock = [c \in Conns |-> "shut"]
    /\ command = [c \in Conns |-> None]
    /\ kill = [c \in Conns |-> 0]
    /\ stmt = [c \in Conns |-> None]
    /\ txn = [c \in Conns |-> FALSE]
    /\ row = None
    /\ tab = [c \in Conns |-> None]
    /\ orphans = FALSE /\ quit = FALSE

Goto(c, p) == phase' = [phase EXCEPT ![c] = p]

\* ConnectionSlot's constructor, first half: fetch_add
Arrive(c) ==
    /\ phase[c] = "closed"
    /\ ~orphans \* bound: once a transaction is left behind, nobody comes any more
    /\ before' = [before EXCEPT ![c] = open]
    /\ open' = open + 1
    /\ ceiling' = IF \A d \in Conns : phase[d] = "closed" THEN limit ELSE ceiling
    /\ sock' = [sock EXCEPT ![c] = "open"]
    /\ \E p \in Protocols : proto' = [proto EXCEPT ![c] = p]
    /\ Goto(c, "arrived")
    /\ UNCHANGED <<limit, session>>

BugAdmitsAtLimit(c) ==
    /\ phase[c] = "arrived"
    /\ before[c] <= limit
    /\ before' = [before EXCEPT ![c] = 0]
    /\ Goto(c, "greeted")
    /\ UNCHANGED <<open, limit, ceiling, proto, sock, session>>

\* ... second half: below the limit the place is kept (the handshake or banner is sent next)
Admit(c) ==
    /\ phase[c] = "arrived"
    /\ before[c] < limit
    /\ before' = [before EXCEPT ![c] = 0]
    /\ Goto(c, "greeted")
    /\ UNCHANGED <<open, limit, ceiling, proto, sock, session>>

BugRefusedTwice(c) ==
    /\ phase[c] = "arrived"
    /\ before[c] >= limit
    /\ open' = open - 1
    /\ Goto(c, "freeing")
    /\ UNCHANGED <<limit, ceiling, before, proto, sock, session>>

\* ... at the limit it is given back, and the connection is told error 1040 and closed
Refuse(c) ==
    /\ phase[c] = "arrived"
    /\ before[c] >= limit
    /\ open' = open - 1
    /\ before' = [before EXCEPT ![c] = 0]
    /\ sock' = [sock EXCEPT ![c] = "shut"]
    /\ proto' = [proto EXCEPT ![c] = None]
    /\ Goto(c, "closed")
    /\ UNCHANGED <<limit, ceiling, session>>

\* ConnectionSlot's destructor and SocketGuard's: every return of the handler
FreeSlot(c) ==
    /\ phase[c] = "freeing"
    /\ open' = open - 1
    /\ sock' = [sock EXCEPT ![c] = "shut"]
    /\ Goto(c, "closed")
    /\ txn' = [txn EXCEPT ![c] = FALSE]
    /\ row' = IF row = c THEN Orphan ELSE row
    /\ orphans' = (orphans \/ txn[c])
    /\ kill' = [kill EXCEPT ![c] = 0]
    /\ proto' = [proto EXCEPT ![c] = None]
    /\ UNCHANGED <<limit, ceiling, before, command, stmt, tab, quit>>

(***************************************************************************)
(* Signing in                                                              *)
(***************************************************************************)
\* the banner cannot be sent, no answer comes, the answer is malformed or the password is wrong
SignInFails(c) ==
    /\ phase[c] = "greeted"
    /\ Goto(c, "freeing")
    /\ UNCHANGED <<slots, proto, sock, session>>

\* new_session, register_process
SignIn(c) ==
    /\ phase[c] = "greeted"
    /\ sock[c] = "open"
    /\ command' = [command EXCEPT ![c] = "Sleep"]
    /\ Goto(c, "idle")
    /\ UNCHANGED <<slots, proto, sock, kill, stmt, txn, row, tab, orphans, quit>>

(***************************************************************************)
(* The loop: read a command, run it, answer.  What the client sent before  *)
(* the socket was shut is still read.                                      *)
(***************************************************************************)
\* the client goes away
Hangup(c) ==
    /\ phase[c] # "closed"
    /\ sock[c] = "open"
    /\ sock' = [sock EXCEPT ![c] = "shut"]
    /\ UNCHANGED <<slots, phase, proto, session>>

\* read_line / read_packet fail: the loop ends.  So does `exit` on the line protocol.
ReadFails(c) ==
    /\ phase[c] = "idle"
    /\ sock[c] = "shut" \/ proto[c] = "native"
    /\ Goto(c, "ending")
    /\ UNCHANGED <<slots, proto, sock, session>>

\* COM_QUIT: the session leaves the process list and gives its table locks back, and returns
Quit(c) ==
    /\ phase[c] = "idle" /\ proto[c] = "mysql"
    /\ quit' = (quit \/ txn[c])
    /\ command' = [command EXCEPT ![c] = None]
    /\ Goto(c, "unlock")
    /\ UNCHANGED <<slots, proto, sock, kill, stmt, txn, row, tab, orphans>>

\* COM_PING, COM_INIT_DB, COM_STMT_*, \help, an unknown command, a KILL that is refused: an answer only
Chat(c) ==
    /\ phase[c] = "idle"
    /\ Goto(c, "answering")
    /\ UNCHANGED <<slots, proto, sock, session>>

\* execute_sql: the session shows as running (ProcessScope)
Begin(c, s) ==
    /\ phase[c] = "idle"
    /\ command' = [command EXCEPT ![c] = "Query"]
    /\ stmt' = [stmt EXCEPT ![c] = s]
    /\ Goto(c, "running")
    /\ UNCHANGED <<slots, proto, sock, kill, txn, row, tab, orphans, quit>>

EndTxn(c) ==
    /\ txn' = [txn EXCEPT ![c] = FALSE]
    /\ row' = IF row = c THEN None ELSE row

\* the statement does its work; a write of a row that somebody else holds waits for it
Execute(c) ==
    /\ phase[c] = "running"
    /\ \/ /\ stmt[c] = "begin"
          /\ txn' = [txn EXCEPT ![c] = TRUE]
          /\ Goto(c, "done")
          /\ UNCHANGED <<row, tab>>
       \/ /\ stmt[c] = "write"
          /\ row \in {None, c}
          /\ row' = IF txn[c] THEN c ELSE row
          /\ Goto(c, "done")
          /\ UNCHANGED <<txn, tab>>
       \/ /\ stmt[c] = "write"
          /\ row \notin {None, c}
          /\ Goto(c, "waiting")
          /\ UNCHANGED <<txn, row, tab>>
       \/ /\ stmt[c] = "end"
          /\ EndTxn(c)
          /\ Goto(c, "done")
          /\ UNCHANGED tab
       \/ \* exec_lock_tables: what it held goes first, then all or nothing, without waiting
          /\ stmt[c] = "lock"
          /\ \E mode \in {"read", "write"} :
                tab' = [tab EXCEPT ![c] =
                          IF \E d \in Conns \ {c} : tab[d] # None /\ (mode = "write" \/ tab[d] = "write")
                          THEN None ELSE mode]
          /\ Goto(c, "done")
          /\ UNCHANGED <<txn, row>>
       \/ /\ stmt[c] = "unlock"
          /\ tab' = [tab EXCEPT ![c] = None]
          /\ Goto(c, "done")
          /\ UNCHANGED <<txn, row>>
    /\ stmt' = [stmt EXCEPT ![c] = None]
    /\ UNCHANGED <<slots, proto, sock, command, kill, orphans, quit>>

\* LockManager::acquire: the row comes free, or KILL ends the wait, or the time is up (the statement fails)
WaitGranted(c) ==
    /\ phase[c] = "waiting"
    /\ row = None
    /\ row' = IF txn[c] THEN c ELSE row
    /\ Goto(c, "done")
    /\ UNCHANGED <<slots, proto, sock, command, kill, stmt, txn, tab, orphans, quit>>

WaitKilled(c) ==
    /\ phase[c] = "waiting"
    /\ kill[c] # 0
    /\ Goto(c, "done")
    /\ UNCHANGED <<slots, proto, sock, session>>

WaitTimesOut(c) ==
    /\ phase[c] = "waiting"
    /\ Goto(c, "done")
    /\ UNCHANGED <<slots, proto, sock, session>>

\* ~ProcessScope: asleep again, and a KILL QUERY that came too late is forgotten
BugKeepsKill(c) ==
    /\ phase[c] = "done"
    /\ command' = [command EXCEPT ![c] = "Sleep"]
    /\ Goto(c, "answering")
    /\ UNCHANGED <<slots, proto, sock, kill, stmt, txn, row, tab, orphans, quit>>

Finish(c) ==
    /\ phase[c] = "done"
    /\ command' = [command EXCEPT ![c] = "Sleep"]
    /\ kill' = [kill EXCEPT ![c] = IF @ = 1 THEN 0 ELSE @]
    /\ Goto(c, "answering")
    /\ UNCHANGED <<slots, proto, sock, stmt, txn, row, tab, orphans, quit>>

\* the answer is sent; a killed connection ends, and so does a line-protocol one that cannot be answered
Answer(c) ==
    /\ phase[c] = "answering"
    /\ Goto(c, IF kill[c] = 2 \/ (proto[c] = "native" /\ sock[c] = "shut") THEN "ending" ELSE "idle")
    /\ UNCHANGED <<slots, proto, sock, session>>

\* COM_RESET_CONNECTION: the transaction is rolled back, the table locks stay
ResetConnection(c) ==
    /\ phase[c] = "idle" /\ proto[c] = "mysql"
    /\ EndTxn(c)
    /\ Goto(c, "answering")
    /\ UNCHANGED <<slots, proto, sock, command, kill, stmt, tab, orphans, quit>>

\* COM_CHANGE_USER, once the new user has signed in: the old session is put away ...
ChangeUser(c) ==
    /\ phase[c] = "idle" /\ proto[c] = "mysql"
    /\ EndTxn(c)
    /\ command' = [command EXCEPT ![c] = None]
    /\ tab' = [tab EXCEPT ![c] = None]
    /\ Goto(c, "changing")
    /\ UNCHANGED <<slots, proto, sock, kill, stmt, orphans, quit>>

\* ... and registered again, under the same id and with the same kill state
ChangedUser(c) ==
    /\ phase[c] = "changing"
    /\ command' = [command EXCEPT ![c] = "Sleep"]
    /\ Goto(c, "answering")
    /\ UNCHANGED <<slots, proto, sock, kill, stmt, txn, row, tab, orphans, quit>>

(***************************************************************************)
(* KILL and SET GLOBAL max_connections: run by a session, on another one   *)
(***************************************************************************)
\* KILL CONNECTION d: only a session in the list is found; its socket is shut (its own is not: the answer is still to be sent)
BugKillNoWake(c, d) ==
    /\ phase[c] = "idle"
    /\ command[d] # None
    /\ kill' = [kill EXCEPT ![d] = 2]
    /\ Goto(c, "answering")
    /\ UNCHANGED <<slots, proto, sock, command, stmt, txn, row, tab, orphans, quit>>

KillConnection(c, d) ==
    /\ phase[c] = "idle"
    /\ command[d] # None
    /\ kill' = [kill EXCEPT ![d] = 2]
    /\ sock' = IF d = c THEN sock ELSE [sock EXCEPT ![d] = "shut"]
    /\ Goto(c, "answering")
    /\ UNCHANGED <<slots, proto, command, stmt, txn, row, tab, orphans, quit>>

\* KILL QUERY d: only a statement that is running is asked to stop, and a killed connection stays killed
KillQuery(c, d) ==
    /\ phase[c] = "idle" /\ d # c
    /\ command[d] = "Query"
    /\ kill' = [kill EXCEPT ![d] = IF @ = 0 THEN 1 ELSE @]
    /\ Goto(c, "answering")
    /\ UNCHANGED <<slots, proto, sock, command, stmt, txn, row, tab, orphans, quit>>

SetLimit(c, n) ==
    /\ phase[c] = "idle"
    /\ limit' = n
    /\ ceiling' = IF n > ceiling THEN n ELSE ceiling
    /\ Goto(c, "answering")
    /\ UNCHANGED <<open, before, proto, sock, session>>

(***************************************************************************)
(* The tear-down, in the order of the handler: deregister_process,         *)
(* ROLLBACK if a transaction is open, release_explicit_table_locks, return *)
(***************************************************************************)
Deregister(c) ==
    /\ phase[c] = "ending"
    /\ command' = [command EXCEPT ![c] = None]
    /\ Goto(c, "rollback")
    /\ UNCHANGED <<slots, proto, sock, kill, stmt, txn, row, tab, orphans, quit>>

BugNoRollback(c) ==
    /\ phase[c] = "rollback"
    /\ Goto(c, "unlock")
    /\ UNCHANGED <<slots, proto, sock, session>>

RollbackAbandoned(c) ==
    /\ phase[c] = "rollback"
    /\ EndTxn(c)
    /\ Goto(c, "unlock")
    /\ UNCHANGED <<slots, proto, sock, command, kill, stmt, tab, orphans, quit>>

UnlockTables(c) ==
    /\ phase[c] = "unlock"
    /\ tab' = [tab EXCEPT ![c] = None]
    /\ Goto(c, "freeing")
    /\ UNCHANGED <<slots, proto, sock, command, kill, stmt, txn, row, orphans, quit>>

\* the steps the server's own thread takes without anybody else
Serve(c) ==
    \/ Admit(c) \/ Refuse(c) \/ FreeSlot(c)
    \/ (sock[c] = "shut" /\ (SignInFails(c) \/ ReadFails(c)))
    \/ Execute(c) \/ WaitGranted(c) \/ WaitKilled(c) \/ Finish(c) \/ Answer(c) \/ ChangedUser(c)
    \/ Deregister(c) \/ RollbackAbandoned(c) \/ UnlockTables(c)

\* the bound of Arrive is reached
Over == orphans /\ (\A c \in Conns : phase[c] = "closed") /\ UNCHANGED vars

Next ==
    \/ Over
    \/ \E c \in Conns :
        \/ Arrive(c) \/ Admit(c) \/ Refuse(c) \/ FreeSlot(c)
        \/ SignInFails(c) \/ SignIn(c) \/ Hangup(c) \/ ReadFails(c) \/ Quit(c) \/ Chat(c)
        \/ \E s \in Statements : Begin(c, s)
        \/ Execute(c) \/ WaitGranted(c) \/ WaitKilled(c) \/ WaitTimesOut(c) \/ Finish(c) \/ Answer(c)
        \/ ResetConnection(c) \/ ChangeUser(c) \/ ChangedUser(c)
        \/ \E d \in Conns : KillConnection(c, d) \/ KillQuery(c, d)
        \/ \E n \in Limits : SetLimit(c, n)
        \/ Deregister(c) \/ RollbackAbandoned(c) \/ UnlockTables(c)

\* the threads of the server run on; clients owe it nothing
Spec == Init /\ [][Next]_vars /\ \A c \in Conns : WF_vars(Serve(c))

-----------------------------------------------------------------------------
TypeOK ==
    /\ open \in Nat /\ limit \in Limits /\ ceiling \in Limits /\ limit <= ceiling
    /\ before \in [Conns -> Nat]
    /\ phase \in [Conns -> Phases] /\ proto \in [Conns -> Protocols \cup {None}]
    /\ sock \in [Conns -> {"open", "shut"}]
    /\ command \in [Conns -> {None, "Sleep", "Query"}]
    /\ kill \in [Conns -> 0..2]
    /\ stmt \in [Conns -> Statements \cup {None}]
    /\ txn \in [Conns -> BOOLEAN]
    /\ row \in Conns \cup {None, Orphan}
    /\ tab \in [Conns -> {None, "read", "write"}]
    /\ orphans \in BOOLEAN

Inside == {c \in Conns : phase[c] \notin {"closed", "arrived"}}

(* The place a connection takes is given back exactly once, whichever of   *)
(* the handler's returns it leaves by, and never are more connections      *)
(* inside than the largest max_connections that was in force since the     *)
(* server was last empty, though a thread counts itself before it asks and *)
(* the limit may change in between (ConnectionSlot, server_status.hpp).    *)
SlotsAccounted ==
    /\ open = Cardinality({c \in Conns : phase[c] # "closed"})
    /\ Cardinality(Inside) <= ceiling

(* KILL QUERY stops the statement it was aimed at or none: it is never     *)
(* left set for the session's next statement, nor does it turn a killed    *)
(* connection into a living one; and a session that KILL can find has not  *)
(* closed its socket (close_connection would shut somebody else's).        *)
KillHitsItsTarget ==
    \A c \in Conns :
        /\ kill[c] = 1 => command[c] = "Query"
        /\ command[c] # None => phase[c] \in Phases \ {"closed", "arrived", "greeted", "unlock", "freeing"}

(* A connection that ends leaves nothing behind that another session could *)
(* wait for: no transaction in the list of open ones, no row lock, no LOCK *)
(* TABLES entry (docs/mds/FUNCTIONS.md:366).  COM_QUIT inside a            *)
(* transaction is the exception: it rolls nothing back (mysql.cpp:1574).   *)
EndedLeavesNothing ==
    /\ ~quit => ~orphans /\ row # Orphan
    /\ \A c \in Conns : phase[c] \in {"closed", "arrived", "greeted", "freeing"} => tab[c] = None

(* KILL CONNECTION ends the connection whatever its thread does: reading   *)
(* the next command, waiting for a row, answering or changing its user.    *)
KilledEnds == \A c \in Conns : kill[c] = 2 /\ command[c] # None ~> phase[c] = "closed"
=============================================================================
