------------------------------- MODULE MvccProofs -------------------------------
(* Proofs that Mvcc never forks a row, that READ COMMITTED reads exactly what is *)
(* committed, that ROLLBACK leaves no trace, that quiet snapshots repeat and     *)
(* that two SERIALIZABLE transactions skew only where their COMMITs overlap.     *)
EXTENDS Mvcc, FiniteSetTheorems, WellFoundedInduction, TLAPS

USE LevelsAssumption, AutoOpsAssumption, TablesAssumption, BoundsAssumption

--------------------------------------------------------------------------------
(* The inductive invariant *)

\* The sessions whose id is in active_txn_ids.
Active(s) == pc[s] \in {"open", "committing"}

ControlTypes ==
    /\ next_txn_id \in 2 .. MaxId + 1
    /\ active_txn_ids \subseteq 1 .. next_txn_id - 1
    /\ lock \in [Tables -> 0 .. next_txn_id - 1]
    /\ pc \in [Sessions -> {"idle", "begun", "open", "committing"}]
    /\ txn_id \in [Sessions -> 0 .. next_txn_id - 1]
    /\ dirty \in [Sessions -> SUBSET Tables]
    /\ stmt \in [Sessions -> Statements]
    /\ committed \subseteq 0 .. next_txn_id - 1

ReadTypes ==
    /\ level \in [Sessions -> {"RU", "RC", "RR", "SER"}]
    /\ ctx \in [Sessions -> Contexts]
    /\ read_set \in [Sessions -> SUBSET Tables]
    /\ ranges \in [Sessions -> SUBSET Tables]
    /\ flagged \subseteq Ids
    /\ seen \in [Sessions -> [Tables -> SUBSET (0 .. MaxVersions)]]
    /\ quiet \in [Sessions -> BOOLEAN]

RowTypes ==
    /\ rows \subseteq Versions
    /\ next_ver \in 2 .. MaxVersions + 1

\* A session has an id exactly while a transaction or an autocommit statement of its own runs.
HasId(s) == txn_id[s] # 0 <=> pc[s] # "idle" \/ stmt[s] # NoStmt

\* Nobody else has the id, and it is not the id of committed work.
IdIsOwn(s) ==
    txn_id[s] # 0 => txn_id[s] \notin committed /\ \A u \in Sessions : u # s => txn_id[u] # txn_id[s]

IdsOwned ==
    /\ \A s \in Sessions : HasId(s) /\ IdIsOwn(s) /\ (Active(s) <=> txn_id[s] \in active_txn_ids)
    /\ \A id \in active_txn_ids : \E s \in Sessions : Active(s) /\ txn_id[s] = id
    /\ 0 \in committed

\* Inside a transaction only an INSERT is ever caught between two steps.
StatementsPlaced ==
    \A s \in Sessions :
        /\ stmt[s] # NoStmt => pc[s] = "idle" \/ (pc[s] = "open" /\ stmt[s].op = "push")
        /\ dirty[s] # {} => Active(s)

\* A transaction keeps the claim of what it has changed until it is validated.
DirtyIsLocked ==
    \A s \in Sessions : pc[s] = "open" => \A tb \in dirty[s] : lock[tb] = txn_id[s]

\* No two transactions have changes of one table that are not yet ended.
DirtyApart == \A s, u \in Sessions : s # u => dirty[s] \cap dirty[u] = {}

\* Between its claim and its push an INSERT keeps the key, and no COMMIT has the table.
PushHasKey ==
    \A s \in Sessions, tb \in Tables :
        Runs(s, "push", tb) => lock[tb] = txn_id[s] /\ TableOpen(s, tb)

Control == ControlTypes /\ IdsOwned /\ StatementsPlaced /\ DirtyIsLocked /\ DirtyApart /\ PushHasKey

--------------------------------------------------------------------------------
(* What the steps do to everything but the versions *)

\* A statement of a transaction has changed tb.
ChangesInTxn(s, tb) ==
    /\ pc[s] = "open"
    /\ Claimable(tb, txn_id[s]) /\ TableOpen(s, tb)
    /\ lock' = [lock EXCEPT ![tb] = txn_id[s]]
    /\ dirty' = [dirty EXCEPT ![s] = @ \cup {tb}]
    /\ stmt' = [stmt EXCEPT ![s] = NoStmt]
    /\ UNCHANGED <<idVars, pc, txn_id, level, ctx, readVars, history>>

\* An autocommit statement has ended.
ChangesAlone(s) ==
    /\ pc[s] = "idle" /\ stmt[s] # NoStmt
    /\ lock' = Released(txn_id[s])
    /\ committed' = committed \cup {txn_id[s]}
    /\ txn_id' = [txn_id EXCEPT ![s] = 0]
    /\ stmt' = [stmt EXCEPT ![s] = NoStmt]
    /\ UNCHANGED <<idVars, pc, level, ctx, readVars, dirty, quiet, done>>

Changes(s, tb) == ChangesInTxn(s, tb) \/ ChangesAlone(s)

\* Every statement that changes a table ends in one of the two ways.
LEMMA StatementsChange ==
    ASSUME Control, NEW s \in Sessions, NEW tb \in Tables,
           InsertPush(s, tb) \/ Update(s, tb) \/ DeleteSoft(s, tb) \/ DeleteHard(s, tb)
    PROVE  Changes(s, tb)
<1> USE DEF Control, ControlTypes, Changes, ChangesInTxn, ChangesAlone, StatementEnds, InTxn, Ready,
            Runs, NoStmt, StatementsPlaced, history
<1>1. CASE InsertPush(s, tb)
  BY <1>1 DEF InsertPush, PushHasKey, Claimable
<1>2. CASE Update(s, tb)
  BY <1>2 DEF Update
<1>3. CASE DeleteSoft(s, tb)
  BY <1>3 DEF DeleteSoft
<1>4. CASE DeleteHard(s, tb)
  BY <1>4 DEF DeleteHard
<1> QED
  BY <1>1, <1>2, <1>3, <1>4

\* BEGIN takes an id nobody has.
LEMMA BeginKeeps ==
    ASSUME Control, NEW s \in Sessions, NEW l \in Levels, BeginSnapshot(s, l)
    PROVE  Control'
<1> USE DEF idVars, rowVars, history
<1>1. ControlTypes'
  BY DEF Control, ControlTypes, Statements, NoStmt, Runs, IdsOwned, HasId, BeginSnapshot, Idle
<1>2. IdsOwned'
  BY DEF Control, ControlTypes, Statements, NoStmt, Runs, IdsOwned, HasId, IdIsOwn, Active, StatementsPlaced, BeginSnapshot, Idle
<1>3. StatementsPlaced'
  BY DEF Control, ControlTypes, Statements, NoStmt, Runs, StatementsPlaced, Active, IdsOwned, HasId, BeginSnapshot, Idle
<1>4. DirtyIsLocked'
  BY DEF Control, ControlTypes, Statements, NoStmt, Runs, StatementsPlaced, Active, IdsOwned, HasId, IdIsOwn, DirtyIsLocked, TableOpen, DirtyApart, BeginSnapshot, Idle
<1>5. DirtyApart'
  BY DEF Control, ControlTypes, Statements, NoStmt, Runs, StatementsPlaced, Active, IdsOwned, HasId, IdIsOwn, DirtyIsLocked, TableOpen, DirtyApart, BeginSnapshot, Idle
<1>6. PushHasKey'
  BY DEF Control, ControlTypes, Statements, NoStmt, Runs, StatementsPlaced, Active, IdsOwned, HasId, IdIsOwn, DirtyIsLocked, TableOpen, PushHasKey, BeginSnapshot, Idle
<1> QED
  BY <1>1, <1>2, <1>3, <1>4, <1>5, <1>6 DEF Control

\* The registration of the id makes the transaction active.
LEMMA RegisterKeeps ==
    ASSUME Control, NEW s \in Sessions, BeginRegister(s)
    PROVE  Control'
<1> USE DEF idVars, rowVars, history
<1>1. ControlTypes'
  <2>1. txn_id[s] \in 1 .. next_txn_id - 1
    BY DEF Control, ControlTypes, IdsOwned, HasId, BeginRegister
  <2> QED
    BY <2>1 DEF Control, ControlTypes, BeginRegister
<1>2. IdsOwned'
  BY DEF Control, ControlTypes, Statements, NoStmt, Runs, IdsOwned, HasId, IdIsOwn, Active, StatementsPlaced, BeginRegister
<1>3. StatementsPlaced'
  BY DEF Control, ControlTypes, Statements, NoStmt, Runs, StatementsPlaced, Active, IdsOwned, HasId, BeginRegister
<1>4. DirtyIsLocked'
  BY DEF Control, ControlTypes, Statements, NoStmt, Runs, StatementsPlaced, Active, IdsOwned, HasId, IdIsOwn, DirtyIsLocked, TableOpen, DirtyApart, BeginRegister
<1>5. DirtyApart'
  BY DEF Control, ControlTypes, Statements, NoStmt, Runs, StatementsPlaced, Active, IdsOwned, HasId, IdIsOwn, DirtyIsLocked, TableOpen, DirtyApart, BeginRegister
<1>6. PushHasKey'
  BY DEF Control, ControlTypes, Statements, NoStmt, Runs, StatementsPlaced, Active, IdsOwned, HasId, IdIsOwn, DirtyIsLocked, TableOpen, PushHasKey, BeginRegister
<1> QED
  BY <1>1, <1>2, <1>3, <1>4, <1>5, <1>6 DEF Control

\* An autocommit statement takes an id nobody has.
LEMMA TakeIdKeeps ==
    ASSUME Control, NEW s \in Sessions, NEW op \in {"insert", "update", "delete", "erase"}, NEW tb \in Tables, TakeId(s, op, tb)
    PROVE  Control'
<1> USE DEF idVars, rowVars, history
<1>1. ControlTypes'
  BY DEF Control, ControlTypes, Statements, NoStmt, Runs, IdsOwned, HasId, TakeId, Idle
<1>2. IdsOwned'
  BY DEF Control, ControlTypes, Statements, NoStmt, Runs, IdsOwned, HasId, IdIsOwn, Active, StatementsPlaced, TakeId, Idle
<1>3. StatementsPlaced'
  BY DEF Control, ControlTypes, Statements, NoStmt, Runs, StatementsPlaced, Active, IdsOwned, HasId, TakeId, Idle
<1>4. DirtyIsLocked'
  BY DEF Control, ControlTypes, Statements, NoStmt, Runs, StatementsPlaced, Active, IdsOwned, HasId, IdIsOwn, DirtyIsLocked, TableOpen, DirtyApart, TakeId, Idle
<1>5. DirtyApart'
  BY DEF Control, ControlTypes, Statements, NoStmt, Runs, StatementsPlaced, Active, IdsOwned, HasId, IdIsOwn, DirtyIsLocked, TableOpen, DirtyApart, TakeId, Idle
<1>6. PushHasKey'
  BY DEF Control, ControlTypes, Statements, NoStmt, Runs, StatementsPlaced, Active, IdsOwned, HasId, IdIsOwn, DirtyIsLocked, TableOpen, PushHasKey, TakeId, Idle
<1> QED
  BY <1>1, <1>2, <1>3, <1>4, <1>5, <1>6 DEF Control

\* INSERT claims a key that nobody else has.
LEMMA ClaimKeeps ==
    ASSUME Control, NEW s \in Sessions, NEW tb \in Tables, InsertClaim(s, tb)
    PROVE  Control'
<1> USE DEF idVars, rowVars, history
<1>1. ControlTypes'
  BY DEF Control, ControlTypes, Statements, NoStmt, Runs, IdsOwned, HasId, InsertClaim, Ready, InTxn, Claimable
<1>2. IdsOwned'
  BY DEF Control, ControlTypes, Statements, NoStmt, Runs, IdsOwned, HasId, IdIsOwn, Active, StatementsPlaced, InsertClaim, Ready, InTxn, Claimable
<1>3. StatementsPlaced'
  BY DEF Control, ControlTypes, Statements, NoStmt, Runs, StatementsPlaced, Active, IdsOwned, HasId, InsertClaim, Ready, InTxn, Claimable
<1>4. DirtyIsLocked'
  BY DEF Control, ControlTypes, Statements, NoStmt, Runs, StatementsPlaced, Active, IdsOwned, HasId, IdIsOwn, DirtyIsLocked, TableOpen, DirtyApart, InsertClaim, Ready, InTxn, Claimable
<1>5. DirtyApart'
  BY DEF Control, ControlTypes, Statements, NoStmt, Runs, StatementsPlaced, Active, IdsOwned, HasId, IdIsOwn, DirtyIsLocked, TableOpen, DirtyApart, InsertClaim, Ready, InTxn, Claimable
<1>6. PushHasKey'
  BY DEF Control, ControlTypes, Statements, NoStmt, Runs, StatementsPlaced, Active, IdsOwned, HasId, IdIsOwn, DirtyIsLocked, TableOpen, PushHasKey, InsertClaim, Ready, InTxn, Claimable
<1> QED
  BY <1>1, <1>2, <1>3, <1>4, <1>5, <1>6 DEF Control

\* An INSERT that finds a duplicate may keep the claim, in a transaction.
LEMMA DuplicateKeeps ==
    ASSUME Control, NEW s \in Sessions, NEW tb \in Tables, InsertDuplicate(s, tb)
    PROVE  Control'
<1> USE DEF idVars, rowVars, history
<1>1. ControlTypes'
  BY DEF Control, ControlTypes, Statements, NoStmt, Runs, IdsOwned, HasId, InsertDuplicate, Ready, InTxn, Claimable
<1>2. IdsOwned'
  BY DEF Control, ControlTypes, Statements, NoStmt, Runs, IdsOwned, HasId, IdIsOwn, Active, StatementsPlaced, InsertDuplicate, Ready, InTxn, Claimable
<1>3. StatementsPlaced'
  BY DEF Control, ControlTypes, Statements, NoStmt, Runs, StatementsPlaced, Active, IdsOwned, HasId, InsertDuplicate, Ready, InTxn, Claimable
<1>4. DirtyIsLocked'
  BY DEF Control, ControlTypes, Statements, NoStmt, Runs, StatementsPlaced, Active, IdsOwned, HasId, IdIsOwn, DirtyIsLocked, TableOpen, DirtyApart, InsertDuplicate, Ready, InTxn, Claimable
<1>5. DirtyApart'
  BY DEF Control, ControlTypes, Statements, NoStmt, Runs, StatementsPlaced, Active, IdsOwned, HasId, IdIsOwn, DirtyIsLocked, TableOpen, DirtyApart, InsertDuplicate, Ready, InTxn, Claimable
<1>6. PushHasKey'
  BY DEF Control, ControlTypes, Statements, NoStmt, Runs, StatementsPlaced, Active, IdsOwned, HasId, IdIsOwn, DirtyIsLocked, TableOpen, PushHasKey, InsertDuplicate, Ready, InTxn, Claimable
<1> QED
  BY <1>1, <1>2, <1>3, <1>4, <1>5, <1>6 DEF Control

\* A transaction changes a table that nobody else has changes of.
LEMMA ChangeInTxnKeeps ==
    ASSUME Control, NEW s \in Sessions, NEW tb \in Tables, ChangesInTxn(s, tb)
    PROVE  Control'
<1> USE DEF idVars, rowVars, history
<1>1. ControlTypes'
  BY DEF Control, ControlTypes, Statements, NoStmt, Runs, IdsOwned, HasId, ChangesInTxn, Claimable
<1>2. IdsOwned'
  <2>1. \A u \in Sessions : HasId(u)'
    BY DEF Control, ControlTypes, ChangesInTxn, IdsOwned, HasId
  <2> QED
    BY <2>1 DEF Control, ChangesInTxn, IdsOwned, IdIsOwn, Active
<1>3. StatementsPlaced'
  BY DEF Control, ControlTypes, Statements, NoStmt, Runs, StatementsPlaced, Active, IdsOwned, HasId, ChangesInTxn, Claimable
<1>4. DirtyIsLocked'
  BY DEF Control, ControlTypes, Statements, NoStmt, Runs, StatementsPlaced, Active, IdsOwned, HasId, IdIsOwn, DirtyIsLocked, TableOpen, DirtyApart, ChangesInTxn, Claimable
<1>5. DirtyApart'
  BY DEF Control, ControlTypes, Statements, NoStmt, Runs, StatementsPlaced, Active, IdsOwned, HasId, IdIsOwn, DirtyIsLocked, TableOpen, DirtyApart, ChangesInTxn, Claimable
<1>6. PushHasKey'
  BY DEF Control, ControlTypes, Statements, NoStmt, Runs, StatementsPlaced, Active, IdsOwned, HasId, IdIsOwn, DirtyIsLocked, TableOpen, PushHasKey, ChangesInTxn, Claimable
<1> QED
  BY <1>1, <1>2, <1>3, <1>4, <1>5, <1>6 DEF Control

\* An autocommit statement gives up its id.
LEMMA ChangeAloneKeeps ==
    ASSUME Control, NEW s \in Sessions, ChangesAlone(s)
    PROVE  Control'
<1> USE DEF idVars, rowVars, history
<1>1. ControlTypes'
  <2>1. lock' \in [Tables -> 0 .. next_txn_id - 1]
    BY DEF Control, ControlTypes, ChangesAlone, Released
  <2>2. committed' \subseteq 0 .. next_txn_id - 1
    BY DEF Control, ControlTypes, ChangesAlone
  <2>3. stmt' \in [Sessions -> Statements]
    BY DEF Control, ControlTypes, ChangesAlone, Statements
  <2> QED
    BY <2>1, <2>2, <2>3 DEF Control, ControlTypes, ChangesAlone
<1>2. IdsOwned'
  BY DEF Control, ControlTypes, Statements, NoStmt, Runs, IdsOwned, HasId, IdIsOwn, Active, StatementsPlaced, ChangesAlone, Released
<1>3. StatementsPlaced'
  BY DEF Control, ControlTypes, Statements, NoStmt, Runs, StatementsPlaced, Active, IdsOwned, HasId, ChangesAlone, Released
<1>4. DirtyIsLocked'
  BY DEF Control, ControlTypes, Statements, NoStmt, Runs, StatementsPlaced, Active, IdsOwned, HasId, IdIsOwn, DirtyIsLocked, TableOpen, DirtyApart, ChangesAlone, Released
<1>5. DirtyApart'
  BY DEF Control, ControlTypes, Statements, NoStmt, Runs, StatementsPlaced, Active, IdsOwned, HasId, IdIsOwn, DirtyIsLocked, TableOpen, DirtyApart, ChangesAlone, Released
<1>6. PushHasKey'
  BY DEF Control, ControlTypes, Statements, NoStmt, Runs, StatementsPlaced, Active, IdsOwned, HasId, IdIsOwn, DirtyIsLocked, TableOpen, PushHasKey, ChangesAlone, Released
<1> QED
  BY <1>1, <1>2, <1>3, <1>4, <1>5, <1>6 DEF Control

\* So does one whose wait fails.
LEMMA WaitFailsKeeps ==
    ASSUME Control, NEW s \in Sessions, LockWaitFails(s)
    PROVE  Control'
<1> USE DEF idVars, rowVars, history
<1>1. ControlTypes'
  BY DEF Control, ControlTypes, Statements, NoStmt, Runs, IdsOwned, HasId, LockWaitFails, Claimable
<1>2. IdsOwned'
  <2>1. pc[s] = "idle"
    BY DEF Control, ControlTypes, StatementsPlaced, LockWaitFails, NoStmt
  <2>2. \A u \in Sessions : HasId(u)'
    BY <2>1 DEF Control, ControlTypes, LockWaitFails, IdsOwned, HasId
  <2>3. \A u \in Sessions : IdIsOwn(u)'
    BY DEF Control, ControlTypes, LockWaitFails, IdsOwned, IdIsOwn
  <2> QED
    BY <2>1, <2>2, <2>3 DEF Control, ControlTypes, LockWaitFails, IdsOwned, Active
<1>3. StatementsPlaced'
  BY DEF Control, ControlTypes, Statements, NoStmt, Runs, StatementsPlaced, Active, IdsOwned, HasId, LockWaitFails, Claimable
<1>4. DirtyIsLocked'
  BY DEF Control, ControlTypes, Statements, NoStmt, Runs, StatementsPlaced, Active, IdsOwned, HasId, IdIsOwn, DirtyIsLocked, TableOpen, DirtyApart, LockWaitFails, Claimable
<1>5. DirtyApart'
  BY DEF Control, ControlTypes, Statements, NoStmt, Runs, StatementsPlaced, Active, IdsOwned, HasId, IdIsOwn, DirtyIsLocked, TableOpen, DirtyApart, LockWaitFails, Claimable
<1>6. PushHasKey'
  BY DEF Control, ControlTypes, Statements, NoStmt, Runs, StatementsPlaced, Active, IdsOwned, HasId, IdIsOwn, DirtyIsLocked, TableOpen, PushHasKey, LockWaitFails, Claimable
<1> QED
  BY <1>1, <1>2, <1>3, <1>4, <1>5, <1>6 DEF Control

\* ROLLBACK ends the transaction and gives up its claims.
LEMMA RollbackKeeps ==
    ASSUME Control, NEW s \in Sessions, Ready(s), TakesDirtyTables(s), apply_rollback(s)
    PROVE  Control'
<1> USE DEF idVars, rowVars, history
<1>1. ControlTypes'
  BY DEF Control, ControlTypes, Statements, NoStmt, Runs, IdsOwned, HasId, Ready, InTxn, TakesDirtyTables, apply_rollback, ReleaseLocks, EndSession, Released, HoldsTable
<1>2. IdsOwned'
  BY DEF Control, ControlTypes, Statements, NoStmt, Runs, IdsOwned, HasId, IdIsOwn, Active, StatementsPlaced, Ready, InTxn, TakesDirtyTables, apply_rollback, ReleaseLocks, EndSession, Released, HoldsTable
<1>3. StatementsPlaced'
  BY DEF Control, ControlTypes, Statements, NoStmt, Runs, StatementsPlaced, Active, IdsOwned, HasId, Ready, InTxn, TakesDirtyTables, apply_rollback, ReleaseLocks, EndSession, Released, HoldsTable
<1>4. DirtyIsLocked'
  BY DEF Control, ControlTypes, Statements, NoStmt, Runs, StatementsPlaced, Active, IdsOwned, HasId, IdIsOwn, DirtyIsLocked, TableOpen, DirtyApart, Ready, InTxn, TakesDirtyTables, apply_rollback, ReleaseLocks, EndSession, Released, HoldsTable
<1>5. DirtyApart'
  BY DEF Control, ControlTypes, Statements, NoStmt, Runs, StatementsPlaced, Active, IdsOwned, HasId, IdIsOwn, DirtyIsLocked, TableOpen, DirtyApart, Ready, InTxn, TakesDirtyTables, apply_rollback, ReleaseLocks, EndSession, Released, HoldsTable
<1>6. PushHasKey'
  BY DEF Control, ControlTypes, Statements, NoStmt, Runs, StatementsPlaced, Active, IdsOwned, HasId, IdIsOwn, DirtyIsLocked, TableOpen, PushHasKey, Ready, InTxn, TakesDirtyTables, apply_rollback, ReleaseLocks, EndSession, Released, HoldsTable
<1> QED
  BY <1>1, <1>2, <1>3, <1>4, <1>5, <1>6 DEF Control

\* The validated transaction gives up its claims and keeps the tables.
LEMMA Phase1Keeps ==
    ASSUME Control, NEW s \in Sessions, CommitPhase1(s)
    PROVE  Control'
<1> USE DEF idVars, rowVars, history
<1>1. ControlTypes'
  BY DEF Control, ControlTypes, Statements, NoStmt, Runs, IdsOwned, HasId, CommitPhase1, Ready, InTxn, TakesDirtyTables, ReleaseLocks, Released, HoldsTable
<1>2. IdsOwned'
  BY DEF Control, ControlTypes, Statements, NoStmt, Runs, IdsOwned, HasId, IdIsOwn, Active, StatementsPlaced, CommitPhase1, Ready, InTxn, TakesDirtyTables, ReleaseLocks, Released, HoldsTable
<1>3. StatementsPlaced'
  BY DEF Control, ControlTypes, Statements, NoStmt, Runs, StatementsPlaced, Active, IdsOwned, HasId, CommitPhase1, Ready, InTxn, TakesDirtyTables, ReleaseLocks, Released, HoldsTable
<1>4. DirtyIsLocked'
  BY DEF Control, ControlTypes, Statements, NoStmt, Runs, StatementsPlaced, Active, IdsOwned, HasId, IdIsOwn, DirtyIsLocked, TableOpen, DirtyApart, CommitPhase1, Ready, InTxn, TakesDirtyTables, ReleaseLocks, Released, HoldsTable
<1>5. DirtyApart'
  BY DEF Control, ControlTypes, Statements, NoStmt, Runs, StatementsPlaced, Active, IdsOwned, HasId, IdIsOwn, DirtyIsLocked, TableOpen, DirtyApart, CommitPhase1, Ready, InTxn, TakesDirtyTables, ReleaseLocks, Released, HoldsTable
<1>6. PushHasKey'
  BY DEF Control, ControlTypes, Statements, NoStmt, Runs, StatementsPlaced, Active, IdsOwned, HasId, IdIsOwn, DirtyIsLocked, TableOpen, PushHasKey, CommitPhase1, Ready, InTxn, TakesDirtyTables, ReleaseLocks, Released, HoldsTable
<1> QED
  BY <1>1, <1>2, <1>3, <1>4, <1>5, <1>6 DEF Control

\* The end of COMMIT makes the id committed.
LEMMA FinishKeeps ==
    ASSUME Control, NEW s \in Sessions, CommitFinish(s)
    PROVE  Control'
<1> USE DEF idVars, rowVars, history
<1>1. ControlTypes'
  <2>1. active_txn_ids' \subseteq 1 .. next_txn_id - 1 /\ committed' \subseteq 0 .. next_txn_id - 1
    BY DEF Control, ControlTypes, CommitFinish, EndSession
  <2> QED
    BY <2>1 DEF Control, ControlTypes, CommitFinish, EndSession
<1>2. IdsOwned'
  BY DEF Control, ControlTypes, Statements, NoStmt, Runs, IdsOwned, HasId, IdIsOwn, Active, StatementsPlaced, CommitFinish, EndSession
<1>3. StatementsPlaced'
  BY DEF Control, ControlTypes, Statements, NoStmt, Runs, StatementsPlaced, Active, IdsOwned, HasId, CommitFinish, EndSession
<1>4. DirtyIsLocked'
  BY DEF Control, ControlTypes, Statements, NoStmt, Runs, StatementsPlaced, Active, IdsOwned, HasId, IdIsOwn, DirtyIsLocked, TableOpen, DirtyApart, CommitFinish, EndSession
<1>5. DirtyApart'
  BY DEF Control, ControlTypes, Statements, NoStmt, Runs, StatementsPlaced, Active, IdsOwned, HasId, IdIsOwn, DirtyIsLocked, TableOpen, DirtyApart, CommitFinish, EndSession
<1>6. PushHasKey'
  BY DEF Control, ControlTypes, Statements, NoStmt, Runs, StatementsPlaced, Active, IdsOwned, HasId, IdIsOwn, DirtyIsLocked, TableOpen, PushHasKey, CommitFinish, EndSession
<1> QED
  BY <1>1, <1>2, <1>3, <1>4, <1>5, <1>6 DEF Control

\* What neither the ids nor the claims notice.
LEMMA ControlUnchanged ==
    ASSUME Control, UNCHANGED <<idVars, lock, pc, txn_id, dirty, stmt, committed>>
    PROVE  Control'
<1> USE DEF idVars
<1>1. ControlTypes'
  BY DEF Control, ControlTypes
<1>2. IdsOwned'
  BY DEF Control, IdsOwned, HasId, IdIsOwn, Active
<1>3. StatementsPlaced' /\ DirtyIsLocked' /\ DirtyApart'
  BY DEF Control, StatementsPlaced, DirtyIsLocked, DirtyApart, Active
<1>4. PushHasKey'
  BY DEF Control, PushHasKey, Runs, TableOpen
<1> QED
  BY <1>1, <1>2, <1>3, <1>4 DEF Control

\* Every step keeps the ids, the claims and the dirty tables in order.
LEMMA ControlKept == ASSUME Control, [Next]_vars PROVE Control'
<1>1. ASSUME NEW s \in Sessions, Transaction(s) PROVE Control'
  <2>1. ASSUME NEW l \in Levels, BeginSnapshot(s, l) PROVE Control'
    BY <2>1, BeginKeeps
  <2>2. CASE BeginRegister(s)
    BY <2>2, RegisterKeeps
  <2>3. CASE Rollback(s) \/ CommitRefused(s)
    BY <2>3, RollbackKeeps DEF Rollback, CommitRefused
  <2>4. CASE CommitPhase1(s)
    BY <2>4, Phase1Keeps
  <2>5. CASE CommitFinish(s)
    BY <2>5, FinishKeeps
  <2> QED
    BY <1>1, <2>1, <2>2, <2>3, <2>4, <2>5 DEF Transaction
<1>2. ASSUME NEW s \in Sessions, LockWaitFails(s) PROVE Control'
  BY <1>2, WaitFailsKeeps
<1>3. ASSUME NEW s \in Sessions, NEW tb \in Tables, Statement(s, tb) PROVE Control'
  <2>1. CASE Select(s, tb)
    BY <2>1, ControlUnchanged DEF Select, idVars, rowVars, history
  <2>2. CASE AutoInsertTag(s, tb) \/ AutoUpdateTag(s, tb) \/ AutoDeleteTag(s, tb)
    BY <2>2, TakeIdKeeps DEF AutoInsertTag, AutoUpdateTag, AutoDeleteTag
  <2>3. CASE InsertClaim(s, tb)
    BY <2>3, ClaimKeeps
  <2>4. CASE InsertDuplicate(s, tb)
    BY <2>4, DuplicateKeeps
  <2>5. CASE InsertPush(s, tb) \/ Update(s, tb) \/ DeleteSoft(s, tb) \/ DeleteHard(s, tb)
    BY <2>5, StatementsChange, ChangeInTxnKeeps, ChangeAloneKeeps DEF Changes
  <2> QED
    BY <1>3, <2>1, <2>2, <2>3, <2>4, <2>5 DEF Statement
<1>4. CASE Vacuum
  BY <1>4, ControlUnchanged DEF Vacuum, idVars, history
<1>5. CASE UNCHANGED vars
  BY <1>5, ControlUnchanged DEF vars, idVars, rowVars, history
<1> QED
  BY <1>1, <1>2, <1>3, <1>4, <1>5 DEF Next

--------------------------------------------------------------------------------
(* The versions *)

\* Whoever made or ended a version has committed or is active.
VersionsDecided == \A r \in rows : {r.xmin, r.xmax} \subseteq committed \cup active_txn_ids

\* A transaction knows the tables it has changed.
TouchedIsDirty ==
    \A r \in rows, s \in Sessions : Active(s) /\ txn_id[s] \in {r.xmin, r.xmax} => r.table \in dirty[s]

\* The key that an INSERT has claimed has no row until the INSERT pushes it.
PushFindsNone == \A s \in Sessions, tb \in Tables : Runs(s, "push", tb) => LiveVersions(tb) = {}

OneLive == \A r, q \in rows : r.table = q.table /\ is_visible(r) /\ is_visible(q) => r = q

\* The version a rollback of all that is undecided would leave.
CommittedLive(r) == r.xmin \notin active_txn_ids /\ (r.xmax = 0 \/ r.xmax \in active_txn_ids)

OneCommittedLive == \A r, q \in rows : r.table = q.table /\ CommittedLive(r) /\ CommittedLive(q) => r = q

RowInv == RowTypes /\ VersionsDecided /\ TouchedIsDirty /\ PushFindsNone /\ OneLive /\ OneCommittedLive

\* No id is both committed and active, and a fresh snapshot tells the two apart.
LEMMA FreshCtxDecides ==
    ASSUME Control, NEW id \in committed \cup active_txn_ids
    PROVE  /\ id \in committed <=> id \notin active_txn_ids
           /\ CommittedAsOf(id, FreshCtx) <=> id \in committed
           /\ id \in active_txn_ids => id # 0
           /\ id \in 0 .. next_txn_id - 1
<1>1. id \in 0 .. next_txn_id - 1 /\ next_txn_id \in Nat /\ (id \in active_txn_ids => id # 0)
  BY DEF Control, ControlTypes
<1>2. id \in committed <=> id \notin active_txn_ids
  BY <1>1 DEF Control, IdsOwned, IdIsOwn
<1> QED
  BY <1>1, <1>2 DEF Control, IdsOwned, CommittedAsOf, FreshCtx

\* A session that may change a table finds nobody else's undecided versions in it.
LEMMA NobodyElse ==
    ASSUME Control, TouchedIsDirty, NEW s \in Sessions, NEW tb \in Tables,
           TableOpen(s, tb), Claimable(tb, txn_id[s]),
           NEW r \in rows, r.table = tb, NEW id \in {r.xmin, r.xmax}, id \in active_txn_ids
    PROVE  id = txn_id[s]
<1>1. PICK u \in Sessions : Active(u) /\ txn_id[u] = id
  BY DEF Control, IdsOwned
<1>2. SUFFICES ASSUME u # s PROVE FALSE
  BY <1>1
<1>3. tb \in dirty[u] /\ txn_id[u] # 0 /\ txn_id[u] # txn_id[s]
  BY <1>1, <1>2 DEF TouchedIsDirty, Control, IdsOwned, IdIsOwn, HasId, Active
<1>4. CASE pc[u] = "open"
  BY <1>3, <1>4 DEF Control, DirtyIsLocked, Claimable
<1>5. CASE pc[u] = "committing"
  BY <1>2, <1>3, <1>5 DEF TableOpen
<1> QED
  BY <1>1, <1>4, <1>5 DEF Active

\* UPDATE finds the versions that nobody has ended, once it may have the key.
LEMMA TargetsAreLive ==
    ASSUME Control, RowInv, NEW s \in Sessions, NEW tb \in Tables, txn_id[s] # 0,
           TableOpen(s, tb), Claimable(tb, txn_id[s])
    PROVE  UpdateTargets(tb, txn_id[s]) = LiveVersions(tb)
<1>1. ASSUME NEW r \in rows, r.table = tb
      PROVE  is_visible_for_read(r, txn_id[s], FreshCtx) <=> r.xmax = 0
  <2>1. {r.xmin, r.xmax} \subseteq committed \cup active_txn_ids
    BY DEF RowInv, VersionsDecided
  <2>2. r.xmin = txn_id[s] \/ CommittedAsOf(r.xmin, FreshCtx)
    BY <1>1, <2>1, FreshCtxDecides, NobodyElse DEF RowInv
  <2>3. r.xmax # 0 => r.xmax = txn_id[s] \/ CommittedAsOf(r.xmax, FreshCtx)
    BY <1>1, <2>1, FreshCtxDecides, NobodyElse DEF RowInv
  <2> QED
    BY <2>2, <2>3 DEF is_visible_for_read
<1> QED
  BY <1>1 DEF UpdateTargets, LiveVersions, is_visible

\* Statements give nothing new to those who are in the middle of one.
LEMMA OthersStay ==
    ASSUME Control, NEW s \in Sessions, NEW tb \in Tables, Changes(s, tb)
    PROVE  /\ idVars' = idVars /\ pc' = pc
           /\ \A u \in Sessions : u # s => txn_id'[u] = txn_id[u] /\ stmt'[u] = stmt[u]
           /\ \A u \in Sessions : Active(u) => Active(u)' /\ txn_id'[u] = txn_id[u]
           /\ \A u \in Sessions : dirty[u] \subseteq dirty'[u]
           /\ stmt'[s] = NoStmt
           /\ committed \subseteq committed'
           /\ txn_id[s] \in committed' \cup active_txn_ids
<1> USE DEF idVars, history, Control, ControlTypes, Active
<1>1. CASE ChangesInTxn(s, tb)
  BY <1>1 DEF ChangesInTxn, IdsOwned
<1>2. CASE ChangesAlone(s)
  BY <1>2 DEF ChangesAlone
<1> QED
  BY <1>1, <1>2 DEF Changes

\* A statement that ends the live versions of a table it may change, and creates at most one, leaves
\* the versions in order.
LEMMA RewriteKeeps ==
    ASSUME Control, RowInv, NEW s \in Sessions, NEW tb \in Tables, Changes(s, tb), txn_id[s] # 0,
           Claimable(tb, txn_id[s]), TableOpen(s, tb),
           NEW n \in 1 .. MaxVersions, NEW N \in SUBSET {NewVersion(tb, txn_id[s], n)},
           rows' \subseteq EndedBy(rows, LiveVersions(tb), txn_id[s]) \cup N,
           next_ver' \in 2 .. MaxVersions + 1
    PROVE  RowInv'
<1> DEFINE id == txn_id[s]
           L == LiveVersions(tb)
           Ended(x) == \E q \in L : x = [q EXCEPT !.xmax = id]
<1>1. id \in Ids /\ id # 0 /\ active_txn_ids' = active_txn_ids
  BY OthersStay DEF Control, ControlTypes, Ids, idVars
<1>2. \A x \in rows' : x = NewVersion(tb, id, n) \/ (x \in rows /\ x \notin L) \/ Ended(x)
  BY DEF EndedBy
<1>3. \A x \in rows' : x.table # tb => x \in rows
  BY <1>2 DEF LiveVersions, NewVersion, RowInv, RowTypes, Versions
<1>4. \A x \in rows' : Ended(x) => x.xmax = id /\ x.table = tb
  BY DEF LiveVersions, RowInv, RowTypes, Versions
<1>5. NewVersion(tb, id, n) \in Versions /\ NewVersion(tb, id, n).table = tb
      /\ NewVersion(tb, id, n).xmin = id /\ NewVersion(tb, id, n).xmax = 0
  BY <1>1 DEF NewVersion, Versions, Ids
<1>6. \A x \in rows' : x.table = tb /\ x.xmax = 0 => x = NewVersion(tb, id, n)
  BY <1>1, <1>2, <1>4 DEF LiveVersions, is_visible
<1>7. RowTypes'
  <2>1. \A x : Ended(x) => x \in Versions
    BY <1>1 DEF LiveVersions, RowInv, RowTypes, Versions
  <2> QED
    BY <1>2, <1>5, <2>1 DEF RowInv, RowTypes
<1>8. \A x \in rows', k \in Ids : k # id /\ k # 0 /\ k \in {x.xmin, x.xmax} =>
          \E r \in rows : r.table = x.table /\ k \in {r.xmin, r.xmax}
  <2>1. SUFFICES ASSUME NEW x \in rows', NEW k \in Ids, k # id, k # 0, k \in {x.xmin, x.xmax}
                 PROVE  \E r \in rows : r.table = x.table /\ k \in {r.xmin, r.xmax}
    OBVIOUS
  <2>2. CASE x = NewVersion(tb, id, n)
    BY <1>5, <2>1, <2>2
  <2>3. CASE x \in rows
    BY <2>1, <2>3
  <2>4. CASE Ended(x)
    <3>1. PICK q \in L : x = [q EXCEPT !.xmax = id]
      BY <2>4
    <3>2. q \in rows /\ q \in Versions
      BY DEF LiveVersions, RowInv, RowTypes
    <3> QED
      BY <2>1, <3>1, <3>2 DEF Versions
  <2> QED
    BY <1>2, <2>2, <2>3, <2>4
<1>9. VersionsDecided'
  <2>1. SUFFICES ASSUME NEW x \in rows', NEW k \in {x.xmin, x.xmax} PROVE k \in (committed \cup active_txn_ids)'
    BY DEF VersionsDecided
  <2>2. k \in Ids
    BY <1>7 DEF RowTypes, Versions
  <2>3. CASE k = id
    BY <1>1, <2>3, OthersStay
  <2>4. CASE k = 0
    BY <2>4, OthersStay DEF Control, IdsOwned
  <2>5. CASE k # id /\ k # 0
    BY <1>1, <1>8, <2>2, <2>5, OthersStay DEF RowInv, VersionsDecided
  <2> QED
    BY <2>3, <2>4, <2>5
<1>10. TouchedIsDirty'
  <2>1. SUFFICES ASSUME NEW x \in rows', NEW u \in Sessions, Active(u)', txn_id'[u] \in {x.xmin, x.xmax}
                 PROVE  x.table \in dirty'[u]
    BY DEF TouchedIsDirty
  <2>2. Active(u) /\ txn_id'[u] = txn_id[u] /\ dirty[u] \subseteq dirty'[u]
    BY <2>1, OthersStay DEF Active
  <2>3. CASE x.table # tb
    BY <1>3, <2>1, <2>2, <2>3 DEF RowInv, TouchedIsDirty
  <2>4. CASE x.table = tb /\ u = s
    BY <2>2, <2>4 DEF Changes, ChangesInTxn, ChangesAlone, Active, Control, ControlTypes
  <2>5. CASE x.table = tb /\ u # s
    <3>1. txn_id[u] \in Ids /\ txn_id[u] # 0 /\ txn_id[u] # id /\ txn_id[u] \in active_txn_ids
      BY <2>2, <2>5 DEF Control, ControlTypes, IdsOwned, HasId, IdIsOwn, Active, Ids
    <3>2. PICK r \in rows : r.table = tb /\ txn_id[u] \in {r.xmin, r.xmax}
      BY <1>8, <2>1, <2>2, <2>5, <3>1
    <3> QED
      BY <3>1, <3>2, NobodyElse DEF RowInv
  <2> QED
    BY <2>3, <2>4, <2>5
<1>11. PushFindsNone'
  <2>1. SUFFICES ASSUME NEW u \in Sessions, NEW t \in Tables, Runs(u, "push", t)' PROVE LiveVersions(t)' = {}
    BY DEF PushFindsNone
  <2>2. u # s /\ Runs(u, "push", t)
    BY <2>1, OthersStay DEF Runs, NoStmt
  <2>3. lock[t] = txn_id[u] /\ txn_id[u] # 0 /\ txn_id[u] # id
    BY <2>2 DEF Control, PushHasKey, IdsOwned, HasId, IdIsOwn, Runs, NoStmt
  <2>4. t # tb
    BY <2>3 DEF Claimable
  <2> QED
    BY <1>3, <2>2, <2>4 DEF RowInv, PushFindsNone, LiveVersions, is_visible
<1>12. OneLive'
  BY <1>3, <1>6 DEF RowInv, OneLive, is_visible
<1>13. OneCommittedLive'
  <2>1. SUFFICES ASSUME NEW x \in rows', NEW y \in rows', x.table = y.table, CommittedLive(x)', CommittedLive(y)'
                 PROVE  x = y
    BY DEF OneCommittedLive
  <2>2. CommittedLive(x) /\ CommittedLive(y)
    BY <1>1, <2>1 DEF CommittedLive
  <2>3. CASE x.table # tb
    BY <1>3, <2>1, <2>2, <2>3 DEF RowInv, OneCommittedLive
  <2>4. CASE x.table = tb /\ id \in active_txn_ids
    <3>1. ASSUME NEW z \in rows', z.table = tb, CommittedLive(z)
          PROVE  (z \in rows /\ z \notin L) \/ \E q \in L : z = [q EXCEPT !.xmax = id] /\ CommittedLive(q)
      <4>1. z # NewVersion(tb, id, n)
        BY <1>5, <2>4, <3>1 DEF CommittedLive
      <4>2. \A q \in L : z = [q EXCEPT !.xmax = id] => CommittedLive(q)
        BY <3>1 DEF CommittedLive, LiveVersions, is_visible, RowInv, RowTypes, Versions
      <4> QED
        BY <1>2, <4>1, <4>2
    <3>2. \A q1, q2 \in L : q1 = q2
      BY DEF LiveVersions, RowInv, OneLive
    <3>3. \A q \in L : q \in rows /\ q.table = tb
      BY DEF LiveVersions
    <3>4. \A v \in rows, q \in L : v \notin L /\ v.table = tb /\ CommittedLive(v) /\ CommittedLive(q) => FALSE
      BY <3>3 DEF RowInv, OneCommittedLive
    <3>5. x.table = tb /\ y.table = tb
      BY <2>1, <2>4
    <3>6. CASE x \in rows /\ y \in rows
      BY <2>2, <3>5, <3>6 DEF RowInv, OneCommittedLive
    <3>7. CASE Ended(x) /\ Ended(y)
      BY <3>2, <3>7
    <3> QED
      BY <2>2, <3>1, <3>4, <3>5, <3>6, <3>7
  <2>5. CASE x.table = tb /\ id \notin active_txn_ids
    <3>1. ASSUME NEW z \in rows', z.table = tb, CommittedLive(z) PROVE z.xmax = 0
      <4>1. ~Ended(z)
        BY <1>1, <1>4, <2>5, <3>1 DEF CommittedLive
      <4>2. CASE z \in rows
        BY <2>5, <3>1, <4>2, NobodyElse DEF CommittedLive, RowInv
      <4> QED
        BY <1>2, <1>5, <4>1, <4>2
    <3> QED
      BY <1>6, <2>1, <2>2, <2>5, <3>1
  <2> QED
    BY <2>3, <2>4, <2>5
<1> QED
  BY <1>7, <1>9, <1>10, <1>11, <1>12, <1>13 DEF RowInv

\* A step that adds no version, decides no fate and lets no INSERT claim a key that has a row leaves the
\* versions in order.
LEMMA FewerKeeps ==
    ASSUME RowInv, rows' \subseteq rows, next_ver' = next_ver, active_txn_ids' = active_txn_ids,
           committed \subseteq committed',
           \A u \in Sessions : Active(u)' => Active(u) /\ txn_id'[u] = txn_id[u] /\ dirty'[u] = dirty[u],
           \A u \in Sessions, tb \in Tables : Runs(u, "push", tb)' => Runs(u, "push", tb) \/ LiveVersions(tb) = {}
    PROVE  RowInv'
<1>1. RowTypes' /\ VersionsDecided'
  BY DEF RowInv, RowTypes, VersionsDecided
<1>2. TouchedIsDirty'
  BY DEF RowInv, TouchedIsDirty
<1>3. PushFindsNone'
  BY DEF RowInv, PushFindsNone, LiveVersions
<1>4. OneLive' /\ OneCommittedLive'
  BY DEF RowInv, OneLive, OneCommittedLive, CommittedLive
<1> QED
  BY <1>1, <1>2, <1>3, <1>4 DEF RowInv

\* The vacuum only removes versions.
LEMMA VacuumRemoves ==
    ASSUME NEW R, NEW tbs, NEW active, NEW Q \in MaybeVacuumed(R, tbs, active)
    PROVE  Q \subseteq R
BY DEF MaybeVacuumed

\* So does an autocommit statement that creates nothing.
LEMMA AloneRemoves ==
    ASSUME Control, RowInv, NEW s \in Sessions, ChangesAlone(s), rows' \subseteq rows, next_ver' = next_ver
    PROVE  RowInv'
<1>1. active_txn_ids' = active_txn_ids /\ committed \subseteq committed'
  BY DEF ChangesAlone, idVars
<1>2. \A u \in Sessions : Active(u)' => Active(u) /\ txn_id'[u] = txn_id[u] /\ dirty'[u] = dirty[u]
  BY DEF ChangesAlone, Active, Control, ControlTypes
<1>3. \A u \in Sessions, tb \in Tables : Runs(u, "push", tb)' => Runs(u, "push", tb)
  BY DEF ChangesAlone, Runs, NoStmt, Control, ControlTypes
<1> QED
  BY <1>1, <1>2, <1>3, FewerKeeps

\* The statements that change a table.
LEMMA PushKeeps ==
    ASSUME Control, RowInv, NEW s \in Sessions, NEW tb \in Tables, InsertPush(s, tb)
    PROVE  RowInv'
<1>1. Changes(s, tb)
  BY StatementsChange
<1>2. txn_id[s] # 0 /\ Claimable(tb, txn_id[s]) /\ TableOpen(s, tb)
  BY DEF InsertPush, Control, PushHasKey, IdsOwned, HasId, Runs, NoStmt, Claimable
<1>3. rows = EndedBy(rows, LiveVersions(tb), txn_id[s])
  BY DEF InsertPush, RowInv, PushFindsNone, EndedBy
<1>4. rows' \subseteq rows \cup {NewVersion(tb, txn_id[s], next_ver)}
  BY VacuumRemoves DEF InsertPush, StatementEnds
<1>5. next_ver \in 1 .. MaxVersions /\ next_ver' \in 2 .. MaxVersions + 1
  BY DEF InsertPush, RowInv, RowTypes
<1> QED
  BY <1>1, <1>2, <1>3, <1>4, <1>5, RewriteKeeps

LEMMA UpdateKeeps ==
    ASSUME Control, RowInv, NEW s \in Sessions, NEW tb \in Tables, Update(s, tb)
    PROVE  RowInv'
<1> DEFINE id == txn_id[s]
           targets == UpdateTargets(tb, id)
<1>1. Changes(s, tb)
  BY StatementsChange
<1>2. rows' \subseteq EndedBy(rows, targets, id) \cup Successors(targets, tb, id)
  BY VacuumRemoves DEF Update, StatementEnds
<1>3. next_ver' = next_ver + Cardinality(targets) /\ next_ver + Cardinality(targets) <= MaxVersions + 1
  BY DEF Update
<1>4. CASE targets = {}
  <2>1. ChangesAlone(s)
    BY <1>1, <1>4 DEF Changes, ChangesInTxn, Update, InTxn
  <2>2. rows' \subseteq rows
    BY <1>2, <1>4 DEF EndedBy, Successors
  <2>3. next_ver' = next_ver
    BY <1>3, <1>4, FS_EmptySet DEF RowInv, RowTypes
  <2> QED
    BY <2>1, <2>2, <2>3, AloneRemoves
<1>5. CASE targets # {}
  <2>1. id # 0 /\ Claimable(tb, id) /\ TableOpen(s, tb)
    BY <1>5 DEF Update, Ready, InTxn, Runs, NoStmt, Control, IdsOwned, HasId
  <2>2. targets = LiveVersions(tb)
    BY <2>1, TargetsAreLive
  <2>3. PICK q \in rows : targets = {q}
    BY <1>5, <2>2 DEF LiveVersions, RowInv, OneLive
  <2>4. Cardinality(targets) = 1
    BY <2>3, FS_Singleton
  <2>5. {p \in targets : p.ver < q.ver} = {}
    BY <2>3 DEF RowInv, RowTypes, Versions
  <2>6. Successors(targets, tb, id) = {NewVersion(tb, id, next_ver)}
    BY <2>3, <2>5, FS_EmptySet DEF Successors, RowInv, RowTypes
  <2>7. next_ver \in 1 .. MaxVersions /\ next_ver' \in 2 .. MaxVersions + 1
    BY <1>3, <2>4 DEF RowInv, RowTypes
  <2> QED
    BY <1>1, <1>2, <2>1, <2>2, <2>6, <2>7, RewriteKeeps
<1> QED
  BY <1>4, <1>5

LEMMA DeleteKeeps ==
    ASSUME Control, RowInv, NEW s \in Sessions, NEW tb \in Tables, DeleteSoft(s, tb) \/ DeleteHard(s, tb)
    PROVE  RowInv'
<1>1. Changes(s, tb)
  BY StatementsChange
<1>2. CASE DeleteSoft(s, tb) /\ LiveVersions(tb) # {}
  <2>1. txn_id[s] # 0 /\ Claimable(tb, txn_id[s]) /\ TableOpen(s, tb)
    BY <1>2 DEF DeleteSoft, Ready, InTxn, Runs, NoStmt, Control, IdsOwned, HasId
  <2>2. rows' \subseteq EndedBy(rows, LiveVersions(tb), txn_id[s]) \cup {}
    BY <1>2, VacuumRemoves DEF DeleteSoft, StatementEnds
  <2>3. next_ver' \in 2 .. MaxVersions + 1 /\ 1 \in 1 .. MaxVersions
    BY <1>2 DEF DeleteSoft, RowInv, RowTypes
  <2> QED
    <3>1. {} \in SUBSET {NewVersion(tb, txn_id[s], 1)}
      OBVIOUS
    <3>2. \A n \in 1 .. MaxVersions : \A N \in SUBSET {NewVersion(tb, txn_id[s], n)} :
             rows' \subseteq EndedBy(rows, LiveVersions(tb), txn_id[s]) \cup N => RowInv'
      BY <1>1, <2>1, <2>3, RewriteKeeps
    <3> QED
      BY <2>2, <2>3, <3>1, <3>2, Zenon
<1>3. CASE DeleteSoft(s, tb) /\ LiveVersions(tb) = {}
  <2>1. ChangesAlone(s)
    BY <1>1, <1>3 DEF Changes, ChangesInTxn, DeleteSoft, InTxn
  <2>2. rows' \subseteq rows /\ next_ver' = next_ver
    BY <1>3, VacuumRemoves DEF DeleteSoft, StatementEnds, EndedBy
  <2> QED
    BY <2>1, <2>2, AloneRemoves
<1>4. CASE DeleteHard(s, tb)
  <2>1. ChangesAlone(s)
    BY <1>1, <1>4 DEF Changes, ChangesInTxn, DeleteHard, Runs, NoStmt, Control, StatementsPlaced
  <2>2. rows' \subseteq rows /\ next_ver' = next_ver
    BY <1>4, <2>1, VacuumRemoves DEF DeleteHard, StatementEnds, InTxn, ChangesAlone
  <2> QED
    BY <2>1, <2>2, AloneRemoves
<1> QED
  BY <1>2, <1>3, <1>4

\* The id that BEGIN registers is in no version yet.
LEMMA RegisterKeepsRows ==
    ASSUME Control, RowInv, NEW s \in Sessions, BeginRegister(s)
    PROVE  RowInv'
<1>1. txn_id[s] # 0 /\ txn_id[s] \notin committed \cup active_txn_ids
  BY DEF BeginRegister, Control, IdsOwned, HasId, IdIsOwn, Active
<1>2. \A r \in rows : txn_id[s] \notin {r.xmin, r.xmax}
  BY <1>1 DEF RowInv, VersionsDecided
<1>3. rows' = rows /\ next_ver' = next_ver /\ active_txn_ids' = active_txn_ids \cup {txn_id[s]}
      /\ txn_id' = txn_id /\ dirty' = dirty /\ stmt' = stmt /\ committed' = committed
  BY DEF BeginRegister, rowVars
<1>4. RowTypes' /\ VersionsDecided' /\ OneLive'
  BY <1>3 DEF RowInv, RowTypes, VersionsDecided, OneLive
<1>5. TouchedIsDirty'
  <2>1. \A u \in Sessions : u # s /\ Active(u)' => Active(u)
    BY DEF BeginRegister, Active, Control, ControlTypes
  <2> QED
    BY <1>2, <1>3, <2>1 DEF RowInv, TouchedIsDirty
<1>6. PushFindsNone'
  BY <1>3 DEF RowInv, PushFindsNone, LiveVersions, Runs
<1>7. OneCommittedLive'
  BY <1>2, <1>3 DEF RowInv, OneCommittedLive, CommittedLive
<1> QED
  BY <1>4, <1>5, <1>6, <1>7 DEF RowInv

\* In the tables that a transaction has changed, nobody else is undecided.
LEMMA DirtyIsAlone ==
    ASSUME Control, TouchedIsDirty, NEW s \in Sessions, Active(s), NEW r \in rows, r.table \in dirty[s],
           NEW id \in {r.xmin, r.xmax}, id \in active_txn_ids
    PROVE  id = txn_id[s]
<1>1. PICK u \in Sessions : Active(u) /\ txn_id[u] = id
  BY DEF Control, IdsOwned
<1>2. r.table \in dirty[u]
  BY <1>1 DEF TouchedIsDirty
<1> QED
  BY <1>1, <1>2 DEF Control, DirtyApart

\* The end of COMMIT decides the fate of what the transaction did, and of nothing else.
LEMMA FinishKeepsRows ==
    ASSUME Control, RowInv, NEW s \in Sessions, CommitFinish(s)
    PROVE  RowInv'
<1> DEFINE id == txn_id[s]
<1>1. rows' \subseteq rows /\ next_ver' = next_ver /\ active_txn_ids' = active_txn_ids \ {id}
      /\ committed' = committed \cup {id} /\ stmt' = stmt
  BY VacuumRemoves DEF CommitFinish, EndSession
<1>2. \A u \in Sessions : Active(u)' => u # s /\ Active(u) /\ txn_id'[u] = txn_id[u] /\ dirty'[u] = dirty[u]
  BY DEF CommitFinish, EndSession, Active, Control, ControlTypes
<1>3. RowTypes' /\ VersionsDecided' /\ OneLive'
  BY <1>1 DEF RowInv, RowTypes, VersionsDecided, OneLive
<1>4. TouchedIsDirty'
  BY <1>1, <1>2 DEF RowInv, TouchedIsDirty
<1>5. PushFindsNone'
  BY <1>1 DEF RowInv, PushFindsNone, LiveVersions, Runs
<1>6. OneCommittedLive'
  <2>1. SUFFICES ASSUME NEW r \in rows, NEW q \in rows, r.table = q.table, CommittedLive(r)', CommittedLive(q)'
                 PROVE  r = q
    BY <1>1 DEF OneCommittedLive
  <2>2. Active(s)
    BY DEF CommitFinish, Active
  <2>3. CASE r.table \in dirty[s]
    <3>1. ASSUME NEW v \in rows, v.table \in dirty[s], CommittedLive(v)' PROVE v.xmax = 0
      BY <1>1, <2>2, <3>1, DirtyIsAlone DEF CommittedLive, RowInv
    <3> QED
      BY <2>1, <2>3, <3>1 DEF RowInv, OneLive, is_visible
  <2>4. CASE r.table \notin dirty[s]
    <3>1. ASSUME NEW v \in rows, v.table \notin dirty[s], CommittedLive(v)' PROVE CommittedLive(v)
      BY <1>1, <2>2, <3>1 DEF CommittedLive, RowInv, TouchedIsDirty
    <3> QED
      BY <2>1, <2>4, <3>1 DEF RowInv, OneCommittedLive
  <2> QED
    BY <2>3, <2>4
<1> QED
  BY <1>3, <1>4, <1>5, <1>6 DEF RowInv

\* What a rollback makes of a version it does not remove.
Undone(r, id) == IF r.xmax = id THEN [r EXCEPT !.xmax = 0] ELSE r

\* ROLLBACK leaves each key the version that was committed before.
LEMMA RollbackKeepsRows ==
    ASSUME Control, RowInv, NEW s \in Sessions, Ready(s), TakesDirtyTables(s), apply_rollback(s)
    PROVE  RowInv'
<1> DEFINE id == txn_id[s]
           Alive(r) == r.xmin # id
<1>1. rows' = {Undone(r, id) : r \in {r \in rows : Alive(r)}}
      /\ next_ver' = next_ver /\ active_txn_ids' = active_txn_ids \ {id}
      /\ committed' = committed /\ stmt' = stmt
  BY DEF apply_rollback, EndSession, Undone
<1>2. \A u \in Sessions : Active(u)' => u # s /\ Active(u) /\ txn_id'[u] = txn_id[u] /\ dirty'[u] = dirty[u]
  BY DEF apply_rollback, EndSession, Active, Control, ControlTypes
<1>3. Active(s) /\ id # 0 /\ id \in active_txn_ids
  BY DEF Ready, InTxn, Active, Control, IdsOwned, HasId
<1>4. \A r \in rows : /\ Undone(r, id) \in Versions /\ Undone(r, id).table = r.table
                      /\ Undone(r, id).xmin = r.xmin
                      /\ Undone(r, id).xmax = (IF r.xmax = id THEN 0 ELSE r.xmax)
  BY DEF Undone, RowInv, RowTypes, Versions, Ids
<1>5. RowTypes'
  BY <1>1, <1>4 DEF RowInv, RowTypes
<1>6. VersionsDecided'
  BY <1>1, <1>4 DEF RowInv, VersionsDecided, Control, IdsOwned
<1>7. TouchedIsDirty'
  <2>1. SUFFICES ASSUME NEW r \in rows, Alive(r), NEW u \in Sessions, Active(u)',
                        txn_id'[u] \in {Undone(r, id).xmin, Undone(r, id).xmax}
                 PROVE  Undone(r, id).table \in dirty'[u]
    BY <1>1 DEF TouchedIsDirty
  <2>2. txn_id[u] # 0 /\ txn_id'[u] = txn_id[u] /\ Active(u) /\ dirty'[u] = dirty[u]
    BY <1>2, <2>1 DEF Control, IdsOwned, HasId, Active
  <2> QED
    BY <1>4, <2>1, <2>2 DEF RowInv, TouchedIsDirty
<1>8. PushFindsNone'
  <2>1. SUFFICES ASSUME NEW u \in Sessions, NEW tb \in Tables, Runs(u, "push", tb),
                        NEW r \in rows, r.table = tb, Undone(r, id).xmax = 0
                 PROVE  FALSE
    BY <1>1, <1>4 DEF PushFindsNone, LiveVersions, is_visible, Runs
  <2>2. r.xmax # 0
    BY <2>1 DEF RowInv, PushFindsNone, LiveVersions, is_visible
  <2>3. tb \in dirty[s]
    BY <1>3, <1>4, <2>1, <2>2 DEF RowInv, TouchedIsDirty
  <2>4. u # s /\ HoldsTable(u, tb)
    BY <2>1 DEF Ready, Runs, NoStmt, HoldsTable
  <2> QED
    BY <2>3, <2>4 DEF TakesDirtyTables
<1>9. ASSUME NEW x \in rows', CommittedLive(x)'
      PROVE  \E r \in rows : x = Undone(r, id) /\ CommittedLive(r) /\ r.table = x.table
  <2>1. PICK r \in rows : Alive(r) /\ x = Undone(r, id)
    BY <1>1
  <2> QED
    BY <1>1, <1>3, <1>4, <1>9, <2>1 DEF CommittedLive
<1>10. OneCommittedLive'
  <2>1. SUFFICES ASSUME NEW x \in rows', NEW y \in rows', x.table = y.table, CommittedLive(x)', CommittedLive(y)'
                 PROVE  x = y
    BY DEF OneCommittedLive
  <2>2. PICK r \in rows : x = Undone(r, id) /\ CommittedLive(r) /\ r.table = x.table
    BY <1>9, <2>1
  <2>3. PICK q \in rows : y = Undone(q, id) /\ CommittedLive(q) /\ q.table = y.table
    BY <1>9, <2>1
  <2> QED
    BY <2>1, <2>2, <2>3 DEF RowInv, OneCommittedLive
<1>11. OneLive'
  <2>1. SUFFICES ASSUME NEW r \in rows, NEW q \in rows, Alive(r), Alive(q), r.table = q.table,
                        Undone(r, id).xmax = 0, Undone(q, id).xmax = 0
                 PROVE  Undone(r, id) = Undone(q, id)
    BY <1>1, <1>4 DEF OneLive, is_visible
  <2>2. CASE r.table \in dirty[s]
    <3>1. ASSUME NEW v \in rows, Alive(v), v.table \in dirty[s], Undone(v, id).xmax = 0 PROVE CommittedLive(v)
      BY <1>3, <1>4, <3>1, DirtyIsAlone DEF CommittedLive, RowInv
    <3> QED
      BY <2>1, <2>2, <3>1 DEF RowInv, OneCommittedLive
  <2>3. CASE r.table \notin dirty[s]
    <3>1. ASSUME NEW v \in rows, v.table \notin dirty[s] PROVE v.xmax # id
      BY <1>3, <3>1 DEF RowInv, TouchedIsDirty
    <3> QED
      BY <1>4, <2>1, <2>3, <3>1 DEF RowInv, OneLive, is_visible, Undone
  <2> QED
    BY <2>2, <2>3
<1> QED
  BY <1>5, <1>6, <1>7, <1>8, <1>10, <1>11 DEF RowInv

\* Every step leaves the versions in order.
LEMMA RowsKept == ASSUME Control, RowInv, [Next]_vars PROVE RowInv'
<1>1. ASSUME NEW s \in Sessions, Transaction(s) PROVE RowInv'
  <2>1. ASSUME NEW l \in Levels, BeginSnapshot(s, l) PROVE RowInv'
    <3>1. rows' = rows /\ next_ver' = next_ver /\ active_txn_ids' = active_txn_ids /\ committed' = committed
          /\ dirty' = dirty /\ stmt' = stmt
      BY <2>1 DEF BeginSnapshot, rowVars
    <3>2. \A u \in Sessions : Active(u)' => Active(u) /\ txn_id'[u] = txn_id[u]
      BY <2>1 DEF BeginSnapshot, Active, Control, ControlTypes
    <3> QED
      BY <3>1, <3>2, FewerKeeps DEF Runs
  <2>2. CASE BeginRegister(s)
    BY <2>2, RegisterKeepsRows
  <2>3. CASE Rollback(s) \/ CommitRefused(s)
    BY <2>3, RollbackKeepsRows DEF Rollback, CommitRefused
  <2>4. CASE CommitPhase1(s)
    <3>1. rows' = rows /\ next_ver' = next_ver /\ active_txn_ids' = active_txn_ids /\ committed' = committed
          /\ dirty' = dirty /\ stmt' = stmt /\ txn_id' = txn_id
      BY <2>4 DEF CommitPhase1, idVars
    <3>2. \A u \in Sessions : Active(u)' => Active(u)
      BY <2>4 DEF CommitPhase1, Ready, InTxn, Active, Control, ControlTypes
    <3> QED
      BY <3>1, <3>2, FewerKeeps DEF Runs
  <2>5. CASE CommitFinish(s)
    BY <2>5, FinishKeepsRows
  <2> QED
    BY <1>1, <2>1, <2>2, <2>3, <2>4, <2>5 DEF Transaction
<1>2. ASSUME NEW s \in Sessions, LockWaitFails(s) PROVE RowInv'
  <2>1. rows' = rows /\ next_ver' = next_ver /\ active_txn_ids' = active_txn_ids /\ committed' = committed
        /\ dirty' = dirty /\ pc' = pc
    BY <1>2 DEF LockWaitFails, idVars, rowVars, history
  <2>2. \A u \in Sessions : Active(u) => txn_id'[u] = txn_id[u]
    BY <1>2 DEF LockWaitFails, Active, Control, ControlTypes, StatementsPlaced, NoStmt
  <2>3. \A u \in Sessions, tb \in Tables : Runs(u, "push", tb)' => Runs(u, "push", tb)
    BY <1>2 DEF LockWaitFails, Runs, NoStmt, Control, ControlTypes
  <2> QED
    BY <2>1, <2>2, <2>3, FewerKeeps DEF Active
<1>3. ASSUME NEW s \in Sessions, NEW tb \in Tables, Statement(s, tb) PROVE RowInv'
  <2>1. CASE Select(s, tb)
    BY <2>1, FewerKeeps DEF Select, idVars, rowVars, history, Active, Runs
  <2>2. ASSUME NEW op \in {"insert", "update", "delete", "erase"}, TakeId(s, op, tb) PROVE RowInv'
    <3>1. rows' = rows /\ next_ver' = next_ver /\ active_txn_ids' = active_txn_ids /\ committed' = committed
          /\ dirty' = dirty /\ pc' = pc
      BY <2>2 DEF TakeId, rowVars, history
    <3>2. \A u \in Sessions : Active(u) => txn_id'[u] = txn_id[u]
      BY <2>2 DEF TakeId, Idle, Active, Control, ControlTypes
    <3>3. \A u \in Sessions, t \in Tables : Runs(u, "push", t)' => Runs(u, "push", t)
      BY <2>2 DEF TakeId, Runs, Control, ControlTypes
    <3> QED
      BY <3>1, <3>2, <3>3, FewerKeeps DEF Active
  <2>3. CASE InsertClaim(s, tb)
    <3>1. rows' = rows /\ next_ver' = next_ver /\ active_txn_ids' = active_txn_ids /\ committed' = committed
          /\ dirty' = dirty /\ pc' = pc /\ txn_id' = txn_id
      BY <2>3 DEF InsertClaim, idVars, history
    <3>2. \A u \in Sessions, t \in Tables : Runs(u, "push", t)' => Runs(u, "push", t) \/ LiveVersions(t) = {}
      BY <2>3 DEF InsertClaim, Runs, Control, ControlTypes
    <3> QED
      BY <3>1, <3>2, FewerKeeps DEF Active
  <2>4. CASE InsertDuplicate(s, tb)
    <3>1. rows' = rows /\ next_ver' = next_ver /\ active_txn_ids' = active_txn_ids /\ committed' = committed
          /\ dirty' = dirty /\ pc' = pc
      BY <2>4 DEF InsertDuplicate, idVars, history
    <3>2. \A u \in Sessions : Active(u) => txn_id'[u] = txn_id[u]
      BY <2>4 DEF InsertDuplicate, Ready, InTxn, Runs, NoStmt, Active, Control, ControlTypes, StatementsPlaced
    <3>3. \A u \in Sessions, t \in Tables : Runs(u, "push", t)' => Runs(u, "push", t)
      BY <2>4 DEF InsertDuplicate, Runs, NoStmt, Control, ControlTypes
    <3> QED
      BY <3>1, <3>2, <3>3, FewerKeeps DEF Active
  <2>5. CASE InsertPush(s, tb) \/ Update(s, tb) \/ DeleteSoft(s, tb) \/ DeleteHard(s, tb)
    BY <2>5, PushKeeps, UpdateKeeps, DeleteKeeps
  <2> QED
    BY <1>3, <2>1, <2>2, <2>3, <2>4, <2>5 DEF Statement, AutoInsertTag, AutoUpdateTag, AutoDeleteTag
<1>4. CASE Vacuum
  BY <1>4, VacuumRemoves, FewerKeeps DEF Vacuum, idVars, history, Active, Runs
<1>5. CASE UNCHANGED vars
  BY <1>5, FewerKeeps DEF vars, idVars, rowVars, history, Active, Runs
<1> QED
  BY <1>1, <1>2, <1>3, <1>4, <1>5 DEF Next

--------------------------------------------------------------------------------
(* The theorems *)

Inv == Control /\ RowInv

LEMMA InitInv == Init => Inv
<1> SUFFICES ASSUME Init PROVE Inv
  OBVIOUS
<1>1. Control
  BY DEF Init, Control, ControlTypes, IdsOwned, HasId, IdIsOwn, Active, StatementsPlaced, DirtyIsLocked,
         DirtyApart, PushHasKey, Runs, NoStmt, Statements
<1>2. \A r \in rows : r.xmin = 1 /\ r.xmax = 0 /\ r.ver = 1 /\ r.table \in Tables /\ r = NewVersion(r.table, 1, 1)
  BY DEF Init, NewVersion
<1>3. RowTypes
  BY <1>2 DEF Init, RowTypes, NewVersion, Versions, Ids
<1>4. VersionsDecided /\ OneLive /\ OneCommittedLive
  BY <1>2 DEF Init, VersionsDecided, OneLive, OneCommittedLive
<1>5. TouchedIsDirty /\ PushFindsNone
  BY DEF Init, TouchedIsDirty, PushFindsNone, Active, Runs, NoStmt
<1> QED
  BY <1>1, <1>3, <1>4, <1>5 DEF Inv, RowInv

\* Ids, claims and versions stay in order in every reachable state.
THEOREM Invariant == Spec => []Inv
<1>1. Inv /\ [Next]_vars => Inv'
  BY ControlKept, RowsKept DEF Inv
<1> QED
  BY InitInv, <1>1, PTL DEF Spec

\* A key has at most one version that nobody has ended, whatever transactions and autocommit statements
\* do to it and however they are interleaved.
THEOREM NeverForked == Spec => []OneLiveVersion
<1>1. ASSUME Inv, NEW tb \in Tables PROVE Cardinality(LiveVersions(tb)) <= 1
  <2>1. LiveVersions(tb) = {} \/ \E q \in rows : LiveVersions(tb) = {q}
    BY <1>1 DEF Inv, RowInv, OneLive, LiveVersions
  <2> QED
    BY <2>1, FS_EmptySet, FS_Singleton
<1>2. Inv => OneLiveVersion
  BY <1>1 DEF OneLiveVersion
<1> QED
  BY Invariant, <1>2, PTL

\* READ COMMITTED shows what is committed, all of it and nothing else.
THEOREM ReadCommittedIsCommitted == Spec => []FreshReadIsCommitted
<1>1. Inv => FreshReadIsCommitted
  <2>1. SUFFICES ASSUME Inv, NEW r \in rows
                 PROVE  is_visible_for_read(r, 0, FreshCtx) <=>
                            r.xmin \in committed /\ (r.xmax = 0 \/ r.xmax \notin committed)
    BY DEF FreshReadIsCommitted
  <2>2. r.xmin \in committed \cup active_txn_ids /\ r.xmax \in committed \cup active_txn_ids
    BY <2>1 DEF Inv, RowInv, VersionsDecided
  <2>3. /\ CommittedAsOf(r.xmin, FreshCtx) <=> r.xmin \in committed
        /\ CommittedAsOf(r.xmax, FreshCtx) <=> r.xmax \in committed
        /\ CommittedAsOf(0, FreshCtx)
    BY <2>1, <2>2, FreshCtxDecides DEF Inv, CommittedAsOf
  <2> QED
    BY <2>1, <2>3 DEF is_visible_for_read
<1> QED
  BY Invariant, <1>1, PTL

\* Until a transaction is validated, all it has changed is claimed by it and known to it, so that
\* apply_rollback finds everything and touches nothing else.
THEOREM UndecidedStaysLocked == Spec => []UndecidedIsLocked
<1>1. Inv => UndecidedIsLocked
  BY DEF Inv, Control, RowInv, TouchedIsDirty, DirtyIsLocked, Active, UndecidedIsLocked
<1> QED
  BY Invariant, <1>1, PTL

\* A row that is alive and that nobody works on is visible to READ COMMITTED.
THEOREM LiveStaysReadable == Spec => []LiveIsReadable
<1>1. ASSUME Inv, NEW tb \in Tables, lock[tb] = 0, \A s \in Committing : tb \notin dirty[s],
             NEW r \in rows, r.table = tb
      PROVE  r.xmin \notin active_txn_ids /\ r.xmax \notin active_txn_ids
  <2>1. SUFFICES ASSUME NEW s \in Sessions, Active(s), txn_id[s] \in {r.xmin, r.xmax} PROVE FALSE
    BY <1>1 DEF Inv, Control, IdsOwned
  <2>2. tb \in dirty[s] /\ txn_id[s] # 0
    BY <1>1, <2>1 DEF Inv, RowInv, TouchedIsDirty, Control, IdsOwned, HasId, Active
  <2> QED
    BY <1>1, <2>1, <2>2 DEF Inv, Control, DirtyIsLocked, Active, Committing
<1>2. Inv => LiveIsReadable
  <2>1. SUFFICES ASSUME Inv, NEW tb \in Tables, lock[tb] = 0, \A s \in Committing : tb \notin dirty[s],
                        NEW r \in rows, r.table = tb
                 PROVE  is_visible(r) <=> is_visible_for_read(r, 0, FreshCtx)
    BY DEF LiveIsReadable, LiveVersions, FreshRead
  <2>2. r.xmin \in committed \cup active_txn_ids /\ r.xmax \in committed \cup active_txn_ids
    BY <2>1 DEF Inv, RowInv, VersionsDecided
  <2>3. CommittedAsOf(r.xmin, FreshCtx) /\ CommittedAsOf(r.xmax, FreshCtx)
    BY <1>1, <2>1, <2>2, FreshCtxDecides DEF Inv
  <2> QED
    BY <2>3 DEF is_visible, is_visible_for_read
<1> QED
  BY Invariant, <1>2, PTL

\* Only apply_rollback takes an open transaction to its end.
LEMMA OnlyRollbackEndsOpen ==
    ASSUME Control, Next, NEW s \in Sessions, pc[s] = "open", pc'[s] = "idle"
    PROVE  apply_rollback(s)
<1> USE DEF Control, ControlTypes
<1>1. ASSUME NEW u \in Sessions, Transaction(u) PROVE apply_rollback(s)
  <2>1. ASSUME NEW l \in Levels, BeginSnapshot(u, l) PROVE FALSE
    BY <2>1 DEF BeginSnapshot
  <2>2. CASE BeginRegister(u)
    BY <2>2 DEF BeginRegister
  <2>3. CASE Rollback(u) \/ CommitRefused(u)
    BY <2>3 DEF Rollback, CommitRefused, apply_rollback, EndSession
  <2>4. CASE CommitPhase1(u)
    BY <2>4 DEF CommitPhase1
  <2>5. CASE CommitFinish(u)
    BY <2>5 DEF CommitFinish, EndSession
  <2> QED
    BY <1>1, <2>1, <2>2, <2>3, <2>4, <2>5 DEF Transaction
<1>2. ASSUME NEW u \in Sessions, LockWaitFails(u) PROVE FALSE
  BY <1>2 DEF LockWaitFails
<1>3. ASSUME NEW u \in Sessions, NEW tb \in Tables, Statement(u, tb) PROVE FALSE
  <2>1. pc' = pc
    BY <1>3, StatementsChange, OthersStay
       DEF Statement, Select, AutoInsertTag, AutoUpdateTag, AutoDeleteTag, TakeId, InsertClaim, InsertDuplicate
  <2> QED
    BY <2>1
<1>4. CASE Vacuum
  BY <1>4 DEF Vacuum
<1> QED
  BY <1>1, <1>2, <1>3, <1>4 DEF Next

\* ROLLBACK changes nothing of what READ COMMITTED shows of any table.
THEOREM RollbackIsTraceless == Spec => RollbackLeavesNoTrace
<1>1. ASSUME Inv, [Next]_vars, NEW s \in Sessions, pc[s] = "open", pc'[s] = "idle", NEW tb \in Tables
      PROVE  Vers(FreshRead(tb))' = Vers(FreshRead(tb))
  <2> DEFINE id == txn_id[s]
             Shown(r) == r.table = tb /\ is_visible_for_read(r, 0, FreshCtx)
  <2>1. apply_rollback(s)
    BY <1>1, OnlyRollbackEndsOpen DEF Inv, vars
  <2>2. rows' = {Undone(r, id) : r \in {r \in rows : r.xmin # id}} /\ next_txn_id' = next_txn_id
        /\ active_txn_ids' = active_txn_ids \ {id}
    BY <2>1 DEF apply_rollback, EndSession, Undone
  <2>3. id # 0 /\ id \in active_txn_ids
    BY <1>1 DEF Inv, Control, IdsOwned, HasId, Active
  <2>4. \A r \in rows : /\ Undone(r, id).table = r.table /\ Undone(r, id).xmin = r.xmin
                        /\ Undone(r, id).xmax = (IF r.xmax = id THEN 0 ELSE r.xmax)
                        /\ Undone(r, id).ver = r.ver
    BY <1>1 DEF Undone, Inv, RowInv, RowTypes, Versions, Ids
  <2>5. ASSUME NEW k, k # id PROVE CommittedAsOf(k, FreshCtx)' <=> CommittedAsOf(k, FreshCtx)
    BY <2>2, <2>5 DEF CommittedAsOf, FreshCtx
  <2>6. ~CommittedAsOf(id, FreshCtx)
    BY <2>3 DEF CommittedAsOf, FreshCtx
  <2>7. ASSUME NEW r \in rows, r.xmin # id, NEW x, x = Undone(r, id)
        PROVE  is_visible_for_read(x, 0, FreshCtx)' <=> is_visible_for_read(r, 0, FreshCtx)
    BY <2>3, <2>4, <2>5, <2>6, <2>7 DEF is_visible_for_read
  <2>8. ASSUME NEW r \in rows, Shown(r) PROVE r.xmin # id
    BY <2>3, <2>6, <2>8 DEF is_visible_for_read
  <2>9. ASSUME NEW v \in Vers(FreshRead(tb)) PROVE v \in Vers(FreshRead(tb))'
    <3>1. PICK r \in rows : Shown(r) /\ r.ver = v
      BY <2>9 DEF Vers, FreshRead
    <3>2. PICK x \in rows' : x = Undone(r, id)
      BY <2>2, <2>8, <3>1
    <3> QED
      BY <2>4, <2>7, <2>8, <3>1, <3>2 DEF Vers, FreshRead
  <2>10. ASSUME NEW v \in Vers(FreshRead(tb))' PROVE v \in Vers(FreshRead(tb))
    <3>1. PICK x \in rows' : x.table = tb /\ is_visible_for_read(x, 0, FreshCtx)' /\ x.ver = v
      BY <2>10 DEF Vers, FreshRead
    <3>2. PICK r \in rows : r.xmin # id /\ x = Undone(r, id)
      BY <2>2, <3>1
    <3> QED
      BY <2>4, <2>7, <3>1, <3>2 DEF Vers, FreshRead
  <2> QED
    BY <2>9, <2>10
<1>2. Inv /\ [Next]_vars => [\A s \in Sessions : pc[s] = "open" /\ pc'[s] = "idle" =>
                                \A tb \in Tables : Vers(FreshRead(tb))' = Vers(FreshRead(tb))]_vars
  BY <1>1
<1> QED
  BY Invariant, <1>2, PTL DEF Spec, RollbackLeavesNoTrace

--------------------------------------------------------------------------------
(* Types *)

LEMMA ReadTypesKept == ASSUME Inv, ReadTypes, [Next]_vars PROVE ReadTypes'
<1> USE DEF ReadTypes, history, readVars, idVars
<1>0. \A r \in rows : r.ver \in 0 .. MaxVersions
  BY DEF Inv, RowInv, RowTypes, Versions
<1>1. ASSUME NEW s \in Sessions, Transaction(s) PROVE ReadTypes'
  <2>0. flagged \ {txn_id[s]} \subseteq Ids
    OBVIOUS
  <2>1. ASSUME NEW l \in Levels, BeginSnapshot(s, l) PROVE ReadTypes'
    <3>1. ctx' \in [Sessions -> Contexts]
      <4>1. NoCtx \in Contexts
        BY DEF NoCtx, Contexts, Ids
      <4>2. [cutoff |-> next_txn_id + 1, in_progress |-> active_txn_ids] \in Contexts
        BY <2>1 DEF BeginSnapshot, Contexts, Ids, Inv, Control, ControlTypes
      <4> QED
        BY <2>1, <4>1, <4>2 DEF BeginSnapshot
    <3>2. quiet' \in [Sessions -> BOOLEAN]
      BY <2>1 DEF BeginSnapshot
    <3>3. level' \in [Sessions -> {"RU", "RC", "RR", "SER"}]
      BY <2>1 DEF BeginSnapshot
    <3> QED
      BY <2>1, <3>1, <3>2, <3>3 DEF BeginSnapshot
  <2>2. CASE BeginRegister(s)
    <3>1. quiet' \in [Sessions -> BOOLEAN]
      BY <2>2 DEF BeginRegister
    <3> QED
      BY <2>2, <3>1 DEF BeginRegister
  <2>3. EndSession(s) => /\ level' \in [Sessions -> {"RU", "RC", "RR", "SER"}]
                         /\ ctx' \in [Sessions -> Contexts]
                         /\ read_set' \in [Sessions -> SUBSET Tables]
                         /\ seen' \in [Sessions -> [Tables -> SUBSET (0 .. MaxVersions)]]
                         /\ quiet' \in [Sessions -> BOOLEAN]
    BY DEF EndSession, NoCtx, Contexts, Ids, Unread
  <2>4. ReleaseLocks(s) => ranges' \in [Sessions -> SUBSET Tables] /\ flagged' \subseteq Ids
    BY DEF ReleaseLocks
  <2>5. CASE Rollback(s) \/ CommitRefused(s)
    BY <2>3, <2>4, <2>5 DEF Rollback, CommitRefused, apply_rollback
  <2>6. CASE CommitPhase1(s)
    BY <2>4, <2>6 DEF CommitPhase1
  <2>7. CASE CommitFinish(s)
    BY <2>3, <2>7 DEF CommitFinish
  <2> QED
    BY <1>1, <2>1, <2>2, <2>5, <2>6, <2>7 DEF Transaction
<1>2. ASSUME NEW s \in Sessions, LockWaitFails(s) PROVE ReadTypes'
  BY <1>2 DEF LockWaitFails
<1>3. ASSUME NEW s \in Sessions, NEW tb \in Tables, Statement(s, tb) PROVE ReadTypes'
  <2>1. CASE Select(s, tb)
    <3>1. {r.ver : r \in Read(s, tb)} \in SUBSET (0 .. MaxVersions)
      BY <1>0 DEF Read
    <3>2. seen' \in [Sessions -> [Tables -> SUBSET (0 .. MaxVersions)]]
      BY <2>1, <3>1 DEF Select
    <3> QED
      BY <2>1, <3>2 DEF Select
  <2>2. CASE AutoInsertTag(s, tb) \/ AutoUpdateTag(s, tb) \/ AutoDeleteTag(s, tb)
    BY <2>2 DEF AutoInsertTag, AutoUpdateTag, AutoDeleteTag, TakeId
  <2>3. CASE InsertClaim(s, tb)
    <3>1. \A u \in Sessions : txn_id[u] \in Ids
      BY DEF Inv, Control, ControlTypes, Ids
    <3> QED
      BY <2>3, <3>1 DEF InsertClaim
  <2>4. CASE InsertDuplicate(s, tb)
    BY <2>4 DEF InsertDuplicate
  <2>5. CASE Changes(s, tb)
    BY <2>5 DEF Changes, ChangesInTxn, ChangesAlone
  <2> QED
    BY <1>3, <2>1, <2>2, <2>3, <2>4, <2>5, StatementsChange DEF Statement, Inv
<1>4. CASE Vacuum
  BY <1>4 DEF Vacuum
<1>5. CASE UNCHANGED vars
  BY <1>5 DEF vars
<1> QED
  BY <1>1, <1>2, <1>3, <1>4, <1>5 DEF Next

\* Every variable keeps its type, and every id in use has been handed out.
THEOREM TypeCorrect == Spec => []TypeOK
<1>1. Init => ReadTypes
  BY DEF Init, ReadTypes, NoCtx, Contexts, Ids, Unread
<1>2. Inv /\ ReadTypes => TypeOK
  BY DEF Inv, Control, ControlTypes, RowInv, RowTypes, ReadTypes, TypeOK, Ids
<1>3. Inv /\ ReadTypes /\ [Next]_vars => ReadTypes'
  BY ReadTypesKept
<1> QED
  BY Invariant, <1>1, <1>2, <1>3, PTL DEF Spec

--------------------------------------------------------------------------------
(* Snapshots *)

\* BEGIN of session s has overlapped no other BEGIN and no autocommit statement so far.
Quietly(s) == pc[s] # "idle" /\ quiet[s] /\ (pc[s] = "begun" => next_txn_id = txn_id[s] + 1)

Keeps(s) == level[s] \in {"RR", "SER"}

\* The snapshot of such a BEGIN lists every other id that is in use, but for the later ones.
QuietCtx ==
    \A s \in Sessions : Quietly(s) /\ Keeps(s) =>
        /\ ctx[s].cutoff = txn_id[s] + 1
        /\ \A u \in Sessions : u # s /\ txn_id[u] # 0 =>
               txn_id[u] > txn_id[s] \/ txn_id[u] \in ctx[s].in_progress

\* No hard delete is in progress beside it.
QuietNoErase ==
    \A s \in Sessions : Quietly(s) => \A u \in Sessions, tb \in Tables : ~Runs(u, "erase", tb)

UnreadUntilOpen == \A s \in Sessions : pc[s] \in {"idle", "begun"} => \A tb \in Tables : seen[s][tb] = Unread

QuietInv == QuietCtx /\ QuietNoErase /\ UnreadUntilOpen

\* A new id ends the quiet of those who have not registered theirs, and is later than all others.
LEMMA NewIdQuiet ==
    ASSUME Inv, QuietInv, next_txn_id' = next_txn_id + 1, NEW s \in Sessions, NEW u \in Sessions, u # s,
           pc'[s] = pc[s], txn_id'[s] = txn_id[s], quiet'[s] = quiet[s], level'[s] = level[s], ctx'[s] = ctx[s],
           txn_id'[u] = next_txn_id, \A v \in Sessions \ {u} : txn_id'[v] = txn_id[v], Quietly(s)'
    PROVE  /\ Quietly(s) /\ pc[s] # "begun"
           /\ Keeps(s)' => /\ ctx'[s].cutoff = txn_id'[s] + 1
                           /\ \A v \in Sessions : v # s /\ txn_id'[v] # 0 =>
                                  txn_id'[v] > txn_id'[s] \/ txn_id'[v] \in ctx'[s].in_progress
<1>1. txn_id[s] \in 0 .. next_txn_id - 1 /\ next_txn_id \in Nat
  BY DEF Inv, Control, ControlTypes
<1>2. pc[s] # "begun"
  BY <1>1 DEF Quietly
<1>3. Quietly(s)
  BY <1>2 DEF Quietly
<1> QED
  BY <1>1, <1>2, <1>3 DEF QuietInv, QuietCtx, Keeps

\* A step that hands out no id and starts no hard delete leaves the quiet ones quiet.
LEMMA NoNewIdQuiet ==
    ASSUME Inv, QuietInv, next_txn_id' = next_txn_id,
           \A s \in Sessions : Quietly(s)' =>
               Quietly(s) /\ txn_id'[s] = txn_id[s] /\ level'[s] = level[s] /\ ctx'[s] = ctx[s],
           \A s \in Sessions : txn_id'[s] # 0 => txn_id'[s] = txn_id[s],
           \A s \in Sessions, tb \in Tables : Runs(s, "erase", tb)' => Runs(s, "erase", tb)
    PROVE  QuietCtx' /\ QuietNoErase'
BY DEF QuietInv, QuietCtx, QuietNoErase, Keeps

LEMMA BeginQuiet ==
    ASSUME Inv, ReadTypes, QuietInv, NEW s \in Sessions, NEW l \in Levels, BeginSnapshot(s, l)
    PROVE  QuietInv'
<1>1. /\ next_txn_id' = next_txn_id + 1 /\ stmt' = stmt /\ seen' = seen
      /\ txn_id'[s] = next_txn_id /\ pc'[s] = "begun" /\ pc[s] = "idle" /\ stmt[s] = NoStmt
      /\ \A v \in Sessions \ {s} : /\ txn_id'[v] = txn_id[v] /\ pc'[v] = pc[v] /\ quiet'[v] = quiet[v]
                                   /\ level'[v] = level[v] /\ ctx'[v] = ctx[v]
  BY DEF BeginSnapshot, Idle, readVars, Inv, Control, ControlTypes, ReadTypes
<1>2. Quietly(s)' => \A u \in Sessions : pc[u] # "begun" /\ (pc[u] = "idle" => stmt[u] = NoStmt)
  BY DEF BeginSnapshot, Quietly, ReadTypes
<1>3. Keeps(s)' => ctx'[s] = [cutoff |-> next_txn_id + 1, in_progress |-> active_txn_ids]
  BY DEF BeginSnapshot, Keeps, ReadTypes
<1>4. QuietCtx'
  <2>1. SUFFICES ASSUME NEW v \in Sessions, Quietly(v)', Keeps(v)'
                 PROVE  /\ ctx'[v].cutoff = txn_id'[v] + 1
                        /\ \A u \in Sessions : u # v /\ txn_id'[u] # 0 =>
                              txn_id'[u] > txn_id'[v] \/ txn_id'[u] \in ctx'[v].in_progress
    BY DEF QuietCtx
  <2>2. CASE v # s
    BY <1>1, <2>1, <2>2, NewIdQuiet
  <2>3. CASE v = s
    <3>1. \A u \in Sessions : u # s /\ txn_id[u] # 0 => txn_id[u] \in active_txn_ids
      BY <1>2, <2>1, <2>3 DEF Inv, Control, ControlTypes, IdsOwned, HasId, Active
    <3> QED
      BY <1>1, <1>3, <2>1, <2>3, <3>1
  <2> QED
    BY <2>2, <2>3
<1>5. QuietNoErase'
  <2>0. \A u \in Sessions, tb \in Tables : Runs(u, "erase", tb)' <=> Runs(u, "erase", tb)
    BY <1>1 DEF Runs
  <2>1. SUFFICES ASSUME NEW v \in Sessions, Quietly(v)', NEW u \in Sessions, NEW tb \in Tables, Runs(u, "erase", tb)
                 PROVE  FALSE
    BY <2>0 DEF QuietNoErase
  <2>2. CASE v # s
    BY <1>1, <2>1, <2>2, NewIdQuiet DEF QuietInv, QuietNoErase
  <2>3. CASE v = s
    BY <1>2, <2>1, <2>3 DEF Inv, Control, ControlTypes, StatementsPlaced, Runs, NoStmt
  <2> QED
    BY <2>2, <2>3
<1>6. UnreadUntilOpen'
  BY <1>1 DEF QuietInv, UnreadUntilOpen
<1> QED
  BY <1>4, <1>5, <1>6 DEF QuietInv

LEMMA TakeIdQuiet ==
    ASSUME Inv, ReadTypes, QuietInv, NEW s \in Sessions, NEW tb \in Tables,
           NEW op \in {"insert", "update", "delete", "erase"}, op = "erase" => active_txn_ids = {}, TakeId(s, op, tb)
    PROVE  QuietInv'
<1>1. /\ next_txn_id' = next_txn_id + 1 /\ seen' = seen /\ pc' = pc /\ level' = level /\ ctx' = ctx /\ quiet' = quiet
      /\ txn_id'[s] = next_txn_id /\ pc[s] = "idle" /\ stmt'[s] = [op |-> op, table |-> tb]
      /\ \A v \in Sessions \ {s} : txn_id'[v] = txn_id[v] /\ stmt'[v] = stmt[v]
  BY DEF TakeId, Idle, readVars, history, Inv, Control, ControlTypes
<1>2. QuietCtx'
  BY <1>1, NewIdQuiet DEF QuietCtx, Quietly
<1>3. QuietNoErase'
  <2>1. SUFFICES ASSUME NEW v \in Sessions, Quietly(v)', NEW u \in Sessions, NEW t \in Tables, Runs(u, "erase", t)'
                 PROVE  FALSE
    BY DEF QuietNoErase
  <2>2. Quietly(v) /\ pc[v] # "begun" /\ v # s
    BY <1>1, <2>1, NewIdQuiet DEF Quietly
  <2>3. CASE u # s
    BY <1>1, <2>1, <2>2, <2>3 DEF QuietInv, QuietNoErase, Runs
  <2>4. CASE u = s
    <3>1. op = "erase"
      BY <1>1, <2>1, <2>4 DEF Runs
    <3>2. txn_id[v] \in active_txn_ids
      BY <2>2 DEF Quietly, Inv, Control, ControlTypes, IdsOwned, Active
    <3> QED
      BY <3>1, <3>2
  <2> QED
    BY <2>3, <2>4
<1>4. UnreadUntilOpen'
  BY <1>1 DEF QuietInv, UnreadUntilOpen
<1> QED
  BY <1>2, <1>3, <1>4 DEF QuietInv

\* Every step keeps the snapshots of the quiet transactions exact.
LEMMA QuietKept == ASSUME Inv, ReadTypes, QuietInv, [Next]_vars PROVE QuietInv'
<1> USE DEF Inv, Control, ControlTypes
<1>1. ASSUME NEW s \in Sessions, Transaction(s) PROVE QuietInv'
  <2>1. ASSUME NEW l \in Levels, BeginSnapshot(s, l) PROVE QuietInv'
    BY <2>1, BeginQuiet
  <2>2. CASE BeginRegister(s)
    <3>1. next_txn_id' = next_txn_id /\ txn_id' = txn_id /\ stmt' = stmt /\ level' = level /\ ctx' = ctx /\ seen' = seen
      BY <2>2 DEF BeginRegister, readVars
    <3>2. \A v \in Sessions : Quietly(v)' => Quietly(v)
      BY <2>2, <3>1 DEF BeginRegister, Quietly, ReadTypes
    <3>3. \A v \in Sessions : pc'[v] \in {"idle", "begun"} => pc[v] \in {"idle", "begun"}
      BY <2>2 DEF BeginRegister
    <3> QED
      BY <3>1, <3>2, <3>3, NoNewIdQuiet DEF QuietInv, UnreadUntilOpen, Runs
  <2>3. ASSUME EndSession(s), next_txn_id' = next_txn_id, stmt' = stmt PROVE QuietInv'
    <3>1. \A v \in Sessions : v # s => /\ txn_id'[v] = txn_id[v] /\ pc'[v] = pc[v] /\ quiet'[v] = quiet[v]
                                       /\ level'[v] = level[v] /\ ctx'[v] = ctx[v] /\ seen'[v] = seen[v]
      BY <2>3 DEF EndSession, ReadTypes
    <3>2. txn_id'[s] = 0 /\ pc'[s] = "idle" /\ seen'[s] = [tb \in Tables |-> Unread]
      BY <2>3 DEF EndSession, ReadTypes
    <3>3. \A v \in Sessions : Quietly(v)' => v # s /\ Quietly(v)
      BY <2>3, <3>1, <3>2 DEF Quietly
    <3>4. QuietCtx' /\ QuietNoErase'
      BY <2>3, <3>1, <3>2, <3>3, NoNewIdQuiet DEF Runs
    <3>5. UnreadUntilOpen'
      BY <3>1, <3>2 DEF QuietInv, UnreadUntilOpen
    <3> QED
      BY <3>4, <3>5 DEF QuietInv
  <2>4. CASE Rollback(s) \/ CommitRefused(s)
    BY <2>3, <2>4 DEF Rollback, CommitRefused, apply_rollback
  <2>5. CASE CommitPhase1(s)
    <3>1. /\ next_txn_id' = next_txn_id /\ txn_id' = txn_id /\ stmt' = stmt /\ level' = level /\ ctx' = ctx
          /\ seen' = seen /\ quiet' = quiet
      BY <2>5 DEF CommitPhase1, idVars
    <3>2. \A v \in Sessions : Quietly(v)' => Quietly(v)
      BY <2>5, <3>1 DEF CommitPhase1, Ready, InTxn, Quietly
    <3>3. \A v \in Sessions : pc'[v] \in {"idle", "begun"} => pc[v] \in {"idle", "begun"}
      BY <2>5 DEF CommitPhase1
    <3> QED
      BY <3>1, <3>2, <3>3, NoNewIdQuiet DEF QuietInv, UnreadUntilOpen, Runs
  <2>6. CASE CommitFinish(s)
    BY <2>3, <2>6 DEF CommitFinish
  <2> QED
    BY <1>1, <2>1, <2>2, <2>4, <2>5, <2>6 DEF Transaction
<1>2. ASSUME next_txn_id' = next_txn_id, pc' = pc, level' = level, ctx' = ctx, quiet' = quiet,
             \A s \in Sessions : pc[s] # "idle" => txn_id'[s] = txn_id[s],
             \A s \in Sessions : txn_id'[s] # 0 => txn_id'[s] = txn_id[s],
             \A s \in Sessions, tb \in Tables : Runs(s, "erase", tb)' => Runs(s, "erase", tb),
             \A s \in Sessions, tb \in Tables : pc[s] # "open" => seen'[s][tb] = seen[s][tb]
      PROVE  QuietInv'
  <2>1. \A v \in Sessions : Quietly(v)' => Quietly(v) /\ txn_id'[v] = txn_id[v]
    BY <1>2 DEF Quietly
  <2>2. QuietCtx' /\ QuietNoErase'
    BY <1>2, <2>1, NoNewIdQuiet
  <2>3. UnreadUntilOpen'
    BY <1>2 DEF QuietInv, UnreadUntilOpen
  <2> QED
    BY <2>2, <2>3 DEF QuietInv
<1>3. ASSUME NEW s \in Sessions, LockWaitFails(s) PROVE QuietInv'
  <2>1. pc[s] = "idle"
    BY <1>3 DEF LockWaitFails, StatementsPlaced, NoStmt
  <2> QED
    BY <1>2, <1>3, <2>1 DEF LockWaitFails, idVars, readVars, history, Runs, NoStmt
<1>4. ASSUME NEW s \in Sessions, NEW tb \in Tables, Statement(s, tb) PROVE QuietInv'
  <2>1. CASE Select(s, tb)
    <3>1. \A v \in Sessions, t \in Tables : pc[v] # "open" => seen'[v][t] = seen[v][t]
      BY <2>1 DEF Select, Ready, InTxn, ReadTypes
    <3> QED
      BY <1>2, <2>1, <3>1 DEF Select, idVars, history, Runs
  <2>2. CASE AutoInsertTag(s, tb) \/ AutoUpdateTag(s, tb)
    BY <2>2, TakeIdQuiet DEF AutoInsertTag, AutoUpdateTag
  <2>3. CASE AutoDeleteTag(s, tb)
    BY <2>3, TakeIdQuiet DEF AutoDeleteTag
  <2>4. CASE InsertClaim(s, tb)
    BY <1>2, <2>4 DEF InsertClaim, idVars, history, Runs
  <2>5. CASE InsertDuplicate(s, tb)
    <3>1. \A v \in Sessions : /\ pc[v] # "idle" => txn_id'[v] = txn_id[v]
                              /\ txn_id'[v] # 0 => txn_id'[v] = txn_id[v]
      BY <2>5 DEF InsertDuplicate, Ready, InTxn, Runs, NoStmt, StatementsPlaced
    <3> QED
      BY <1>2, <2>5, <3>1 DEF InsertDuplicate, idVars, readVars, history, Runs, NoStmt
  <2>6. CASE ChangesInTxn(s, tb)
    BY <1>2, <2>6 DEF ChangesInTxn, idVars, readVars, history, Runs, NoStmt
  <2>7. CASE ChangesAlone(s)
    BY <1>2, <2>7 DEF ChangesAlone, idVars, readVars, Runs, NoStmt
  <2> QED
    BY <1>4, <2>1, <2>2, <2>3, <2>4, <2>5, <2>6, <2>7, StatementsChange DEF Statement, Changes
<1>5. CASE Vacuum
  BY <1>2, <1>5 DEF Vacuum, idVars, readVars, history, Runs
<1>6. CASE UNCHANGED vars
  BY <1>2, <1>6 DEF vars, idVars, readVars, history, Runs
<1> QED
  BY <1>1, <1>3, <1>4, <1>5, <1>6 DEF Next

\* What the snapshot of session s shows.
Sees(s, r) == is_visible_for_read(r, txn_id[s], ctx[s])

\* An id whose work the snapshot of session s does not show.
Foreign(s, k) == k # 0 /\ k # txn_id[s] /\ ~CommittedAsOf(k, ctx[s])

\* Of tb the versions Q show session s nothing that the versions R do not.
ShowsNoMore(s, tb, R, Q) ==
    \A x \in Q : x.table = tb /\ Sees(s, x) => \E r \in R : r.table = tb /\ r.ver = x.ver /\ Sees(s, r)

QuietReader(s) == pc[s] = "open" /\ quiet[s] /\ Keeps(s)

LEMMA ShowsTransitive ==
    ASSUME NEW s, NEW tb, NEW R, NEW Q, NEW P, ShowsNoMore(s, tb, R, Q), ShowsNoMore(s, tb, Q, P)
    PROVE  ShowsNoMore(s, tb, R, P)
BY DEF ShowsNoMore

LEMMA ShowsSubset ==
    ASSUME NEW s, NEW tb, NEW R, NEW Q, Q \subseteq R
    PROVE  ShowsNoMore(s, tb, R, Q)
BY DEF ShowsNoMore

\* A transaction whose snapshot was taken quietly, from the first half of its BEGIN on.
Watches(s) == Quietly(s) /\ Keeps(s)

\* A quiet snapshot shows nothing that others have yet to decide, from the first half of BEGIN on.
LEMMA WatchesForeign ==
    ASSUME Inv, QuietInv, NEW s \in Sessions, Watches(s), NEW u \in Sessions, u # s, txn_id[u] # 0
    PROVE  Foreign(s, txn_id[u])
<1>1. ctx[s].cutoff = txn_id[s] + 1 /\ (txn_id[u] > txn_id[s] \/ txn_id[u] \in ctx[s].in_progress)
  BY DEF QuietInv, QuietCtx, Watches
<1>2. txn_id[s] \in Nat /\ txn_id[u] \in Nat
  BY DEF Inv, Control, ControlTypes
<1>3. txn_id[u] # txn_id[s]
  BY DEF Inv, Control, IdsOwned, IdIsOwn
<1> QED
  BY <1>1, <1>2, <1>3 DEF Foreign, CommittedAsOf

LEMMA OthersAreForeign ==
    ASSUME Inv, ReadTypes, QuietInv, NEW s \in Sessions, QuietReader(s), NEW u \in Sessions, u # s, txn_id[u] # 0
    PROVE  Foreign(s, txn_id[u])
BY WatchesForeign DEF QuietReader, Watches, Quietly

\* A set of ids that is not empty has a smallest one, so oldest_active_txn_id is at most each of them.
LEMMA OldestIsOldest ==
    ASSUME NEW active \in SUBSET Nat, NEW id \in active
    PROVE  oldest_active_txn_id(active) \in Nat /\ oldest_active_txn_id(active) <= id
<1>1. \E m \in active : \A n \in active : m <= n
  <2>1. PICK m \in active : \A n \in active : ~(<<n, m>> \in OpToRel(<, Nat))
    BY NatLessThanWellFounded, WFMin
  <2>2. \A n \in active : ~(n < m)
    BY <2>1 DEF OpToRel
  <2> QED
    BY <2>2
<1> QED
  BY <1>1 DEF oldest_active_txn_id

\* The vacuum spares what the snapshot of an open transaction shows, if the snapshot lists nobody.
LEMMA VacuumSpares ==
    ASSUME Inv, ReadTypes, QuietInv, NEW s \in Sessions, QuietReader(s), ctx[s].in_progress = {},
           NEW active \in SUBSET active_txn_ids, txn_id[s] \in active,
           NEW R, \A r \in R : r.xmax \in Nat, NEW tbs, NEW Q \in MaybeVacuumed(R, tbs, active), NEW tb
    PROVE  ShowsNoMore(s, tb, Q, R)
<1>1. ctx[s].cutoff = txn_id[s] + 1
  BY DEF QuietInv, QuietCtx, QuietReader, Quietly
<1>2. active \in SUBSET Nat
  <2>1. \A k \in active_txn_ids : k \in Nat
    BY DEF Inv, Control, ControlTypes
  <2> QED
    BY <2>1
<1> DEFINE horizon == oldest_active_txn_id(active)
<1>3. horizon \in Nat /\ horizon <= txn_id[s]
  BY <1>2, OldestIsOldest
<1>4. ASSUME NEW r \in R, Sees(s, r) PROVE ~is_vacuumable(r, horizon)
  <2>1. txn_id[s] \in Nat /\ r.xmax \in Nat
    BY DEF Inv, Control, ControlTypes
  <2>2. r.xmax < horizon => CommittedAsOf(r.xmax, ctx[s])
    BY <1>1, <1>3, <2>1 DEF CommittedAsOf
  <2> QED
    BY <1>4, <2>2 DEF Sees, is_visible_for_read, is_vacuumable
<1>5. PICK cleaned \in SUBSET (tbs \cap Busy) : Q = {r \in R : r.table \notin cleaned \/ ~is_vacuumable(r, horizon)}
  BY DEF MaybeVacuumed
<1> QED
  BY <1>4, <1>5 DEF ShowsNoMore

\* Versions that others end or create change nothing of what the snapshot shows.
LEMMA RewriteShowsSame ==
    ASSUME NEW s, NEW k, Foreign(s, k), NEW T \in SUBSET rows, \A r \in T : r.xmax = 0,
           rows \subseteq Versions, NEW N, \A x \in N : x.xmin = k, NEW tb
    PROVE  /\ ShowsNoMore(s, tb, rows, EndedBy(rows, T, k) \cup N)
           /\ ShowsNoMore(s, tb, EndedBy(rows, T, k) \cup N, rows)
<1> DEFINE New(r) == IF r \in T THEN [r EXCEPT !.xmax = k] ELSE r
<1>1. ASSUME NEW r \in rows
      PROVE  /\ New(r).table = r.table /\ New(r).ver = r.ver
             /\ Sees(s, New(r)) <=> Sees(s, r)
  <2>1. CASE r \in T
    <3>1. New(r).table = r.table /\ New(r).ver = r.ver /\ New(r).xmin = r.xmin /\ New(r).xmax = k
      BY <2>1 DEF Versions
    <3> QED
      BY <2>1, <3>1 DEF Sees, is_visible_for_read, Foreign
  <2>2. CASE r \notin T
    BY <2>2
  <2> QED
    BY <2>1, <2>2
<1>2. \A x \in N : ~Sees(s, x)
  BY DEF Sees, is_visible_for_read, Foreign
<1>3. EndedBy(rows, T, k) = {New(r) : r \in rows}
  BY DEF EndedBy
<1> HIDE DEF New
<1> QED
  BY <1>1, <1>2, <1>3 DEF ShowsNoMore

\* Nor does what their rollback removes or revives.
LEMMA UndoShowsSame ==
    ASSUME NEW s, NEW k, Foreign(s, k), rows \subseteq Versions, NEW tb,
           rows' = {Undone(r, k) : r \in {r \in rows : r.xmin # k}}
    PROVE  ShowsNoMore(s, tb, rows, rows') /\ ShowsNoMore(s, tb, rows', rows)
<1>1. ASSUME NEW r \in rows
      PROVE  /\ Undone(r, k).table = r.table /\ Undone(r, k).ver = r.ver
             /\ Sees(s, Undone(r, k)) <=> Sees(s, r)
  <2>1. CASE r.xmax = k
    <3>1. Undone(r, k).table = r.table /\ Undone(r, k).ver = r.ver /\ Undone(r, k).xmin = r.xmin /\ Undone(r, k).xmax = 0
      BY <2>1 DEF Undone, Versions
    <3> QED
      BY <2>1, <3>1 DEF Sees, is_visible_for_read, Foreign
  <2>2. CASE r.xmax # k
    BY <2>2 DEF Undone
  <2> QED
    BY <2>1, <2>2
<1>2. \A r \in rows : r.xmin = k => ~Sees(s, r)
  BY DEF Sees, is_visible_for_read, Foreign
<1> QED
  BY <1>1, <1>2 DEF ShowsNoMore

LEMMA SuccessorsAreNew ==
    ASSUME NEW T, NEW tb, NEW id, NEW x \in Successors(T, tb, id)
    PROVE  x.table = tb /\ x.xmin = id /\ x.xmax = 0
<1>1. ASSUME NEW n PROVE LET v == NewVersion(tb, id, n) IN v.table = tb /\ v.xmin = id /\ v.xmax = 0
  BY DEF NewVersion
<1>2. \E n : x = NewVersion(tb, id, n)
  BY Zenon DEF Successors
<1> QED
  BY <1>1, <1>2

\* A statement of another session changes nothing of what the snapshot shows.
LEMMA StatementShowsSame ==
    ASSUME Inv, ReadTypes, QuietInv, NEW s \in Sessions, QuietReader(s), NEW tb,
           NEW u \in Sessions, u # s, NEW t \in Tables, txn_id[u] # 0,
           NEW T \in SUBSET rows, \A r \in T : r.xmax = 0, NEW N, \A x \in N : x.xmin = txn_id[u] /\ x.xmax = 0,
           NEW V, StatementEnds(u, t, EndedBy(rows, T, txn_id[u]) \cup N, V)
    PROVE  /\ ShowsNoMore(s, tb, rows, rows')
           /\ ctx[s].in_progress = {} => ShowsNoMore(s, tb, rows', rows)
<1> DEFINE R == EndedBy(rows, T, txn_id[u]) \cup N
<1>1. ShowsNoMore(s, tb, rows, R) /\ ShowsNoMore(s, tb, R, rows)
  BY OthersAreForeign, RewriteShowsSame DEF Inv, RowInv, RowTypes
<1>2. \A x \in R : x.xmax \in Nat
  BY DEF EndedBy, Inv, RowInv, RowTypes, Versions, Ids, Control, ControlTypes
<1>3. rows' \subseteq R
  BY VacuumRemoves DEF StatementEnds
<1>4. ctx[s].in_progress = {} => ShowsNoMore(s, tb, rows', R)
  <2>1. txn_id[s] \in active_txn_ids
    BY DEF QuietReader, Inv, Control, IdsOwned, Active
  <2>2. CASE rows' = R
    BY <2>2, ShowsSubset
  <2>3. CASE rows' \in MaybeVacuumed(R, V, active_txn_ids)
    BY <1>2, <2>1, <2>3, VacuumSpares
  <2> QED
    BY <2>2, <2>3 DEF StatementEnds
<1> HIDE DEF R
<1>5. ShowsNoMore(s, tb, R, rows')
  BY <1>3, ShowsSubset
<1> QED
  BY <1>1, <1>4, <1>5, ShowsTransitive

\* What a transaction does to the tables it has changed is not seen in the others.
LEMMA OwnChangeElsewhere ==
    ASSUME Inv, NEW s \in Sessions, pc[s] = "open", NEW tb \in Tables, NEW t \in Tables, tb \notin dirty'[s],
           InsertPush(s, t) \/ Update(s, t) \/ DeleteSoft(s, t) \/ DeleteHard(s, t)
    PROVE  {r \in rows' : r.table = tb} = {r \in rows : r.table = tb}
<1>1. t # tb
  BY StatementsChange DEF Changes, ChangesInTxn, ChangesAlone, Inv, Control, ControlTypes
<1>2. rows \subseteq Versions
  BY DEF Inv, RowInv, RowTypes
<1>3. CASE InsertPush(s, t)
  BY <1>1, <1>3 DEF InsertPush, StatementEnds, InTxn, NewVersion
<1>4. ASSUME NEW T \in SUBSET rows, \A r \in T : r.table = t, NEW id
      PROVE  {r \in EndedBy(rows, T, id) : r.table = tb} = {r \in rows : r.table = tb}
  BY <1>1, <1>2, <1>4 DEF EndedBy, Versions
<1>5. CASE Update(s, t)
  <2>1. rows' = EndedBy(rows, UpdateTargets(t, txn_id[s]), txn_id[s])
                \cup Successors(UpdateTargets(t, txn_id[s]), t, txn_id[s])
    BY <1>5 DEF Update, StatementEnds, InTxn
  <2>2. \A r \in Successors(UpdateTargets(t, txn_id[s]), t, txn_id[s]) : r.table = t
    BY SuccessorsAreNew
  <2>3. {r \in EndedBy(rows, UpdateTargets(t, txn_id[s]), txn_id[s]) : r.table = tb} = {r \in rows : r.table = tb}
    BY <1>4 DEF UpdateTargets
  <2> QED
    BY <1>1, <2>1, <2>2, <2>3
<1>6. CASE DeleteSoft(s, t)
  <2>1. rows' = EndedBy(rows, LiveVersions(t), txn_id[s])
    BY <1>6 DEF DeleteSoft, StatementEnds, InTxn
  <2> QED
    BY <1>4, <2>1 DEF LiveVersions
<1>7. CASE DeleteHard(s, t)
  BY <1>7 DEF DeleteHard, Inv, Control, StatementsPlaced, Runs, NoStmt
<1> QED
  BY <1>3, <1>5, <1>6, <1>7

\* No step changes what a quiet snapshot shows of a table its own transaction leaves alone; only a
\* snapshot that lists other transactions may lose versions, to the vacuum.
LEMMA SnapshotStable ==
    ASSUME Inv, ReadTypes, QuietInv, [Next]_vars, NEW s \in Sessions, QuietReader(s), pc'[s] = "open",
           NEW tb \in Tables, tb \notin dirty'[s]
    PROVE  /\ ShowsNoMore(s, tb, rows, rows')
           /\ ctx[s].in_progress = {} => ShowsNoMore(s, tb, rows', rows)
<1>0. CASE rows' = rows
  BY <1>0, ShowsSubset
<1>1. \A r \in rows : r.xmax \in Nat
  BY DEF Inv, RowInv, RowTypes, Versions, Ids
<1>2. txn_id[s] \in active_txn_ids
  BY DEF QuietReader, Inv, Control, IdsOwned, Active
<1>3. ASSUME NEW u \in Sessions, Transaction(u), rows' # rows
      PROVE  /\ ShowsNoMore(s, tb, rows, rows')
             /\ ctx[s].in_progress = {} => ShowsNoMore(s, tb, rows', rows)
  <2>1. CASE Rollback(u) \/ CommitRefused(u)
    <3>1. rows' = {Undone(r, txn_id[u]) : r \in {r \in rows : r.xmin # txn_id[u]}}
      BY <2>1 DEF Rollback, CommitRefused, apply_rollback, Undone
    <3>2. u # s /\ txn_id[u] # 0
      BY <2>1 DEF Rollback, CommitRefused, apply_rollback, EndSession, Ready, InTxn, Inv, Control, ControlTypes,
                  IdsOwned, HasId
    <3> QED
      BY <3>1, <3>2, OthersAreForeign, UndoShowsSame DEF Inv, RowInv, RowTypes
  <2>2. CASE CommitFinish(u)
    <3>1. txn_id[s] \in active_txn_ids \ {txn_id[u]}
      BY <1>2, <2>2 DEF CommitFinish, EndSession, QuietReader, Inv, Control, IdsOwned, IdIsOwn, HasId
    <3>2. rows' \in MaybeVacuumed(rows, dirty[u], active_txn_ids \ {txn_id[u]})
      BY <2>2 DEF CommitFinish
    <3> QED
      BY <1>1, <3>1, <3>2, VacuumRemoves, VacuumSpares, ShowsSubset
  <2> QED
    BY <1>3, <2>1, <2>2 DEF Transaction, BeginSnapshot, BeginRegister, CommitPhase1, rowVars
<1>4. ASSUME NEW u \in Sessions, NEW t \in Tables, Statement(u, t), rows' # rows
      PROVE  /\ ShowsNoMore(s, tb, rows, rows')
             /\ ctx[s].in_progress = {} => ShowsNoMore(s, tb, rows', rows)
  <2>1. InsertPush(u, t) \/ Update(u, t) \/ DeleteSoft(u, t) \/ DeleteHard(u, t)
    BY <1>4 DEF Statement, Select, AutoInsertTag, AutoUpdateTag, AutoDeleteTag, TakeId, InsertClaim,
                InsertDuplicate, rowVars
  <2>2. CASE u = s
    BY <2>1, <2>2, OwnChangeElsewhere DEF QuietReader, ShowsNoMore
  <2>3. ASSUME u # s, InsertPush(u, t)
        PROVE  /\ ShowsNoMore(s, tb, rows, rows')
               /\ ctx[s].in_progress = {} => ShowsNoMore(s, tb, rows', rows)
    <3>1. txn_id[u] # 0
      BY <2>3 DEF InsertPush, Runs, NoStmt, Inv, Control, IdsOwned, HasId
    <3>2. EndedBy(rows, {}, txn_id[u]) = rows
      BY DEF EndedBy
    <3>3. StatementEnds(u, t, EndedBy(rows, {}, txn_id[u]) \cup {NewVersion(t, txn_id[u], next_ver)}, {t})
      BY <2>3, <3>2 DEF InsertPush
    <3>4. \A x \in {NewVersion(t, txn_id[u], next_ver)} : x.xmin = txn_id[u] /\ x.xmax = 0
      BY DEF NewVersion
    <3> QED
      BY <2>3, <3>1, <3>3, <3>4, StatementShowsSame
  <2>4. ASSUME u # s, Update(u, t)
        PROVE  /\ ShowsNoMore(s, tb, rows, rows')
               /\ ctx[s].in_progress = {} => ShowsNoMore(s, tb, rows', rows)
    <3> DEFINE T == UpdateTargets(t, txn_id[u])
               N == Successors(T, t, txn_id[u])
    <3>1. txn_id[u] # 0 /\ TableOpen(u, t)
      BY <2>4 DEF Update, Ready, InTxn, Runs, NoStmt, Inv, Control, IdsOwned, HasId
    <3>2. StatementEnds(u, t, EndedBy(rows, T, txn_id[u]) \cup N, {t}) /\ (T # {} => Claimable(t, txn_id[u]))
      BY <2>4 DEF Update
    <3>3. T \in SUBSET rows /\ \A r \in T : r.xmax = 0
      BY <3>1, <3>2, TargetsAreLive DEF Inv, UpdateTargets, LiveVersions, is_visible
    <3>4. \A x \in N : x.xmin = txn_id[u] /\ x.xmax = 0
      BY SuccessorsAreNew
    <3> HIDE DEF T, N
    <3> QED
      BY <2>4, <3>1, <3>2, <3>3, <3>4, StatementShowsSame
  <2>5. ASSUME u # s, DeleteSoft(u, t)
        PROVE  /\ ShowsNoMore(s, tb, rows, rows')
               /\ ctx[s].in_progress = {} => ShowsNoMore(s, tb, rows', rows)
    <3>1. txn_id[u] # 0
      BY <2>5 DEF DeleteSoft, Ready, InTxn, Runs, NoStmt, Inv, Control, IdsOwned, HasId
    <3>2. EndedBy(rows, LiveVersions(t), txn_id[u]) \cup {} = EndedBy(rows, LiveVersions(t), txn_id[u])
      OBVIOUS
    <3>3. StatementEnds(u, t, EndedBy(rows, LiveVersions(t), txn_id[u]) \cup {}, {})
      BY <2>5, <3>2 DEF DeleteSoft
    <3>4. LiveVersions(t) \in SUBSET rows /\ \A r \in LiveVersions(t) : r.xmax = 0
      BY DEF LiveVersions, is_visible
    <3> QED
      BY <2>5, <3>1, <3>3, <3>4, StatementShowsSame
  <2>6. ~DeleteHard(u, t)
    BY DEF DeleteHard, QuietInv, QuietNoErase, QuietReader, Quietly
  <2> QED
    BY <2>1, <2>2, <2>3, <2>4, <2>5, <2>6
<1>5. CASE Vacuum
  <2>1. rows' \in MaybeVacuumed(rows, Tables, active_txn_ids)
    BY <1>5 DEF Vacuum
  <2> QED
    BY <1>1, <1>2, <2>1, VacuumRemoves, VacuumSpares, ShowsSubset
<1> QED
  BY <1>0, <1>3, <1>4, <1>5 DEF Next, LockWaitFails, rowVars, vars

\* Only an autocommit statement fails without its transaction.
LEMMA FailsIdle ==
    ASSUME Inv, NEW u \in Sessions, LockWaitFails(u)
    PROVE  pc[u] = "idle"
<1>1. stmt[u].op \in {"insert", "update", "delete"}
  BY DEF LockWaitFails
<1>2. stmt[u] # NoStmt /\ stmt[u].op # "push"
  BY <1>1 DEF NoStmt
<1>3. StatementsPlaced
  BY DEF Inv, Control
<1> QED
  BY <1>2, <1>3 DEF StatementsPlaced

\* A transaction that is open was open before, or has just registered; it keeps its snapshot, and the
\* first SELECT of a table records what it shows.
LEMMA ReaderStays ==
    ASSUME Inv, ReadTypes, [Next]_vars, NEW s \in Sessions, pc'[s] = "open", NEW tb \in Tables
    PROVE  \/ pc[s] = "begun" /\ seen'[s] = seen[s]
           \/ /\ pc[s] = "open" /\ txn_id'[s] = txn_id[s] /\ ctx'[s] = ctx[s] /\ level'[s] = level[s]
              /\ quiet'[s] = quiet[s] /\ dirty[s] \subseteq dirty'[s]
              /\ \/ seen'[s][tb] = seen[s][tb]
                 \/ seen[s][tb] = Unread /\ seen'[s][tb] = Vers(Read(s, tb)) /\ rows' = rows
<1> DEFINE Stays == \/ pc[s] = "begun" /\ seen'[s] = seen[s]
                    \/ /\ pc[s] = "open" /\ txn_id'[s] = txn_id[s] /\ ctx'[s] = ctx[s] /\ level'[s] = level[s]
                       /\ quiet'[s] = quiet[s] /\ dirty[s] \subseteq dirty'[s]
                       /\ \/ seen'[s][tb] = seen[s][tb]
                          \/ seen[s][tb] = Unread /\ seen'[s][tb] = Vers(Read(s, tb)) /\ rows' = rows
<1> USE DEF Inv, Control, ControlTypes, ReadTypes, idVars, readVars, history
<1>1. ASSUME NEW u \in Sessions, Transaction(u) PROVE Stays
  <2>1. ASSUME NEW l \in Levels, BeginSnapshot(u, l) PROVE Stays
    BY <2>1 DEF BeginSnapshot
  <2>2. CASE BeginRegister(u)
    BY <2>2 DEF BeginRegister
  <2>3. EndSession(u) => u # s
    BY DEF EndSession
  <2>4. CASE Rollback(u) \/ CommitRefused(u)
    BY <2>3, <2>4 DEF Rollback, CommitRefused, apply_rollback, EndSession
  <2>5. CASE CommitPhase1(u)
    BY <2>5 DEF CommitPhase1
  <2>6. CASE CommitFinish(u)
    BY <2>3, <2>6 DEF CommitFinish, EndSession
  <2> QED
    BY <1>1, <2>1, <2>2, <2>4, <2>5, <2>6 DEF Transaction
<1>2. ASSUME NEW u \in Sessions, LockWaitFails(u) PROVE Stays
  <2>1. pc[u] = "idle"
    BY <1>2, FailsIdle
  <2> QED
    BY <1>2, <2>1 DEF LockWaitFails
<1>3. ASSUME NEW u \in Sessions, NEW t \in Tables, Statement(u, t) PROVE Stays
  <2>1. CASE Select(u, t)
    <3>1. seen'[s][tb] = seen[s][tb] \/ (seen[s][tb] = Unread /\ u = s /\ t = tb)
      BY <2>1 DEF Select
    <3>2. u = s /\ t = tb /\ seen[s][tb] = Unread => seen'[s][tb] = Vers(Read(s, tb))
      BY <2>1 DEF Select, Vers
    <3> QED
      BY <2>1, <3>1, <3>2 DEF Select, rowVars
  <2>2. CASE AutoInsertTag(u, t) \/ AutoUpdateTag(u, t) \/ AutoDeleteTag(u, t)
    <3>1. PICK op : TakeId(u, op, t)
      BY <2>2 DEF AutoInsertTag, AutoUpdateTag, AutoDeleteTag
    <3> QED
      BY <3>1 DEF TakeId, Idle
  <2>3. CASE InsertClaim(u, t)
    BY <2>3 DEF InsertClaim
  <2>4. CASE InsertDuplicate(u, t)
    BY <2>4 DEF InsertDuplicate, InTxn
  <2>5. CASE ChangesInTxn(u, t)
    <3>1. pc' = pc /\ txn_id' = txn_id /\ ctx' = ctx /\ level' = level /\ quiet' = quiet /\ seen' = seen
      BY <2>5 DEF ChangesInTxn
    <3>2. dirty[s] \subseteq dirty'[s]
      BY <2>5 DEF ChangesInTxn
    <3> QED
      BY <3>1, <3>2
  <2>6. CASE ChangesAlone(u)
    <3>1. pc' = pc /\ ctx' = ctx /\ level' = level /\ quiet' = quiet /\ seen' = seen /\ dirty' = dirty
      BY <2>6 DEF ChangesAlone
    <3>2. u # s /\ txn_id'[s] = txn_id[s]
      BY <2>6 DEF ChangesAlone
    <3> QED
      BY <3>1, <3>2
  <2> QED
    BY <1>3, <2>1, <2>2, <2>3, <2>4, <2>5, <2>6, StatementsChange DEF Statement, Changes
<1>4. CASE Vacuum
  BY <1>4 DEF Vacuum
<1>5. CASE UNCHANGED vars
  BY <1>5 DEF vars
<1> QED
  BY <1>1, <1>2, <1>3, <1>4, <1>5 DEF Next

\* The snapshot of a transaction that began quietly is repeatable: it never shows a version that the
\* first read of the table did not, and loses none if no transaction was open when it was taken.
THEOREM SnapshotsRepeat == Spec => []QuietSnapshotRepeats
<1> DEFINE AllInv == Inv /\ ReadTypes /\ QuietInv
<1>1. Init => ReadTypes /\ QuietInv /\ QuietSnapshotRepeats
  <2>1. Init => ReadTypes
    BY DEF Init, ReadTypes, NoCtx, Contexts, Ids, Unread
  <2>2. Init => QuietInv
    BY DEF Init, QuietInv, QuietCtx, QuietNoErase, UnreadUntilOpen, Quietly
  <2>3. Init => QuietSnapshotRepeats
    BY DEF Init, QuietSnapshotRepeats, Frozen, InTxn
  <2> QED
    BY <2>1, <2>2, <2>3
<1>2. ASSUME AllInv, QuietSnapshotRepeats, [Next]_vars, NEW s \in Sessions, NEW tb \in Tables,
             Frozen(s)', quiet'[s], tb \notin dirty'[s], seen'[s][tb] # Unread
      PROVE  /\ Vers(Read(s, tb))' \subseteq seen'[s][tb]
             /\ ctx'[s].in_progress = {} => Vers(Read(s, tb))' = seen'[s][tb]
  <2>1. pc'[s] = "open" /\ level'[s] \in {"RR", "SER"}
    BY <1>2 DEF Frozen, InTxn
  <2>2. /\ pc[s] = "open" /\ txn_id'[s] = txn_id[s] /\ ctx'[s] = ctx[s] /\ level'[s] = level[s]
        /\ quiet'[s] = quiet[s] /\ tb \notin dirty[s]
        /\ \/ seen'[s][tb] = seen[s][tb]
           \/ seen[s][tb] = Unread /\ seen'[s][tb] = Vers(Read(s, tb)) /\ rows' = rows
    <3>1. ~(pc[s] = "begun" /\ seen'[s] = seen[s])
      BY <1>2 DEF QuietInv, UnreadUntilOpen
    <3> QED
      BY <1>2, <2>1, <3>1, ReaderStays
  <2>3. QuietReader(s)
    BY <1>2, <2>1, <2>2 DEF QuietReader, Keeps
  <2>4. Read(s, tb) = {r \in rows : r.table = tb /\ Sees(s, r)}
    BY <2>1, <2>2 DEF Read, Sees, current_read_ctx
  <2>5. Read(s, tb)' = {r \in rows' : r.table = tb /\ Sees(s, r)}
    BY <2>1, <2>2 DEF Read, Sees, current_read_ctx
  <2>6. /\ ShowsNoMore(s, tb, rows, rows')
        /\ ctx[s].in_progress = {} => ShowsNoMore(s, tb, rows', rows)
    BY <1>2, <2>1, <2>3, SnapshotStable
  <2>7. ASSUME NEW v \in Vers(Read(s, tb))' PROVE v \in Vers(Read(s, tb))
    BY <2>4, <2>5, <2>6, <2>7 DEF Vers, ShowsNoMore
  <2>8. ASSUME ctx[s].in_progress = {}, NEW v \in Vers(Read(s, tb)) PROVE v \in Vers(Read(s, tb))'
    BY <2>4, <2>5, <2>6, <2>8 DEF Vers, ShowsNoMore
  <2>9. CASE seen'[s][tb] = seen[s][tb]
    <3>1. /\ Vers(Read(s, tb)) \subseteq seen[s][tb]
          /\ ctx[s].in_progress = {} => Vers(Read(s, tb)) = seen[s][tb]
      BY <1>2, <2>1, <2>2, <2>9 DEF QuietSnapshotRepeats, Frozen, InTxn
    <3>2. Vers(Read(s, tb))' \subseteq seen[s][tb]
      BY <2>7, <3>1, Zenon
    <3>3. ctx[s].in_progress = {} => seen[s][tb] \subseteq Vers(Read(s, tb))'
      BY <2>8, <3>1, Zenon
    <3>4. ctx[s].in_progress = {} => Vers(Read(s, tb))' = seen[s][tb]
      BY <3>2, <3>3, Zenon
    <3> QED
      BY <2>2, <2>9, <3>2, <3>4, Zenon
  <2>10. CASE seen'[s][tb] = Vers(Read(s, tb))
    <3>1. Vers(Read(s, tb))' \subseteq Vers(Read(s, tb))
      BY <2>7, Zenon
    <3>2. ctx[s].in_progress = {} => Vers(Read(s, tb)) \subseteq Vers(Read(s, tb))'
      BY <2>8, Zenon
    <3>3. ctx[s].in_progress = {} => Vers(Read(s, tb))' = Vers(Read(s, tb))
      BY <3>1, <3>2, Zenon
    <3> QED
      BY <2>2, <2>10, <3>1, <3>3, Zenon
  <2> QED
    BY <2>2, <2>9, <2>10
<1>3. AllInv /\ QuietSnapshotRepeats /\ [Next]_vars => QuietSnapshotRepeats'
  BY <1>2 DEF QuietSnapshotRepeats
<1>4. AllInv /\ [Next]_vars => (ReadTypes /\ QuietInv)'
  BY ReadTypesKept, QuietKept
<1> QED
  BY Invariant, <1>1, <1>3, <1>4, PTL DEF Spec

--------------------------------------------------------------------------------
(* What COMMIT of a SERIALIZABLE transaction finds *)

\* In the tables that a transaction has changed, only its own versions are alive.
DirtyOwnsLive ==
    \A s \in Sessions : \A r \in rows : r.table \in dirty[s] /\ is_visible(r) => r.xmin = txn_id[s]

\* A validated transaction has ended, or has its tables until it does.
DoneInv ==
    \A a \in done :
        /\ a.id \in committed \/ \E u \in Committing : a.id = txn_id[u]
        /\ \A u \in Committing : a.id = txn_id[u] => a.writes = dirty[u]

\* Of a table that has been changed by a transaction which the snapshot does not show, every version
\* the snapshot may show has been ended for good.
Overwritten ==
    \A a \in done, b \in Sessions, r \in rows :
        /\ a.id \in committed /\ Watches(b) /\ ~CommittedAsOf(a.id, ctx[b])
        /\ r.table \in a.writes /\ r.xmin # txn_id[b] /\ CommittedAsOf(r.xmin, ctx[b])
        => r.xmax # 0 /\ r.xmax \notin active_txn_ids

\* The snapshot of b shows version r, or showed it until its own transaction ended it.
Showed(b, r) ==
    \/ r.xmin = txn_id[b]
    \/ CommittedAsOf(r.xmin, ctx[b]) /\ (r.xmax \in {0, txn_id[b]} \/ ~CommittedAsOf(r.xmax, ctx[b]))

\* What the first SELECT of a table returned is still there, where nothing is vacuumed.
ReadKept ==
    \A b \in Sessions, tb \in Tables \ Busy : Watches(b) /\ seen[b][tb] # Unread =>
        \A v \in seen[b][tb] : \E r \in rows : r.table = tb /\ r.ver = v /\ Showed(b, r)

\* What is in the read set has been read.
ReadIsSeen == \A s \in Sessions : \A tb \in read_set[s] : seen[s][tb] # Unread

SerInv == DirtyOwnsLive /\ DoneInv /\ Overwritten /\ ReadKept /\ ReadIsSeen

\* The vacuum leaves the other tables alone.
LEMMA VacuumKeepsOthers ==
    ASSUME NEW R, NEW tbs, NEW active, NEW Q \in MaybeVacuumed(R, tbs, active), NEW x \in R, x.table \notin Busy
    PROVE  x \in Q
BY DEF MaybeVacuumed

LEMMA EndedFrom ==
    ASSUME rows \subseteq Versions, NEW T, NEW k, NEW x \in EndedBy(rows, T, k)
    PROVE  \E r \in rows : /\ r.table = x.table /\ r.ver = x.ver /\ r.xmin = x.xmin
                           /\ IF r \in T THEN x.xmax = k ELSE x = r
<1>1. PICK r \in rows : x = IF r \in T THEN [r EXCEPT !.xmax = k] ELSE r
  BY DEF EndedBy
<1> QED
  BY <1>1 DEF Versions

LEMMA EndedTo ==
    ASSUME rows \subseteq Versions, NEW T, NEW k, NEW r \in rows
    PROVE  \E x \in EndedBy(rows, T, k) : /\ r.table = x.table /\ r.ver = x.ver /\ r.xmin = x.xmin
                                          /\ IF r \in T THEN x.xmax = k ELSE x = r
<1>1. PICK x \in EndedBy(rows, T, k) : x = IF r \in T THEN [r EXCEPT !.xmax = k] ELSE r
  BY DEF EndedBy
<1> QED
  BY <1>1 DEF Versions

\* What a statement that may change table t makes of the versions: it ends those of T, which nobody
\* has ended, and adds versions of its own.  It ends every live one, or changes nothing.
Rewrites(u, t, T) ==
    /\ txn_id[u] # 0
    /\ \A x \in rows' : x \in EndedBy(rows, T, txn_id[u]) \/ (x.table = t /\ x.xmin = txn_id[u] /\ x.xmax = 0)
    /\ \A x \in EndedBy(rows, T, txn_id[u]) : x.table \notin Busy => x \in rows'
    /\ \/ T = LiveVersions(t) /\ Claimable(t, txn_id[u]) /\ TableOpen(u, t)
       \/ rows' \subseteq rows /\ dirty' = dirty

LEMMA EndsRewriting ==
    ASSUME Inv, NEW u \in Sessions, NEW t \in Tables, Changes(u, t), txn_id[u] # 0,
           NEW T \in SUBSET LiveVersions(t), NEW N, \A x \in N : x.table = t /\ x.xmin = txn_id[u] /\ x.xmax = 0,
           NEW V, StatementEnds(u, t, EndedBy(rows, T, txn_id[u]) \cup N, V),
           TableOpen(u, t), Claimable(t, txn_id[u]) => T = LiveVersions(t), ~Claimable(t, txn_id[u]) => T = {} /\ N = {}
    PROVE  Rewrites(u, t, T)
<1> DEFINE R == EndedBy(rows, T, txn_id[u]) \cup N
<1>1. \A x \in rows' : x \in R
  BY VacuumRemoves DEF StatementEnds
<1>2. \A x \in R : x.table \notin Busy => x \in rows'
  <2>1. CASE rows' = R
    BY <2>1
  <2>2. CASE rows' \in MaybeVacuumed(R, V, active_txn_ids)
    <3> HIDE DEF R
    <3> QED
      BY <2>2, VacuumKeepsOthers
  <2> QED
    BY <2>1, <2>2 DEF StatementEnds
<1>3. CASE Claimable(t, txn_id[u])
  BY <1>1, <1>2, <1>3 DEF Rewrites
<1>4. CASE ~Claimable(t, txn_id[u])
  <2>1. R = rows
    BY <1>4 DEF EndedBy
  <2>2. dirty' = dirty
    BY <1>4 DEF Changes, ChangesInTxn, ChangesAlone
  <2> QED
    BY <1>1, <1>2, <2>1, <2>2 DEF Rewrites
<1> QED
  BY <1>3, <1>4

LEMMA StatementRewrites ==
    ASSUME Inv, NEW u \in Sessions, NEW t \in Tables, InsertPush(u, t) \/ Update(u, t) \/ DeleteSoft(u, t)
    PROVE  \E T \in SUBSET LiveVersions(t) : Rewrites(u, t, T)
<1>1. Changes(u, t)
  BY StatementsChange DEF Inv
<1>2. txn_id[u] # 0
  BY DEF InsertPush, Update, DeleteSoft, Ready, InTxn, Runs, NoStmt, Inv, Control, IdsOwned, HasId
<1>3. CASE InsertPush(u, t)
  <2> DEFINE N == {NewVersion(t, txn_id[u], next_ver)}
  <2>1. Claimable(t, txn_id[u]) /\ TableOpen(u, t) /\ LiveVersions(t) = {}
    BY <1>3 DEF InsertPush, Inv, Control, PushHasKey, Claimable, RowInv, PushFindsNone
  <2>2. EndedBy(rows, {}, txn_id[u]) = rows
    BY DEF EndedBy
  <2>3. StatementEnds(u, t, EndedBy(rows, {}, txn_id[u]) \cup N, {t})
    BY <1>3, <2>2 DEF InsertPush
  <2>4. \A x \in N : x.table = t /\ x.xmin = txn_id[u] /\ x.xmax = 0
    BY DEF NewVersion
  <2> HIDE DEF N
  <2>5. Rewrites(u, t, {})
    BY <1>1, <1>2, <2>1, <2>3, <2>4, EndsRewriting
  <2> QED
    BY <2>5
<1>4. CASE Update(u, t)
  <2> DEFINE T == UpdateTargets(t, txn_id[u])
             N == Successors(T, t, txn_id[u])
  <2>1. TableOpen(u, t) /\ (T # {} => Claimable(t, txn_id[u])) /\ StatementEnds(u, t, EndedBy(rows, T, txn_id[u]) \cup N, {t})
    BY <1>4 DEF Update
  <2>2. Claimable(t, txn_id[u]) => T = LiveVersions(t)
    BY <1>2, <2>1, TargetsAreLive DEF Inv
  <2>3. \A x \in N : x.table = t /\ x.xmin = txn_id[u] /\ x.xmax = 0
    BY SuccessorsAreNew
  <2>4. ~Claimable(t, txn_id[u]) => T = {} /\ N = {}
    BY <2>1 DEF Successors
  <2>5. T \in SUBSET LiveVersions(t)
    BY <2>2, <2>4
  <2> HIDE DEF T, N
  <2>6. Rewrites(u, t, T)
    BY <1>1, <1>2, <2>1, <2>2, <2>3, <2>4, <2>5, EndsRewriting
  <2> QED
    BY <2>5, <2>6
<1>5. CASE DeleteSoft(u, t)
  <2> DEFINE T == LiveVersions(t)
  <2>1. TableOpen(u, t) /\ (T # {} => Claimable(t, txn_id[u])) /\ StatementEnds(u, t, EndedBy(rows, T, txn_id[u]), {})
    BY <1>5 DEF DeleteSoft
  <2>2. EndedBy(rows, T, txn_id[u]) \cup {} = EndedBy(rows, T, txn_id[u])
    OBVIOUS
  <2>3. T \in SUBSET LiveVersions(t)
    OBVIOUS
  <2>4. StatementEnds(u, t, EndedBy(rows, T, txn_id[u]) \cup {}, {})
    BY <2>1, <2>2
  <2>5. ~Claimable(t, txn_id[u]) => T = {}
    BY <2>1
  <2>6. Claimable(t, txn_id[u]) => T = LiveVersions(t)
    OBVIOUS
  <2> HIDE DEF T
  <2>7. Rewrites(u, t, T)
    BY <1>1, <1>2, <2>1, <2>3, <2>4, <2>5, <2>6, EndsRewriting
  <2> QED
    BY <2>3, <2>7
<1> QED
  BY <1>3, <1>4, <1>5

\* Only these steps change versions.
LEMMA WhoChangesRows ==
    ASSUME Inv, [Next]_vars
    PROVE  \/ rows' \subseteq rows /\ \A r \in rows : r.table \notin Busy => r \in rows'
           \/ \E u \in Sessions, t \in Tables : DeleteHard(u, t) /\ rows' \subseteq rows
           \/ \E u \in Sessions, t \in Tables : \E T \in SUBSET LiveVersions(t) :
                  Rewrites(u, t, T) /\ (InsertPush(u, t) \/ Update(u, t) \/ DeleteSoft(u, t))
           \/ \E u \in Sessions : /\ Rollback(u) \/ CommitRefused(u)
                                  /\ rows' = {Undone(r, txn_id[u]) : r \in {r \in rows : r.xmin # txn_id[u]}}
<1> DEFINE Fewer == rows' \subseteq rows /\ \A r \in rows : r.table \notin Busy => r \in rows'
<1>0. CASE rows' = rows
  BY <1>0
<1>1. ASSUME NEW u \in Sessions, CommitFinish(u) PROVE Fewer
  <2>1. rows' \in MaybeVacuumed(rows, dirty[u], active_txn_ids \ {txn_id[u]})
    BY <1>1 DEF CommitFinish
  <2> QED
    BY <2>1, VacuumRemoves, VacuumKeepsOthers
<1>2. CASE Vacuum
  <2>1. rows' \in MaybeVacuumed(rows, Tables, active_txn_ids)
    BY <1>2 DEF Vacuum
  <2>2. Fewer
    BY <2>1, VacuumRemoves, VacuumKeepsOthers
  <2> QED
    BY <2>2
<1>3. ASSUME NEW u \in Sessions, NEW t \in Tables, DeleteHard(u, t) PROVE rows' \subseteq rows
  <2>1. rows' \subseteq rows \ LiveVersions(t)
    BY <1>3, VacuumRemoves DEF DeleteHard, StatementEnds
  <2> QED
    BY <2>1
<1>4. ASSUME NEW u \in Sessions, Rollback(u) \/ CommitRefused(u)
      PROVE  rows' = {Undone(r, txn_id[u]) : r \in {r \in rows : r.xmin # txn_id[u]}}
  BY <1>4 DEF Rollback, CommitRefused, apply_rollback, Undone
<1>5. ASSUME NEW u \in Sessions, Transaction(u), rows' # rows PROVE CommitFinish(u) \/ Rollback(u) \/ CommitRefused(u)
  BY <1>5 DEF Transaction, BeginSnapshot, BeginRegister, CommitPhase1, rowVars
<1>6. ASSUME NEW u \in Sessions, NEW t \in Tables, Statement(u, t), rows' # rows
      PROVE  DeleteHard(u, t) \/ InsertPush(u, t) \/ Update(u, t) \/ DeleteSoft(u, t)
  BY <1>6 DEF Statement, Select, AutoInsertTag, AutoUpdateTag, AutoDeleteTag, TakeId, InsertClaim, InsertDuplicate,
              rowVars
<1>7. ASSUME NEW u \in Sessions, LockWaitFails(u) PROVE rows' = rows
  BY <1>7 DEF LockWaitFails, rowVars
<1> HIDE DEF Fewer
<1>8. ASSUME Next, rows' # rows
      PROVE  \/ Fewer
             \/ \E u \in Sessions, t \in Tables : DeleteHard(u, t)
             \/ \E u \in Sessions, t \in Tables : InsertPush(u, t) \/ Update(u, t) \/ DeleteSoft(u, t)
             \/ \E u \in Sessions : Rollback(u) \/ CommitRefused(u)
             \/ Vacuum
  BY <1>1, <1>5, <1>6, <1>7, <1>8 DEF Next
<1> USE DEF Fewer
<1> QED
  BY <1>0, <1>2, <1>3, <1>4, <1>8, StatementRewrites DEF vars, rowVars

\* A version is there already, with its end unless it was alive or its end undecided, or is the work
\* of a session in the middle of something.
LEMMA VersionsComeFrom ==
    ASSUME Inv, [Next]_vars, NEW x \in rows'
    PROVE  \/ \E r \in rows : /\ r.table = x.table /\ r.xmin = x.xmin
                              /\ r.xmax = 0 \/ r.xmax \in active_txn_ids \/ x.xmax = r.xmax
           \/ \E u \in Sessions : txn_id[u] # 0 /\ x.xmin = txn_id[u]
<1>0. rows \subseteq Versions
  BY DEF Inv, RowInv, RowTypes
<1>1. CASE rows' \subseteq rows
  BY <1>1
<1>2. ASSUME NEW u \in Sessions, NEW t \in Tables, NEW T \in SUBSET LiveVersions(t), Rewrites(u, t, T),
             x \in EndedBy(rows, T, txn_id[u])
      PROVE  \E r \in rows : r.table = x.table /\ r.xmin = x.xmin /\ (r.xmax = 0 \/ x.xmax = r.xmax)
  <2>1. PICK r \in rows : /\ r.table = x.table /\ r.ver = x.ver /\ r.xmin = x.xmin
                          /\ IF r \in T THEN x.xmax = txn_id[u] ELSE x = r
    BY <1>0, <1>2, EndedFrom
  <2> QED
    BY <1>2, <2>1 DEF LiveVersions, is_visible
<1>3. ASSUME NEW u \in Sessions, Rollback(u) \/ CommitRefused(u),
             rows' = {Undone(r, txn_id[u]) : r \in {r \in rows : r.xmin # txn_id[u]}}
      PROVE  \E r \in rows : /\ r.table = x.table /\ r.xmin = x.xmin
                             /\ r.xmax \in active_txn_ids \/ x.xmax = r.xmax
  <2>1. txn_id[u] \in active_txn_ids
    BY <1>3 DEF Rollback, CommitRefused, Ready, InTxn, Inv, Control, IdsOwned, Active
  <2>2. PICK r \in rows : x = Undone(r, txn_id[u])
    BY <1>3
  <2> QED
    BY <1>0, <2>1, <2>2 DEF Undone, Versions
<1> QED
  BY <1>1, <1>2, <1>3, WhoChangesRows DEF Rewrites

\* Beside a quiet transaction, a version of a table that is not vacuumed stays, or is taken back with
\* the transaction that made it; who ends it is in the middle of something.
LEMMA VersionsStay ==
    ASSUME Inv, QuietInv, [Next]_vars, NEW b \in Sessions, Quietly(b), NEW r \in rows, r.table \notin Busy
    PROVE  \/ \E x \in rows' : /\ r.table = x.table /\ r.ver = x.ver /\ r.xmin = x.xmin
                               /\ \/ x.xmax \in {0, r.xmax}
                                  \/ \E u \in Sessions : txn_id[u] # 0 /\ x.xmax = txn_id[u]
           \/ \E u \in Sessions : pc'[u] = "idle" /\ txn_id[u] # 0 /\ r.xmin = txn_id[u]
<1>0. rows \subseteq Versions
  BY DEF Inv, RowInv, RowTypes
<1>1. CASE \A q \in rows : q.table \notin Busy => q \in rows'
  BY <1>1
<1>2. \A u \in Sessions, t \in Tables : ~DeleteHard(u, t)
  BY DEF DeleteHard, QuietInv, QuietNoErase
<1>3. ASSUME NEW u \in Sessions, NEW t \in Tables, NEW T \in SUBSET LiveVersions(t), Rewrites(u, t, T)
      PROVE  \E x \in rows' : /\ r.table = x.table /\ r.ver = x.ver /\ r.xmin = x.xmin
                              /\ x.xmax = r.xmax \/ (txn_id[u] # 0 /\ x.xmax = txn_id[u])
  <2>1. PICK x \in EndedBy(rows, T, txn_id[u]) : /\ r.table = x.table /\ r.ver = x.ver /\ r.xmin = x.xmin
                                                 /\ IF r \in T THEN x.xmax = txn_id[u] ELSE x = r
    BY <1>0, EndedTo
  <2>2. x \in rows' /\ txn_id[u] # 0
    BY <1>3, <2>1 DEF Rewrites
  <2> QED
    BY <2>1, <2>2
<1>4. ASSUME NEW u \in Sessions, Rollback(u) \/ CommitRefused(u),
             rows' = {Undone(q, txn_id[u]) : q \in {q \in rows : q.xmin # txn_id[u]}}
      PROVE  \/ \E x \in rows' : /\ r.table = x.table /\ r.ver = x.ver /\ r.xmin = x.xmin
                                 /\ x.xmax \in {0, r.xmax}
             \/ pc'[u] = "idle" /\ txn_id[u] # 0 /\ r.xmin = txn_id[u]
  <2>1. pc'[u] = "idle" /\ txn_id[u] # 0
    BY <1>4 DEF Rollback, CommitRefused, apply_rollback, EndSession, Ready, InTxn, Inv, Control, ControlTypes,
                IdsOwned, HasId
  <2>2. CASE r.xmin # txn_id[u]
    <3>1. Undone(r, txn_id[u]) \in rows'
      BY <1>4, <2>2
    <3>2. LET x == Undone(r, txn_id[u]) IN r.table = x.table /\ r.ver = x.ver /\ r.xmin = x.xmin /\ x.xmax \in {0, r.xmax}
      BY <1>0 DEF Undone, Versions
    <3> QED
      BY <3>1, <3>2
  <2> QED
    BY <2>1, <2>2
<1> QED
  BY <1>1, <1>2, <1>3, <1>4, WhoChangesRows

\* What is committed stays committed.
LEMMA CommittedGrows == ASSUME Inv, [Next]_vars PROVE committed \subseteq committed'
<1> USE DEF history
<1>1. ASSUME NEW s \in Sessions, Transaction(s) PROVE committed \subseteq committed'
  BY <1>1 DEF Transaction, BeginSnapshot, BeginRegister, Rollback, CommitRefused, apply_rollback, CommitPhase1, CommitFinish
<1>2. ASSUME NEW s \in Sessions, LockWaitFails(s) PROVE committed \subseteq committed'
  BY <1>2 DEF LockWaitFails
<1>3. ASSUME NEW s \in Sessions, NEW tb \in Tables, Statement(s, tb) PROVE committed \subseteq committed'
  <2>1. CASE Changes(s, tb)
    BY <2>1 DEF Changes, ChangesInTxn, ChangesAlone
  <2>2. CASE Select(s, tb) \/ InsertClaim(s, tb) \/ InsertDuplicate(s, tb)
    BY <2>2 DEF Select, InsertClaim, InsertDuplicate
  <2>3. CASE AutoInsertTag(s, tb) \/ AutoUpdateTag(s, tb) \/ AutoDeleteTag(s, tb)
    BY <2>3 DEF AutoInsertTag, AutoUpdateTag, AutoDeleteTag, TakeId
  <2> QED
    BY <1>3, <2>1, <2>2, <2>3, StatementsChange DEF Statement, Inv
<1>4. CASE Vacuum \/ UNCHANGED vars
  BY <1>4 DEF Vacuum, vars
<1> QED
  BY <1>1, <1>2, <1>3, <1>4 DEF Next

\* A version that has been ended for good stays so.
LEMMA EndedForGood ==
    ASSUME Inv, Inv', committed \subseteq committed', NEW r \in rows, r.xmax \notin active_txn_ids
    PROVE  r.xmax \notin active_txn_ids'
<1>1. r.xmax \in committed
  BY DEF Inv, RowInv, VersionsDecided
<1>2. r.xmax \in committed'
  BY <1>1
<1>3. SUFFICES ASSUME r.xmax \in active_txn_ids' PROVE FALSE
  OBVIOUS
<1>4. IdsOwned' /\ ControlTypes'
  BY DEF Inv, Control
<1>5. PICK u \in Sessions : txn_id'[u] = r.xmax
  BY <1>3, <1>4 DEF IdsOwned
<1>6. active_txn_ids' \subseteq 1 .. next_txn_id' - 1
  BY <1>4 DEF ControlTypes
<1>7. 0 \notin active_txn_ids'
  BY <1>6
<1> QED
  BY <1>2, <1>3, <1>4, <1>5, <1>7 DEF IdsOwned, IdIsOwn

\* A transaction that watches has just taken its snapshot, or goes on with the one it has; only its
\* first SELECT of a table changes what it has read of it.
LEMMA WatcherStays ==
    ASSUME Inv, ReadTypes, [Next]_vars, NEW b \in Sessions, Watches(b)', NEW tb \in Tables
    PROVE  \/ /\ pc[b] = "idle" /\ committed' = committed /\ done' = done /\ seen' = seen
              /\ ctx'[b].cutoff = next_txn_id + 1 /\ ctx'[b].in_progress = active_txn_ids
           \/ /\ Watches(b) /\ txn_id'[b] = txn_id[b] /\ ctx'[b] = ctx[b]
              /\ \/ seen'[b][tb] = seen[b][tb]
                 \/ seen'[b][tb] = Vers(Read(b, tb)) /\ rows' = rows
<1> DEFINE Same == pc'[b] = pc[b] /\ level'[b] = level[b] /\ quiet'[b] = quiet[b] /\ txn_id'[b] = txn_id[b] /\ ctx'[b] = ctx[b]
           Goes == Watches(b) /\ txn_id'[b] = txn_id[b] /\ ctx'[b] = ctx[b]
           Starts == /\ pc[b] = "idle" /\ committed' = committed /\ done' = done /\ seen' = seen
                     /\ ctx'[b].cutoff = next_txn_id + 1 /\ ctx'[b].in_progress = active_txn_ids
<1>0. pc'[b] # "idle" /\ quiet'[b] /\ level'[b] \in {"RR", "SER"} /\ (pc'[b] = "begun" => next_txn_id' = txn_id'[b] + 1)
  BY DEF Watches, Quietly, Keeps
<1>1. next_txn_id \in Nat /\ \A v \in Sessions : txn_id[v] \in 0 .. next_txn_id - 1
  BY DEF Inv, Control, ControlTypes
<1>2. ASSUME Same, next_txn_id' \in {next_txn_id, next_txn_id + 1} PROVE Goes
  BY <1>0, <1>1, <1>2 DEF Watches, Quietly, Keeps
<1> USE DEF Inv, Control, ControlTypes, ReadTypes, idVars, readVars, history
<1>3. ASSUME NEW u \in Sessions, Transaction(u) PROVE Starts \/ (Goes /\ seen'[b] = seen[b])
  <2>1. ASSUME NEW l \in Levels, BeginSnapshot(u, l) PROVE Starts \/ (Goes /\ seen'[b] = seen[b])
    <3>1. CASE u = b
      <4>1. level'[b] = l /\ pc[b] = "idle" /\ committed' = committed /\ done' = done /\ seen' = seen
        BY <2>1, <3>1 DEF BeginSnapshot, Idle
      <4>2. ctx'[b] = [cutoff |-> next_txn_id + 1, in_progress |-> active_txn_ids]
        BY <1>0, <2>1, <3>1, <4>1 DEF BeginSnapshot
      <4> QED
        BY <4>1, <4>2
    <3>2. CASE u # b
      <4>1. Same /\ seen' = seen /\ next_txn_id' = next_txn_id + 1
        BY <2>1, <3>2 DEF BeginSnapshot
      <4> QED
        BY <1>2, <4>1
    <3> QED
      BY <3>1, <3>2
  <2>2. CASE BeginRegister(u)
    <3>1. txn_id' = txn_id /\ ctx' = ctx /\ level' = level /\ seen' = seen /\ next_txn_id' = next_txn_id
      BY <2>2 DEF BeginRegister
    <3>2. CASE u # b
      <4>1. Same
        BY <2>2, <3>1, <3>2 DEF BeginRegister
      <4> QED
        BY <1>2, <3>1, <4>1
    <3>3. CASE u = b
      <4>1. quiet[b] /\ next_txn_id = txn_id[b] + 1 /\ pc[b] = "begun"
        BY <1>0, <2>2, <3>3 DEF BeginRegister
      <4> QED
        BY <1>0, <3>1, <4>1 DEF Watches, Quietly, Keeps
    <3> QED
      BY <3>2, <3>3
  <2>3. ASSUME EndSession(u), next_txn_id' = next_txn_id PROVE Goes /\ seen'[b] = seen[b]
    <3>1. u # b
      BY <1>0, <2>3 DEF EndSession
    <3>2. Same /\ seen'[b] = seen[b]
      BY <2>3, <3>1 DEF EndSession
    <3> QED
      BY <1>2, <2>3, <3>2
  <2>4. CASE Rollback(u) \/ CommitRefused(u)
    BY <2>3, <2>4 DEF Rollback, CommitRefused, apply_rollback
  <2>5. CASE CommitFinish(u)
    BY <2>3, <2>5 DEF CommitFinish
  <2>6. CASE CommitPhase1(u)
    <3>1. txn_id' = txn_id /\ ctx' = ctx /\ level' = level /\ seen' = seen /\ next_txn_id' = next_txn_id /\ quiet' = quiet
      BY <2>6 DEF CommitPhase1
    <3>2. pc'[b] = pc[b] \/ pc[b] = "open"
      BY <2>6 DEF CommitPhase1, Ready, InTxn
    <3> QED
      BY <1>0, <3>1, <3>2 DEF Watches, Quietly, Keeps
  <2> QED
    BY <1>3, <2>1, <2>2, <2>4, <2>5, <2>6 DEF Transaction
<1>4. ASSUME NEW u \in Sessions, LockWaitFails(u) PROVE Goes /\ seen'[b] = seen[b]
  <2>1. pc[u] = "idle"
    BY <1>4, FailsIdle
  <2>2. pc' = pc /\ level' = level /\ quiet' = quiet /\ ctx' = ctx /\ seen' = seen /\ next_txn_id' = next_txn_id
    BY <1>4 DEF LockWaitFails
  <2>3. txn_id'[b] = txn_id[b]
    BY <1>0, <1>4, <2>1, <2>2 DEF LockWaitFails
  <2> QED
    BY <1>2, <2>2, <2>3
<1>5. ASSUME NEW u \in Sessions, NEW t \in Tables, Statement(u, t)
      PROVE  Goes /\ (seen'[b][tb] = seen[b][tb] \/ (seen'[b][tb] = Vers(Read(b, tb)) /\ rows' = rows))
  <2>1. CASE Select(u, t)
    <3>1. Same /\ next_txn_id' = next_txn_id /\ rows' = rows
      BY <2>1 DEF Select, rowVars
    <3>2. seen'[b][tb] = seen[b][tb] \/ (seen[b][tb] = Unread /\ u = b /\ t = tb)
      BY <2>1 DEF Select
    <3>3. u = b /\ t = tb /\ seen[b][tb] = Unread => seen'[b][tb] = Vers(Read(b, tb))
      BY <2>1 DEF Select, Vers
    <3> QED
      BY <1>2, <3>1, <3>2, <3>3
  <2>2. CASE AutoInsertTag(u, t) \/ AutoUpdateTag(u, t) \/ AutoDeleteTag(u, t)
    <3>1. PICK op : TakeId(u, op, t)
      BY <2>2 DEF AutoInsertTag, AutoUpdateTag, AutoDeleteTag
    <3>2. u # b
      BY <1>0, <3>1 DEF TakeId, Idle
    <3>3. Same /\ seen' = seen /\ next_txn_id' = next_txn_id + 1
      BY <3>1, <3>2 DEF TakeId
    <3> QED
      BY <1>2, <3>3
  <2>3. CASE InsertClaim(u, t)
    <3>1. Same /\ seen' = seen /\ next_txn_id' = next_txn_id
      BY <2>3 DEF InsertClaim
    <3> QED
      BY <1>2, <3>1
  <2>4. CASE InsertDuplicate(u, t)
    <3>1. pc' = pc /\ level' = level /\ quiet' = quiet /\ ctx' = ctx /\ seen' = seen /\ next_txn_id' = next_txn_id
      BY <2>4 DEF InsertDuplicate
    <3>2. pc[b] # "begun" \/ u # b
      BY <2>4 DEF InsertDuplicate, Ready, InTxn, Runs, NoStmt, StatementsPlaced
    <3>3. txn_id'[b] = txn_id[b]
      <4>1. CASE u # b
        BY <2>4, <4>1 DEF InsertDuplicate
      <4>2. CASE u = b
        <5>1. InTxn(b)
          BY <1>0, <2>4, <3>1, <4>2 DEF InsertDuplicate, Ready, InTxn, Runs, NoStmt, StatementsPlaced
        <5> QED
          BY <2>4, <4>2, <5>1 DEF InsertDuplicate
      <4> QED
        BY <4>1, <4>2
    <3> QED
      BY <1>2, <3>1, <3>3
  <2>5. CASE ChangesInTxn(u, t)
    <3>1. Same /\ seen' = seen /\ next_txn_id' = next_txn_id
      BY <2>5 DEF ChangesInTxn
    <3> QED
      BY <1>2, <3>1
  <2>6. CASE ChangesAlone(u)
    <3>1. pc' = pc /\ level' = level /\ quiet' = quiet /\ ctx' = ctx /\ seen' = seen /\ next_txn_id' = next_txn_id
      BY <2>6 DEF ChangesAlone
    <3>2. u # b /\ txn_id'[b] = txn_id[b]
      BY <1>0, <2>6, <3>1 DEF ChangesAlone
    <3> QED
      BY <1>2, <3>1, <3>2
  <2> QED
    BY <1>5, <2>1, <2>2, <2>3, <2>4, <2>5, <2>6, StatementsChange DEF Statement, Changes
<1>6. CASE Vacuum \/ UNCHANGED vars
  <2>1. Same /\ seen' = seen /\ next_txn_id' = next_txn_id
    BY <1>6 DEF Vacuum, vars
  <2> QED
    BY <1>2, <2>1
<1> QED
  BY <1>3, <1>4, <1>5, <1>6 DEF Next

\* A step ends one committing transaction at most, and validates one.
LEMMA DoneKept == ASSUME Inv, DoneInv, [Next]_vars PROVE DoneInv'
<1>1. ASSUME done' = done, committed \subseteq committed', Committing' = Committing,
             \A u \in Committing : txn_id'[u] = txn_id[u] /\ dirty'[u] = dirty[u]
      PROVE  DoneInv'
  <2>1. SUFFICES ASSUME NEW a \in done
                 PROVE  /\ a.id \in committed' \/ \E u \in Committing : a.id = txn_id'[u]
                        /\ \A u \in Committing : a.id = txn_id'[u] => a.writes = dirty'[u]
    BY <1>1 DEF DoneInv
  <2> QED
    BY <1>1 DEF DoneInv
<1> USE DEF Inv, Control, ControlTypes, history
<1>2. ASSUME pc' = pc PROVE Committing' = Committing
  BY <1>2 DEF Committing
<1>3. ASSUME NEW s \in Sessions, Transaction(s) PROVE DoneInv'
  <2>1. CASE (\E l \in Levels : BeginSnapshot(s, l)) \/ BeginRegister(s)
    <3>1. done' = done /\ committed' = committed /\ dirty' = dirty
      BY <2>1 DEF BeginSnapshot, BeginRegister
    <3>2. Committing' = Committing /\ s \notin Committing
      BY <2>1 DEF BeginSnapshot, BeginRegister, Idle, Committing
    <3>3. \A u \in Committing : txn_id'[u] = txn_id[u]
      BY <2>1, <3>2 DEF BeginSnapshot, BeginRegister, Committing
    <3> QED
      BY <1>1, <3>1, <3>2, <3>3
  <2>2. CASE Rollback(s) \/ CommitRefused(s)
    <3>1. done' = done /\ committed' = committed /\ EndSession(s) /\ pc[s] = "open"
      BY <2>2 DEF Rollback, CommitRefused, apply_rollback, Ready, InTxn
    <3>2. Committing' = Committing /\ s \notin Committing
      BY <3>1 DEF EndSession, Committing
    <3>3. \A u \in Committing : txn_id'[u] = txn_id[u] /\ dirty'[u] = dirty[u]
      BY <3>1, <3>2 DEF EndSession, Committing
    <3> QED
      BY <1>1, <3>1, <3>2, <3>3
  <2>3. CASE CommitPhase1(s)
    <3>1. txn_id' = txn_id /\ dirty' = dirty /\ committed' = committed /\ Committing' = Committing \cup {s} /\ s \notin Committing
      BY <2>3 DEF CommitPhase1, Committing, Ready, InTxn
    <3>2. \A a \in done' : a \in done \/ (a.id = txn_id[s] /\ a.writes = dirty[s])
      BY <2>3 DEF CommitPhase1
    <3>3. txn_id[s] # 0 /\ txn_id[s] \notin committed /\ \A u \in Sessions : u # s => txn_id[u] # txn_id[s]
      BY <2>3 DEF CommitPhase1, Ready, InTxn, IdsOwned, HasId, IdIsOwn
    <3>4. ASSUME NEW a \in done PROVE a.id # txn_id[s]
      BY <3>1, <3>3 DEF DoneInv, Committing
    <3>5. ASSUME NEW a \in done'
          PROVE  /\ a.id \in committed \/ \E u \in Committing \cup {s} : a.id = txn_id[u]
                 /\ \A u \in Committing \cup {s} : a.id = txn_id[u] => a.writes = dirty[u]
      <4>1. CASE a \in done
        BY <3>4, <4>1 DEF DoneInv
      <4>2. CASE a.id = txn_id[s] /\ a.writes = dirty[s]
        BY <3>1, <3>3, <4>2 DEF Committing
      <4> QED
        BY <3>2, <4>1, <4>2
    <3> QED
      BY <3>1, <3>5 DEF DoneInv
  <2>4. CASE CommitFinish(s)
    <3>1. done' = done /\ committed' = committed \cup {txn_id[s]} /\ Committing' = Committing \ {s}
      BY <2>4 DEF CommitFinish, EndSession, Committing
    <3>2. \A u \in Committing \ {s} : txn_id'[u] = txn_id[u] /\ dirty'[u] = dirty[u]
      BY <2>4 DEF CommitFinish, EndSession, Committing
    <3> QED
      BY <3>1, <3>2 DEF DoneInv
  <2> QED
    BY <1>3, <2>1, <2>2, <2>3, <2>4 DEF Transaction
<1>4. ASSUME NEW s \in Sessions, LockWaitFails(s) PROVE DoneInv'
  <2>1. pc[s] = "idle"
    BY <1>4, FailsIdle
  <2>2. pc' = pc /\ done' = done /\ committed' = committed /\ dirty' = dirty
    BY <1>4 DEF LockWaitFails
  <2>3. \A u \in Committing : txn_id'[u] = txn_id[u]
    BY <1>4, <2>1 DEF LockWaitFails, Committing
  <2> QED
    BY <1>1, <1>2, <2>2, <2>3
<1>5. ASSUME NEW s \in Sessions, NEW tb \in Tables, Statement(s, tb) PROVE DoneInv'
  <2>1. CASE Changes(s, tb)
    <3>1. pc' = pc /\ committed \subseteq committed' /\ done' = done
      BY <2>1 DEF Changes, ChangesInTxn, ChangesAlone
    <3>2. \A u \in Committing : txn_id'[u] = txn_id[u] /\ dirty'[u] = dirty[u]
      BY <2>1 DEF Changes, ChangesInTxn, ChangesAlone, Committing
    <3> QED
      BY <1>1, <1>2, <3>1, <3>2
  <2>2. CASE Select(s, tb) \/ InsertClaim(s, tb)
    <3>1. pc' = pc /\ committed' = committed /\ done' = done /\ txn_id' = txn_id /\ dirty' = dirty
      BY <2>2 DEF Select, InsertClaim
    <3> QED
      BY <1>1, <1>2, <3>1
  <2>3. CASE InsertDuplicate(s, tb)
    <3>1. pc' = pc /\ committed' = committed /\ done' = done /\ dirty' = dirty
      BY <2>3 DEF InsertDuplicate
    <3>2. pc[s] # "committing"
      BY <2>3 DEF InsertDuplicate, Ready, InTxn, Runs, NoStmt, StatementsPlaced
    <3>3. \A u \in Committing : txn_id'[u] = txn_id[u]
      BY <2>3, <3>2 DEF InsertDuplicate, Committing
    <3> QED
      BY <1>1, <1>2, <3>1, <3>3
  <2>4. CASE AutoInsertTag(s, tb) \/ AutoUpdateTag(s, tb) \/ AutoDeleteTag(s, tb)
    <3>1. PICK op : TakeId(s, op, tb)
      BY <2>4 DEF AutoInsertTag, AutoUpdateTag, AutoDeleteTag
    <3>2. pc' = pc /\ committed' = committed /\ done' = done /\ dirty' = dirty
      BY <3>1 DEF TakeId
    <3>3. \A u \in Committing : txn_id'[u] = txn_id[u]
      BY <3>1 DEF TakeId, Idle, Committing
    <3> QED
      BY <1>1, <1>2, <3>2, <3>3
  <2> QED
    BY <1>5, <2>1, <2>2, <2>3, <2>4, StatementsChange DEF Statement
<1>6. CASE Vacuum \/ UNCHANGED vars
  <2>1. pc' = pc /\ committed' = committed /\ done' = done /\ txn_id' = txn_id /\ dirty' = dirty
    BY <1>6 DEF Vacuum, vars
  <2> QED
    BY <1>1, <1>2, <2>1
<1> QED
  BY <1>3, <1>4, <1>5, <1>6 DEF Next

\* A transaction is new among the validated and ended ones when its COMMIT ends.
LEMMA NewlyEnded ==
    ASSUME Inv, DoneInv, [Next]_vars, NEW a \in done', a.id \in committed'
    PROVE  /\ a \in done
           /\ \/ a.id \in committed
              \/ \E u \in Sessions : CommitFinish(u) /\ a.id = txn_id[u] /\ a.writes = dirty[u]
<1> DEFINE Ended == a \in done /\ (a.id \in committed \/ \E u \in Sessions : CommitFinish(u) /\ a.id = txn_id[u] /\ a.writes = dirty[u])
<1> USE DEF history
<1>1. CASE done' = done /\ committed' = committed
  BY <1>1
<1>2. ASSUME NEW s \in Sessions, CommitPhase1(s) PROVE Ended
  <2>1. committed' = committed /\ (a \in done \/ a.id = txn_id[s])
    BY <1>2 DEF CommitPhase1
  <2>2. txn_id[s] \notin committed
    BY <1>2 DEF CommitPhase1, Ready, InTxn, Inv, Control, IdsOwned, HasId, IdIsOwn
  <2> QED
    BY <2>1, <2>2
<1>3. ASSUME NEW s \in Sessions, CommitFinish(s) PROVE Ended
  <2>1. done' = done /\ committed' = committed \cup {txn_id[s]} /\ s \in Committing
    BY <1>3 DEF CommitFinish, Committing
  <2> QED
    BY <1>3, <2>1 DEF DoneInv
<1>4. ASSUME NEW s \in Sessions, NEW tb \in Tables, Changes(s, tb) PROVE Ended
  <2>1. CASE ChangesInTxn(s, tb)
    BY <1>1, <2>1 DEF ChangesInTxn
  <2>2. CASE ChangesAlone(s)
    <3>1. done' = done /\ committed' = committed \cup {txn_id[s]} /\ pc[s] = "idle" /\ txn_id[s] # 0
      BY <2>2 DEF ChangesAlone, Inv, Control, IdsOwned, HasId
    <3>2. a.id # txn_id[s]
      <4>1. ASSUME NEW u \in Committing PROVE txn_id[u] # txn_id[s]
        BY <3>1, <4>1 DEF Inv, Control, IdsOwned, IdIsOwn, Committing
      <4>2. txn_id[s] \notin committed
        BY <3>1 DEF Inv, Control, IdsOwned, IdIsOwn
      <4> QED
        BY <3>1, <4>1, <4>2 DEF DoneInv
    <3> QED
      BY <3>1, <3>2
  <2> QED
    BY <1>4, <2>1, <2>2 DEF Changes
<1>5. ASSUME NEW s \in Sessions, Transaction(s) PROVE Ended
  BY <1>1, <1>2, <1>3, <1>5 DEF Transaction, BeginSnapshot, BeginRegister, Rollback, CommitRefused, apply_rollback
<1>6. ASSUME NEW s \in Sessions, NEW tb \in Tables, Statement(s, tb) PROVE Ended
  <2>1. CASE Select(s, tb) \/ InsertClaim(s, tb) \/ InsertDuplicate(s, tb)
    BY <1>1, <2>1 DEF Select, InsertClaim, InsertDuplicate
  <2>2. CASE AutoInsertTag(s, tb) \/ AutoUpdateTag(s, tb) \/ AutoDeleteTag(s, tb)
    BY <1>1, <2>2 DEF AutoInsertTag, AutoUpdateTag, AutoDeleteTag, TakeId
  <2> QED
    BY <1>4, <1>6, <2>1, <2>2, StatementsChange DEF Statement, Inv
<1>7. CASE Vacuum \/ UNCHANGED vars
  BY <1>1, <1>7 DEF Vacuum, vars
<1>8. ASSUME NEW s \in Sessions, LockWaitFails(s) PROVE Ended
  BY <1>1, <1>8 DEF LockWaitFails
<1> QED
  BY <1>5, <1>6, <1>7, <1>8 DEF Next

\* A session that may change a table finds nobody else having changed it.
LEMMA DirtyElsewhere ==
    ASSUME Control, NEW s \in Sessions, NEW u \in Sessions, u # s, NEW tb \in dirty[s],
           Claimable(tb, txn_id[u]), TableOpen(u, tb)
    PROVE  FALSE
<1>1. Active(s)
  BY DEF Control, StatementsPlaced
<1>2. CASE pc[s] = "open"
  <2>1. lock[tb] = txn_id[s] /\ txn_id[s] # 0 /\ txn_id[s] # txn_id[u]
    BY <1>2 DEF Control, DirtyIsLocked, IdsOwned, HasId, IdIsOwn
  <2> QED
    BY <2>1 DEF Claimable
<1>3. CASE pc[s] = "committing"
  BY <1>3 DEF TableOpen
<1> QED
  BY <1>1, <1>2, <1>3 DEF Active

\* The tables a session has changed are its own business: only its own statements add to them, and
\* its id stays while it has any.
LEMMA DirtyChanges ==
    ASSUME Inv, [Next]_vars, NEW s \in Sessions, NEW tb \in dirty'[s]
    PROVE  /\ txn_id'[s] = txn_id[s]
           /\ tb \in dirty[s] \/ InsertPush(s, tb) \/ Update(s, tb) \/ DeleteSoft(s, tb)
<1>0. dirty[s] # {} => pc[s] \in {"open", "committing"}
  BY DEF Inv, Control, StatementsPlaced, Active
<1> USE DEF Inv, Control, ControlTypes
<1>1. ASSUME NEW u \in Sessions, Transaction(u) PROVE tb \in dirty[s] /\ txn_id'[s] = txn_id[s]
  <2>1. CASE \E l \in Levels : BeginSnapshot(u, l)
    BY <1>0, <2>1 DEF BeginSnapshot, Idle
  <2>2. CASE BeginRegister(u)
    BY <2>2 DEF BeginRegister
  <2>3. ASSUME EndSession(u) PROVE tb \in dirty[s] /\ txn_id'[s] = txn_id[s]
    BY <2>3 DEF EndSession
  <2>4. CASE CommitPhase1(u)
    BY <2>4 DEF CommitPhase1
  <2> QED
    BY <1>1, <2>1, <2>2, <2>3, <2>4 DEF Transaction, Rollback, CommitRefused, apply_rollback, CommitFinish
<1>2. ASSUME NEW u \in Sessions, LockWaitFails(u) PROVE tb \in dirty[s] /\ txn_id'[s] = txn_id[s]
  <2>1. pc[u] = "idle"
    BY <1>2, FailsIdle
  <2> QED
    BY <1>0, <1>2, <2>1 DEF LockWaitFails
<1>3. ASSUME NEW u \in Sessions, NEW t \in Tables, Statement(u, t)
      PROVE  /\ txn_id'[s] = txn_id[s]
             /\ tb \in dirty[s] \/ InsertPush(s, tb) \/ Update(s, tb) \/ DeleteSoft(s, tb)
  <2>1. CASE Select(u, t) \/ InsertClaim(u, t)
    BY <2>1 DEF Select, InsertClaim
  <2>2. CASE AutoInsertTag(u, t) \/ AutoUpdateTag(u, t) \/ AutoDeleteTag(u, t)
    <3>1. PICK op : TakeId(u, op, t)
      BY <2>2 DEF AutoInsertTag, AutoUpdateTag, AutoDeleteTag
    <3> QED
      BY <1>0, <3>1 DEF TakeId, Idle
  <2>3. CASE InsertDuplicate(u, t)
    <3>1. dirty' = dirty
      BY <2>3 DEF InsertDuplicate
    <3>2. pc[u] = "idle" \/ InTxn(u)
      BY <2>3 DEF InsertDuplicate, Ready, InTxn, Runs, NoStmt, StatementsPlaced
    <3> QED
      BY <1>0, <2>3, <3>1, <3>2 DEF InsertDuplicate, InTxn
  <2>4. CASE ChangesInTxn(u, t)
    <3>1. txn_id' = txn_id
      BY <2>4 DEF ChangesInTxn
    <3>2. tb \in dirty[s] \/ (u = s /\ tb = t)
      BY <2>4 DEF ChangesInTxn
    <3>3. ~DeleteHard(u, t)
      BY <2>4 DEF ChangesInTxn, DeleteHard, StatementsPlaced, Runs, NoStmt
    <3>4. stmt' = [stmt EXCEPT ![u] = NoStmt] /\ pc[u] = "open" /\ dirty' = [dirty EXCEPT ![u] = @ \cup {t}]
      BY <2>4 DEF ChangesInTxn
    <3>5. CASE tb \in dirty[s]
      BY <3>1, <3>5
    <3>6. ASSUME tb \notin dirty[s] PROVE InsertPush(s, tb) \/ Update(s, tb) \/ DeleteSoft(s, tb)
      <4>1. u = s /\ tb = t /\ dirty' # dirty
        BY <3>2, <3>6
      <4>2. ~(Select(u, t) \/ InsertClaim(u, t) \/ InsertDuplicate(u, t))
        BY <4>1 DEF Select, InsertClaim, InsertDuplicate
      <4>3. ~(AutoInsertTag(u, t) \/ AutoUpdateTag(u, t) \/ AutoDeleteTag(u, t))
        BY <4>1 DEF AutoInsertTag, AutoUpdateTag, AutoDeleteTag, TakeId
      <4> QED
        BY <1>3, <3>3, <4>1, <4>2, <4>3 DEF Statement
    <3> QED
      BY <3>1, <3>5, <3>6
  <2>5. CASE ChangesAlone(u)
    BY <1>0, <2>5 DEF ChangesAlone
  <2> QED
    BY <1>3, <2>1, <2>2, <2>3, <2>4, <2>5, StatementsChange DEF Statement, Changes
<1>4. CASE Vacuum \/ UNCHANGED vars
  BY <1>4 DEF Vacuum, vars
<1> QED
  BY <1>1, <1>2, <1>3, <1>4 DEF Next

\* A statement that changes a table ends every version that is alive in it.
LEMMA DirtyOwnsLiveKept == ASSUME Inv, DirtyOwnsLive, [Next]_vars PROVE DirtyOwnsLive'
<1>0. rows \subseteq Versions
  BY DEF Inv, RowInv, RowTypes
<1>1. SUFFICES ASSUME NEW s \in Sessions, NEW x \in rows', x.table \in dirty'[s], x.xmax = 0
               PROVE  x.xmin = txn_id'[s]
  BY DEF DirtyOwnsLive, is_visible
<1>2. txn_id'[s] = txn_id[s] /\ x.table \in Tables
  <2>1. x.table \in Tables
    BY <1>1, ControlKept DEF Inv, Control, ControlTypes
  <2> QED
    BY <1>1, <2>1, DirtyChanges
<1>3. ASSUME x.table \in dirty[s], x \in rows PROVE x.xmin = txn_id'[s]
  BY <1>1, <1>2, <1>3 DEF DirtyOwnsLive, is_visible
<1>4. ASSUME NEW u \in Sessions, NEW t \in Tables, InsertPush(u, t) \/ Update(u, t) \/ DeleteSoft(u, t)
      PROVE  x.xmin = txn_id'[s]
  <2>1. Changes(u, t)
    BY <1>4, StatementsChange DEF Inv
  <2>2. PICK T \in SUBSET LiveVersions(t) : Rewrites(u, t, T)
    BY <1>4, StatementRewrites
  <2>3. \A v \in Sessions, tb \in Tables : tb \in dirty'[v] => tb \in dirty[v] \/ (v = u /\ tb = t)
    BY <2>1 DEF Changes, ChangesInTxn, ChangesAlone, Inv, Control, ControlTypes
  <2>4. CASE rows' \subseteq rows /\ dirty' = dirty
    BY <1>1, <1>3, <2>4
  <2>5. CASE T = LiveVersions(t) /\ Claimable(t, txn_id[u]) /\ TableOpen(u, t)
    <3>1. CASE x \in EndedBy(rows, T, txn_id[u])
      <4>1. PICK r \in rows : IF r \in T THEN x.xmax = txn_id[u] ELSE x = r
        BY <1>0, <3>1, EndedFrom
      <4>2. x \in rows /\ x \notin T
        BY <1>1, <2>2, <4>1 DEF Rewrites
      <4>3. x.table # t
        BY <1>1, <2>5, <4>2 DEF LiveVersions, is_visible
      <4> QED
        BY <1>1, <1>2, <1>3, <2>3, <4>2, <4>3
    <3>2. CASE x.table = t /\ x.xmin = txn_id[u]
      <4>1. u = s
        <5>1. u # s => t \in dirty[s]
          BY <1>1, <2>3, <3>2
        <5> QED
          BY <2>5, <5>1, DirtyElsewhere DEF Inv
      <4> QED
        BY <1>2, <3>2, <4>1
    <3> QED
      BY <1>1, <2>2, <3>1, <3>2 DEF Rewrites
  <2> QED
    BY <2>2, <2>4, <2>5 DEF Rewrites
<1>5. ASSUME x.table \in dirty[s], NEW u \in Sessions, Rollback(u) \/ CommitRefused(u),
             rows' = {Undone(r, txn_id[u]) : r \in {r \in rows : r.xmin # txn_id[u]}}
      PROVE  x.xmin = txn_id'[s]
  <2>1. Active(u) /\ dirty'[u] = {}
    BY <1>5 DEF Rollback, CommitRefused, apply_rollback, EndSession, Ready, InTxn, Active, Inv, Control, ControlTypes
  <2>2. PICK r \in rows : x = Undone(r, txn_id[u])
    BY <1>5
  <2>3. CASE r.xmax = txn_id[u]
    <3>1. r.table \in dirty[u]
      BY <2>1, <2>3 DEF Inv, RowInv, TouchedIsDirty
    <3>2. x.table = r.table
      BY <1>0, <2>2 DEF Undone, Versions
    <3> QED
      BY <1>1, <1>5, <2>1, <3>1, <3>2 DEF Inv, Control, DirtyApart
  <2>4. CASE r.xmax # txn_id[u]
    BY <1>3, <1>5, <2>2, <2>4 DEF Undone
  <2> QED
    BY <2>3, <2>4
<1>6. CASE x.table \in dirty[s]
  BY <1>3, <1>4, <1>5, <1>6, WhoChangesRows
<1> QED
  BY <1>1, <1>2, <1>4, <1>6, DirtyChanges

\* What others commit, the snapshot never gets to show; what they commit over it stays ended.
LEMMA OverwrittenKept ==
    ASSUME Inv, ReadTypes, QuietInv, DoneInv, DirtyOwnsLive, Overwritten, [Next]_vars
    PROVE  Overwritten'
<1>1. SUFFICES ASSUME NEW a \in done', NEW b \in Sessions, NEW x \in rows',
                      a.id \in committed', Watches(b)', ~CommittedAsOf(a.id, ctx'[b]),
                      x.table \in a.writes, x.xmin # txn_id'[b], CommittedAsOf(x.xmin, ctx'[b])
               PROVE  x.xmax # 0 /\ x.xmax \notin active_txn_ids'
  BY DEF Overwritten, CommittedAsOf
<1>2. Inv' /\ committed \subseteq committed'
  BY ControlKept, RowsKept, CommittedGrows DEF Inv
<1>3. /\ a \in done
      /\ \/ a.id \in committed
         \/ \E u \in Sessions : CommitFinish(u) /\ a.id = txn_id[u] /\ a.writes = dirty[u]
  BY <1>1, NewlyEnded
<1>4. x.table \in Tables
  BY <1>2 DEF Inv, RowInv, RowTypes, Versions
<1>5. Watches(b) /\ txn_id'[b] = txn_id[b] /\ ctx'[b] = ctx[b]
  <2>1. SUFFICES ASSUME committed' = committed,
                        ctx'[b].cutoff = next_txn_id + 1, ctx'[b].in_progress = active_txn_ids
                 PROVE  FALSE
    BY <1>1, <1>4, WatcherStays
  <2>2. a.id \in committed
    BY <1>1, <2>1
  <2>3. a.id \notin active_txn_ids /\ a.id \in 0 .. next_txn_id - 1
    BY <2>2, FreshCtxDecides DEF Inv
  <2>4. a.id < next_txn_id + 1
    BY <2>3 DEF Inv, Control, ControlTypes
  <2> QED
    BY <1>1, <2>1, <2>3, <2>4 DEF CommittedAsOf
<1>6. \A u \in Sessions : u # b /\ txn_id[u] # 0 => ~CommittedAsOf(txn_id[u], ctx[b])
  BY <1>5, WatchesForeign DEF Foreign
<1>7. CASE a.id \in committed
  <2>1. PICK r \in rows : /\ r.table = x.table /\ r.xmin = x.xmin
                          /\ r.xmax = 0 \/ r.xmax \in active_txn_ids \/ x.xmax = r.xmax
    BY <1>1, <1>5, <1>6, VersionsComeFrom
  <2>2. r.xmax # 0 /\ r.xmax \notin active_txn_ids
    BY <1>1, <1>3, <1>5, <1>7, <2>1 DEF Overwritten
  <2>3. r.xmax \notin active_txn_ids'
    BY <1>2, <2>2, EndedForGood
  <2> QED
    BY <2>1, <2>2, <2>3
<1>8. ASSUME NEW u \in Sessions, CommitFinish(u), a.id = txn_id[u], a.writes = dirty[u]
      PROVE  x.xmax # 0 /\ x.xmax \notin active_txn_ids'
  <2>1. x \in rows /\ active_txn_ids' = active_txn_ids \ {txn_id[u]}
    BY <1>1, <1>8, VacuumRemoves DEF CommitFinish, EndSession
  <2>2. Active(u)
    BY <1>8 DEF CommitFinish, Active
  <2>3. ~CommittedAsOf(txn_id[u], ctx[b])
    BY <1>1, <1>5, <1>8
  <2>4. x.xmax # 0
    BY <1>1, <1>5, <1>8, <2>1, <2>3 DEF DirtyOwnsLive, is_visible
  <2>5. x.xmax \in active_txn_ids => x.xmax = txn_id[u]
    BY <1>1, <1>8, <2>1, <2>2, DirtyIsAlone DEF Inv, RowInv
  <2> QED
    BY <2>1, <2>4, <2>5
<1> QED
  BY <1>3, <1>7, <1>8

\* A version that the snapshot shows, or showed, stays such a version.
LEMMA ShowedStays ==
    ASSUME Inv, QuietInv, [Next]_vars, NEW b \in Sessions, Watches(b), pc'[b] # "idle",
           txn_id'[b] = txn_id[b], ctx'[b] = ctx[b], NEW r \in rows, r.table \notin Busy, Showed(b, r)
    PROVE  \E x \in rows' : x.table = r.table /\ x.ver = r.ver /\ Showed(b, x)'
<1>1. \A u \in Sessions : u # b /\ txn_id[u] # 0 => txn_id[u] # txn_id[b] /\ ~CommittedAsOf(txn_id[u], ctx[b])
  BY WatchesForeign DEF Foreign
<1>2. ASSUME NEW x \in rows', r.xmin = x.xmin,
             x.xmax \in {0, r.xmax} \/ \E u \in Sessions : txn_id[u] # 0 /\ x.xmax = txn_id[u]
      PROVE  Showed(b, x)'
  <2>1. CASE x.xmin = txn_id[b]
    BY <2>1 DEF Showed
  <2>2. ASSUME CommittedAsOf(x.xmin, ctx[b]), x.xmax \in {0, txn_id[b]} \/ ~CommittedAsOf(x.xmax, ctx[b])
        PROVE  Showed(b, x)'
    <3>1. CommittedAsOf(x.xmin, ctx'[b]) /\ (x.xmax \in {0, txn_id'[b]} \/ ~CommittedAsOf(x.xmax, ctx'[b]))
      BY <2>2
    <3> QED
      BY <3>1 DEF Showed, CommittedAsOf
  <2>3. CASE CommittedAsOf(r.xmin, ctx[b]) /\ (r.xmax \in {0, txn_id[b]} \/ ~CommittedAsOf(r.xmax, ctx[b]))
    BY <1>1, <1>2, <2>2, <2>3
  <2> QED
    BY <1>2, <2>1, <2>3 DEF Showed
<1>3. ASSUME NEW u \in Sessions, pc'[u] = "idle", txn_id[u] # 0, r.xmin = txn_id[u] PROVE FALSE
  BY <1>1, <1>3 DEF Showed
<1> QED
  BY <1>2, <1>3, VersionsStay DEF Watches

LEMMA ReadKeptKept ==
    ASSUME Inv, ReadTypes, QuietInv, ReadKept, [Next]_vars
    PROVE  ReadKept'
<1>1. SUFFICES ASSUME NEW b \in Sessions, NEW tb \in Tables \ Busy, Watches(b)', seen'[b][tb] # Unread,
                      NEW v \in seen'[b][tb]
               PROVE  \E r \in rows' : r.table = tb /\ r.ver = v /\ Showed(b, r)'
  BY DEF ReadKept
<1>2. pc'[b] # "idle"
  BY <1>1 DEF Watches, Quietly
<1>3. /\ Watches(b) /\ txn_id'[b] = txn_id[b] /\ ctx'[b] = ctx[b]
      /\ \/ seen'[b][tb] = seen[b][tb]
         \/ seen'[b][tb] = Vers(Read(b, tb)) /\ rows' = rows
  <2>1. pc[b] = "idle" /\ seen' = seen => seen'[b][tb] = Unread
    BY DEF QuietInv, UnreadUntilOpen
  <2> QED
    BY <1>1, <2>1, WatcherStays
<1>4. \E r \in rows : r.table = tb /\ r.ver = v /\ Showed(b, r)
  <2>1. CASE seen'[b][tb] = seen[b][tb]
    BY <1>1, <1>3, <2>1 DEF ReadKept
  <2>2. CASE seen'[b][tb] = Vers(Read(b, tb))
    <3>1. current_read_ctx(b) = ctx[b]
      BY <1>3 DEF Watches, Keeps, current_read_ctx
    <3>2. PICK r \in Read(b, tb) : r.ver = v
      BY <1>1, <2>2 DEF Vers
    <3>3. r \in rows /\ r.table = tb /\ is_visible_for_read(r, txn_id[b], ctx[b])
      BY <3>1, <3>2 DEF Read
    <3> QED
      BY <3>2, <3>3 DEF is_visible_for_read, Showed
  <2> QED
    BY <1>3, <2>1, <2>2
<1>5. PICK r \in rows : r.table = tb /\ r.ver = v /\ Showed(b, r)
  BY <1>4
<1> QED
  BY <1>1, <1>2, <1>3, <1>5, ShowedStays

LEMMA ReadIsSeenKept == ASSUME Inv, ReadTypes, ReadIsSeen, [Next]_vars PROVE ReadIsSeen'
<1> USE DEF ReadTypes, history, readVars
<1>1. ASSUME read_set' = read_set, seen' = seen PROVE ReadIsSeen'
  BY <1>1 DEF ReadIsSeen
<1>2. ASSUME NEW s \in Sessions, Transaction(s) PROVE ReadIsSeen'
  <2>1. ASSUME EndSession(s) PROVE ReadIsSeen'
    BY <2>1 DEF EndSession, ReadIsSeen
  <2> QED
    BY <1>1, <1>2, <2>1 DEF Transaction, BeginSnapshot, BeginRegister, Rollback, CommitRefused, apply_rollback,
                            CommitPhase1, CommitFinish
<1>3. ASSUME NEW s \in Sessions, LockWaitFails(s) PROVE ReadIsSeen'
  BY <1>1, <1>3 DEF LockWaitFails
<1>4. ASSUME NEW s \in Sessions, NEW tb \in Tables, Statement(s, tb) PROVE ReadIsSeen'
  <2>1. CASE Select(s, tb)
    <3>1. SUFFICES ASSUME NEW u \in Sessions, NEW t \in read_set'[u], seen'[u][t] = Unread PROVE FALSE
      BY DEF ReadIsSeen
    <3>2. \/ t \in read_set[u] /\ t \in Tables
          \/ u = s /\ t = tb /\ Read(s, tb) # {}
      BY <2>1, <3>1 DEF Select
    <3>3. CASE t \in read_set[u] /\ t \in Tables
      <4>1. seen[u][t] # Unread
        BY <3>3 DEF ReadIsSeen
      <4>2. seen'[u][t] = seen[u][t]
        BY <2>1, <3>3, <4>1 DEF Select
      <4> QED
        BY <3>1, <4>1, <4>2
    <3>4. CASE u = s /\ t = tb /\ Read(s, tb) # {}
      <4>1. PICK r \in Read(s, tb) : TRUE
        BY <3>4
      <4>2. r.ver \in 1 .. MaxVersions
        BY <4>1 DEF Read, Inv, RowInv, RowTypes, Versions
      <4>3. seen[s][tb] # Unread => seen'[s][tb] = seen[s][tb]
        BY <2>1 DEF Select
      <4>4. seen[s][tb] = Unread => r.ver \in seen'[s][tb]
        BY <2>1, <4>1 DEF Select
      <4> QED
        BY <3>1, <3>4, <4>2, <4>3, <4>4 DEF Unread
    <3> QED
      BY <3>2, <3>3, <3>4
  <2>2. CASE AutoInsertTag(s, tb) \/ AutoUpdateTag(s, tb) \/ AutoDeleteTag(s, tb)
    BY <1>1, <2>2 DEF AutoInsertTag, AutoUpdateTag, AutoDeleteTag, TakeId
  <2>3. CASE InsertClaim(s, tb) \/ InsertDuplicate(s, tb)
    BY <1>1, <2>3 DEF InsertClaim, InsertDuplicate
  <2>4. CASE Changes(s, tb)
    BY <1>1, <2>4 DEF Changes, ChangesInTxn, ChangesAlone
  <2> QED
    BY <1>4, <2>1, <2>2, <2>3, <2>4, StatementsChange DEF Statement, Inv
<1>5. CASE Vacuum \/ UNCHANGED vars
  BY <1>1, <1>5 DEF Vacuum, vars
<1> QED
  BY <1>2, <1>3, <1>4, <1>5 DEF Next

\* A SERIALIZABLE transaction that has read, before it wrote it, a table which a transaction that has
\* ended wrote behind its snapshot is refused: the version it read is no longer visible.
LEMMA ValidationFinds ==
    ASSUME Inv, ReadTypes, QuietInv, SerInv, NEW s \in Sessions, pc[s] = "open", quiet[s], level[s] = "SER",
           NEW a \in done, a.id \in committed, ~CommittedAsOf(a.id, ctx[s]),
           NEW tb \in (ReadBeforeWrite(s) \cap a.writes) \ Busy
    PROVE  ReadsAreStale(s)
<1>1. Watches(s)
  BY DEF Watches, Quietly, Keeps
<1>2. tb \in read_set[s] /\ tb \in Tables
  BY DEF ReadBeforeWrite, ReadTypes
<1>3. PICK v \in seen[s][tb] : \A r \in rows : r.table = tb /\ r.xmin = txn_id[s] => r.ver # v
  BY DEF ReadBeforeWrite
<1>4. seen[s][tb] # Unread
  BY <1>2 DEF SerInv, ReadIsSeen
<1>5. PICK r \in rows : r.table = tb /\ r.ver = v /\ Showed(s, r)
  BY <1>1, <1>2, <1>3, <1>4 DEF SerInv, ReadKept
<1>6. r.xmin # txn_id[s]
  BY <1>3, <1>5
<1>7. CommittedAsOf(r.xmin, ctx[s]) /\ (r.xmax \in {0, txn_id[s]} \/ ~CommittedAsOf(r.xmax, ctx[s]))
  BY <1>5, <1>6 DEF Showed
<1>8. r.xmax # 0 /\ r.xmax \notin active_txn_ids
  BY <1>1, <1>5, <1>6, <1>7 DEF SerInv, Overwritten
<1>9. txn_id[s] \in active_txn_ids
  BY DEF Inv, Control, IdsOwned, Active
<1>10. is_visible_for_read(r, txn_id[s], ctx[s])
  BY <1>7, <1>8, <1>9 DEF is_visible_for_read
<1>11. CommittedAsOf(r.xmax, NowCtx)
  <2>1. r.xmax \in 0 .. MaxId
    BY DEF Inv, RowInv, RowTypes, Versions, Ids
  <2>2. r.xmax < MaxId + 1
    BY <2>1
  <2> QED
    BY <1>8, <2>2 DEF CommittedAsOf, NowCtx
<1>12. ~is_visible_for_read(r, txn_id[s], NowCtx)
  BY <1>8, <1>11 DEF is_visible_for_read
<1> QED
  BY <1>2, <1>5, <1>10, <1>12 DEF ReadsAreStale

\* Of two SERIALIZABLE transactions that each read a row the other wrote, one is refused, unless one
\* was validated between the other's validation and its end, or began beside others.
LEMMA SkewKept ==
    ASSUME Inv, ReadTypes, QuietInv, SerInv, SkewNeedsARace, [Next]_vars
    PROVE  SkewNeedsARace'
<1>1. CASE done' = done
  BY <1>1 DEF SkewNeedsARace, Misses, CommittedAsOf
<1>2. ASSUME NEW s \in Sessions, CommitPhase1(s), done' # done PROVE SkewNeedsARace'
  <2> DEFINE n == [id |-> txn_id[s], ctx |-> ctx[s], reads |-> ReadBeforeWrite(s), writes |-> dirty[s],
                   quiet |-> quiet[s], beside |-> {txn_id[u] : u \in Committing}]
  <2>1. level[s] = "SER" /\ done' = done \cup {n} /\ pc[s] = "open" /\ ~ReadsAreStale(s)
    BY <1>2 DEF CommitPhase1, Ready, InTxn, SerializationFailure
  <2>2. /\ n.id = txn_id[s] /\ n.ctx = ctx[s] /\ n.reads = ReadBeforeWrite(s) /\ n.quiet = quiet[s]
        /\ n.beside = {txn_id[u] : u \in Committing}
    OBVIOUS
  <2> HIDE DEF n
  <2>3. ASSUME NEW a \in done, n.quiet, a.id \notin n.beside PROVE ~Misses(n, a)
    <3>1. a.id \in committed
      BY <2>2, <2>3 DEF SerInv, DoneInv
    <3>2. SUFFICES ASSUME Misses(n, a) PROVE FALSE
      OBVIOUS
    <3>3. PICK tb \in (ReadBeforeWrite(s) \cap a.writes) \ Busy : ~CommittedAsOf(a.id, ctx[s])
      BY <2>2, <3>2 DEF Misses
    <3>4. ReadsAreStale(s)
      BY <2>1, <2>2, <2>3, <3>1, <3>3, ValidationFinds
    <3> QED
      BY <2>1, <3>4
  <2>4. ASSUME NEW a \in done', NEW b \in done', a # b, a.quiet, b.quiet, a.id \notin b.beside, b.id \notin a.beside
        PROVE  ~(Misses(a, b) /\ Misses(b, a))
    <3>1. CASE a \in done /\ b \in done
      BY <2>4, <3>1 DEF SkewNeedsARace
    <3>2. CASE a = n /\ b \in done
      BY <2>3, <2>4, <3>2
    <3>3. CASE a \in done /\ b = n
      BY <2>3, <2>4, <3>3
    <3> QED
      BY <2>1, <2>4, <3>1, <3>2, <3>3
  <2> QED
    BY <2>4 DEF SkewNeedsARace, Misses, CommittedAsOf
<1>3. ASSUME done' # done PROVE \E s \in Sessions : CommitPhase1(s)
  <2> USE DEF history
  <2>1. ASSUME NEW s \in Sessions, Transaction(s), ~CommitPhase1(s) PROVE done' = done
    BY <2>1 DEF Transaction, BeginSnapshot, BeginRegister, Rollback, CommitRefused, apply_rollback, CommitFinish
  <2>2. ASSUME NEW s \in Sessions, NEW tb \in Tables, Statement(s, tb) PROVE done' = done
    <3>1. CASE Select(s, tb) \/ InsertClaim(s, tb) \/ InsertDuplicate(s, tb)
      BY <3>1 DEF Select, InsertClaim, InsertDuplicate
    <3>2. CASE AutoInsertTag(s, tb) \/ AutoUpdateTag(s, tb) \/ AutoDeleteTag(s, tb)
      BY <3>2 DEF AutoInsertTag, AutoUpdateTag, AutoDeleteTag, TakeId
    <3>3. CASE Changes(s, tb)
      BY <3>3 DEF Changes, ChangesInTxn, ChangesAlone
    <3> QED
      BY <2>2, <3>1, <3>2, <3>3, StatementsChange DEF Statement, Inv
  <2>3. ASSUME NEW s \in Sessions, LockWaitFails(s) PROVE done' = done
    BY <2>3 DEF LockWaitFails
  <2>4. Vacuum \/ UNCHANGED vars => done' = done
    BY DEF Vacuum, vars
  <2> QED
    BY <1>3, <2>1, <2>2, <2>3, <2>4 DEF Next
<1> QED
  BY <1>1, <1>2, <1>3

\* Two SERIALIZABLE transactions that each read a row the other wrote never both commit, unless their
\* COMMITs overlapped or one began beside others: validate_serializable misses nothing else.
THEOREM SerializableMeetsSkew == Spec => []SkewNeedsARace
<1>1. Init => ReadTypes /\ QuietInv /\ SerInv /\ SkewNeedsARace
  <2>1. Init => ReadTypes
    BY DEF Init, ReadTypes, NoCtx, Contexts, Ids, Unread
  <2>2. Init => QuietInv
    BY DEF Init, QuietInv, QuietCtx, QuietNoErase, UnreadUntilOpen, Quietly
  <2>3. Init => DirtyOwnsLive /\ DoneInv /\ ReadIsSeen
    BY DEF Init, DirtyOwnsLive, DoneInv, ReadIsSeen
  <2>4. Init => Overwritten /\ ReadKept /\ SkewNeedsARace
    BY DEF Init, Overwritten, ReadKept, SkewNeedsARace, Watches, Quietly
  <2> QED
    BY <2>1, <2>2, <2>3, <2>4 DEF SerInv
<1>2. Inv /\ ReadTypes /\ QuietInv /\ SerInv /\ SkewNeedsARace /\ [Next]_vars
          => (ReadTypes /\ QuietInv /\ SerInv /\ SkewNeedsARace)'
  <2>1. Inv /\ ReadTypes /\ QuietInv /\ [Next]_vars => ReadTypes' /\ QuietInv'
    BY ReadTypesKept, QuietKept
  <2>2. Inv /\ ReadTypes /\ QuietInv /\ SerInv /\ [Next]_vars => SerInv'
    BY DirtyOwnsLiveKept, DoneKept, OverwrittenKept, ReadKeptKept, ReadIsSeenKept DEF SerInv
  <2>3. Inv /\ ReadTypes /\ QuietInv /\ SerInv /\ SkewNeedsARace /\ [Next]_vars => SkewNeedsARace'
    BY SkewKept
  <2> QED
    BY <2>1, <2>2, <2>3
<1> QED
  BY Invariant, <1>1, <1>2, PTL DEF Spec

================================================================================
