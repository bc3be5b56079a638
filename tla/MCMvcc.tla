------------------------------ MODULE MCMvcc ------------------------------
(* Mvcc for TLC.  A behaviour is one of two kinds: READ COMMITTED and        *)
(* REPEATABLE READ transactions and autocommit statements of three sessions  *)
(* on the table that is vacuumed, or SERIALIZABLE transactions of two        *)
(* sessions on the other two.                                                *)
EXTENDS Mvcc, TLC

VARIABLE part

SessionSymmetry == Permutations(Sessions)

Untouched(tb) ==
    /\ lock[tb] = 0
    /\ \A s \in Sessions : tb \notin dirty[s] /\ seen[s][tb] = Unread /\ (stmt[s] = NoStmt \/ stmt[s].table # tb)
    /\ Cardinality({r \in rows : r.table = tb /\ is_visible(r)}) = 1

\* Bound: of the second kind there is one transaction fewer.
Kind ==
    IF part = "shared"
    THEN /\ \A tb \in Tables \ Busy : Untouched(tb)
         /\ \A s \in Sessions : InTxn(s) => level[s] # "SER"
    ELSE /\ \A tb \in Busy : Untouched(tb)
         /\ \A s \in Sessions : ~Idle(s) => pc[s] # "idle" /\ level[s] = "SER"
         /\ Cardinality({s \in Sessions : ~Idle(s)}) <= 2
         /\ next_txn_id <= MaxId

MCInit == Init /\ part \in {"shared", "serializable"}
MCNext == Next /\ UNCHANGED part /\ Kind'
MCSpec == MCInit /\ [][MCNext]_<<vars, part>>
===========================================================================
