------------------------------ MODULE Integrity ------------------------------
(***************************************************************************)
(* INSERT, UPDATE and DELETE on a table p and on a table c whose column    *)
(* ref refers to the key of p, by sessions that run at the same time       *)
(* (executor_dml.cpp, executor_update.cpp, executor_delete.cpp, with the   *)
(* checks of executor_row_check.cpp and the claims of                      *)
(* executor_update_unique.cpp).  Each action is what a statement does      *)
(* under one hold of the data locks; between two of them any session may   *)
(* do anything (Statements.tla shows that the locks make a phase atomic).  *)
(* A version's xmin and xmax name the open transaction that wrote or ended *)
(* it; Zero is what has been committed, and a version whose end has been   *)
(* committed is left out (Mvcc.tla is about who still sees it).            *)
(* Transactions are READ COMMITTED: a DELETE takes no gap range.           *)
(***************************************************************************)
EXTENDS Naturals, Sequences, FiniteSets, SequencesExt

CONSTANTS
    Sessions,
    Menu,      \* the statements sessions may run
    MaxStmts,  \* how many each runs
    Rules,     \* the actions of the foreign key, [del, upd], among which Init chooses
    Bases,     \* the sets of committed rows among which Init chooses
    Zero, Null

ASSUME IntegrityAssumption ==
    /\ Zero \notin Sessions /\ Null \notin Sessions
    /\ MaxStmts \in [Sessions -> Nat]
    /\ \A st \in Menu : st.op \in {"insP", "insC", "updP", "updC", "delP", "delC"} /\ (st.op = "updP" => st.to # st.key)
    /\ Rules \subseteq [del : {"restrict", "cascade", "setnull"}, upd : {"restrict", "cascade", "setnull"}]

\* the rows before the first statement: committed, no key twice, no child without its parent
ASSUME BasesAssumption ==
    \A B \in Bases :
        /\ IsFiniteSet(B)
        /\ \A v \in B : v = [tab |-> v.tab, key |-> v.key, ref |-> v.ref, xmin |-> Zero, xmax |-> Zero]
        /\ \A v, w \in B : v.tab = w.tab /\ v.key = w.key => v = w
        /\ \A v \in B : v.tab = "c" /\ v.ref # Null => \E p \in B : p.tab = "p" /\ p.key = v.ref

VARIABLES
    rows,     \* s.tables: the versions of both tables
    open,     \* the session has a transaction open (active_txn_ids)
    held,     \* lock_mgr: the claims of each session, <<what, mode>>
    want,     \* the claim a session waits for, and where it goes on
    pc, stmt, todo,
    quiet,    \* globally_quiescent, as the DELETE read it
    doomed,   \* rows_to_delete, then the keys the plan has looked at; the old key of an UPDATE
    rule,
    race      \* what has happened that may leave an orphan behind (history)

vars == <<rows, open, held, want, pc, stmt, todo, quiet, doomed, rule, race>>

NoStmt == [op |-> "none"]
NoWant == [claim |-> <<>>, at |-> "idle"]

Row(t, k, r, x) == [tab |-> t, key |-> k, ref |-> r, xmin |-> x, xmax |-> Zero]

Init ==
    /\ rows \in Bases
    /\ rule \in Rules
    /\ open = [s \in Sessions |-> FALSE]
    /\ held = [s \in Sessions |-> {}]
    /\ want = [s \in Sessions |-> NoWant]
    /\ pc = [s \in Sessions |-> "idle"]
    /\ stmt = [s \in Sessions |-> NoStmt]
    /\ todo = MaxStmts
    /\ quiet = [s \in Sessions |-> FALSE]
    /\ doomed = [s \in Sessions |-> {}]
    /\ race = {}

(***************************************************************************)
(* Rows and claims                                                         *)
(***************************************************************************)
\* is_visible: no transaction, open or not, has ended the version
Live(v) == v.xmax = Zero

\* is_visible_for_read, with the transactions that are open now
Seen(s, v) == v.xmin \in {Zero, s} /\ v.xmax # s

LiveOf(t, K) == {v \in rows : v.tab = t /\ v.key \in K /\ Live(v)}
ChildrenOf(K) == {v \in rows : v.tab = "c" /\ v.ref \in K /\ Live(v)}

\* fk_child_violation: NULL needs no parent; otherwise a live row of p, whoever wrote it
HasParent(r) == r = Null \/ LiveOf("p", {r}) # {}

\* tagging_txn_id: a statement outside a transaction writes for good
Id(s) == IF open[s] THEN s ELSE Zero

\* versions V end, the versions W begin
Write(s, V, W) ==
    rows' = (rows \ V) \cup W \cup (IF open[s] THEN {[v EXCEPT !.xmax = s] : v \in V} ELSE {})

RowClaim(v) == <<<<v.tab, v.key>>, "X">>
ValueClaim(k, m) == <<<<"fk", k>>, m>>

\* LockManager::acquire, acquire_shared
Free(s, c) ==
    \A r \in Sessions \ {s} : \A h \in held[r] : h[1] = c[1] => h[2] = "S" /\ c[2] = "S"

\* the claims of a phase are asked for in order, up to the first that somebody else holds
Reached(s, cs) == {i \in DOMAIN cs : \A j \in 1..i : Free(s, cs[j])}
Granted(s, cs) == Reached(s, cs) = DOMAIN cs
Taken(s, cs)   == cs[CHOOSE i \in DOMAIN cs : ~Free(s, cs[i]) /\ \A j \in 1..i - 1 : Free(s, cs[j])]
Claim(s, cs)   == held' = [held EXCEPT ![s] = @ \cup {cs[i] : i \in Reached(s, cs)}]

(***************************************************************************)
(* The course of a statement                                               *)
(***************************************************************************)
Goto(s, l) == pc' = [pc EXCEPT ![s] = l]

\* the statement is over, done or refused, and has claimed cs: a transaction keeps its claims, a statement of its own
\* lets them go
Over(s, cs) ==
    /\ Goto(s, "idle")
    /\ stmt' = [stmt EXCEPT ![s] = NoStmt]
    /\ doomed' = [doomed EXCEPT ![s] = {}]
    /\ quiet' = [quiet EXCEPT ![s] = FALSE]
    /\ want' = [want EXCEPT ![s] = NoWant]
    /\ held' = [held EXCEPT ![s] = IF open[s] THEN @ \cup ToSet(cs) ELSE {}]
    /\ UNCHANGED <<open, todo, rule>>

Refuse(s, cs) == Over(s, cs) /\ UNCHANGED <<rows, race>>

\* release_table_locks_for_block and block_on_row
WaitFor(s, cs, at) ==
    /\ Claim(s, cs)
    /\ want' = [want EXCEPT ![s] = [claim |-> Taken(s, cs), at |-> at]]
    /\ Goto(s, "wait")

Same == UNCHANGED <<open, todo, quiet, rule>>

\* the claim is granted: the phase is done again
Wake(s) ==
    /\ pc[s] = "wait" /\ Free(s, want[s].claim)
    /\ held' = [held EXCEPT ![s] = @ \cup {want[s].claim}]
    /\ Goto(s, want[s].at)
    /\ UNCHANGED <<rows, stmt, want, doomed, race>> /\ Same

\* ... or a deadlock or the deadline ends the statement: what it has written so far stays
GiveUp(s) ==
    /\ pc[s] = "wait"
    /\ Over(s, <<>>)
    /\ race' = race \cup (IF want[s].at = "follow" THEN {"late"} ELSE {})
    /\ UNCHANGED rows

Begin(s) ==
    /\ pc[s] = "idle" /\ ~open[s] /\ todo[s] > 0
    /\ open' = [open EXCEPT ![s] = TRUE]
    /\ UNCHANGED <<rows, held, want, pc, stmt, todo, quiet, doomed, rule, race>>

\* a DELETE asks whether any transaction is open, and collects its rows (collect_targets)
Start(s, st) ==
    /\ pc[s] = "idle" /\ todo[s] > 0
    /\ todo' = [todo EXCEPT ![s] = @ - 1]
    /\ stmt' = [stmt EXCEPT ![s] = st]
    /\ quiet' = [quiet EXCEPT ![s] = st.op \in {"delP", "delC"} /\ \A r \in Sessions : ~open[r]]
    /\ doomed' = [doomed EXCEPT ![s] = IF st.op = "delP" THEN {v.key : v \in LiveOf("p", st.keys)} ELSE {}]
    /\ Goto(s, st.op)
    /\ UNCHANGED <<rows, open, held, want, rule, race>>

(***************************************************************************)
(* INSERT                                                                  *)
(***************************************************************************)
Kind(s) == IF stmt[s].op = "insP" THEN "p" ELSE "c"
New(s) == Row(Kind(s), stmt[s].key, stmt[s].ref, Id(s))
Duplicate(s) == LiveOf(Kind(s), {stmt[s].key}) # {}

InsertClaims(s) ==
    <<RowClaim(New(s))>> \o IF stmt[s].ref = Null THEN <<>> ELSE <<ValueClaim(stmt[s].ref, "S")>>

\* the only live parent has been written by a transaction that is still open
Borrowed(s, r) == r # Null /\ \A v \in LiveOf("p", {r}) : v.xmin \notin {Zero, s}

\* exec_insert_inner under the shared data locks: the duplicate and the parent are looked for, the key and the value
\* of the parent claimed; pc says what it waited for: after a wait the key (and always the parent) is looked for again
BugPrepare(s) ==
    /\ pc[s] \in {"insP", "insC", "keyed", "valued"}
    /\ IF pc[s] \in {"insP", "insC"} /\ (Duplicate(s) \/ ~HasParent(stmt[s].ref)) THEN Refuse(s, <<>>)
       ELSE IF ~Granted(s, InsertClaims(s))
       THEN /\ WaitFor(s, InsertClaims(s), IF ~Free(s, RowClaim(New(s))) THEN "keyed" ELSE "valued")
            /\ UNCHANGED <<rows, stmt, doomed, race>> /\ Same
       ELSE IF ~HasParent(stmt[s].ref) THEN Refuse(s, InsertClaims(s))
       ELSE /\ Claim(s, InsertClaims(s))
            /\ race' = race \cup (IF Borrowed(s, stmt[s].ref) THEN {"borrowed"} ELSE {})
            /\ Goto(s, "push")
            /\ UNCHANGED <<rows, stmt, want, doomed>> /\ Same

Prepare(s) ==
    /\ pc[s] \in {"insP", "insC", "keyed", "valued"}
    /\ IF \/ pc[s] \in {"insP", "insC"} /\ (Duplicate(s) \/ ~HasParent(stmt[s].ref))
          \/ pc[s] = "keyed" /\ Duplicate(s)
       THEN Refuse(s, <<>>)
       ELSE IF ~Granted(s, InsertClaims(s))
       THEN /\ WaitFor(s, InsertClaims(s), IF ~Free(s, RowClaim(New(s))) THEN "keyed" ELSE "valued")
            /\ UNCHANGED <<rows, stmt, doomed, race>> /\ Same
       ELSE IF ~HasParent(stmt[s].ref) THEN Refuse(s, InsertClaims(s))
       ELSE /\ Claim(s, InsertClaims(s))
            /\ race' = race \cup (IF Borrowed(s, stmt[s].ref) THEN {"borrowed"} ELSE {})
            /\ Goto(s, "push")
            /\ UNCHANGED <<rows, stmt, want, doomed>> /\ Same

\* ... and the row is pushed under the exclusive one
Push(s) ==
    /\ pc[s] = "push"
    /\ Write(s, {}, {New(s)})
    /\ Over(s, <<>>)
    /\ UNCHANGED race

(***************************************************************************)
(* UPDATE                                                                  *)
(***************************************************************************)
\* The scan and the probe are one step: what the scan has found is looked at again, as of now, before it is claimed,
\* and a row that has changed starts the statement again (stale_positions).
Targets(s) == {v \in rows : v.tab = (IF stmt[s].op = "updP" THEN "p" ELSE "c") /\ v.key = stmt[s].key /\ Seen(s, v)}

Updated(s, v) ==
    IF stmt[s].op = "updP" THEN Row("p", stmt[s].to, Null, Id(s)) ELSE Row("c", v.key, stmt[s].to, Id(s))

\* a reference that the UPDATE leaves as it was is neither checked nor claimed again
Referring(s) == stmt[s].op = "updC" /\ \E v \in Targets(s) : v.ref # stmt[s].to

\* rewritten_row_violation; update_restrict_violation and the dry run of the plan
UpdateRefused(s) ==
    IF stmt[s].op = "updC" THEN Referring(s) /\ ~HasParent(stmt[s].to)
    ELSE rule.upd = "restrict" /\ ChildrenOf({stmt[s].key}) # {}

\* fk_claims: a child's new parent shared, a value that children may refer to exclusive; the new key of the row
UpdateClaims(s) ==
    IF stmt[s].op = "updC" THEN IF Referring(s) /\ stmt[s].to # Null THEN <<ValueClaim(stmt[s].to, "S")>> ELSE <<>>
    ELSE <<<<<<"p", stmt[s].to>>, "X">>, ValueClaim(stmt[s].key, "X")>>

\* a child that an open transaction has ended or moved away may come back
MayReturn(s, K) == \E v \in rows : v.tab = "c" /\ v.ref \in K /\ v.xmax \notin {Zero, s}

Update(s) ==
    /\ pc[s] \in {"updP", "updC"}
    /\ LET T  == Targets(s)
           cs == SetToSeq({RowClaim(v) : v \in T})
       IN  IF T = {} THEN Refuse(s, <<>>)
           ELSE IF ~Granted(s, cs) THEN WaitFor(s, cs, stmt[s].op) /\ UNCHANGED <<rows, stmt, doomed, race>> /\ Same
           ELSE IF UpdateRefused(s) THEN Refuse(s, cs)
           ELSE IF ~Granted(s, cs \o UpdateClaims(s))
           THEN WaitFor(s, cs \o UpdateClaims(s), stmt[s].op) /\ UNCHANGED <<rows, stmt, doomed, race>> /\ Same
           ELSE IF stmt[s].op = "updP" /\ LiveOf("p", {stmt[s].to}) # {} THEN Refuse(s, cs \o UpdateClaims(s))
           ELSE /\ Write(s, T, {Updated(s, v) : v \in T})
                /\ race' = race \cup (IF Referring(s) /\ Borrowed(s, stmt[s].to) THEN {"borrowed"} ELSE {})
                /\ IF stmt[s].op = "updC" THEN Over(s, cs \o UpdateClaims(s))
                   ELSE /\ Claim(s, cs \o UpdateClaims(s))
                        /\ doomed' = [doomed EXCEPT ![s] = {stmt[s].key}]
                        /\ Goto(s, "follow")
                        /\ UNCHANGED <<stmt, want>> /\ Same

\* the cascade of a key that has changed: the children of the old value are planned, claimed and rewritten
Follow(s) ==
    /\ pc[s] = "follow"
    /\ LET kids == ChildrenOf(doomed[s])
           cs   == SetToSeq({RowClaim(v) : v \in kids})
       IN  IF rule.upd = "restrict" /\ kids # {}
           THEN Over(s, <<>>) /\ race' = race \cup {"late"} /\ UNCHANGED rows
           ELSE IF ~Granted(s, cs) THEN WaitFor(s, cs, "follow") /\ UNCHANGED <<rows, stmt, doomed, race>> /\ Same
           ELSE /\ Write(s, kids, {Row("c", v.key, IF rule.upd = "cascade" THEN stmt[s].to ELSE Null, Id(s)) : v \in kids})
                /\ Over(s, cs)
                /\ race' = race
                     \cup (IF MayReturn(s, doomed[s]) THEN {"revived"} ELSE {})
                     \cup (IF rule.upd = "cascade" /\ kids # {} /\ ~Free(s, ValueClaim(stmt[s].to, "S")) THEN {"moved"} ELSE {})

(***************************************************************************)
(* DELETE                                                                  *)
(***************************************************************************)
\* another session holds a claim of one of the rows
Claimed(s, V) == \E v \in V : ~Free(s, RowClaim(v))

\* the path for a table nothing refers to, when no transaction is open: the rows go, unclaimed
FastDelete(s) ==
    /\ pc[s] = "delC" /\ quiet[s] /\ ~open[s]
    /\ Write(s, LiveOf("c", stmt[s].keys), {})
    /\ race' = race \cup (IF Claimed(s, LiveOf("c", stmt[s].keys)) THEN {"erased"} ELSE {})
    /\ Over(s, <<>>)

\* the keys of the rows the plan finds again; or, when nothing refers to any of them and the cache of the references
\* happens to prove it, of all that were collected (plan_cascade_delete)
Plans(s) ==
    {{v.key : v \in LiveOf("p", doomed[s])}} \cup (IF ChildrenOf(doomed[s]) = {} THEN {doomed[s]} ELSE {})

DeleteClaims(K) == SetToSeq({RowClaim(v) : v \in ChildrenOf(K)}) \o SetToSeq({ValueClaim(k, "X") : k \in K})

\* try_cascade_once: the plan refuses, or the children and the values of the rows that go are claimed and the children
\* are written
CascadeOf(s, K, cs) ==
    LET kids == ChildrenOf(K)
    IN  IF rule.del = "restrict" /\ kids # {} THEN Refuse(s, <<>>)
        ELSE IF ~Granted(s, cs) THEN WaitFor(s, cs, "delP") /\ UNCHANGED <<rows, stmt, doomed, race>> /\ Same
        ELSE /\ Claim(s, cs)
             /\ Write(s, kids, IF rule.del = "setnull" THEN {Row("c", v.key, Null, Id(s)) : v \in kids} ELSE {})
             /\ race' = race \cup (IF MayReturn(s, K) THEN {"revived"} ELSE {})
             /\ doomed' = [doomed EXCEPT ![s] = K]
             /\ Goto(s, "erase")
             /\ UNCHANGED <<stmt, want>> /\ Same

BugCascade(s) == pc[s] = "delP" /\ \E K \in Plans(s) : CascadeOf(s, K, SetToSeq({RowClaim(v) : v \in ChildrenOf(K)}))

Cascade(s) == pc[s] = "delP" /\ \E K \in Plans(s) : CascadeOf(s, K, DeleteClaims(K))

\* a row that the plan has not seen goes too
Phantom(s, V) == stmt[s].op = "delP" /\ \E v \in V : v.key \notin doomed[s]

Hard(s) == quiet[s] /\ ~open[s]
Matches(s) == LiveOf(IF stmt[s].op = "delP" THEN "p" ELSE "c", stmt[s].keys)

\* the rows the statement names are looked for once more, and those that match go: erased for good, unclaimed, when no
\* transaction was open at the start ...
HardErase(s) ==
    /\ pc[s] = "erase" /\ Hard(s)
    /\ Write(s, Matches(s), {})
    /\ race' = race \cup (IF Phantom(s, Matches(s)) THEN {"phantom"} ELSE {})
                    \cup (IF Claimed(s, Matches(s)) THEN {"erased"} ELSE {})
    /\ Over(s, <<>>)

\* ... else claimed and stamped one by one, up to the first that somebody has claimed
Erase(s) ==
    /\ pc[s] \in {"erase", "delC"} /\ ~Hard(s)
    /\ LET vs == SetToSeq(Matches(s))
           cs == [i \in 1..Len(vs) |-> RowClaim(vs[i])]
           V  == {vs[i] : i \in Reached(s, cs)}
       IN  /\ Write(s, V, {})
           /\ race' = race \cup (IF Phantom(s, V) THEN {"phantom"} ELSE {})
           /\ IF Granted(s, cs) THEN Over(s, cs)
              ELSE WaitFor(s, cs, pc[s]) /\ UNCHANGED <<stmt, doomed>> /\ Same

(***************************************************************************)
(* COMMIT and ROLLBACK                                                     *)
(***************************************************************************)
EndTxn(s) ==
    /\ pc[s] = "idle" /\ open[s]
    /\ open' = [open EXCEPT ![s] = FALSE]
    /\ held' = [held EXCEPT ![s] = {}]
    /\ UNCHANGED <<want, pc, stmt, todo, quiet, doomed, rule, race>>

Committed(R, s) == {[v EXCEPT !.xmin = IF @ = s THEN Zero ELSE @] : v \in {u \in R : u.xmax # s}}
RolledBack(R, s) == {[v EXCEPT !.xmax = IF @ = s THEN Zero ELSE @] : v \in {u \in R : u.xmin # s}}

Commit(s)   == EndTxn(s) /\ rows' = Committed(rows, s)
Rollback(s) == EndTxn(s) /\ rows' = RolledBack(rows, s)

Done == (\A s \in Sessions : pc[s] = "idle" /\ ~open[s] /\ todo[s] = 0) /\ UNCHANGED vars

Next ==
    \/ \E s \in Sessions :
         \/ Begin(s) \/ Wake(s) \/ GiveUp(s) \/ Commit(s) \/ Rollback(s)
         \/ Prepare(s) \/ Push(s) \/ Update(s) \/ Follow(s)
         \/ FastDelete(s) \/ Cascade(s) \/ HardErase(s) \/ Erase(s)
         \/ \E st \in Menu : Start(s, st)
    \/ Done

Spec == Init /\ [][Next]_vars

-----------------------------------------------------------------------------
\* what the tables hold when some of the open transactions commit and the others roll back
Outcome(C) ==
    LET live(v) == /\ v.xmin = Zero \/ v.xmin \in C
                   /\ v.xmax = Zero \/ v.xmax \notin C
    IN  {v \in rows : live(v)}

Outcomes == {Outcome(C) : C \in SUBSET {s \in Sessions : open[s]}}

Orphans(R) == {v \in R : v.tab = "c" /\ v.ref # Null /\ ~\E p \in R : p.tab = "p" /\ p.key = v.ref}

(* No key is ever taken by two rows of a table, whichever of the open      *)
(* transactions commit: the claim of a key, and the second look after the  *)
(* wait for it, keep two INSERTs, an INSERT and an UPDATE, or a DELETE     *)
(* that may still be rolled back, apart (executor_dml.cpp:1376).           *)
OneRowPerKey ==
    \A R \in Outcomes : \A v, w \in R : v.tab = w.tab /\ v.key = w.key => v = w

\* a cascade is between the parent it has changed and the children it has not
MidCascade(s) == pc[s] = "follow" \/ (pc[s] = "wait" /\ want[s].at = "follow")

(* No child is left without its parent, whichever of the open transactions *)
(* commit: the value of the parent is claimed by whoever refers to it and  *)
(* by whoever takes it away (executor_dml.cpp:1481).                       *)
NoOrphans ==
    (\A s \in Sessions : ~MidCascade(s)) => \A R \in Outcomes : Orphans(R) = {}

(* A child is left without its parent only after one of six races: it     *)
(* was given a parent that an open transaction had written (borrowed), or  *)
(* was itself ended by an open transaction when its parent went (revived), *)
(* or the DELETE found, after its plan, a row the plan had not seen        *)
(* (phantom), or erased one that somebody had claimed (erased), or the     *)
(* cascade of a key that had already changed was given up (late) or moved  *)
(* the child to a key that a DELETE was already taking away (moved).       *)
(* Everything else the claims keep apart (executor_update.cpp:612,         *)
(* executor_delete.cpp:573).                                               *)
OrphanNeedsARace == race = {} => NoOrphans
=============================================================================
