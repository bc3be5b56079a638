-------------------------- MODULE StatementsProofs --------------------------
(***************************************************************************)
(* That the locks a statement takes cover what it touches, and that the    *)
(* query cache never answers with less than a client may rely on, for any  *)
(* sessions, tables, foreign keys and statements (Statements.tla).         *)
(*                                                                         *)
(* LockInv is about the locks: who holds one in which mode, and at what    *)
(* point of its statement.  CacheInv is about the numbers: the changes     *)
(* committed, let go, read and cached, and the generations that tell a     *)
(* fresh answer from a stale one.                                          *)
(***************************************************************************)
EXTENDS Statements, WellFoundedInduction, TLAPS

Ends == {[NoStmt EXCEPT !.kind = k] : k \in {"commit", "rollback"}}
Modes == {None, "S", "X"}
Points == {"idle", "lookup", "capture", "structural", "exclusive", "run", "wait", "persist", "after", "check", "put",
           "answer"}

(* The locks have values of their kind and a session one of the statements *)
(* of the menu, the end of its transaction, or none.                       *)
LockTypes ==
    /\ pc \in [Sessions -> Points]
    /\ stmt \in [Sessions -> Menu \cup Ends \cup {NoStmt}]
    /\ phase \in [Sessions -> Nat]
    /\ struct \in [Sessions -> Modes]
    /\ tlock \in [Sessions -> [Tables -> Modes]]
    /\ dlock \in [Sessions -> [Tables -> Modes]]
    /\ dirty \in [Sessions -> SUBSET Tables]

(* Which statements may be at which point of execute_sql_inner.            *)
Placed(s) ==
    /\ pc[s] = "idle" => stmt[s] = NoStmt /\ phase[s] = 1
    /\ pc[s] # "idle" => stmt[s] # NoStmt
    /\ pc[s] \in {"lookup", "capture", "check", "put"} => IsSelect(stmt[s])
    /\ pc[s] = "structural" => ~IsExclusive(stmt[s])
    /\ pc[s] = "exclusive" => IsExclusive(stmt[s])
    /\ pc[s] \in {"wait", "after", "persist"} => IsDml(stmt[s]) \/ IsExclusive(stmt[s])
    /\ phase[s] \in 1..Len(Program(stmt[s]))

(* A statement at its rows, or waiting for one on the exclusive path, has  *)
(* the structural lock in the mode of its path.                            *)
StructHeld(s) ==
    /\ pc[s] = "run" => struct[s] = IF IsExclusive(stmt[s]) THEN "X" ELSE "S"
    /\ pc[s] = "wait" /\ IsExclusive(stmt[s]) => struct[s] = "X"

(* What a session holds of the table and data locks, its statement or its  *)
(* phase has asked for, in that mode.                                      *)
HeldIsAsked(s) ==
    \A t \in Tables :
        /\ tlock[s][t] # None =>
              pc[s] \in {"run", "persist"} /\ t \in Needed(s) /\ tlock[s][t] = Mode(stmt[s])
        /\ dlock[s][t] # None =>
              pc[s] = "run" /\ t \in Step(s).dx \cup Step(s).ds /\ dlock[s][t] = DataMode(s, t)

Own(s) == Placed(s) /\ StructHeld(s) /\ HeldIsAsked(s)

(* A lock held exclusive is held by nobody else.                           *)
StructApart == \A r, s \in Sessions : r # s /\ struct[r] = "X" => struct[s] = None
TablesApart == \A r, s \in Sessions : \A t \in Tables : r # s /\ tlock[r][t] = "X" => tlock[s][t] = None
DataApart   == \A r, s \in Sessions : \A t \in Tables : r # s /\ dlock[r][t] = "X" => dlock[s][t] = None

Apart == StructApart /\ TablesApart /\ DataApart

LockInv == LockTypes /\ (\A s \in Sessions : Own(s)) /\ Apart

Counts == [Tables -> Nat]

(* The numbers: what is let go is committed.                               *)
NumberTypes ==
    /\ txn \in [Sessions -> BOOLEAN]
    /\ content \in Counts /\ floor \in Counts /\ gen \in Counts
    /\ \A t \in Tables : floor[t] =< content[t]

(* A SELECT has noted what was let go when it was sent, and, if it may be  *)
(* cached, generations that were there before it read.                     *)
Noted(s) ==
    /\ IsSelect(stmt[s]) => since[s] \in Counts /\ \A t \in Tables : since[s][t] =< floor[t]
    /\ pc[s] \in {"check", "put"} => ~txn[s]
    /\ IsSelect(stmt[s]) /\ ~txn[s] /\ pc[s] \in {"structural", "run", "check", "put"} =>
          before[s] \in Counts /\ \A t \in Tables : before[s][t] =< gen[t]

(* What it has read was let go when it was sent; and as long as no         *)
(* generation has moved, nothing more has been let go since.               *)
ReadIsFresh(s) ==
    /\ ~IsSelect(stmt[s]) => answer[s] = None
    /\ pc[s] \in {"check", "put"} =>
          /\ answer[s] \in [stmt[s].tables -> Nat]
          /\ \A t \in stmt[s].tables :
                since[s][t] =< answer[s][t] /\ (before[s][t] = gen[t] => floor[t] =< answer[s][t])
    /\ pc[s] = "answer" /\ answer[s] # None =>
          IsSelect(stmt[s]) /\ \A t \in stmt[s].tables : answer[s][t] >= since[s][t]

Fresh(s) == Noted(s) /\ ReadIsFresh(s)

(* The same for an answer that is kept.                                    *)
KeptIsFresh ==
    \A q \in Queries : cache[q] # None =>
        /\ cache[q] \in [ver : [q -> Nat], gen : [q -> Nat]]
        /\ \A t \in q : cache[q].gen[t] =< gen[t] /\ (cache[q].gen[t] = gen[t] => floor[t] =< cache[q].ver[t])

CacheTypes ==
    /\ cache = [q \in Queries |-> cache[q]]
    /\ before = [s \in Sessions |-> before[s]]
    /\ answer = [s \in Sessions |-> answer[s]] /\ since = [s \in Sessions |-> since[s]]

CacheInv == NumberTypes /\ CacheTypes /\ (\A s \in Sessions : Fresh(s)) /\ KeptIsFresh
-----------------------------------------------------------------------------
(***************************************************************************)
(* What a statement names and takes                                        *)
(***************************************************************************)
(* A statement of the menu names some tables and is of a known kind.       *)
LEMMA MenuTyped ==
    ASSUME NEW st \in Menu
    PROVE  st.kind \in Kinds /\ st.tables \subseteq Tables /\ st.tables # {}
  BY MenuAssumption

(* The tables fk_children_closure reaches are tables.                      *)
LEMMA NeighborsTyped ==
    ASSUME NEW t \in Tables
    PROVE  Parents[t] \subseteq Tables /\ ChildrenClosure[t] \subseteq Tables
  BY OrderAssumption DEF ChildrenClosure

(* table_lock_set_for names tables only.                                   *)
LEMMA LockSetTyped ==
    ASSUME NEW st \in Menu
    PROVE  LockSet(st) \subseteq Tables
  <1> USE MenuTyped, NeighborsTyped
  <1>1. \A t \in st.tables : \A a, b \in BOOLEAN : {t} \cup FkNeighbors(t, a, b) \subseteq Tables
    BY DEF FkNeighbors
  <1>2. \A a, b \in BOOLEAN : UNION {{t} \cup FkNeighbors(t, a, b) : t \in st.tables} \subseteq Tables
    BY <1>1
  <1> QED
    BY <1>2 DEF LockSet

(* A phase's data locks are locks of tables; what it changes it has locked *)
(* exclusive, what it reads it has locked, and all of it lies in the       *)
(* statement's lock set.  A multi-table statement relies on the lock set   *)
(* alone, which it takes exclusive.                                        *)
LEMMA PhaseCovered ==
    ASSUME NEW st \in Menu, IsSelect(st) \/ IsDml(st),
           NEW p \in 1..Len(Program(st))
    PROVE  LET P == Program(st)[p] IN
           /\ P.dx \subseteq Tables /\ P.ds \subseteq Tables
           /\ P.wr \cup P.rd \subseteq LockSet(st)
           /\ st.kind # "multi" => P.wr \subseteq P.dx /\ P.rd \subseteq P.dx \cup P.ds
  <1> DEFINE t == CHOOSE x \in st.tables : TRUE
             up == Parents[t]
             dn == ChildrenClosure[t]
  <1>1. t \in st.tables /\ t \in Tables
    BY MenuTyped
  <1>2. up \subseteq Tables /\ dn \subseteq Tables
    BY <1>1, NeighborsTyped
  <1>3. st.tables \subseteq Tables
    BY MenuTyped
  <1>4. CASE st.kind = "select"
    <2>1. Program(st) = <<Phase({}, st.tables, {}, st.tables)>> /\ LockSet(st) = st.tables
      BY <1>4 DEF Program, LockSet
    <2> QED
      BY <1>3, <1>4, <2>1 DEF Phase
  <1>5. CASE st.kind = "insert"
    <2>1. Program(st) = <<Phase({}, {t} \cup up, {}, {t} \cup up), Phase({t}, {}, {t}, {})>>
      BY <1>5 DEF Program
    <2>2. {t} \cup up \subseteq LockSet(st)
      <3>1. LockSet(st) = UNION {{x} \cup FkNeighbors(x, TRUE, FALSE) : x \in st.tables}
        BY <1>5 DEF LockSet
      <3>2. FkNeighbors(t, TRUE, FALSE) = up
        BY DEF FkNeighbors
      <3> QED
        BY <1>1, <3>1, <3>2
    <2> HIDE DEF t, up, dn
    <2>3. p = 1 \/ p = 2
      BY <2>1
    <2> QED
      BY <1>1, <1>2, <1>5, <2>1, <2>2, <2>3 DEF Phase
  <1>6. CASE st.kind = "update"
    <2>1. Program(st) = <<Phase({}, {t} \cup up \cup dn, {}, {t} \cup up \cup dn),
                          Phase({t}, up \cup dn, {t}, up \cup dn), Phase(up \cup dn, {}, dn, up)>>
      BY <1>6 DEF Program
    <2>2. {t} \cup up \cup dn \subseteq LockSet(st)
      <3>1. LockSet(st) = UNION {{x} \cup FkNeighbors(x, TRUE, TRUE) : x \in st.tables}
        BY <1>6 DEF LockSet
      <3>2. FkNeighbors(t, TRUE, TRUE) = up \cup dn
        BY DEF FkNeighbors
      <3>3. {t} \cup FkNeighbors(t, TRUE, TRUE) \subseteq LockSet(st)
        BY <1>1, <3>1
      <3> QED
        BY <3>2, <3>3
    <2> HIDE DEF t, up, dn
    <2>3. p = 1 \/ p = 2 \/ p = 3
      BY <2>1
    <2> QED
      BY <1>1, <1>2, <1>6, <2>1, <2>2, <2>3 DEF Phase
  <1>7. CASE st.kind = "delete"
    <2>1. Program(st) = <<Phase({}, {t}, {}, {t}), Phase({t} \cup dn, {}, {t} \cup dn, {}), Phase({t}, {}, {t}, {})>>
      BY <1>7 DEF Program
    <2>2. {t} \cup dn \subseteq LockSet(st)
      <3>1. LockSet(st) = UNION {{x} \cup FkNeighbors(x, FALSE, TRUE) : x \in st.tables}
        BY <1>7 DEF LockSet
      <3>2. FkNeighbors(t, FALSE, TRUE) = dn
        BY DEF FkNeighbors
      <3> QED
        BY <1>1, <3>1, <3>2
    <2> HIDE DEF t, up, dn
    <2>3. p = 1 \/ p = 2 \/ p = 3
      BY <2>1
    <2> QED
      BY <1>1, <1>2, <1>7, <2>1, <2>2, <2>3 DEF Phase
  <1>8. CASE st.kind = "multi"
    <2>1. Program(st) = <<Phase({}, {}, {}, st.tables), Phase(st.tables, {}, st.tables, {})>>
      BY <1>8 DEF Program
    <2>2. st.tables \subseteq LockSet(st)
      <3>1. LockSet(st) = UNION {{x} \cup FkNeighbors(x, TRUE, TRUE) : x \in st.tables}
        BY <1>8 DEF LockSet
      <3>2. SUFFICES ASSUME NEW x \in st.tables PROVE x \in LockSet(st)
        OBVIOUS
      <3>3. {x} \cup FkNeighbors(x, TRUE, TRUE) \subseteq LockSet(st)
        BY <3>1
      <3> QED
        BY <3>3
    <2>3. p = 1 \/ p = 2
      BY <2>1
    <2> QED
      BY <1>3, <1>8, <2>1, <2>2, <2>3 DEF Phase
  <1> QED
    BY <1>4, <1>5, <1>6, <1>7, <1>8 DEF IsSelect, IsDml

(* A statement that is neither a SELECT nor a write has one phase, without *)
(* data locks, and names no table whose lock it would take.                *)
LEMMA OnePhase ==
    ASSUME NEW st, st.kind \notin {"select", "insert", "update", "delete", "multi"}
    PROVE  /\ Len(Program(st)) = 1
           /\ Program(st)[1].dx = {} /\ Program(st)[1].ds = {}
           /\ LockSet(st) = {}
           /\ st.kind \notin {"view", "ddl", "call"} => Program(st)[1].wr = {} /\ Program(st)[1].rd = {}
  BY DEF Program, Phase, LockSet

(* Every program has a first phase.                                        *)
LEMMA HasPhase ==
    ASSUME NEW st
    PROVE  Len(Program(st)) \in Nat /\ 1 \in 1..Len(Program(st))
  BY DEF Program, Phase

(* The search for the first table, in the order of their names, whose lock *)
(* is missing finds one.                                                   *)
LEMMA FirstMissing ==
    ASSUME NEW D \in SUBSET Tables, NEW f, NEW t \in D, f[t] = None
    PROVE  \E i \in 1..Len(Order) :
               /\ Order[i] \in D /\ f[Order[i]] = None
               /\ \A j \in 1..(i - 1) : Order[j] \in D => f[Order[j]] # None
  <1> DEFINE M == {i \in 1..Len(Order) : Order[i] \in D /\ f[Order[i]] = None}
  <1>1. Len(Order) \in Nat
    BY OrderAssumption
  <1>2. M # {} /\ M \subseteq Nat
    BY <1>1 DEF Tables
  <1>3. PICK i \in M : \A j \in M : ~(<<j, i>> \in OpToRel(<, Nat))
    BY <1>2, NatLessThanWellFounded, WFMin
  <1>4. \A j \in M : ~(j < i)
    BY <1>2, <1>3 DEF OpToRel
  <1>5. \A j \in 1..(i - 1) : Order[j] \in D => f[Order[j]] # None
    BY <1>1, <1>2, <1>4
  <1> QED
    BY <1>5

-----------------------------------------------------------------------------
(***************************************************************************)
(* What a session holds                                                    *)
(***************************************************************************)
(* The statements a session can have.                                      *)
LEMMA StmtTyped ==
    ASSUME NEW st \in Menu \cup Ends \cup {NoStmt}
    PROVE  /\ st.tables \subseteq Tables
           /\ st.kind \in Kinds \cup {"commit", "rollback", "none"}
           /\ st.kind \in Kinds => st \in Menu
           /\ st # NoStmt => st.kind # "none"
           /\ st \in Menu => st # NoStmt
  BY MenuTyped DEF Ends, NoStmt, Kinds

(* The locks a session asks for are locks of tables.                       *)
LEMMA AskedTyped ==
    ASSUME LockTypes, NEW s \in Sessions, Placed(s)
    PROVE  Needed(s) \subseteq Tables /\ Step(s).dx \subseteq Tables /\ Step(s).ds \subseteq Tables
  <1>1. stmt[s] \in Menu \cup Ends \cup {NoStmt} /\ dirty[s] \subseteq Tables
    BY DEF LockTypes
  <1>2. phase[s] \in 1..Len(Program(stmt[s]))
    BY DEF Placed
  <1>3. CASE IsSelect(stmt[s]) \/ IsDml(stmt[s])
    <2>1. stmt[s] \in Menu
      BY <1>1, <1>3, StmtTyped DEF IsSelect, IsDml, Kinds
    <2> QED
      BY <1>1, <1>2, <1>3, <2>1, PhaseCovered, LockSetTyped DEF Needed, Step
  <1>4. CASE ~(IsSelect(stmt[s]) \/ IsDml(stmt[s]))
    <2>1. stmt[s].kind \notin {"select", "insert", "update", "delete", "multi"}
      BY <1>4 DEF IsSelect, IsDml
    <2>2. Len(Program(stmt[s])) = 1
      BY <2>1, OnePhase
    <2>3. phase[s] = 1
      BY <1>2, <2>2
    <2> QED
      BY <1>1, <2>1, <2>3, OnePhase DEF Needed, Step
  <1> QED
    BY <1>3, <1>4

(* acquire_table_locks goes on with a table that is needed and not locked. *)
LEMMA NextTableMissing ==
    ASSUME LockTypes, NEW s \in Sessions, Placed(s), ~TablesHeld(s)
    PROVE  NextTable(s) \in Needed(s) /\ NextTable(s) \in Tables /\ tlock[s][NextTable(s)] = None
  <1>1. Needed(s) \in SUBSET Tables
    BY AskedTyped
  <1>2. PICK t \in Needed(s) : tlock[s][t] = None
    BY DEF TablesHeld
  <1> DEFINE D == Needed(s)
             f == tlock[s]
  <1>3. D \in SUBSET Tables /\ t \in D /\ f[t] = None
    BY <1>1, <1>2
  <1> DEFINE First(i) == /\ Order[i] \in D /\ f[Order[i]] = None
                         /\ \A j \in 1..(i - 1) : Order[j] \in D => f[Order[j]] # None
             k == CHOOSE i \in 1..Len(Order) : First(i)
  <1>4. NextTable(s) = Order[k]
    BY DEF NextTable
  <1> HIDE DEF D, f
  <1>5. \E i \in 1..Len(Order) : First(i)
    BY <1>3, FirstMissing
  <1> HIDE DEF First
  <1>6. First(k)
    BY <1>5
  <1>7. NextTable(s) \in D /\ f[NextTable(s)] = None
    BY <1>4, <1>6 DEF First
  <1> QED
    BY <1>3, <1>7 DEF D, f

(* The same for acquire_table_data_locks.                                  *)
LEMMA NextDataMissing ==
    ASSUME LockTypes, NEW s \in Sessions, Placed(s), ~DataHeld(s)
    PROVE  /\ NextData(s) \in Step(s).dx \cup Step(s).ds
           /\ NextData(s) \in Tables /\ dlock[s][NextData(s)] = None
  <1> DEFINE D == Step(s).dx \cup Step(s).ds
             f == dlock[s]
  <1>1. D \in SUBSET Tables
    BY AskedTyped
  <1>2. PICK t \in D : f[t] = None
    BY DEF DataHeld
  <1> DEFINE First(i) == /\ Order[i] \in D /\ f[Order[i]] = None
                         /\ \A j \in 1..(i - 1) : Order[j] \in D => f[Order[j]] # None
             k == CHOOSE i \in 1..Len(Order) : First(i)
  <1>4. NextData(s) = Order[k]
    BY DEF NextData
  <1> HIDE DEF D, f
  <1>5. \E i \in 1..Len(Order) : First(i)
    BY <1>1, <1>2, FirstMissing
  <1> HIDE DEF First
  <1>6. First(k)
    BY <1>5
  <1>7. NextData(s) \in D /\ f[NextData(s)] = None
    BY <1>4, <1>6 DEF First
  <1> QED
    BY <1>1, <1>7 DEF D, f

(* What a session is about to touch at its rows, unless it runs on the     *)
(* exclusive path or reads a view: tables of its lock set, all of them     *)
(* locked.                                                                 *)
LEMMA TouchedIsNeeded ==
    ASSUME LockTypes, NEW s \in Sessions, Own(s), AtRows(s), ~IsExclusive(stmt[s]), stmt[s].kind # "view"
    PROVE  /\ Touched(s).wr \subseteq Needed(s)
           /\ Touched(s).rd \subseteq Needed(s) \cup {Names}
           /\ Needed(s) \subseteq Tables
           /\ \A t \in Needed(s) : tlock[s][t] = Mode(stmt[s])
  <1>1. stmt[s] \in Menu \cup Ends \cup {NoStmt} /\ stmt[s] # NoStmt
    BY DEF LockTypes, Own, Placed, AtRows
  <1>2. phase[s] \in 1..Len(Program(stmt[s]))
    BY DEF Own, Placed
  <1>3. Needed(s) \subseteq Tables /\ \A t \in Needed(s) : tlock[s][t] = Mode(stmt[s])
    BY AskedTyped DEF Own, HeldIsAsked, AtRows, TablesHeld
  <1>4. CASE IsEnd(stmt[s])
    <2>1. stmt[s].kind \in {"commit", "rollback"}
      BY <1>4 DEF IsEnd
    <2>2. Len(Program(stmt[s])) = 1 /\ Program(stmt[s])[1].rd = {}
      BY <2>1, OnePhase
    <2>3. Step(s).rd = {}
      BY <1>2, <2>2 DEF Step
    <2> QED
      BY <1>3, <1>4, <2>3 DEF Touched, Needed
  <1>5. CASE ~IsEnd(stmt[s])
    <2>1. stmt[s] \in Menu /\ (IsSelect(stmt[s]) \/ IsDml(stmt[s]))
      BY <1>1, <1>5, StmtTyped DEF IsEnd, IsSelect, IsDml, IsExclusive, Kinds
    <2> QED
      BY <1>2, <1>3, <1>5, <2>1, PhaseCovered DEF Touched, Needed, Step
  <1> QED
    BY <1>4, <1>5

(* Two sessions at their rows, neither on the exclusive path nor reading a *)
(* view, do not clash: the table locks keep them apart where one of them   *)
(* has taken them exclusive, the data locks elsewhere.                     *)
LEMMA RowsApart ==
    ASSUME LockInv, NEW r \in Sessions, NEW s \in Sessions, r # s,
           AtRows(r), ~IsExclusive(stmt[r]), stmt[r].kind # "view",
           AtRows(s), ~IsExclusive(stmt[s]), stmt[s].kind # "view"
    PROVE  ~Clash(r, s)
  <1>1. SUFFICES ASSUME NEW t \in Touched(r).wr, t \in Touched(s).wr \cup Touched(s).rd
                 PROVE  FALSE
    BY DEF Clash
  <1>2. t \in Needed(r) /\ t \in Tables /\ tlock[r][t] = Mode(stmt[r])
    BY TouchedIsNeeded DEF LockInv
  <1>3. t # Names
    BY <1>2, OrderAssumption
  <1>4. t \in Needed(s) /\ tlock[s][t] = Mode(stmt[s])
    BY <1>1, <1>3, TouchedIsNeeded DEF LockInv
  <1>5. Mode(stmt[r]) = "S" /\ Mode(stmt[s]) = "S"
    BY <1>2, <1>4, NoneAssumption DEF LockInv, Apart, TablesApart, Mode
  <1>6. \A x \in {r, s} : /\ stmt[x] \in Menu /\ (IsSelect(stmt[x]) \/ IsDml(stmt[x]))
                          /\ stmt[x].kind # "multi" /\ ~IsEnd(stmt[x])
    <2> TAKE x \in {r, s}
    <2>1. stmt[x] \in Menu \cup Ends \cup {NoStmt} /\ stmt[x] # NoStmt
      BY DEF LockInv, LockTypes, Own, Placed, AtRows
    <2>2. stmt[x].kind \notin {"multi", "commit", "rollback"}
      BY <1>5 DEF Mode
    <2> QED
      BY <2>1, <2>2, StmtTyped DEF IsSelect, IsDml, IsExclusive, IsEnd, Kinds
  <1>7. \A x \in {r, s} : Step(x).wr \subseteq Step(x).dx /\ Step(x).rd \subseteq Step(x).dx \cup Step(x).ds
    <2> TAKE x \in {r, s}
    <2>1. phase[x] \in 1..Len(Program(stmt[x]))
      BY DEF LockInv, Own, Placed
    <2> QED
      BY <1>6, <2>1, PhaseCovered DEF Step
  <1>8. dlock[r][t] = "X"
    <2>1. t \in Step(r).dx
      BY <1>6, <1>7 DEF Touched
    <2>2. dlock[r][t] # None
      BY <2>1 DEF AtRows, DataHeld
    <2> QED
      BY <1>2, <2>1, <2>2 DEF LockInv, Own, HeldIsAsked, DataMode
  <1>9. dlock[s][t] # None
    <2>1. t \in Step(s).dx \cup Step(s).ds
      BY <1>1, <1>3, <1>6, <1>7 DEF Touched
    <2> QED
      BY <2>1 DEF AtRows, DataHeld
  <1> QED
    BY <1>2, <1>8, <1>9 DEF LockInv, Apart, DataApart

(* The locks keep apart what clashes.                                      *)
LEMMA LocksSuffice ==
    ASSUME LockInv
    PROVE  NoTornTable
  <1>1. SUFFICES ASSUME NEW r \in Sessions, NEW s \in Sessions,
                        r # s, stmt[r].kind # "view", stmt[s].kind # "view"
                 PROVE  ~Clash(r, s)
    BY DEF NoTornTable
  <1>2. CASE ~AtRows(r)
    BY <1>2 DEF Clash, Touched
  <1>3. CASE AtRows(r) /\ IsExclusive(stmt[r])
    <2>1. struct[r] = "X"
      BY <1>3 DEF LockInv, Own, StructHeld, AtRows
    <2>2. struct[s] = None
      BY <1>1, <2>1 DEF LockInv, Apart, StructApart
    <2>3. ~AtRows(s)
      BY <2>2, NoneAssumption DEF LockInv, Own, StructHeld, AtRows
    <2> QED
      BY <2>2, <2>3 DEF Clash, Touched
  <1>4. CASE AtRows(r) /\ ~IsExclusive(stmt[r]) /\ AtRows(s) /\ IsExclusive(stmt[s])
    <2>1. struct[s] = "X" /\ struct[r] = "S"
      BY <1>4 DEF LockInv, Own, StructHeld, AtRows
    <2> QED
      BY <1>1, <2>1, NoneAssumption DEF LockInv, Apart, StructApart
  <1>5. CASE AtRows(r) /\ ~IsExclusive(stmt[r]) /\ AtRows(s) /\ ~IsExclusive(stmt[s])
    BY <1>1, <1>5, RowsApart
  <1>6. CASE AtRows(r) /\ ~IsExclusive(stmt[r]) /\ ~AtRows(s)
    <2>1. Touched(r).wr \subseteq Tables
      BY <1>1, <1>6, TouchedIsNeeded DEF LockInv
    <2>2. Touched(s).wr = {} /\ Touched(s).rd \subseteq {Names}
      BY <1>6 DEF Touched
    <2> QED
      BY <2>1, <2>2, OrderAssumption DEF Clash
  <1> QED
    BY <1>2, <1>3, <1>4, <1>5, <1>6

-----------------------------------------------------------------------------
(***************************************************************************)
(* LockInv is inductive                                                    *)
(***************************************************************************)
(* The step of one session leaves what is another's as it was.             *)
Aside(r) ==
    /\ pc'[r] = pc[r] /\ stmt'[r] = stmt[r] /\ phase'[r] = phase[r]
    /\ struct'[r] = struct[r] /\ tlock'[r] = tlock[r] /\ dlock'[r] = dlock[r] /\ dirty'[r] = dirty[r]

LEMMA OwnAside ==
    ASSUME NEW r, Own(r), Aside(r)
    PROVE  Own(r)'
  BY DEF Own, Placed, StructHeld, HeldIsAsked, Aside, Needed, Step, DataMode

(* A lock taken when it was free, or let go, stays apart from the others.  *)
LEMMA ApartKept ==
    ASSUME Apart, NEW s \in Sessions, \A r \in Sessions \ {s} : Aside(r),
           \/ struct'[s] \in {struct[s], None}
           \/ struct'[s] = "S" /\ \A r \in Sessions \ {s} : struct[r] # "X"
           \/ struct'[s] = "X" /\ \A r \in Sessions \ {s} : struct[r] = None,
           \A t \in Tables :
              \/ tlock'[s][t] \in {tlock[s][t], None}
              \/ tlock'[s][t] = "S" /\ \A r \in Sessions \ {s} : tlock[r][t] # "X"
              \/ tlock'[s][t] = "X" /\ \A r \in Sessions \ {s} : tlock[r][t] = None,
           \A t \in Tables :
              \/ dlock'[s][t] \in {dlock[s][t], None}
              \/ dlock'[s][t] = "S" /\ \A r \in Sessions \ {s} : dlock[r][t] # "X"
              \/ dlock'[s][t] = "X" /\ \A r \in Sessions \ {s} : dlock[r][t] = None
    PROVE  Apart'
  <1>1. StructApart'
    BY NoneAssumption DEF Apart, StructApart, Aside
  <1>2. TablesApart'
    BY NoneAssumption DEF Apart, TablesApart, Aside
  <1>3. DataApart'
    BY NoneAssumption DEF Apart, DataApart, Aside
  <1> QED
    BY <1>1, <1>2, <1>3 DEF Apart

(* What a step of session s has to show.                                   *)
LEMMA LockStep ==
    ASSUME LockInv, NEW s \in Sessions, LockTypes', \A r \in Sessions \ {s} : Aside(r), Own(s)', Apart'
    PROVE  LockInv'
  <1>1. \A r \in Sessions \ {s} : Own(r)'
    BY OwnAside DEF LockInv
  <1> QED
    BY <1>1 DEF LockInv

(* Outside of "run" and "persist" a session holds no table or data lock.   *)
LEMMA NothingHeld ==
    ASSUME LockInv, NEW s \in Sessions, pc[s] \notin {"run", "persist"}
    PROVE  \A t \in Tables : tlock[s][t] = None /\ dlock[s][t] = None
  BY DEF LockInv, Own, HeldIsAsked

(* A step from such a point that leaves those locks alone.                 *)
LEMMA QuietStep ==
    ASSUME LockInv, NEW s \in Sessions, pc[s] \notin {"run", "persist"},
           LockTypes', UNCHANGED <<tlock, dlock>>, \A r \in Sessions \ {s} : Aside(r),
           Placed(s)', StructHeld(s)',
           \/ struct'[s] \in {struct[s], None}
           \/ struct'[s] = "S" /\ \A r \in Sessions \ {s} : struct[r] # "X"
           \/ struct'[s] = "X" /\ \A r \in Sessions \ {s} : struct[r] = None
    PROVE  LockInv'
  <1>1. HeldIsAsked(s)'
    BY NothingHeld DEF HeldIsAsked
  <1>2. Apart'
    BY ApartKept DEF LockInv
  <1> QED
    BY <1>1, <1>2, LockStep DEF Own

LEMMA SendLocks ==
    ASSUME LockInv, NEW s \in Sessions, NEW st \in Menu, Send(s, st)
    PROVE  LockInv'
  <1>1. pc' \in [Sessions -> Points] /\ stmt' \in [Sessions -> Menu \cup Ends \cup {NoStmt}]
    BY DEF Send, Goto, Points, LockInv, LockTypes
  <1>2. LockTypes'
    BY <1>1 DEF Send, LockInv, LockTypes, locks
  <1>3. \A r \in Sessions \ {s} : Aside(r)
    BY DEF Send, Goto, LockInv, LockTypes, Aside, locks
  <1>4. stmt'[s] = st /\ st # NoStmt /\ phase'[s] = 1 /\ pc[s] = "idle"
    BY StmtTyped DEF Send, LockInv, LockTypes, Own, Placed
  <1>5. /\ pc'[s] \in {"lookup", "exclusive", "structural"}
        /\ pc'[s] = "lookup" => IsSelect(st)
        /\ pc'[s] = "exclusive" <=> IsExclusive(st)
    BY DEF Send, Goto, LockInv, LockTypes, IsSelect, IsExclusive
  <1>6. Placed(s)'
    BY <1>4, <1>5, HasPhase DEF Placed
  <1>7. StructHeld(s)'
    BY <1>5 DEF StructHeld
  <1> QED
    BY <1>2, <1>3, <1>4, <1>6, <1>7, QuietStep DEF Send, locks

(* The steps around the cache, the wait and the end of a statement, and    *)
(* what they do to the part of the state LockInv speaks of.                *)
LEMMA MoveLocks ==
    ASSUME LockInv, NEW s \in Sessions, NEW from \in Points \ {"idle", "run", "persist"}, NEW to \in Points \ {"idle", "run"},
           pc[s] = from, pc' = [pc EXCEPT ![s] = to], UNCHANGED <<stmt, phase, locks, dirty>>,
           to \in {"lookup", "capture", "check", "put"} => IsSelect(stmt[s]),
           to = "structural" => ~IsExclusive(stmt[s]),
           to \in {"answer", "capture", "structural", "put"}
    PROVE  LockInv'
  <1>1. LockTypes'
    BY DEF LockInv, LockTypes, locks
  <1>2. \A r \in Sessions \ {s} : Aside(r)
    BY DEF LockInv, LockTypes, Aside, locks
  <1>3. pc'[s] = to /\ stmt'[s] = stmt[s] /\ phase'[s] = phase[s]
    BY DEF LockInv, LockTypes
  <1>4. Placed(s)'
    BY <1>3 DEF LockInv, Own, Placed
  <1>5. StructHeld(s)'
    BY <1>3 DEF StructHeld
  <1> QED
    BY <1>1, <1>2, <1>4, <1>5, QuietStep DEF locks

LEMMA CacheStepsLocks ==
    ASSUME LockInv, NEW s \in Sessions, Lookup(s) \/ Capture(s) \/ Check(s) \/ Put(s) \/ After(s)
    PROVE  LockInv'
  <1>1. CASE Lookup(s)
    BY <1>1, MoveLocks DEF Lookup, Goto, Points, LockInv, Own, Placed, data
  <1>2. CASE Capture(s)
    BY <1>2, MoveLocks DEF Capture, Goto, Points, LockInv, Own, Placed, IsSelect, IsExclusive, data
  <1>3. CASE Check(s)
    BY <1>3, MoveLocks DEF Check, Goto, Points, LockInv, Own, Placed, data
  <1>4. CASE Put(s)
    BY <1>4, MoveLocks DEF Put, Goto, Points, LockInv, Own, Placed, data
  <1>5. CASE After(s)
    BY <1>5, MoveLocks DEF After, Goto, Points, LockInv, Own, Placed
  <1> QED
    BY <1>1, <1>2, <1>3, <1>4, <1>5

LEMMA GrantedLocks ==
    ASSUME LockInv, NEW s \in Sessions, Granted(s)
    PROVE  LockInv'
  <1>1. pc[s] = "wait" /\ UNCHANGED <<stmt, phase, struct, tlock, dlock, dirty>>
    BY DEF Granted, locks
  <1>2. pc' = [pc EXCEPT ![s] = IF IsExclusive(stmt[s]) THEN "run" ELSE "structural"]
    BY DEF Granted, Goto
  <1>3. LockTypes'
    BY <1>1, <1>2 DEF LockInv, LockTypes, Points
  <1>4. \A r \in Sessions \ {s} : Aside(r)
    BY <1>1, <1>2 DEF LockInv, LockTypes, Aside
  <1>5. pc'[s] = IF IsExclusive(stmt[s]) THEN "run" ELSE "structural"
    BY <1>2 DEF LockInv, LockTypes
  <1>6. Placed(s)'
    BY <1>1, <1>5 DEF LockInv, Own, Placed
  <1>7. StructHeld(s)'
    BY <1>1, <1>5 DEF LockInv, Own, StructHeld
  <1> QED
    BY <1>1, <1>3, <1>4, <1>6, <1>7, QuietStep

LEMMA TimesOutLocks ==
    ASSUME LockInv, NEW s \in Sessions, TimesOut(s)
    PROVE  LockInv'
  <1>1. pc[s] = "wait" /\ UNCHANGED <<stmt, phase, tlock, dlock, dirty>>
    BY DEF TimesOut, data
  <1>2. pc' = [pc EXCEPT ![s] = "answer"] /\ struct' = [struct EXCEPT ![s] = None]
    BY DEF TimesOut, Goto
  <1>3. LockTypes'
    BY <1>1, <1>2 DEF LockInv, LockTypes, Points, Modes
  <1>4. \A r \in Sessions \ {s} : Aside(r)
    BY <1>1, <1>2 DEF LockInv, LockTypes, Aside
  <1>5. pc'[s] = "answer" /\ struct'[s] = None
    BY <1>2 DEF LockInv, LockTypes
  <1>6. Placed(s)'
    BY <1>1, <1>5 DEF LockInv, Own, Placed
  <1>7. StructHeld(s)'
    BY <1>5 DEF StructHeld
  <1> QED
    BY <1>1, <1>3, <1>4, <1>5, <1>6, <1>7, QuietStep

LEMMA TakeStructLocks ==
    ASSUME LockInv, NEW s \in Sessions, TakeStructural(s) \/ TakeExclusive(s)
    PROVE  LockInv'
  <1>1. PICK m \in {"S", "X"} :
          /\ struct' = [struct EXCEPT ![s] = m] /\ pc' = [pc EXCEPT ![s] = "run"]
          /\ m = IF IsExclusive(stmt[s]) THEN "X" ELSE "S"
          /\ pc[s] \in {"structural", "exclusive"}
          /\ m = "S" => \A r \in Sessions \ {s} : struct[r] # "X"
          /\ m = "X" => \A r \in Sessions \ {s} : struct[r] = None
    BY DEF TakeStructural, TakeExclusive, Goto, StructShared, StructExcl, LockInv, Own, Placed
  <1>2. UNCHANGED <<stmt, phase, tlock, dlock, dirty>>
    BY DEF TakeStructural, TakeExclusive, data
  <1>3. LockTypes'
    BY <1>1, <1>2 DEF LockInv, LockTypes, Points, Modes
  <1>4. \A r \in Sessions \ {s} : Aside(r)
    BY <1>1, <1>2 DEF LockInv, LockTypes, Aside
  <1>5. pc'[s] = "run" /\ struct'[s] = m
    BY <1>1 DEF LockInv, LockTypes
  <1>6. Placed(s)'
    BY <1>1, <1>2, <1>5 DEF LockInv, Own, Placed
  <1>7. StructHeld(s)'
    BY <1>1, <1>2, <1>5 DEF StructHeld
  <1> QED
    BY <1>1, <1>2, <1>3, <1>4, <1>5, <1>6, <1>7, QuietStep

LEMMA AnswerLocks ==
    ASSUME LockInv, NEW s \in Sessions, Answer(s) \/ Leave(s)
    PROVE  LockInv'
  <1>1. pc[s] \in {"answer", "idle"} /\ UNCHANGED <<struct, tlock, dlock, dirty>>
    BY DEF Answer, Leave, locks, data
  <1>2. PICK st \in Ends \cup {NoStmt} :
          /\ stmt' = [stmt EXCEPT ![s] = st]
          /\ pc' = [pc EXCEPT ![s] = IF st = NoStmt THEN "idle" ELSE "structural"]
    <2>1. CASE Answer(s)
      BY <2>1 DEF Answer, Goto
    <2>2. CASE Leave(s)
      <3>1. PICK k \in {"commit", "rollback"} : stmt' = [stmt EXCEPT ![s] = [NoStmt EXCEPT !.kind = k]]
        BY <2>2 DEF Leave
      <3>2. [NoStmt EXCEPT !.kind = k] \in Ends /\ [NoStmt EXCEPT !.kind = k] # NoStmt
        BY DEF Ends, NoStmt
      <3>3. pc' = [pc EXCEPT ![s] = "structural"]
        BY <2>2 DEF Leave, Goto
      <3> QED
        BY <3>1, <3>2, <3>3
    <2> QED
      BY <2>1, <2>2
  <1>3. phase' \in [Sessions -> Nat] /\ phase'[s] = 1 /\ \A r \in Sessions \ {s} : phase'[r] = phase[r]
    BY DEF Answer, Leave, LockInv, LockTypes, Own, Placed
  <1>4. LockTypes'
    BY <1>1, <1>2, <1>3 DEF LockInv, LockTypes, Points
  <1>5. \A r \in Sessions \ {s} : Aside(r)
    BY <1>1, <1>2, <1>3 DEF LockInv, LockTypes, Aside
  <1>6. stmt'[s] = st /\ pc'[s] = IF st = NoStmt THEN "idle" ELSE "structural"
    BY <1>2 DEF LockInv, LockTypes
  <1>7. ~IsExclusive(st)
    BY DEF IsExclusive, Ends, NoStmt
  <1>8. Placed(s)'
    BY <1>3, <1>6, <1>7, HasPhase DEF Placed
  <1>9. StructHeld(s)'
    BY <1>6 DEF StructHeld
  <1> QED
    BY <1>1, <1>4, <1>5, <1>8, <1>9, QuietStep

(* One more table lock: the first one missing, in the statement's mode.    *)
LEMMA TakeTableLocks ==
    ASSUME LockInv, NEW s \in Sessions, TakeTable(s)
    PROVE  LockInv'
  <1> DEFINE t == NextTable(s)
             m == Mode(stmt[s])
  <1>1. UNCHANGED <<pc, stmt, phase, struct, dlock, dirty>> /\ pc[s] = "run"
    BY DEF TakeTable, data
  <1>2. tlock' = [tlock EXCEPT ![s][t] = m] /\ TableFree(s, t, m)
    BY DEF TakeTable
  <1>3. t \in Needed(s) /\ t \in Tables /\ tlock[s][t] = None
    BY NextTableMissing DEF TakeTable, LockInv, Own
  <1>4. m \in {"S", "X"}
    BY DEF Mode
  <1> HIDE DEF t, m
  <1>5. LockTypes'
    BY <1>1, <1>2, <1>4 DEF LockInv, LockTypes, Modes
  <1>6. /\ \A r \in Sessions \ {s} : Aside(r)
        /\ tlock'[s][t] = m /\ \A u \in Tables \ {t} : tlock'[s][u] = tlock[s][u]
    BY <1>1, <1>2, <1>3 DEF LockInv, LockTypes, Aside
  <1>7. Needed(s)' = Needed(s) /\ Step(s)' = Step(s) /\ Mode(stmt[s])' = m /\ \A u : DataMode(s, u)' = DataMode(s, u)
    BY <1>1 DEF Needed, Step, DataMode, m
  <1>8. HeldIsAsked(s)'
    BY <1>1, <1>3, <1>6, <1>7 DEF LockInv, Own, HeldIsAsked, m
  <1>9. Own(s)'
    BY <1>1, <1>8 DEF LockInv, Own, Placed, StructHeld
  <1>10. \A r \in Sessions \ {s} : IF m = "X" THEN tlock[r][t] = None ELSE tlock[r][t] # "X"
    BY <1>2 DEF TableFree
  <1>11. Apart'
    <2>1. \A u \in Tables :
              \/ tlock'[s][u] \in {tlock[s][u], None}
              \/ tlock'[s][u] = "S" /\ \A r \in Sessions \ {s} : tlock[r][u] # "X"
              \/ tlock'[s][u] = "X" /\ \A r \in Sessions \ {s} : tlock[r][u] = None
      BY <1>4, <1>6, <1>10
    <2> QED
      BY <1>1, <1>6, <2>1, ApartKept DEF LockInv
  <1> QED
    BY <1>5, <1>6, <1>9, <1>11, LockStep

(* One more data lock: the first one missing, in the phase's mode.         *)
LEMMA TakeDataLocks ==
    ASSUME LockInv, NEW s \in Sessions, TakeData(s)
    PROVE  LockInv'
  <1>0. PICK t, m : t = NextData(s) /\ m = DataMode(s, t)
    OBVIOUS
  <1>1. UNCHANGED <<pc, stmt, phase, struct, tlock, dirty>> /\ pc[s] = "run"
    BY DEF TakeData, data
  <1>2. dlock' = [dlock EXCEPT ![s][t] = m] /\ DataFree(s, t, m)
    BY <1>0 DEF TakeData
  <1>3. t \in Step(s).dx \cup Step(s).ds /\ t \in Tables /\ dlock[s][t] = None
    BY <1>0, NextDataMissing DEF TakeData, LockInv, Own
  <1>4. m \in {"S", "X"}
    BY <1>0 DEF DataMode
  <1>5. Needed(s)' = Needed(s) /\ Step(s)' = Step(s) /\ \A u : DataMode(s, u)' = DataMode(s, u)
    BY <1>1 DEF Needed, Step, DataMode
  <1>6. DataMode(s, t)' = m
    BY <1>0, <1>5
  <1>7. LockTypes'
    BY <1>1, <1>2, <1>4 DEF LockInv, LockTypes, Modes
  <1>8. /\ \A r \in Sessions \ {s} : Aside(r)
        /\ dlock'[s][t] = m /\ \A u \in Tables \ {t} : dlock'[s][u] = dlock[s][u]
    BY <1>1, <1>2, <1>3 DEF LockInv, LockTypes, Aside
  <1>9. HeldIsAsked(s)'
    BY <1>1, <1>3, <1>5, <1>6, <1>8 DEF LockInv, Own, HeldIsAsked
  <1>10. Own(s)'
    BY <1>1, <1>9 DEF LockInv, Own, Placed, StructHeld
  <1>11. \A r \in Sessions \ {s} : IF m = "X" THEN dlock[r][t] = None ELSE dlock[r][t] # "X"
    BY <1>2 DEF DataFree
  <1>12. Apart'
    <2>1. \A u \in Tables :
              \/ dlock'[s][u] \in {dlock[s][u], None}
              \/ dlock'[s][u] = "S" /\ \A r \in Sessions \ {s} : dlock[r][u] # "X"
              \/ dlock'[s][u] = "X" /\ \A r \in Sessions \ {s} : dlock[r][u] = None
      BY <1>4, <1>8, <1>11
    <2> QED
      BY <1>1, <1>8, <2>1, ApartKept DEF LockInv
  <1> QED
    BY <1>7, <1>8, <1>10, <1>12, LockStep

(* A step that lets locks go, moves on, and takes none.                    *)
LEMMA LetGo ==
    ASSUME LockInv, NEW s \in Sessions, LockTypes', \A r \in Sessions \ {s} : Aside(r),
           Placed(s)', StructHeld(s)', HeldIsAsked(s)',
           struct'[s] \in {struct[s], None},
           \A t \in Tables : tlock'[s][t] \in {tlock[s][t], None} /\ dlock'[s][t] \in {dlock[s][t], None}
    PROVE  LockInv'
  <1>1. Apart'
    BY ApartKept DEF LockInv
  <1> QED
    BY <1>1, LockStep DEF Own

(* A statement without table locks of its own, at its rows, has none.      *)
LEMMA BareStatement ==
    ASSUME LockInv, NEW s \in Sessions, IsExclusive(stmt[s]) \/ stmt[s].kind = "view"
    PROVE  \A t \in Tables : tlock[s][t] = None /\ dlock[s][t] = None
  <1>1. stmt[s].kind \notin {"select", "insert", "update", "delete", "multi", "commit", "rollback"}
    BY DEF IsExclusive
  <1>2. Len(Program(stmt[s])) = 1 /\ Program(stmt[s])[1].dx = {} /\ Program(stmt[s])[1].ds = {} /\ LockSet(stmt[s]) = {}
    BY <1>1, OnePhase
  <1>3. Step(s).dx \cup Step(s).ds = {}
    BY <1>2 DEF LockInv, Own, Placed, Step
  <1>4. Needed(s) = {}
    BY <1>1, <1>2 DEF Needed, IsEnd
  <1> QED
    BY <1>3, <1>4 DEF LockInv, Own, HeldIsAsked

(* A SELECT has read: all its locks go.                                    *)
LEMMA ReadLocks ==
    ASSUME LockInv, NEW s \in Sessions, Read(s)
    PROVE  LockInv'
  <1>1. /\ struct' = [struct EXCEPT ![s] = None]
        /\ tlock' = [tlock EXCEPT ![s] = Nothing] /\ dlock' = [dlock EXCEPT ![s] = Nothing]
        /\ pc' = [pc EXCEPT ![s] = IF txn[s] THEN "answer" ELSE "check"]
        /\ UNCHANGED <<stmt, phase, dirty>> /\ pc[s] = "run" /\ IsSelect(stmt[s])
    BY DEF Read, Goto, AtRows, data
  <1>2. LockTypes'
    BY <1>1 DEF LockInv, LockTypes, Points, Modes, Nothing
  <1>3. \A r \in Sessions \ {s} : Aside(r)
    BY <1>1 DEF LockInv, LockTypes, Aside
  <1>4. /\ pc'[s] \in {"answer", "check"} /\ struct'[s] = None
        /\ \A t \in Tables : tlock'[s][t] = None /\ dlock'[s][t] = None
    BY <1>1 DEF LockInv, LockTypes, Nothing
  <1>5. Placed(s)'
    BY <1>1, <1>4 DEF LockInv, Own, Placed
  <1>6. StructHeld(s)' /\ HeldIsAsked(s)'
    BY <1>4 DEF StructHeld, HeldIsAsked
  <1> QED
    BY <1>2, <1>3, <1>4, <1>5, <1>6, LetGo

(* The wait for a row: everything goes, except on the exclusive path.      *)
LEMMA BlockLocks ==
    ASSUME LockInv, NEW s \in Sessions, Block(s)
    PROVE  LockInv'
  <1>1. /\ dlock' = [dlock EXCEPT ![s] = Nothing]
        /\ pc' = [pc EXCEPT ![s] = "wait"] /\ pc[s] = "run"
        /\ UNCHANGED <<stmt, dirty>>
        /\ phase' = [phase EXCEPT ![s] = IF stmt[s].kind = "multi" THEN @ ELSE 1]
    BY DEF Block, ReleaseForBlock, Goto, AtRows, data
  <1>2. IF IsExclusive(stmt[s]) THEN UNCHANGED <<struct, tlock>>
        ELSE struct' = [struct EXCEPT ![s] = None] /\ tlock' = [tlock EXCEPT ![s] = Nothing]
    BY DEF Block, ReleaseForBlock
  <1>3. LockTypes'
    <2>1. Nothing \in [Tables -> Modes] /\ None \in Modes
      BY DEF Nothing, Modes
    <2>2. struct' \in [Sessions -> Modes] /\ tlock' \in [Sessions -> [Tables -> Modes]]
      BY <1>2, <2>1 DEF LockInv, LockTypes
    <2>3. pc' \in [Sessions -> Points] /\ phase' \in [Sessions -> Nat]
      BY <1>1 DEF LockInv, LockTypes, Points
    <2> QED
      BY <1>1, <2>1, <2>2, <2>3 DEF LockInv, LockTypes
  <1>4. \A r \in Sessions \ {s} : Aside(r)
    BY <1>1, <1>2 DEF LockInv, LockTypes, Aside
  <1>5. /\ pc'[s] = "wait" /\ phase'[s] \in {phase[s], 1}
        /\ struct'[s] = IF IsExclusive(stmt[s]) THEN struct[s] ELSE None
        /\ \A t \in Tables : tlock'[s][t] = None /\ dlock'[s][t] = None
    BY <1>1, <1>2, BareStatement DEF LockInv, LockTypes, Nothing
  <1>6. IsDml(stmt[s]) \/ IsExclusive(stmt[s])
    BY DEF Block, Claims, IsDml, IsExclusive
  <1>7. Placed(s)'
    BY <1>1, <1>5, <1>6, HasPhase DEF LockInv, Own, Placed
  <1>8. StructHeld(s)' /\ HeldIsAsked(s)'
    BY <1>1, <1>5 DEF LockInv, Own, StructHeld, HeldIsAsked
  <1> QED
    BY <1>3, <1>4, <1>5, <1>7, <1>8, LetGo

(* The end of a phase: its data locks go, the table locks stay.            *)
LEMMA NextPhaseLocks ==
    ASSUME LockInv, NEW s \in Sessions, NextPhase(s)
    PROVE  LockInv'
  <1> DEFINE last == phase[s] = Len(Program(stmt[s]))
  <1>1. /\ dlock' = [dlock EXCEPT ![s] = Nothing]
        /\ UNCHANGED <<stmt, struct, tlock>> /\ IsDml(stmt[s]) /\ pc[s] = "run"
        /\ phase' = [phase EXCEPT ![s] = IF last THEN 1 ELSE @ + 1]
        /\ pc' = [pc EXCEPT ![s] = IF last THEN "persist" ELSE "run"]
        /\ dirty' = [dirty EXCEPT ![s] = IF last /\ txn[s] THEN @ \cup Writes(stmt[s]) ELSE @]
    BY DEF NextPhase, AtRows, Goto
  <1>2. stmt[s] \in Menu
    BY <1>1, StmtTyped DEF LockInv, LockTypes, IsDml, Kinds
  <1>3. Writes(stmt[s]) \subseteq Tables
    BY <1>2, MenuTyped, NeighborsTyped DEF Writes
  <1>4. LockTypes'
    BY <1>1, <1>3 DEF LockInv, LockTypes, Points, Modes, Nothing
  <1>5. \A r \in Sessions \ {s} : Aside(r)
    BY <1>1 DEF LockInv, LockTypes, Aside
  <1>6. /\ pc'[s] = (IF last THEN "persist" ELSE "run") /\ phase'[s] = (IF last THEN 1 ELSE phase[s] + 1)
        /\ \A t \in Tables : dlock'[s][t] = None
    BY <1>1 DEF LockInv, LockTypes, Nothing
  <1>7. Placed(s)'
    BY <1>1, <1>6, HasPhase DEF LockInv, Own, Placed
  <1>8. StructHeld(s)'
    BY <1>1, <1>6 DEF LockInv, Own, StructHeld
  <1>9. Needed(s)' = Needed(s)
    BY <1>1 DEF Needed, IsDml, IsEnd
  <1>10. HeldIsAsked(s)'
    BY <1>1, <1>6, <1>9 DEF LockInv, Own, HeldIsAsked
  <1> QED
    BY <1>1, <1>4, <1>5, <1>6, <1>7, <1>8, <1>10, LetGo

(* The end of a write: the structural and the table locks go.              *)
LEMMA PersistLocks ==
    ASSUME LockInv, NEW s \in Sessions, Persist(s)
    PROVE  LockInv'
  <1>1. /\ struct' = [struct EXCEPT ![s] = None] /\ tlock' = [tlock EXCEPT ![s] = Nothing]
        /\ pc' = [pc EXCEPT ![s] = "after"] /\ pc[s] = "persist"
        /\ UNCHANGED <<stmt, phase, dlock, dirty>>
    BY DEF Persist, Goto, data
  <1>2. LockTypes'
    BY <1>1 DEF LockInv, LockTypes, Points, Modes, Nothing
  <1>3. \A r \in Sessions \ {s} : Aside(r)
    BY <1>1 DEF LockInv, LockTypes, Aside
  <1>4. /\ pc'[s] = "after" /\ struct'[s] = None
        /\ \A t \in Tables : tlock'[s][t] = None /\ dlock'[s][t] = None
    BY <1>1 DEF LockInv, LockTypes, Nothing, Own, HeldIsAsked
  <1>5. Placed(s)'
    BY <1>1, <1>4 DEF LockInv, Own, Placed
  <1>6. StructHeld(s)' /\ HeldIsAsked(s)'
    BY <1>4 DEF StructHeld, HeldIsAsked
  <1> QED
    BY <1>2, <1>3, <1>4, <1>5, <1>6, LetGo

(* A statement without table locks is over: the structural lock goes.      *)
LEMMA BareEndLocks ==
    ASSUME LockInv, NEW s \in Sessions, ReadView(s) \/ RunExclusive(s)
    PROVE  LockInv'
  <1>1. PICK to \in {"answer", "after"} :
        /\ struct' = [struct EXCEPT ![s] = None] /\ pc' = [pc EXCEPT ![s] = to] /\ pc[s] = "run"
        /\ UNCHANGED <<stmt, phase, tlock, dlock>>
        /\ IsExclusive(stmt[s]) \/ stmt[s].kind = "view"
        /\ to = "after" => IsExclusive(stmt[s])
    BY DEF ReadView, RunExclusive, Goto, AtRows
  <1>2. dirty' \in [Sessions -> SUBSET Tables] /\ \A r \in Sessions \ {s} : dirty'[r] = dirty[r]
    <2>1. CASE ReadView(s)
      BY <2>1 DEF ReadView, data, LockInv, LockTypes
    <2>2. CASE RunExclusive(s)
      <3>1. stmt[s] \in Menu
        BY <2>2, StmtTyped DEF RunExclusive, LockInv, LockTypes, IsExclusive, Kinds
      <3>2. Writes(stmt[s]) \subseteq Tables
        BY <3>1, MenuTyped, NeighborsTyped DEF Writes
      <3> QED
        BY <2>2, <3>2 DEF RunExclusive, LockInv, LockTypes
    <2> QED
      BY <2>1, <2>2
  <1>3. LockTypes'
    BY <1>1, <1>2 DEF LockInv, LockTypes, Points, Modes
  <1>4. \A r \in Sessions \ {s} : Aside(r)
    BY <1>1, <1>2 DEF LockInv, LockTypes, Aside
  <1>5. /\ pc'[s] = to /\ struct'[s] = None
        /\ \A t \in Tables : tlock'[s][t] = None /\ dlock'[s][t] = None
    BY <1>1, BareStatement DEF LockInv, LockTypes
  <1>6. Placed(s)'
    BY <1>1, <1>5 DEF LockInv, Own, Placed
  <1>7. StructHeld(s)' /\ HeldIsAsked(s)'
    BY <1>5 DEF StructHeld, HeldIsAsked
  <1> QED
    BY <1>1, <1>3, <1>4, <1>5, <1>6, <1>7, LetGo

(* COMMIT and ROLLBACK: all locks go, and the set of written tables.       *)
LEMMA EndLocks ==
    ASSUME LockInv, NEW s \in Sessions, End(s)
    PROVE  LockInv'
  <1>1. /\ struct' = [struct EXCEPT ![s] = None] /\ tlock' = [tlock EXCEPT ![s] = Nothing]
        /\ pc' = [pc EXCEPT ![s] = "answer"] /\ pc[s] = "run"
        /\ UNCHANGED <<stmt, phase, dlock>> /\ dirty' = [dirty EXCEPT ![s] = {}] /\ IsEnd(stmt[s])
    BY DEF End, Goto, AtRows
  <1>2. LockTypes'
    BY <1>1 DEF LockInv, LockTypes, Points, Modes, Nothing
  <1>3. \A r \in Sessions \ {s} : Aside(r)
    BY <1>1 DEF LockInv, LockTypes, Aside
  <1>4. Step(s).dx \cup Step(s).ds = {}
    <2>1. stmt[s].kind \notin {"select", "insert", "update", "delete", "multi"}
      BY <1>1 DEF IsEnd
    <2>2. Len(Program(stmt[s])) = 1 /\ Program(stmt[s])[1].dx = {} /\ Program(stmt[s])[1].ds = {}
      BY <2>1, OnePhase
    <2> QED
      BY <2>2 DEF LockInv, Own, Placed, Step
  <1>5. /\ pc'[s] = "answer" /\ struct'[s] = None
        /\ \A t \in Tables : tlock'[s][t] = None /\ dlock'[s][t] = None
    BY <1>1, <1>4 DEF LockInv, LockTypes, Nothing, Own, HeldIsAsked
  <1>6. Placed(s)'
    BY <1>1, <1>5 DEF LockInv, Own, Placed
  <1>7. StructHeld(s)' /\ HeldIsAsked(s)'
    BY <1>5 DEF StructHeld, HeldIsAsked
  <1> QED
    BY <1>2, <1>3, <1>5, <1>6, <1>7, LetGo

LEMMA LocksInit ==
    ASSUME Init
    PROVE  LockInv
  <1>1. LockTypes
    BY DEF Init, LockTypes, Points, Modes, Nothing, Ends
  <1>2. \A s \in Sessions : Own(s)
    BY HasPhase DEF Init, Own, Placed, StructHeld, HeldIsAsked, Nothing
  <1>3. Apart
    BY NoneAssumption DEF Init, Apart, StructApart, TablesApart, DataApart, Nothing
  <1> QED
    BY <1>1, <1>2, <1>3 DEF LockInv

LEMMA LocksNext ==
    ASSUME LockInv, [Next]_vars
    PROVE  LockInv'
  <1>1. CASE UNCHANGED vars
    <2>1. UNCHANGED <<pc, stmt, phase, struct, tlock, dlock, dirty>>
      BY <1>1 DEF vars, locks, data
    <2>2. LockTypes' /\ Apart'
      BY <2>1 DEF LockInv, LockTypes, Apart, StructApart, TablesApart, DataApart
    <2>3. \A s \in Sessions : Own(s)'
      BY <2>1, OwnAside DEF LockInv, Aside
    <2> QED
      BY <2>2, <2>3 DEF LockInv
  <1>2. CASE Next
    <2>1. PICK s \in Sessions : Run(s) \/ TimesOut(s) \/ \E st \in Menu : Send(s, st)
      BY <1>2 DEF Next
    <2>2. CASE Run(s)
      BY <2>2, CacheStepsLocks, TakeStructLocks, TakeTableLocks, TakeDataLocks, ReadLocks, BlockLocks, GrantedLocks,
         NextPhaseLocks, PersistLocks, BareEndLocks, EndLocks, AnswerLocks DEF Run
    <2> QED
      BY <2>1, <2>2, TimesOutLocks, SendLocks
  <1> QED
    BY <1>1, <1>2

(* The locks are always held as they were asked for, and apart.            *)
THEOREM LocksHold == Spec => []LockInv
  <1>1. Init => LockInv
    BY LocksInit
  <1>2. LockInv /\ [Next]_vars => LockInv'
    BY LocksNext
  <1> QED
    BY <1>1, <1>2, PTL DEF Spec

(* NoTornTable for any sessions, tables, foreign keys and statements: a    *)
(* session that changes rows, or the maps of tables, is alone with them.   *)
THEOREM TablesNeverTorn == Spec => []NoTornTable
  <1>1. LockInv => NoTornTable
    BY LocksSuffice
  <1> QED
    BY <1>1, LocksHold, PTL

-----------------------------------------------------------------------------
(***************************************************************************)
(* What is let go, read and cached                                         *)
(***************************************************************************)
(* How the numbers may move in one step: what is let go only grows, within *)
(* what is committed, and where it grows the generation grows with it.     *)
Advance ==
    /\ content' \in Counts /\ floor' \in Counts /\ gen' \in Counts
    /\ \A t \in Tables :
          /\ floor[t] =< floor'[t] /\ floor'[t] =< content'[t]
          /\ gen[t] =< gen'[t]
          /\ floor'[t] # floor[t] => gen[t] < gen'[t]

(* Invalidate drops the answers it should drop and moves the generations.  *)
CacheMove ==
    /\ cache' = [q \in Queries |-> cache'[q]]
    /\ \A q \in Queries : cache'[q] \in {cache[q], None}

LEMMA InvalidateMoves ==
    ASSUME NumberTypes, CacheTypes, NEW T, Invalidate(T)
    PROVE  /\ gen' \in Counts /\ CacheMove
           /\ \A t \in Tables : gen[t] =< gen'[t] /\ (t \in T => gen[t] < gen'[t])
  <1>1. gen' \in Counts
    BY DEF Invalidate, NumberTypes, Counts
  <1>2. CacheMove
    BY DEF Invalidate, CacheMove
  <1>3. \A t \in Tables : gen[t] \in Nat
    BY DEF NumberTypes, Counts
  <1>4. \A t \in Tables : gen'[t] = IF t \in T THEN gen[t] + 1 ELSE gen[t]
    BY DEF Invalidate
  <1> QED
    BY <1>1, <1>2, <1>3, <1>4

(* What is cached stays fresh as the numbers move.                         *)
LEMMA KeptFresh ==
    ASSUME NumberTypes, KeptIsFresh, Advance, CacheMove
    PROVE  KeptIsFresh'
  <1>1. SUFFICES ASSUME NEW q \in Queries, cache'[q] # None
                 PROVE  /\ cache'[q] \in [ver : [q -> Nat], gen : [q -> Nat]]
                        /\ \A t \in q : /\ cache'[q].gen[t] =< gen'[t]
                                        /\ cache'[q].gen[t] = gen'[t] => floor'[t] =< cache'[q].ver[t]
    BY DEF KeptIsFresh
  <1>2. cache'[q] = cache[q] /\ cache[q] # None
    BY <1>1 DEF CacheMove
  <1>3. /\ cache[q] \in [ver : [q -> Nat], gen : [q -> Nat]]
        /\ \A t \in q : /\ cache[q].gen[t] =< gen[t]
                        /\ cache[q].gen[t] = gen[t] => floor[t] =< cache[q].ver[t]
    BY <1>2 DEF KeptIsFresh
  <1>4. q \subseteq Tables
    BY MenuTyped DEF Queries
  <1>5. SUFFICES ASSUME NEW t \in q
                 PROVE  /\ cache[q].gen[t] =< gen'[t]
                        /\ cache[q].gen[t] = gen'[t] => floor'[t] =< cache[q].ver[t]
    BY <1>2, <1>3
  <1>6. cache[q].gen[t] \in Nat /\ cache[q].ver[t] \in Nat
    BY <1>3
  <1>7. /\ gen[t] \in Nat /\ gen'[t] \in Nat /\ floor[t] \in Nat /\ floor'[t] \in Nat
        /\ gen[t] =< gen'[t] /\ (floor'[t] # floor[t] => gen[t] < gen'[t])
    BY <1>4 DEF NumberTypes, Advance, Counts
  <1> QED
    BY <1>3, <1>6, <1>7
(* A session that a step passes by keeps what it has noted and read.       *)
Passed(s) ==
    /\ pc'[s] = pc[s] /\ stmt'[s] = stmt[s] /\ txn'[s] = txn[s]
    /\ since'[s] = since[s] /\ before'[s] = before[s] /\ answer'[s] = answer[s]

LEMMA FreshPassed ==
    ASSUME LockInv, NumberTypes, Advance, NEW s \in Sessions, Fresh(s), Passed(s)
    PROVE  Fresh(s)'
  <1>1. \A t \in Tables :
          /\ gen[t] \in Nat /\ gen'[t] \in Nat /\ floor[t] \in Nat /\ floor'[t] \in Nat
          /\ floor[t] =< floor'[t] /\ gen[t] =< gen'[t] /\ (floor'[t] # floor[t] => gen[t] < gen'[t])
    BY DEF NumberTypes, Advance, Counts
  <1>2. Noted(s)'
    <2>1. IsSelect(stmt[s])' => since'[s] \in Counts /\ \A t \in Tables : since'[s][t] =< floor'[t]
      BY <1>1 DEF Fresh, Noted, Passed, Counts
    <2>2. IsSelect(stmt[s])' /\ ~txn'[s] /\ pc'[s] \in {"structural", "run", "check", "put"} =>
             before'[s] \in Counts /\ \A t \in Tables : before'[s][t] =< gen'[t]
      BY <1>1 DEF Fresh, Noted, Passed, Counts
    <2> QED
      BY <2>1, <2>2 DEF Fresh, Noted, Passed
  <1>3. ReadIsFresh(s)'
    <2>1. SUFFICES ASSUME pc[s] \in {"check", "put"}
                   PROVE  /\ answer[s] \in [stmt[s].tables -> Nat]
                          /\ \A t \in stmt[s].tables :
                                since[s][t] =< answer[s][t] /\ (before[s][t] = gen'[t] => floor'[t] =< answer[s][t])
      BY DEF Fresh, ReadIsFresh, Passed
    <2>2. IsSelect(stmt[s]) /\ stmt[s].tables \subseteq Tables
      BY <2>1, StmtTyped DEF LockInv, LockTypes, Own, Placed
    <2>3. before[s] \in Counts /\ \A t \in Tables : before[s][t] =< gen[t]
      BY <2>1, <2>2 DEF Fresh, Noted
    <2>4. /\ answer[s] \in [stmt[s].tables -> Nat]
          /\ \A t \in stmt[s].tables :
                since[s][t] =< answer[s][t] /\ (before[s][t] = gen[t] => floor[t] =< answer[s][t])
      BY <2>1 DEF Fresh, ReadIsFresh
    <2>5. SUFFICES ASSUME NEW t \in stmt[s].tables, before[s][t] = gen'[t]
                   PROVE  floor'[t] =< answer[s][t]
      BY <2>4
    <2>6. before[s][t] =< gen[t] /\ before[s][t] \in Nat
      BY <2>2, <2>3 DEF Counts
    <2> QED
      BY <1>1, <2>2, <2>4, <2>5, <2>6
  <1> QED
    BY <1>2, <1>3 DEF Fresh

(* What a step of session s has to show.                                   *)
LEMMA CacheStep ==
    ASSUME LockInv, CacheInv, NEW s \in Sessions, txn' \in [Sessions -> BOOLEAN], Advance, CacheTypes',
           \A r \in Sessions \ {s} : Passed(r), Fresh(s)', KeptIsFresh'
    PROVE  CacheInv'
  <1>1. \A r \in Sessions \ {s} : Fresh(r)'
    BY FreshPassed DEF CacheInv
  <1>2. NumberTypes'
    BY DEF NumberTypes, Advance
  <1> QED
    BY <1>1, <1>2 DEF CacheInv

(* Nothing moves when the numbers stay.                                    *)
LEMMA StillAdvance ==
    ASSUME NumberTypes, UNCHANGED <<content, floor, gen>>
    PROVE  Advance
  BY DEF NumberTypes, Advance, Counts

LEMMA StillCache ==
    ASSUME CacheTypes, UNCHANGED cache
    PROVE  CacheMove
  BY DEF CacheTypes, CacheMove

LEMMA SendFresh ==
    ASSUME LockInv, CacheInv, NEW s \in Sessions, NEW st \in Menu, Send(s, st)
    PROVE  CacheInv'
  <1>1. /\ pc[s] = "idle" /\ UNCHANGED <<content, floor, gen, cache, before, answer>>
        /\ stmt' = [stmt EXCEPT ![s] = st] /\ txn' = [txn EXCEPT ![s] = @ \/ st.open]
        /\ since' = [since EXCEPT ![s] = IF IsSelect(st) THEN floor ELSE None]
        /\ pc' = [pc EXCEPT ![s] = CASE IsSelect(st) /\ ~txn[s] -> "lookup"
                                     [] IsExclusive(st) -> "exclusive"
                                     [] OTHER -> "structural"]
    BY DEF Send, Goto
  <1>2. Advance /\ CacheMove
    BY <1>1, StillAdvance, StillCache DEF CacheInv
  <1>3. st.open \in BOOLEAN
    BY MenuAssumption
  <1>4. txn' \in [Sessions -> BOOLEAN] /\ txn'[s] = (txn[s] \/ st.open)
    BY <1>1, <1>3 DEF CacheInv, NumberTypes
  <1>5. CacheTypes'
    BY <1>1 DEF CacheInv, CacheTypes
  <1>6. \A r \in Sessions \ {s} : Passed(r)
    BY <1>1 DEF LockInv, LockTypes, CacheInv, NumberTypes, CacheTypes, Passed
  <1>7. /\ stmt'[s] = st /\ since'[s] = (IF IsSelect(st) THEN floor ELSE None)
        /\ pc'[s] = CASE IsSelect(st) /\ ~txn[s] -> "lookup"
                      [] IsExclusive(st) -> "exclusive"
                      [] OTHER -> "structural"
    BY <1>1 DEF LockInv, LockTypes, CacheInv, CacheTypes
  <1>8. answer'[s] = None
    <2>1. ~IsSelect(stmt[s])
      BY <1>1 DEF LockInv, Own, Placed, IsSelect, NoStmt
    <2> QED
      BY <1>1, <2>1 DEF CacheInv, Fresh, ReadIsFresh
  <1>9. Noted(s)'
    BY <1>1, <1>4, <1>7 DEF Noted, CacheInv, NumberTypes, Counts, IsSelect, IsExclusive
  <1>10. ReadIsFresh(s)'
    BY <1>7, <1>8 DEF ReadIsFresh, IsSelect, IsExclusive
  <1> QED
    BY <1>2, <1>4, <1>5, <1>6, <1>9, <1>10, CacheStep, KeptFresh DEF CacheInv, Fresh

(* A step that moves a session on and touches none of the numbers.         *)
LEMMA PlainFresh ==
    ASSUME LockInv, CacheInv, NEW s \in Sessions, NEW to,
           pc' = [pc EXCEPT ![s] = to], UNCHANGED <<stmt, txn, content, floor, qc>>,
           to \in {"exclusive", "structural", "run", "wait", "after", "answer"},
           to = "answer" => ~IsSelect(stmt[s]),
           to \in {"structural", "run"} /\ IsSelect(stmt[s]) => pc[s] \in {"structural", "run"}
    PROVE  CacheInv'
  <1>1. UNCHANGED <<content, floor, gen, cache, before, answer, since>>
    BY DEF qc
  <1>2. Advance /\ CacheMove
    BY <1>1, StillAdvance, StillCache DEF CacheInv
  <1>3. txn' \in [Sessions -> BOOLEAN] /\ CacheTypes'
    BY <1>1 DEF CacheInv, NumberTypes, CacheTypes
  <1>4. \A r \in Sessions \ {s} : Passed(r)
    BY <1>1 DEF LockInv, LockTypes, Passed
  <1>5. pc'[s] = to
    BY DEF LockInv, LockTypes
  <1>6. Noted(s)'
    BY <1>1, <1>5 DEF Noted, CacheInv, Fresh
  <1>7. ReadIsFresh(s)'
    BY <1>1, <1>5 DEF ReadIsFresh, CacheInv, Fresh
  <1> QED
    BY <1>2, <1>3, <1>4, <1>6, <1>7, CacheStep, KeptFresh DEF CacheInv, Fresh

(* The steps for locks, the wait, and the statements without numbers.      *)
LEMMA LockStepsFresh ==
    ASSUME LockInv, CacheInv, NEW s \in Sessions,
           \/ TakeStructural(s) \/ TakeTable(s) \/ TakeData(s) \/ TakeExclusive(s)
           \/ Block(s) \/ Granted(s) \/ TimesOut(s) \/ Persist(s) \/ ReadView(s)
    PROVE  CacheInv'
  <1>0. pc = [r \in Sessions |-> pc[r]] /\ Own(s)
    BY DEF LockInv, LockTypes
  <1>1. CASE TakeStructural(s)
    BY <1>1, PlainFresh DEF TakeStructural, Goto, data
  <1>2. CASE TakeTable(s) \/ TakeData(s)
    <2>1. pc' = [pc EXCEPT ![s] = "run"] /\ pc[s] = "run"
      BY <1>0, <1>2 DEF TakeTable, TakeData
    <2> QED
      BY <1>2, <2>1, PlainFresh DEF TakeTable, TakeData, data
  <1>3. CASE TakeExclusive(s)
    <2>1. ~IsSelect(stmt[s])
      BY <1>0, <1>3 DEF TakeExclusive, Own, Placed, IsSelect, IsExclusive
    <2> QED
      BY <1>3, <2>1, PlainFresh DEF TakeExclusive, Goto, data
  <1>4. CASE Block(s)
    BY <1>4, PlainFresh DEF Block, Goto, data
  <1>5. CASE Granted(s) \/ TimesOut(s)
    <2>1. ~IsSelect(stmt[s])
      BY <1>0, <1>5 DEF Granted, TimesOut, Own, Placed, IsSelect, IsExclusive, IsDml
    <2> QED
      BY <1>5, <2>1, PlainFresh DEF Granted, TimesOut, Goto, data
  <1>6. CASE Persist(s)
    BY <1>6, PlainFresh DEF Persist, Goto, data
  <1>7. CASE ReadView(s)
    BY <1>7, PlainFresh DEF ReadView, Goto, IsSelect, data
  <1> QED
    BY <1>1, <1>2, <1>3, <1>4, <1>5, <1>6, <1>7

(* A step of a writer: the numbers move as they may.                       *)
LEMMA WriterFresh ==
    ASSUME LockInv, CacheInv, NEW s \in Sessions, NEW to, ~IsSelect(stmt[s]),
           pc' = [pc EXCEPT ![s] = to], to \notin {"check", "put"},
           UNCHANGED <<stmt, before, answer, since>>,
           txn' \in [Sessions -> BOOLEAN], \A r \in Sessions \ {s} : txn'[r] = txn[r],
           Advance, CacheMove
    PROVE  CacheInv'
  <1>1. CacheTypes'
    BY DEF CacheInv, CacheTypes, CacheMove
  <1>2. \A r \in Sessions \ {s} : Passed(r)
    BY DEF LockInv, LockTypes, Passed
  <1>3. pc'[s] = to
    BY DEF LockInv, LockTypes
  <1>4. Noted(s)'
    BY <1>3 DEF Noted
  <1>5. ReadIsFresh(s)'
    BY <1>3 DEF ReadIsFresh, CacheInv, Fresh
  <1> QED
    BY <1>1, <1>2, <1>4, <1>5, CacheStep, KeptFresh DEF CacheInv, Fresh

(* Committing the changes of some tables, letting them go, or some of      *)
(* them, and telling the cache of those and perhaps more.                  *)
LEMMA CommitAdvances ==
    ASSUME NumberTypes, CacheTypes, NEW B, NEW S, NEW T, S \subseteq T, Bump(B), Settle(S), Invalidate(T)
    PROVE  Advance /\ CacheMove
  <1>1. \A t \in Tables :
          /\ content[t] \in Nat /\ floor[t] \in Nat /\ floor[t] =< content[t]
          /\ content'[t] = IF t \in B THEN content[t] + 1 ELSE content[t]
          /\ floor'[t] = IF t \in S THEN content'[t] ELSE floor[t]
    BY DEF NumberTypes, Counts, Bump, Settle
  <1>2. content' \in Counts
    BY <1>1 DEF Bump, Counts
  <1>3. floor' \in Counts
    BY <1>1, <1>2 DEF Settle, Counts
  <1>4. gen' \in Counts /\ CacheMove /\ \A t \in Tables : gen[t] =< gen'[t] /\ (t \in T => gen[t] < gen'[t])
    BY InvalidateMoves
  <1> QED
    BY <1>1, <1>2, <1>3, <1>4 DEF Advance

LEMMA WritersFresh ==
    ASSUME LockInv, CacheInv, NEW s \in Sessions, NextPhase(s) \/ RunExclusive(s) \/ End(s) \/ After(s)
    PROVE  CacheInv'
  <1>0. NumberTypes /\ CacheTypes /\ txn \in [Sessions -> BOOLEAN]
    BY DEF CacheInv, NumberTypes
  <1>1. CASE NextPhase(s)
    <2>1. PICK B, T : B \subseteq T /\ Bump(B) /\ Settle(B) /\ Invalidate(T)
      BY <1>1 DEF NextPhase
    <2>2. Advance /\ CacheMove
      BY <1>0, <2>1, CommitAdvances
    <2>3. PICK to \in {"persist", "run"} : pc' = [pc EXCEPT ![s] = to]
      BY <1>1 DEF NextPhase, Goto
    <2>4. ~IsSelect(stmt[s]) /\ UNCHANGED <<stmt, before, answer, since, txn>>
      BY <1>1 DEF NextPhase, IsSelect, IsDml
    <2> QED
      BY <1>0, <2>2, <2>3, <2>4, WriterFresh
  <1>2. CASE RunExclusive(s)
    <2>1. PICK B, S, T : S \subseteq T /\ Bump(B) /\ Settle(S) /\ Invalidate(T)
      BY <1>2 DEF RunExclusive
    <2>2. Advance /\ CacheMove
      BY <1>0, <2>1, CommitAdvances
    <2>3. ~IsSelect(stmt[s])
      BY <1>2 DEF RunExclusive, IsSelect, IsExclusive
    <2>4. PICK to \in {"after"} : pc' = [pc EXCEPT ![s] = to]
      BY <1>2 DEF RunExclusive, Goto
    <2>5. UNCHANGED <<stmt, before, answer, since, txn>>
      BY <1>2 DEF RunExclusive
    <2> QED
      BY <1>0, <2>2, <2>3, <2>4, <2>5, WriterFresh
  <1>3. CASE End(s)
    <2>1. PICK W : Bump(W) /\ Settle(W) /\ Invalidate(W)
      BY <1>3 DEF End
    <2>2. Advance /\ CacheMove
      BY <1>0, <2>1, CommitAdvances
    <2> QED
      BY <1>0, <1>3, <2>2, WriterFresh DEF End, Goto, IsSelect, IsEnd
  <1>4. CASE After(s)
    <2>1. ~IsSelect(stmt[s])
      BY <1>4 DEF After, LockInv, Own, Placed, IsSelect, IsDml, IsExclusive
    <2> DEFINE T == IF stmt[s].kind = "call" THEN {} ELSE stmt[s].tables
    <2>2. gen' \in Counts /\ CacheMove /\ \A t \in Tables : gen[t] =< gen'[t] /\ (t \in T => gen[t] < gen'[t])
      BY <1>0, <1>4, InvalidateMoves DEF After
    <2>3. \A t \in Tables :
            /\ content[t] \in Nat /\ floor[t] \in Nat /\ floor[t] =< content[t]
            /\ floor'[t] = IF stmt[s].kind = "ddl" /\ t \in stmt[s].tables THEN content[t] ELSE floor[t]
      BY <1>4 DEF After, CacheInv, NumberTypes, Counts
    <2>4. floor' \in Counts /\ content' = content
      BY <1>4, <2>3 DEF After, Counts
    <2>5. Advance
      BY <1>0, <2>2, <2>3, <2>4 DEF Advance, NumberTypes
    <2> QED
      BY <1>0, <1>4, <2>1, <2>2, <2>5, WriterFresh DEF After, Goto
  <1> QED
    BY <1>1, <1>2, <1>3, <1>4

(* A SELECT that asks the cache, or notes the generations.                 *)
LEMMA AskFresh ==
    ASSUME LockInv, CacheInv, NEW s \in Sessions, Lookup(s) \/ Capture(s)
    PROVE  CacheInv'
  <1>1. pc[s] \in {"lookup", "capture"} /\ UNCHANGED <<stmt, txn, content, floor, gen, cache, since>>
    BY DEF Lookup, Capture, data
  <1>2. Advance /\ CacheMove
    BY <1>1, StillAdvance, StillCache DEF CacheInv
  <1>3. txn' \in [Sessions -> BOOLEAN]
    BY <1>1 DEF CacheInv, NumberTypes
  <1>4. IsSelect(stmt[s]) /\ stmt[s].tables \in Queries /\ stmt[s].tables \subseteq Tables
    <2>1. IsSelect(stmt[s]) /\ stmt[s] \in Menu
      BY <1>1, StmtTyped DEF LockInv, LockTypes, Own, Placed, IsSelect, Kinds
    <2> QED
      BY <2>1, MenuTyped DEF IsSelect, Queries
  <1>5. \A t \in Tables : gen[t] \in Nat /\ floor[t] \in Nat
    BY DEF CacheInv, NumberTypes, Counts
  <1>6. since[s] \in Counts /\ \A t \in Tables : since[s][t] =< floor[t]
    BY <1>4 DEF CacheInv, Fresh, Noted
  <1>7. CASE Lookup(s) /\ Hit(s)
    <2> DEFINE q == stmt[s].tables
    <2>1. answer' = [answer EXCEPT ![s] = cache[q].ver] /\ pc' = [pc EXCEPT ![s] = "answer"] /\ UNCHANGED before
      BY <1>7 DEF Lookup, Goto
    <2>2. pc'[s] = "answer" /\ answer'[s] = cache[q].ver
      BY <2>1 DEF LockInv, LockTypes, CacheInv, CacheTypes
    <2>3. cache[q] # None /\ \A t \in q : cache[q].gen[t] = gen[t]
      BY <1>7 DEF Hit
    <2>4. \A t \in q : cache[q].ver[t] \in Nat /\ floor[t] =< cache[q].ver[t]
      BY <1>4, <2>3 DEF CacheInv, KeptIsFresh
    <2>5. \A t \in q : cache[q].ver[t] >= since[s][t]
      BY <1>4, <1>5, <1>6, <2>4 DEF Counts
    <2>6. Fresh(s)'
      BY <1>1, <1>4, <1>6, <2>2, <2>5 DEF Fresh, Noted, ReadIsFresh
    <2>7. CacheTypes' /\ \A r \in Sessions \ {s} : Passed(r)
      BY <1>1, <2>1 DEF LockInv, LockTypes, CacheInv, CacheTypes, Passed
    <2> QED
      BY <1>2, <1>3, <2>6, <2>7, CacheStep, KeptFresh DEF CacheInv
  <1>8. CASE Lookup(s) /\ ~Hit(s)
    <2>1. pc' = [pc EXCEPT ![s] = "capture"] /\ UNCHANGED <<answer, before>>
      BY <1>8 DEF Lookup, Goto
    <2>2. pc'[s] = "capture"
      BY <2>1 DEF LockInv, LockTypes
    <2>3. Fresh(s)'
      BY <1>1, <1>4, <1>6, <2>1, <2>2 DEF Fresh, Noted, ReadIsFresh
    <2>4. CacheTypes' /\ \A r \in Sessions \ {s} : Passed(r)
      BY <1>1, <2>1 DEF LockInv, LockTypes, CacheInv, CacheTypes, Passed
    <2> QED
      BY <1>2, <1>3, <2>3, <2>4, CacheStep, KeptFresh DEF CacheInv
  <1>9. CASE Capture(s)
    <2>1. pc' = [pc EXCEPT ![s] = "structural"] /\ UNCHANGED answer /\ before' = [before EXCEPT ![s] = gen]
      BY <1>9 DEF Capture, Goto
    <2>2. pc'[s] = "structural" /\ before'[s] = gen
      BY <2>1 DEF LockInv, LockTypes, CacheInv, CacheTypes
    <2>3. gen \in Counts /\ \A t \in Tables : gen[t] =< gen[t]
      BY <1>5 DEF CacheInv, NumberTypes
    <2>4. Fresh(s)'
      BY <1>1, <1>4, <1>6, <2>1, <2>2, <2>3 DEF Fresh, Noted, ReadIsFresh
    <2>5. CacheTypes' /\ \A r \in Sessions \ {s} : Passed(r)
      BY <1>1, <2>1 DEF LockInv, LockTypes, CacheInv, CacheTypes, Passed
    <2> QED
      BY <1>2, <1>3, <2>4, <2>5, CacheStep, KeptFresh DEF CacheInv
  <1> QED
    BY <1>7, <1>8, <1>9

(* A SELECT reads what is committed, which is no less than what was let go.*)
LEMMA ReadFresh ==
    ASSUME LockInv, CacheInv, NEW s \in Sessions, Read(s)
    PROVE  CacheInv'
  <1> DEFINE T == stmt[s].tables
             a == [t \in T |-> content[t]]
             to == IF txn[s] THEN "answer" ELSE "check"
  <1>1. /\ pc[s] = "run" /\ IsSelect(stmt[s]) /\ UNCHANGED <<stmt, txn, content, floor, gen, cache, before, since>>
        /\ answer' = [answer EXCEPT ![s] = a] /\ pc' = [pc EXCEPT ![s] = to]
    BY DEF Read, AtRows, Goto, data
  <1>2. Advance /\ CacheMove
    BY <1>1, StillAdvance, StillCache DEF CacheInv
  <1>3. txn' \in [Sessions -> BOOLEAN]
    BY <1>1 DEF CacheInv, NumberTypes
  <1>4. CacheTypes' /\ \A r \in Sessions \ {s} : Passed(r)
    BY <1>1 DEF LockInv, LockTypes, CacheInv, CacheTypes, Passed
  <1>5. T \subseteq Tables
    BY StmtTyped DEF LockInv, LockTypes
  <1>6. since[s] \in Counts /\ \A t \in Tables : since[s][t] =< floor[t]
    BY <1>1 DEF CacheInv, Fresh, Noted
  <1>7. \A t \in Tables : content[t] \in Nat /\ floor[t] \in Nat /\ floor[t] =< content[t]
    BY DEF CacheInv, NumberTypes, Counts
  <1>8. pc'[s] = to /\ answer'[s] = a
    BY <1>1 DEF LockInv, LockTypes, CacheInv, CacheTypes
  <1>9. a \in [T -> Nat] /\ \A t \in T : floor[t] =< a[t] /\ since[s][t] =< a[t] /\ a[t] >= since[s][t]
    BY <1>5, <1>6, <1>7 DEF Counts
  <1> HIDE DEF a
  <1>10. Noted(s)'
    BY <1>1, <1>6, <1>8 DEF CacheInv, Fresh, Noted
  <1>11. ReadIsFresh(s)'
    BY <1>1, <1>8, <1>9 DEF ReadIsFresh
  <1> QED
    BY <1>2, <1>3, <1>4, <1>10, <1>11, CacheStep, KeptFresh DEF CacheInv, Fresh

(* The generations are compared; the answer is still what it was.          *)
LEMMA CheckFresh ==
    ASSUME LockInv, CacheInv, NEW s \in Sessions, Check(s)
    PROVE  CacheInv'
  <1>1. pc[s] = "check" /\ UNCHANGED <<stmt, txn, content, floor, gen, cache, before, answer, since>>
    BY DEF Check, data, qc
  <1>2. PICK to \in {"put", "answer"} : pc' = [pc EXCEPT ![s] = to]
    BY DEF Check, Goto
  <1>3. Advance /\ CacheMove
    BY <1>1, StillAdvance, StillCache DEF CacheInv
  <1>4. txn' \in [Sessions -> BOOLEAN] /\ CacheTypes'
    BY <1>1 DEF CacheInv, NumberTypes, CacheTypes
  <1>5. \A r \in Sessions \ {s} : Passed(r)
    BY <1>1, <1>2 DEF LockInv, LockTypes, Passed
  <1>6. pc'[s] = to /\ IsSelect(stmt[s]) /\ stmt[s].tables \subseteq Tables
    BY <1>1, <1>2, StmtTyped DEF LockInv, LockTypes, Own, Placed
  <1>7. Noted(s)'
    BY <1>1, <1>6 DEF CacheInv, Fresh, Noted
  <1>8. \A t \in stmt[s].tables : answer[s][t] >= since[s][t]
    <2>1. /\ since[s] \in Counts /\ answer[s] \in [stmt[s].tables -> Nat]
          /\ \A t \in stmt[s].tables : since[s][t] =< answer[s][t]
      BY <1>1, <1>6 DEF CacheInv, Fresh, Noted, ReadIsFresh
    <2> QED
      BY <1>6, <2>1 DEF Counts
  <1>9. ReadIsFresh(s)'
    BY <1>1, <1>6, <1>8 DEF CacheInv, Fresh, ReadIsFresh
  <1> QED
    BY <1>3, <1>4, <1>5, <1>7, <1>9, CacheStep, KeptFresh DEF CacheInv, Fresh

(* The answer is kept with the generations noted before it was read.       *)
LEMMA PutFresh ==
    ASSUME LockInv, CacheInv, NEW s \in Sessions, Put(s)
    PROVE  CacheInv'
  <1> DEFINE q == stmt[s].tables
             e == [ver |-> answer[s], gen |-> [t \in q |-> before[s][t]]]
  <1>1. /\ pc[s] = "put" /\ UNCHANGED <<stmt, txn, content, floor, gen, before, answer, since>>
        /\ pc' = [pc EXCEPT ![s] = "answer"]
        /\ cache' = [cache EXCEPT ![q] = IF @ # None THEN @ ELSE e]
    BY DEF Put, Goto, data
  <1>2. Advance
    BY <1>1, StillAdvance DEF CacheInv
  <1>3. txn' \in [Sessions -> BOOLEAN] /\ CacheTypes'
    BY <1>1 DEF CacheInv, NumberTypes, CacheTypes
  <1>4. \A r \in Sessions \ {s} : Passed(r)
    BY <1>1 DEF LockInv, LockTypes, Passed
  <1>5. IsSelect(stmt[s]) /\ q \in Queries /\ q \subseteq Tables
    <2>1. IsSelect(stmt[s]) /\ stmt[s] \in Menu
      BY <1>1, StmtTyped DEF LockInv, LockTypes, Own, Placed, IsSelect, Kinds
    <2> QED
      BY <2>1, MenuTyped DEF IsSelect, Queries
  <1>6. /\ since[s] \in Counts /\ before[s] \in Counts /\ answer[s] \in [q -> Nat]
        /\ \A t \in q : /\ before[s][t] =< gen[t] /\ since[s][t] =< answer[s][t]
                        /\ before[s][t] = gen[t] => floor[t] =< answer[s][t]
    BY <1>1, <1>5 DEF CacheInv, Fresh, Noted, ReadIsFresh
  <1>7. /\ e \in [ver : [q -> Nat], gen : [q -> Nat]]
        /\ e.ver = answer[s] /\ \A t \in q : e.gen[t] = before[s][t]
    BY <1>5, <1>6 DEF Counts
  <1>8. pc'[s] = "answer"
    BY <1>1 DEF LockInv, LockTypes
  <1>9. \A t \in q : answer[s][t] >= since[s][t]
    BY <1>5, <1>6 DEF Counts
  <1>10. Fresh(s)'
    BY <1>1, <1>5, <1>6, <1>8, <1>9 DEF CacheInv, Fresh, Noted, ReadIsFresh
  <1> HIDE DEF e
  <1>11. KeptIsFresh'
    <2>1. SUFFICES ASSUME NEW p \in Queries, cache'[p] # None
                   PROVE  /\ cache'[p] \in [ver : [p -> Nat], gen : [p -> Nat]]
                          /\ \A t \in p : /\ cache'[p].gen[t] =< gen[t]
                                          /\ cache'[p].gen[t] = gen[t] => floor[t] =< cache'[p].ver[t]
      BY <1>1 DEF KeptIsFresh
    <2>2. CASE cache'[p] = cache[p]
      BY <2>1, <2>2 DEF CacheInv, KeptIsFresh
    <2>3. CASE cache'[p] # cache[p]
      <3>1. p = q /\ cache'[p] = e
        BY <1>1, <2>3 DEF CacheInv, CacheTypes
      <3> QED
        BY <1>6, <1>7, <3>1
    <2> QED
      BY <2>2, <2>3
  <1> QED
    BY <1>2, <1>3, <1>4, <1>10, <1>11, CacheStep

(* The end of a statement, and the start of a COMMIT or ROLLBACK.          *)
LEMMA AnswerFresh ==
    ASSUME LockInv, CacheInv, NEW s \in Sessions, Answer(s) \/ Leave(s)
    PROVE  CacheInv'
  <1>1. UNCHANGED <<txn, content, floor, gen, cache>>
    BY DEF Answer, Leave, data, qc
  <1>2. PICK st, to :
          /\ stmt' = [stmt EXCEPT ![s] = st] /\ ~IsSelect(st)
          /\ pc' = [pc EXCEPT ![s] = to] /\ to \in {"idle", "structural"}
    <2>1. CASE Answer(s)
      <3>1. ~IsSelect(NoStmt)
        BY DEF NoStmt, IsSelect
      <3>2. stmt' = [stmt EXCEPT ![s] = NoStmt] /\ pc' = [pc EXCEPT ![s] = "idle"]
        BY <2>1 DEF Answer, Goto
      <3> QED
        BY <3>1, <3>2
    <2>2. CASE Leave(s)
      <3>1. PICK k \in {"commit", "rollback"} : stmt' = [stmt EXCEPT ![s] = [NoStmt EXCEPT !.kind = k]]
        BY <2>2 DEF Leave
      <3>2. ~IsSelect([NoStmt EXCEPT !.kind = k])
        BY DEF NoStmt, IsSelect
      <3>3. pc' = [pc EXCEPT ![s] = "structural"]
        BY <2>2 DEF Leave, Goto
      <3> QED
        BY <3>1, <3>2, <3>3
    <2> QED
      BY <2>1, <2>2
  <1>3. answer'[s] = None
    <2>1. CASE Answer(s)
      BY <2>1 DEF Answer, CacheInv, CacheTypes
    <2>2. CASE Leave(s)
      <3>1. ~IsSelect(stmt[s])
        BY <2>2 DEF Leave, LockInv, Own, Placed, IsSelect, NoStmt
      <3> QED
        BY <2>2, <3>1 DEF Leave, qc, CacheInv, Fresh, ReadIsFresh
    <2> QED
      BY <2>1, <2>2
  <1>4. CacheTypes' /\ \A r \in Sessions \ {s} : since'[r] = since[r] /\ before'[r] = before[r] /\ answer'[r] = answer[r]
    BY DEF Answer, Leave, qc, CacheInv, CacheTypes
  <1>5. \A r \in Sessions \ {s} : Passed(r)
    BY <1>1, <1>2, <1>4 DEF LockInv, LockTypes, Passed
  <1>6. Advance /\ CacheMove
    BY <1>1, StillAdvance, StillCache DEF CacheInv
  <1>7. stmt'[s] = st /\ pc'[s] = to
    BY <1>2 DEF LockInv, LockTypes
  <1>8. Fresh(s)'
    BY <1>2, <1>3, <1>7 DEF Fresh, Noted, ReadIsFresh
  <1> QED
    BY <1>1, <1>4, <1>5, <1>6, <1>8, CacheStep, KeptFresh DEF CacheInv, NumberTypes

LEMMA CacheInit ==
    ASSUME Init
    PROVE  CacheInv
  <1>1. NumberTypes /\ CacheTypes
    BY DEF Init, NumberTypes, CacheTypes, Counts
  <1>2. \A s \in Sessions : Fresh(s)
    BY DEF Init, Fresh, Noted, ReadIsFresh, IsSelect, NoStmt
  <1>3. KeptIsFresh
    BY DEF Init, KeptIsFresh
  <1> QED
    BY <1>1, <1>2, <1>3 DEF CacheInv

LEMMA CacheNext ==
    ASSUME LockInv, CacheInv, [Next]_vars
    PROVE  CacheInv'
  <1>1. CASE UNCHANGED vars
    <2>1. UNCHANGED <<pc, stmt, txn, content, floor, gen, cache, before, answer, since>>
      BY <1>1 DEF vars, data, qc
    <2>2. Advance /\ CacheMove /\ \A s \in Sessions : Passed(s)
      BY <2>1, StillAdvance, StillCache DEF CacheInv, Passed
    <2>3. \A s \in Sessions : Fresh(s)'
      BY <2>2, FreshPassed DEF CacheInv
    <2>4. NumberTypes' /\ CacheTypes'
      BY <2>1 DEF CacheInv, NumberTypes, CacheTypes
    <2> QED
      BY <2>2, <2>3, <2>4, KeptFresh DEF CacheInv
  <1>2. CASE Next
    <2>1. PICK s \in Sessions : Run(s) \/ TimesOut(s) \/ \E st \in Menu : Send(s, st)
      BY <1>2 DEF Next
    <2>2. CASE Run(s)
      BY <2>2, AskFresh, LockStepsFresh, ReadFresh, WritersFresh, CheckFresh, PutFresh, AnswerFresh DEF Run
    <2> QED
      BY <2>1, <2>2, LockStepsFresh, SendFresh
  <1> QED
    BY <1>1, <1>2

(* What is cached or being read is as fresh as its generations say.        *)
THEOREM CacheHolds == Spec => []CacheInv
  <1>1. Init => CacheInv
    BY CacheInit
  <1>2. LockInv /\ CacheInv /\ [Next]_vars => CacheInv'
    BY CacheNext
  <1> QED
    BY <1>1, <1>2, LocksHold, PTL DEF Spec

(* AnswersAreCurrent for any sessions, tables, foreign keys and            *)
(* statements: an answer, from the tables or from the cache, is no older   *)
(* than what was let go when its SELECT was sent.                          *)
THEOREM AnswersStayCurrent == Spec => []AnswersAreCurrent
  <1>1. CacheInv => AnswersAreCurrent
    BY DEF CacheInv, Fresh, ReadIsFresh, AnswersAreCurrent
  <1> QED
    BY <1>1, CacheHolds, PTL

================================================================================
