------------------------------ MODULE ServerProofs ------------------------------
(* Proofs that Server gives every place back once and lets in no more           *)
(* connections than the limit, that KILL reaches the statement it is aimed at,  *)
(* and that a connection that ends leaves nothing behind.                       *)
EXTENDS Server, FiniteSetTheorems, TLAPS

USE ConnsAssumption, LimitsAssumption

--------------------------------------------------------------------------------
(* Types *)

InsidePhases == Phases \ {"closed", "arrived"}

\* Connection c goes from one phase to another and keeps its place.
MovesInside(c) ==
    /\ phase[c] \in InsidePhases
    /\ \E p \in InsidePhases : phase' = [phase EXCEPT ![c] = p]
    /\ open' = open /\ before' = before /\ ceiling <= ceiling' /\ ceiling' \in Limits

\* Every step is one of the place's four, or leaves the places alone.
LEMMA StepKinds ==
    ASSUME TypeOK, [Next]_vars
    PROVE  \/ \E c \in Conns : Arrive(c) \/ Admit(c) \/ Refuse(c) \/ FreeSlot(c) \/ MovesInside(c)
           \/ UNCHANGED <<open, limit, ceiling, before, phase>>
<1>0. ceiling \in Limits /\ ceiling \in Nat /\ ceiling <= ceiling
  BY DEF TypeOK
<1> USE <1>0 DEF Goto, MovesInside, InsidePhases, Phases, slots
<1>1. ASSUME NEW c \in Conns, SignInFails(c) \/ SignIn(c) \/ ReadFails(c) \/ Quit(c) \/ Chat(c) PROVE MovesInside(c)
  <2>1. CASE SignInFails(c) \/ SignIn(c)
    BY <2>1 DEF SignInFails, SignIn
  <2>2. CASE ReadFails(c) \/ Quit(c) \/ Chat(c)
    BY <2>2 DEF ReadFails, Quit, Chat
  <2> QED
    BY <1>1, <2>1, <2>2
<1>2. ASSUME NEW c \in Conns, NEW s \in Statements, Begin(c, s) PROVE MovesInside(c)
  BY <1>2 DEF Begin
<1>3. ASSUME NEW c \in Conns, Execute(c) PROVE MovesInside(c)
  BY <1>3 DEF Execute
<1>4. ASSUME NEW c \in Conns, WaitGranted(c) \/ WaitKilled(c) \/ WaitTimesOut(c) \/ Finish(c) \/ Answer(c)
      PROVE  MovesInside(c)
  BY <1>4 DEF WaitGranted, WaitKilled, WaitTimesOut, Finish, Answer
<1>5. ASSUME NEW c \in Conns, ResetConnection(c) \/ ChangeUser(c) \/ ChangedUser(c) PROVE MovesInside(c)
  BY <1>5 DEF ResetConnection, ChangeUser, ChangedUser
<1>6. ASSUME NEW c \in Conns, NEW d \in Conns, KillConnection(c, d) \/ KillQuery(c, d) PROVE MovesInside(c)
  BY <1>6 DEF KillConnection, KillQuery
<1>7. ASSUME NEW c \in Conns, NEW n \in Limits, SetLimit(c, n) PROVE MovesInside(c)
  <2>1. n \in Nat /\ ceiling' \in {n, ceiling} /\ ceiling <= ceiling'
    BY <1>7 DEF SetLimit
  <2> QED
    BY <1>7, <2>1 DEF SetLimit
<1>8. ASSUME NEW c \in Conns, Deregister(c) \/ RollbackAbandoned(c) \/ UnlockTables(c) PROVE MovesInside(c)
  BY <1>8 DEF Deregister, RollbackAbandoned, UnlockTables
<1>9. ASSUME NEW c \in Conns, Hangup(c) PROVE UNCHANGED <<open, limit, ceiling, before, phase>>
  BY <1>9 DEF Hangup
<1>10. CASE Over \/ UNCHANGED vars
  BY <1>10 DEF Over, vars
<1> QED
  BY <1>1, <1>2, <1>3, <1>4, <1>5, <1>6, <1>7, <1>8, <1>9, <1>10 DEF Next

--------------------------------------------------------------------------------
(* The places *)

Here == {c \in Conns : phase[c] # "closed"}

\* Those inside and those who would still be let in under the limit k.
Admissible(k) == Inside \cup {c \in Conns : phase[c] = "arrived" /\ before[c] < k}

\* The limit may be raised while connections wait for their answer, so the bound is kept for every limit
\* from the largest so far on.
SlotInv ==
    /\ open = Cardinality(Here)
    /\ \A k \in Nat : ceiling <= k => Cardinality(Admissible(k)) <= k

LEMMA SetsAreFinite ==
    ASSUME NEW k
    PROVE  /\ IsFiniteSet(Here) /\ IsFiniteSet(Admissible(k)) /\ IsFiniteSet(Inside)
           /\ Cardinality(Here) \in Nat /\ Cardinality(Admissible(k)) \in Nat /\ Cardinality(Inside) \in Nat
           /\ Cardinality(Admissible(k)) <= Cardinality(Here) /\ Cardinality(Inside) <= Cardinality(Admissible(k))
<1>1. Here \subseteq Conns /\ Admissible(k) \subseteq Here /\ Inside \subseteq Admissible(k)
  BY DEF Here, Admissible, Inside
<1>2. IsFiniteSet(Here)
  BY <1>1, FS_Subset
<1>3. IsFiniteSet(Admissible(k)) /\ Cardinality(Admissible(k)) <= Cardinality(Here)
  BY <1>1, <1>2, FS_Subset
<1>4. IsFiniteSet(Inside) /\ Cardinality(Inside) <= Cardinality(Admissible(k))
  BY <1>1, <1>3, FS_Subset
<1> QED
  BY <1>2, <1>3, <1>4, FS_CardinalityType

\* Each step counts one more exactly for the connection that comes, and one less for the one that goes.
LEMMA SlotsKept == ASSUME TypeOK, SlotInv, [Next]_vars PROVE SlotInv'
<1> USE DEF Goto, TypeOK
<1>1. ASSUME NEW c \in Conns, Arrive(c) PROVE SlotInv'
  <2>1. Here' = Here \cup {c} /\ c \notin Here
    BY <1>1 DEF Arrive, Here
  <2>2. open' = Cardinality(Here')
    BY <1>1, <2>1, FS_AddElement, SetsAreFinite DEF Arrive, SlotInv
  <2>3. ASSUME NEW k \in Nat, ceiling' <= k PROVE Cardinality(Admissible(k)') <= k
    <3>1. c \notin Admissible(k)
      BY <1>1 DEF Arrive, Admissible, Inside
    <3>2. Admissible(k)' = IF open < k THEN Admissible(k) \cup {c} ELSE Admissible(k)
      BY <1>1 DEF Arrive, Admissible, Inside
    <3>3. CASE open < k
      <4>1. Cardinality(Admissible(k)') = Cardinality(Admissible(k)) + 1
        BY <3>1, <3>2, <3>3, FS_AddElement, SetsAreFinite
      <4>2. Cardinality(Admissible(k)) <= open /\ Cardinality(Admissible(k)) \in Nat
        BY SetsAreFinite DEF SlotInv
      <4> QED
        BY <3>3, <4>1, <4>2
    <3>4. CASE ~(open < k)
      <4>1. ~\A d \in Conns : phase[d] = "closed"
        <5>1. SUFFICES ASSUME \A d \in Conns : phase[d] = "closed" PROVE FALSE
          OBVIOUS
        <5>2. Here = {}
          BY <5>1 DEF Here
        <5>3. open = 0
          BY <5>2, FS_EmptySet DEF SlotInv
        <5>4. ceiling' = limit /\ limit \in Nat \ {0}
          BY <1>1, <5>1 DEF Arrive
        <5> QED
          BY <2>3, <3>4, <5>3, <5>4
      <4>2. ceiling' = ceiling
        BY <1>1, <4>1 DEF Arrive
      <4> QED
        BY <2>3, <3>2, <3>4, <4>2 DEF SlotInv
    <3> QED
      BY <3>3, <3>4
  <2> QED
    BY <2>2, <2>3 DEF SlotInv
<1>2. ASSUME NEW c \in Conns, Admit(c) PROVE SlotInv'
  <2>1. Here' = Here /\ open' = open /\ ceiling' = ceiling
    BY <1>2 DEF Admit, Here
  <2>2. ASSUME NEW k \in Nat, ceiling <= k PROVE Admissible(k)' = Admissible(k)
    <3>1. before[c] < k
      BY <1>2, <2>2 DEF Admit
    <3> QED
      BY <1>2, <3>1 DEF Admit, Admissible, Inside
  <2> QED
    BY <2>1, <2>2 DEF SlotInv
<1>3. ASSUME NEW c \in Conns, Refuse(c) \/ FreeSlot(c) PROVE SlotInv'
  <2>1. Here' = Here \ {c} /\ c \in Here /\ open' = open - 1 /\ ceiling' = ceiling
    BY <1>3 DEF Refuse, FreeSlot, Here
  <2>2. open' = Cardinality(Here')
    BY <2>1, FS_RemoveElement, SetsAreFinite DEF SlotInv
  <2>3. ASSUME NEW k \in Nat, ceiling <= k PROVE Cardinality(Admissible(k)') <= k
    <3>1. Admissible(k)' \subseteq Admissible(k)
      BY <1>3 DEF Refuse, FreeSlot, Admissible, Inside
    <3>2. Cardinality(Admissible(k)') <= Cardinality(Admissible(k)) /\ Cardinality(Admissible(k)') \in Nat
      BY <3>1, FS_Subset, FS_CardinalityType, SetsAreFinite
    <3> QED
      BY <2>3, <3>2, SetsAreFinite DEF SlotInv
  <2> QED
    BY <2>1, <2>2, <2>3 DEF SlotInv
<1>4. ASSUME NEW c \in Conns, MovesInside(c) PROVE SlotInv'
  <2>1. Here' = Here /\ open' = open
    BY <1>4 DEF MovesInside, InsidePhases, Here
  <2>2. \A k : Admissible(k)' = Admissible(k)
    BY <1>4 DEF MovesInside, InsidePhases, Admissible, Inside
  <2>3. \A k \in Nat : ceiling' <= k => ceiling <= k
    BY <1>4 DEF MovesInside
  <2> QED
    BY <2>1, <2>2, <2>3 DEF SlotInv
<1>5. CASE UNCHANGED <<open, limit, ceiling, before, phase>>
  <2>1. Here' = Here /\ \A k : Admissible(k)' = Admissible(k)
    BY <1>5 DEF Here, Admissible, Inside
  <2> QED
    BY <1>5, <2>1 DEF SlotInv
<1> QED
  BY <1>1, <1>2, <1>3, <1>4, <1>5, StepKinds

\* Every variable keeps its type.
LEMMA TypesKept == ASSUME TypeOK, SlotInv, [Next]_vars PROVE TypeOK'
<1> USE DEF TypeOK, Goto, Phases, Protocols, Statements, slots, session, EndTxn
<1>1. ASSUME NEW c \in Conns, Arrive(c) PROVE TypeOK'
  BY <1>1 DEF Arrive
<1>2. ASSUME NEW c \in Conns, Admit(c) PROVE TypeOK'
  BY <1>2 DEF Admit
<1>3. ASSUME NEW c \in Conns, phase[c] # "closed" PROVE open - 1 \in Nat
  <2>1. c \in Here
    BY <1>3 DEF Here
  <2>2. Cardinality(Here) # 0
    BY <2>1, FS_EmptySet, SetsAreFinite
  <2> QED
    BY <2>2, SetsAreFinite DEF SlotInv
<1>4. ASSUME NEW c \in Conns, Refuse(c) PROVE TypeOK'
  BY <1>3, <1>4 DEF Refuse
<1>5. ASSUME NEW c \in Conns, FreeSlot(c) PROVE TypeOK'
  <2>1. open' \in Nat /\ phase' \in [Conns -> Phases] /\ sock' \in [Conns -> {"open", "shut"}]
        /\ proto' \in [Conns -> Protocols \cup {None}] /\ kill' \in [Conns -> 0..2] /\ row' \in Conns \cup {None, Orphan}
    BY <1>3, <1>5 DEF FreeSlot
  <2>2. txn' \in [Conns -> BOOLEAN] /\ orphans' \in BOOLEAN
    BY <1>5 DEF FreeSlot
  <2> QED
    BY <1>5, <2>1, <2>2 DEF FreeSlot
<1>6. ASSUME NEW c \in Conns, SignInFails(c) \/ SignIn(c) \/ Hangup(c) \/ ReadFails(c) \/ Quit(c) \/ Chat(c) PROVE TypeOK'
  BY <1>6 DEF SignInFails, SignIn, Hangup, ReadFails, Quit, Chat
<1>7. ASSUME NEW c \in Conns, NEW s \in Statements, Begin(c, s) PROVE TypeOK'
  BY <1>7 DEF Begin
<1>8. ASSUME NEW c \in Conns, Execute(c) PROVE TypeOK'
  <2>1. stmt' \in [Conns -> Statements \cup {None}]
    BY <1>8 DEF Execute
  <2>2. txn' \in [Conns -> BOOLEAN]
    BY <1>8 DEF Execute
  <2>3. tab' \in [Conns -> {None, "read", "write"}]
    BY <1>8 DEF Execute
  <2>4. phase' \in [Conns -> Phases] /\ row' \in Conns \cup {None, Orphan}
    BY <1>8 DEF Execute
  <2> QED
    BY <1>8, <2>1, <2>2, <2>3, <2>4 DEF Execute
<1>9. ASSUME NEW c \in Conns, WaitGranted(c) \/ WaitKilled(c) \/ WaitTimesOut(c) \/ Finish(c) \/ Answer(c)
      PROVE  TypeOK'
  BY <1>9 DEF WaitGranted, WaitKilled, WaitTimesOut, Finish, Answer
<1>10. ASSUME NEW c \in Conns, ResetConnection(c) \/ ChangeUser(c) \/ ChangedUser(c) PROVE TypeOK'
  BY <1>10 DEF ResetConnection, ChangeUser, ChangedUser
<1>11. ASSUME NEW c \in Conns, NEW d \in Conns, KillConnection(c, d) \/ KillQuery(c, d) PROVE TypeOK'
  BY <1>11 DEF KillConnection, KillQuery
<1>12. ASSUME NEW c \in Conns, NEW n \in Limits, SetLimit(c, n) PROVE TypeOK'
  BY <1>12 DEF SetLimit
<1>13. ASSUME NEW c \in Conns, Deregister(c) \/ RollbackAbandoned(c) \/ UnlockTables(c) PROVE TypeOK'
  BY <1>13 DEF Deregister, RollbackAbandoned, UnlockTables
<1>14. CASE Over \/ UNCHANGED vars
  BY <1>14 DEF Over, vars
<1> QED
  BY <1>1, <1>2, <1>4, <1>5, <1>6, <1>7, <1>8, <1>9, <1>10, <1>11, <1>12, <1>13, <1>14 DEF Next

--------------------------------------------------------------------------------
(* KILL *)

Running == {"running", "waiting", "done"}
Listed  == Running \cup {"idle", "answering", "ending"}

\* The process list shows a connection from its sign-in to its tear-down, and as running exactly while
\* a statement of it runs.
ListFits ==
    \A c \in Conns :
        /\ command[c] # None <=> phase[c] \in Listed
        /\ command[c] = "Query" <=> phase[c] \in Running
        /\ kill[c] = 1 => command[c] = "Query"

LEMMA ListKept == ASSUME TypeOK, ListFits, [Next]_vars PROVE ListFits'
<1> USE DEF TypeOK, ListFits, Goto, Listed, Running, slots, session, EndTxn, None
<1>1. ASSUME NEW c \in Conns, Arrive(c) \/ Admit(c) \/ Refuse(c) \/ FreeSlot(c) PROVE ListFits'
  BY <1>1 DEF Arrive, Admit, Refuse, FreeSlot
<1>2. ASSUME NEW c \in Conns, SignInFails(c) \/ SignIn(c) \/ Hangup(c) \/ ReadFails(c) \/ Quit(c) \/ Chat(c) PROVE ListFits'
  BY <1>2 DEF SignInFails, SignIn, Hangup, ReadFails, Quit, Chat
<1>3. ASSUME NEW c \in Conns, NEW s \in Statements, Begin(c, s) PROVE ListFits'
  BY <1>3 DEF Begin
<1>4. ASSUME NEW c \in Conns, Execute(c) PROVE ListFits'
  BY <1>4 DEF Execute
<1>5. ASSUME NEW c \in Conns, WaitGranted(c) \/ WaitKilled(c) \/ WaitTimesOut(c) \/ Finish(c) \/ Answer(c)
      PROVE  ListFits'
  BY <1>5 DEF WaitGranted, WaitKilled, WaitTimesOut, Finish, Answer
<1>6. ASSUME NEW c \in Conns, ResetConnection(c) \/ ChangeUser(c) \/ ChangedUser(c) PROVE ListFits'
  BY <1>6 DEF ResetConnection, ChangeUser, ChangedUser
<1>7. ASSUME NEW c \in Conns, NEW d \in Conns, KillConnection(c, d) \/ KillQuery(c, d) PROVE ListFits'
  BY <1>7 DEF KillConnection, KillQuery
<1>8. ASSUME NEW c \in Conns, NEW n \in Limits, SetLimit(c, n) PROVE ListFits'
  BY <1>8 DEF SetLimit
<1>9. ASSUME NEW c \in Conns, Deregister(c) \/ RollbackAbandoned(c) \/ UnlockTables(c) PROVE ListFits'
  BY <1>9 DEF Deregister, RollbackAbandoned, UnlockTables
<1>10. CASE Over \/ UNCHANGED vars
  BY <1>10 DEF Over, vars
<1> QED
  BY <1>1, <1>2, <1>3, <1>4, <1>5, <1>6, <1>7, <1>8, <1>9, <1>10 DEF Next

--------------------------------------------------------------------------------
(* What is left behind *)

Outside == {"closed", "arrived", "greeted"}

\* Who holds the row has a transaction; past the roll-back only a COM_QUIT leaves one open; table locks
\* go before the place does.
HoldingsFit ==
    /\ \A c \in Conns :
        /\ row = c => txn[c]
        /\ txn[c] => phase[c] \notin Outside
        /\ txn[c] /\ phase[c] \in {"unlock", "freeing"} => quit
        /\ phase[c] \in Outside \cup {"freeing"} => tab[c] = None
    /\ ~quit => ~orphans /\ row # Orphan

LEMMA HoldingsKept == ASSUME TypeOK, HoldingsFit, [Next]_vars PROVE HoldingsFit'
<1> USE DEF TypeOK, HoldingsFit, Goto, Outside, slots, session, EndTxn, None, Orphan
<1>1. ASSUME NEW c \in Conns, Arrive(c) \/ Admit(c) \/ Refuse(c) PROVE HoldingsFit'
  BY <1>1 DEF Arrive, Admit, Refuse
<1>2. ASSUME NEW c \in Conns, FreeSlot(c) PROVE HoldingsFit'
  BY <1>2 DEF FreeSlot
<1>3. ASSUME NEW c \in Conns, SignInFails(c) \/ SignIn(c) \/ Hangup(c) \/ ReadFails(c) \/ Chat(c) PROVE HoldingsFit'
  BY <1>3 DEF SignInFails, SignIn, Hangup, ReadFails, Chat
<1>4. ASSUME NEW c \in Conns, Quit(c) PROVE HoldingsFit'
  BY <1>4 DEF Quit
<1>5. ASSUME NEW c \in Conns, NEW s \in Statements, Begin(c, s) PROVE HoldingsFit'
  BY <1>5 DEF Begin
<1>6. ASSUME NEW c \in Conns, Execute(c) PROVE HoldingsFit'
  BY <1>6 DEF Execute
<1>7. ASSUME NEW c \in Conns, WaitGranted(c) \/ WaitKilled(c) \/ WaitTimesOut(c) \/ Finish(c) \/ Answer(c)
      PROVE  HoldingsFit'
  BY <1>7 DEF WaitGranted, WaitKilled, WaitTimesOut, Finish, Answer
<1>8. ASSUME NEW c \in Conns, ResetConnection(c) \/ ChangeUser(c) \/ ChangedUser(c) PROVE HoldingsFit'
  BY <1>8 DEF ResetConnection, ChangeUser, ChangedUser
<1>9. ASSUME NEW c \in Conns, NEW d \in Conns, KillConnection(c, d) \/ KillQuery(c, d) PROVE HoldingsFit'
  BY <1>9 DEF KillConnection, KillQuery
<1>10. ASSUME NEW c \in Conns, NEW n \in Limits, SetLimit(c, n) PROVE HoldingsFit'
  BY <1>10 DEF SetLimit
<1>11. ASSUME NEW c \in Conns, Deregister(c) \/ RollbackAbandoned(c) \/ UnlockTables(c) PROVE HoldingsFit'
  BY <1>11 DEF Deregister, RollbackAbandoned, UnlockTables
<1>12. CASE Over \/ UNCHANGED vars
  BY <1>12 DEF Over, vars
<1> QED
  BY <1>1, <1>2, <1>3, <1>4, <1>5, <1>6, <1>7, <1>8, <1>9, <1>10, <1>11, <1>12 DEF Next

--------------------------------------------------------------------------------
(* The theorems *)

Inv == TypeOK /\ SlotInv /\ ListFits /\ HoldingsFit

LEMMA InitInv == Init => Inv
<1> SUFFICES ASSUME Init PROVE Inv
  OBVIOUS
<1>1. TypeOK
  <2>1. txn \in [Conns -> BOOLEAN] /\ orphans \in BOOLEAN
    BY DEF Init
  <2>2. open \in Nat /\ limit \in Limits /\ ceiling \in Limits /\ limit <= ceiling /\ before \in [Conns -> Nat] /\ kill \in [Conns -> 0..2]
    BY DEF Init
  <2>3. /\ phase \in [Conns -> Phases] /\ proto \in [Conns -> Protocols \cup {None}]
        /\ sock \in [Conns -> {"open", "shut"}] /\ command \in [Conns -> {None, "Sleep", "Query"}]
        /\ stmt \in [Conns -> Statements \cup {None}] /\ tab \in [Conns -> {None, "read", "write"}]
        /\ row \in Conns \cup {None, Orphan}
    BY DEF Init, Phases
  <2> QED
    BY <2>1, <2>2, <2>3 DEF TypeOK
<1>2. Here = {} /\ \A k : Admissible(k) = {}
  BY DEF Init, Here, Admissible, Inside
<1>3. SlotInv
  BY <1>2, FS_EmptySet DEF Init, SlotInv
<1>4. ListFits
  BY DEF Init, ListFits, Listed, Running, None
<1>5. HoldingsFit
  BY DEF Init, HoldingsFit, Outside, None, Orphan
<1> QED
  BY <1>1, <1>3, <1>4, <1>5 DEF Inv

\* The places, the process list and what the sessions hold stay in order.
THEOREM Invariant == Spec => []Inv
<1>1. Inv /\ [Next]_vars => Inv'
  BY SlotsKept, TypesKept, ListKept, HoldingsKept DEF Inv
<1> QED
  BY InitInv, <1>1, PTL DEF Spec

\* Every variable keeps its type, the count of connections included: it never falls below zero.
THEOREM TypeCorrect == Spec => []TypeOK
BY Invariant, PTL DEF Inv

\* A place is given back exactly once, and never more connections are inside than the largest limit in force since
\* the server was last empty, although threads count themselves before they ask and the limit may change in between.
THEOREM PlacesAccounted == Spec => []SlotsAccounted
<1>1. ASSUME Inv PROVE SlotsAccounted
  <2>1. ceiling \in Nat /\ open = Cardinality(Here) /\ Cardinality(Admissible(ceiling)) <= ceiling
    BY <1>1 DEF Inv, TypeOK, SlotInv
  <2>2. /\ Cardinality(Inside) <= Cardinality(Admissible(ceiling))
        /\ Cardinality(Inside) \in Nat /\ Cardinality(Admissible(ceiling)) \in Nat
    BY SetsAreFinite
  <2> QED
    BY <2>1, <2>2 DEF SlotsAccounted, Here
<1> QED
  BY Invariant, <1>1, PTL

\* KILL QUERY never outlives the statement it was aimed at, and KILL finds no session whose socket may
\* be closed.
THEOREM KillsAreAimed == Spec => []KillHitsItsTarget
<1>1. Inv => KillHitsItsTarget
  BY DEF Inv, TypeOK, ListFits, Listed, Running, Phases, KillHitsItsTarget
<1> QED
  BY Invariant, <1>1, PTL

\* A connection that ends, but for COM_QUIT inside a transaction, leaves no transaction, no row lock and
\* no LOCK TABLES entry.
THEOREM NothingLeftBehind == Spec => []EndedLeavesNothing
<1>1. Inv => EndedLeavesNothing
  BY DEF Inv, HoldingsFit, Outside, EndedLeavesNothing
<1> QED
  BY Invariant, <1>1, PTL

================================================================================
