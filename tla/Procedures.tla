----------------------------- MODULE Procedures -----------------------------
(***************************************************************************)
(* Stored procedures and triggers: the statements of a body, run one by    *)
(* one with a signal that LEAVE and ITERATE raise, CALL with its variables,*)
(* triggers around an INSERT, and the two static questions that are asked  *)
(* of a statement before it runs (may it write? is all it writes logged?). *)
(*                                                                         *)
(* A statement is a record: op and                                         *)
(*   "set" var, from, by        "select"          "write" table, from      *)
(*   "ddl"  "fail"              "leave", "iterate" label                   *)
(*   "if" below, then, other    "while" label, below, body                 *)
(*   "loop" label, body         "repeat" label, body, below (UNTIL not)    *)
(*   "call" proc, arg                                                      *)
(* A condition is x < below.  Every procedure has one parameter, INOUT x.  *)
(* An environment gives the procedures and the triggers there are:         *)
(* e.procs[p] a body, e.trigs[t] a sequence of [timing, body].             *)
(* A run is [vars, user, signal, done, last, depth, calls, kill, out].     *)
(***************************************************************************)
EXTENDS Integers, Sequences, FiniteSets

Null == 99
NoSignal == [op |-> "none", label |-> ""]
NoTable == -1
Turns == 3       \* PROC_LOOP_MAX_ITERATIONS
Nested == 2      \* TRIGGER_MAX_DEPTH
Followed == 2    \* the depth at which the static questions give up
Stack == 4       \* CALLs inside CALLs until the stack is full (bound)

Start(x, u, kill) ==
  [vars |-> x, user |-> u, signal |-> NoSignal, done |-> <<>>, last |-> NoTable, depth |-> 0, calls |-> 0, kill |-> kill, out |-> "ok"]

Err(m) == [m EXCEPT !.out = "error"]
Failed(m) == m.out # "ok"

\* Vars::value: an @variable of the session, a variable of the routine, else NULL.
Value(m, name) ==
  CASE name = "@u" -> m.user
    [] name = "one" -> 1
    [] OTHER -> IF name \in DOMAIN m.vars THEN m.vars[name] ELSE Null

Assign(m, var, v) ==
  IF var = "@u" THEN [m EXCEPT !.user = v]
  ELSE [m EXCEPT !.vars = [n \in DOMAIN m.vars \cup {var} |-> IF n = var THEN v ELSE m.vars[n]]]

Sum(v, n) == IF v = Null THEN Null ELSE v + n

\* proc_condition: NULL is not true.
Holds(m, below) == LET x == Value(m, "x") IN x # Null /\ x < below
Until(m, below) == LET x == Value(m, "x") IN x # Null /\ x >= below

\* A signal without a label, or with the loop's own, is the loop's.
Mine(m, s) == m.signal.label \in {"", s.label}

BodiesOf(e, t, timing) == IF t \in DOMAIN e.trigs THEN SelectSeq(e.trigs[t], LAMBDA b : b.timing = timing) ELSE <<>>
HasTrigger(e, t, timing) == BodiesOf(e, t, timing) # <<>>

RECURSIVE Stmts(_, _, _, _)
RECURSIVE One(_, _, _)
RECURSIVE Turn(_, _, _, _)
RECURSIVE TriggerBody(_, _, _, _, _)
RECURSIVE FireEach(_, _, _, _, _)

\* exec_proc_stmts: KILL QUERY is looked at between two statements; what the body answers is the last result table.
AfterStmt(e, rest, table, r) == IF Failed(r) THEN r ELSE Stmts(e, r, rest, IF r.last # NoTable THEN r.last ELSE table)
Stmts(e, m, stmts, table) ==
  IF stmts = <<>> \/ m.signal # NoSignal THEN [m EXCEPT !.last = table]
  ELSE IF m.kill = 0 THEN Err(m)
  ELSE AfterStmt(e, Tail(stmts), table, One(e, [m EXCEPT !.kill = @ - 1, !.last = NoTable], Head(stmts)))

\* One turn of a loop after another, at most Turns of them.
AfterTurn(e, s, n, r) ==
  LET ended == s.op = "repeat" /\ Until(r, s.below)
  IN  CASE Failed(r) \/ (r.signal # NoSignal /\ ~Mine(r, s)) -> r
        [] ~Failed(r) /\ r.signal = NoSignal -> IF ended THEN r ELSE Turn(e, r, s, n + 1)
        [] OTHER -> IF r.signal.op = "leave" \/ ended THEN [r EXCEPT !.signal = NoSignal] ELSE Turn(e, [r EXCEPT !.signal = NoSignal], s, n + 1)
Turn(e, m, s, n) ==
  IF n >= Turns THEN Err(m)
  ELSE IF s.op = "while" /\ ~Holds(m, s.below) THEN m ELSE AfterTurn(e, s, n, Stmts(e, m, s.body, NoTable))

\* Mutant: a call that fails leaves the callee's variables in place.
BugReturned(m, r, s) ==
  LET back == [r EXCEPT !.vars = m.vars, !.signal = NoSignal, !.calls = m.calls]
  IN  IF Failed(r) THEN r
      ELSE IF s.arg = "@u" THEN [back EXCEPT !.user = Value(r, "x")] ELSE back

\* What a CALL leaves: the caller's variables come back on an error too; an INOUT parameter gives the @variable
\* it was called with its value only when the body succeeds.
Returned(m, r, s) ==
  LET back == [r EXCEPT !.vars = m.vars, !.signal = NoSignal, !.calls = m.calls]
  IN  IF Failed(r) THEN back
      ELSE IF s.arg = "@u" THEN [back EXCEPT !.user = Value(r, "x")] ELSE back

\* exec_call_procedure.
Call(e, m, s) ==
  IF s.proc \notin DOMAIN e.procs \/ s.arg = "bad" THEN Err(m)
  ELSE IF m.calls = Stack THEN [m EXCEPT !.out = "overflow"]
  ELSE LET inner == [m EXCEPT !.vars = [n \in {"x"} |-> Value(m, s.arg)], !.calls = @ + 1]
       IN  Returned(m, Stmts(e, inner, e.procs[s.proc], NoTable), s)

\* The statements of one trigger's body for one row.  SET NEW.x changes the row of a BEFORE trigger; anywhere else it is
\* an error.  The body does not look for a signal between its statements.
AfterTriggerStmt(e, r, rest, new, timing) ==
  IF Failed(r) THEN r
  ELSE IF Value(r, "NEW") # new /\ timing # "before" THEN Err(r)
  ELSE TriggerBody(e, r, rest, Value(r, "NEW"), timing)
TriggerBody(e, m, stmts, new, timing) ==
  IF stmts = <<>> \/ Failed(m) THEN m ELSE AfterTriggerStmt(e, One(e, m, Head(stmts)), Tail(stmts), new, timing)

\* fire_triggers: each body with the row's values as its variables and nothing of whoever fired it.
AfterBody(e, m, r, rest, new, timing) ==
  IF Failed(r) THEN [m |-> [r EXCEPT !.vars = m.vars], new |-> new]
  ELSE FireEach(e, [r EXCEPT !.vars = m.vars], rest, Value(r, "NEW"), timing)
FireEach(e, m, bodies, new, timing) ==
  IF bodies = <<>> THEN [m |-> m, new |-> new]
  ELSE AfterBody(e, m, TriggerBody(e, [m EXCEPT !.vars = [n \in {"NEW"} |-> new]], Head(bodies).body, new, timing), Tail(bodies), new, timing)

FireTriggers(e, m, t, timing, new) ==
  IF ~HasTrigger(e, t, timing) THEN [m |-> m, new |-> new]
  ELSE IF m.depth >= Nested THEN [m |-> Err(m), new |-> new]
  ELSE [FireEach(e, [m EXCEPT !.depth = @ + 1], BodiesOf(e, t, timing), new, timing) EXCEPT !.m.depth = m.depth]

\* exec_insert around exec_insert_inner.
Stored(e, t, before) ==
  IF Failed(before.m) THEN before.m
  ELSE FireTriggers(e, [before.m EXCEPT !.done = Append(@, <<t, before.new>>)], t, "after", before.new).m
Insert(e, m, t, v) == Stored(e, t, FireTriggers(e, m, t, "before", v))

\* execute_with_s for the statements of a routine.
One(e, m, s) ==
  CASE s.op = "set" -> Assign(m, s.var, Sum(Value(m, s.from), s.by))
    [] s.op = "select" -> [m EXCEPT !.last = Value(m, "x")]
    [] s.op = "write" -> Insert(e, m, s.table, Value(m, s.from))
    [] s.op = "ddl" -> [m EXCEPT !.done = Append(@, <<"file", 0>>)]
    [] s.op = "fail" -> Err(m)
    [] s.op \in {"leave", "iterate"} -> [m EXCEPT !.signal = [op |-> s.op, label |-> s.label]]
    [] s.op = "if" -> Stmts(e, m, IF Holds(m, s.below) THEN s.then ELSE s.other, NoTable)
    [] s.op \in {"while", "loop", "repeat"} -> Turn(e, m, s, 0)
    [] s.op = "call" -> Call(e, m, s)

RECURSIVE MayChange(_, _, _)
RECURSIVE Covers(_, _, _)
Some(stmts, Test(_)) == \E i \in DOMAIN stmts : Test(stmts[i])
All(stmts, Test(_)) == \A i \in DOMAIN stmts : Test(stmts[i])

\* may_change_stored_data: a procedure that calls too deep, or is not there, may.
MayChange(e, s, depth) ==
  LET changes(inner) == MayChange(e, inner, depth)
      below(inner) == MayChange(e, inner, depth + 1)
  IN  CASE s.op \in {"set", "select", "leave", "iterate"} -> FALSE
        [] s.op = "if" -> Some(s.then, changes) \/ Some(s.other, changes)
        [] s.op \in {"while", "loop", "repeat"} -> Some(s.body, changes)
        [] s.op = "call" -> depth >= Followed \/ s.proc \notin DOMAIN e.procs \/ Some(e.procs[s.proc], below)
        [] OTHER -> TRUE

\* written_table_covered: every trigger of the table, of whatever timing, does only what the log describes.
CoveredTable(e, t, depth) ==
  t \in DOMAIN e.trigs => \A i \in DOMAIN e.trigs[t] : All(e.trigs[t][i].body, LAMBDA inner : Covers(e, inner, depth + 1))

\* redo_covers_statement.
Covers(e, s, depth) ==
  LET covered(inner) == Covers(e, inner, depth)
      below(inner) == Covers(e, inner, depth + 1)
  IN  /\ depth < Followed
      /\ \/ ~MayChange(e, s, 0)
         \/ s.op = "write" /\ CoveredTable(e, s.table, depth)
         \/ s.op = "if" /\ All(s.then, covered) /\ All(s.other, covered)
         \/ s.op \in {"while", "loop", "repeat"} /\ All(s.body, covered)
         \/ s.op = "call" /\ s.proc \in DOMAIN e.procs /\ All(e.procs[s.proc], below)

-----------------------------------------------------------------------------
(* What a body means: the same statements laid out flat, with jumps.       *)

RECURSIVE Size(_)
SizeAll(stmts) == LET size[n \in 0..Len(stmts)] == IF n = 0 THEN 0 ELSE size[n - 1] + Size(stmts[n]) IN size[Len(stmts)]
Size(s) ==
  CASE s.op = "if" -> 2 + SizeAll(s.then) + SizeAll(s.other)
    [] s.op = "while" -> 2 + SizeAll(s.body)
    [] s.op \in {"loop", "repeat"} -> 1 + SizeAll(s.body)
    [] OTHER -> 1

Jump(to) == [op |-> "jump", to |-> to]
Unless(below, to) == [op |-> "unless", below |-> below, to |-> to]
RECURSIVE Flat(_, _, _)
RECURSIVE FlatAll(_, _, _)
\* loops, innermost first: [label, next, exit].  The last is the body itself, which any signal may end.
Target(s, loops) ==
  LET i == CHOOSE j \in DOMAIN loops : /\ loops[j].label = "*" \/ s.label \in {"", loops[j].label}
                                       /\ \A k \in 1..j - 1 : s.label \notin {"", loops[k].label}
  IN  IF s.op = "leave" THEN loops[i].exit ELSE loops[i].next
Flat(s, at, loops) ==
  CASE s.op \in {"leave", "iterate"} -> <<Jump(Target(s, loops))>>
    [] s.op = "if" -> LET other == at + SizeAll(s.then) + 2
                      IN  <<Unless(s.below, other)>> \o FlatAll(s.then, at + 1, loops) \o <<Jump(at + Size(s))>> \o FlatAll(s.other, other, loops)
    [] s.op = "while" -> <<Unless(s.below, at + Size(s))>>
                         \o FlatAll(s.body, at + 1, <<[label |-> s.label, next |-> at, exit |-> at + Size(s)]>> \o loops) \o <<Jump(at)>>
    [] s.op = "loop" -> FlatAll(s.body, at, <<[label |-> s.label, next |-> at, exit |-> at + Size(s)]>> \o loops) \o <<Jump(at)>>
    [] s.op = "repeat" -> FlatAll(s.body, at, <<[label |-> s.label, next |-> at + SizeAll(s.body), exit |-> at + Size(s)]>> \o loops)
                          \o <<[op |-> "until", below |-> s.below, to |-> at]>>
    [] OTHER -> <<s>>
FlatAll(stmts, at, loops) ==
  IF stmts = <<>> THEN <<>> ELSE Flat(Head(stmts), at, loops) \o FlatAll(Tail(stmts), at + Size(Head(stmts)), loops)
Code(stmts) == FlatAll(stmts, 1, <<[label |-> "*", next |-> SizeAll(stmts) + 1, exit |-> SizeAll(stmts) + 1]>>)

RECURSIVE Walk(_, _, _, _, _)
\* [m, back]: the run from pc on and the jumps back there were; given up ("long") after Turns of them.
Onward(e, code, pc, r, back) == IF Failed(r) THEN [m |-> r, back |-> back] ELSE Walk(e, code, pc + 1, r, back)
CalledBody(m, i, inner) ==
  [inner EXCEPT !.vars = m.vars, !.calls = m.calls, !.user = IF ~Failed(inner) /\ i.arg = "@u" THEN Value(inner, "x") ELSE @]
Stepped(e, m, i) ==
  CASE i.op = "call" /\ (i.proc \notin DOMAIN e.procs \/ i.arg = "bad") -> Err(m)
    [] i.op = "call" /\ i.proc \in DOMAIN e.procs /\ i.arg # "bad" /\ m.calls = Stack -> [m EXCEPT !.out = "overflow"]
    [] i.op = "call" /\ i.proc \in DOMAIN e.procs /\ i.arg # "bad" /\ m.calls < Stack ->
         CalledBody(m, i, Walk(e, Code(e.procs[i.proc]), 1, [m EXCEPT !.vars = [n \in {"x"} |-> Value(m, i.arg)], !.calls = @ + 1], 0).m)
    [] OTHER -> One(e, m, i)
Falls(m, i) == (i.op = "unless" /\ Holds(m, i.below)) \/ (i.op = "until" /\ Until(m, i.below))
GoTo(e, code, pc, to, m, back) == Walk(e, code, to, m, IF to <= pc THEN back + 1 ELSE back)
Walk(e, code, pc, m, back) ==
  IF back >= Turns THEN [m |-> [m EXCEPT !.out = "long"], back |-> back]
  ELSE IF pc > Len(code) THEN [m |-> m, back |-> back]
  ELSE IF code[pc].op \in {"jump", "unless", "until"} THEN GoTo(e, code, pc, IF Falls(m, code[pc]) THEN pc + 1 ELSE code[pc].to, m, back)
  ELSE Onward(e, code, pc, Stepped(e, m, code[pc]), back)

HasLoop(stmts) == \E i \in DOMAIN stmts : stmts[i].op \in {"while", "loop", "repeat", "if", "call"}

\* A CALL does what its body means (or reaches the limit of a loop), answers the last table its body selects when no
\* inner body selects, and gives the caller its variables back whatever happens.
CallAsMeant(e, s, m, r, meant) ==
  /\ (meant.out # "long" /\ m.kill > 50) =>
       /\ r.out = meant.out /\ r.done = meant.done /\ r.user = meant.user
       /\ (~Failed(r) /\ ~HasLoop(e.procs[s.proc])) => r.last = meant.last
  /\ r.vars = m.vars /\ r.signal = NoSignal /\ r.calls = m.calls

\* The signals of a body that no loop of it takes: those a body of a procedure ends with, and a body of a trigger does not see.
RECURSIVE Loose(_, _)
LooseIn(stmts, loops) == UNION {Loose(stmts[i], loops) : i \in DOMAIN stmts}
Loose(s, loops) ==
  CASE s.op \in {"leave", "iterate"} -> IF loops # {} /\ s.label \in loops \cup {""} THEN {} ELSE {[op |-> s.op, label |-> s.label]}
    [] s.op = "if" -> LooseIn(s.then, loops) \cup LooseIn(s.other, loops)
    [] s.op \in {"while", "loop", "repeat"} -> LooseIn(s.body, loops \cup {s.label})
    [] OTHER -> {}
LooseInTriggers(e) == UNION {UNION {LooseIn(e.trigs[t][i].body, {}) : i \in DOMAIN e.trigs[t]} : t \in DOMAIN e.trigs}

\* A statement that fires triggers gives back the variables and the depth it found, however deep they nest and wherever one of
\* them fails.  A LEAVE or ITERATE of a trigger stays in its body, unless no loop of the body takes it: then it is left to the
\* session, where nothing but the next loop or CALL takes it away.
TriggersRestore(e, m, r) == r.vars = m.vars /\ r.depth = m.depth /\ r.signal \in {NoSignal} \cup LooseInTriggers(e)

\* What the static questions promise of the run: a statement that may not change anything does not, and one that the log
\* covers writes no file by itself.
StaticAsMeant(e, s, r) ==
  /\ ~MayChange(e, s, 0) => r.done = <<>>
  /\ Covers(e, s, 0) => \A i \in DOMAIN r.done : r.done[i][1] # "file"

\* A statement s run from m, with the result r.
RunsAsMeant(kind, e, s, m, r) ==
  /\ kind = "call" => CallAsMeant(e, s, m, r, Walk(e, <<s>>, 1, m, 0).m)
  /\ kind = "trigger" /\ s.op = "write" => TriggersRestore(e, m, r)
  /\ StaticAsMeant(e, s, r)
StatementAsMeant(kind, e, s, m) == RunsAsMeant(kind, e, s, m, One(e, m, s))
=============================================================================
