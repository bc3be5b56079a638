----------------------------- MODULE Conditions -----------------------------
(***************************************************************************)
(* What a condition answers for one row: true "T", false "F" or unknown    *)
(* "U"; "E" is a statement that fails.  A value is Null or the text a      *)
(* column holds, of which it matters what number it starts with (lead),    *)
(* whether it is wholly a number, and its place in the collation; `as`     *)
(* tells spellings apart.  How two values compare depends on the class     *)
(* of the operands, "Number", "Text" or "Unknown".                         *)
(***************************************************************************)
EXTENDS Integers, Sequences, SequencesExt, FiniteSets

Null == [lead |-> 0, whole |-> FALSE, place |-> 0, as |-> "NULL"]
One == [lead |-> 1, whole |-> TRUE, place |-> 1, as |-> "1"]
Zero == [lead |-> 0, whole |-> TRUE, place |-> 0, as |-> "0"]

Sign(n) == IF n < 0 THEN -1 ELSE IF n > 0 THEN 1 ELSE 0
Tri(b) == IF b THEN "T" ELSE "F"
Flip(t) == IF t = "T" THEN "F" ELSE IF t = "F" THEN "T" ELSE t

compare_numbers(x, y) == Sign(x.lead - y.lead)
compare_classed(a, b, x, y) ==
  IF "Number" \in {a, b} \/ (~(a = "Text" /\ b = "Text") /\ x.whole /\ y.whole) THEN compare_numbers(x, y)
  ELSE Sign(x.place - y.place)
normalize_numeric_key(x) == IF x.whole THEN <<"number", x.lead>> ELSE <<"text", x.place>>

Holds(op, c) ==
  CASE op = "eq" -> c = 0
    [] op = "ne" -> c # 0
    [] op = "gt" -> c > 0
    [] op = "lt" -> c < 0
    [] op = "ge" -> c >= 0
    [] op = "le" -> c <= 0

\* What a value written in an IN list or after BETWEEN is.
written_class(v) == IF v.quoted THEN "Text" ELSE IF v.text.whole THEN "Number" ELSE "Unknown"

----------------------------------------------------------------------------
(* Expressions: an operand; COALESCE, NULLIF and CASE of expressions; a    *)
(* comparison or a condition as a value.                                   *)

\* The class all of the classes have, where NULL says nothing.
Joined(kind, k) == IF k = "Null" THEN kind
                   ELSE IF kind = "Mixed" \/ k = "Unknown" \/ kind \notin {"None", k} THEN "Mixed" ELSE k
KnownOr(class) == IF class \in {"None", "Mixed"} THEN "Unknown" ELSE class
Common(classes) == KnownOr(FoldLeft(Joined, "None", classes))

RECURSIVE class_of_expr(_)
ClassOf(e, classes) ==
  CASE e.op \in {"col", "str", "num"} -> e.cls
    [] e.op \in {"coalesce", "case"} -> Common(classes)
    [] e.op = "nullif" -> IF classes[1] = "Null" THEN "Text" ELSE classes[1]
    [] e.op = "cmp" -> "Number"
class_of_expr(e) ==
  ClassOf(e, IF "args" \notin DOMAIN e THEN <<>>
             ELSE [i \in DOMAIN e.args |-> IF e.args[i].op = "str" /\ e.args[i].text = Null THEN "Null" ELSE class_of_expr(e.args[i])])

RECURSIVE eval_arith(_)
RECURSIVE eval_cond3(_)

\* A comparison in a select list or in an argument; NULL when one of its sides is.
Compared(is, a, b, l, r) == IF Null \in {l, r} THEN Null ELSE IF Holds(is, compare_classed(a, b, l, r)) THEN One ELSE Zero
EvalCmp(e) == Compared(e.is, class_of_expr(e.left), class_of_expr(e.right), eval_arith(e.left), eval_arith(e.right))

\* The first branch whose condition is true gives the value, not one whose condition is unknown.
EvalCase(e) == eval_arith(e.args[IF eval_arith(e.when) = One THEN 1 ELSE 2])

FirstThere(there) == IF there = <<>> THEN Null ELSE there[1]
EvalCoalesce(e) == FirstThere(SelectSeq([i \in DOMAIN e.args |-> eval_arith(e.args[i])], LAMBDA v : v # Null))

Answer(t) == CASE t = "T" -> One [] t = "F" -> Zero [] OTHER -> Null
EvalPred(e) == Answer(eval_cond3(e.cond))

\* NULLIF does not ask what its arguments are: two numbers are equal by value, all else as text.
NullIf(a, b) == IF Null \notin {a, b} /\ compare_classed("Unknown", "Unknown", a, b) = 0 THEN Null ELSE a
EvalNullif(e) == NullIf(eval_arith(e.args[1]), eval_arith(e.args[2]))

eval_arith(e) ==
  CASE e.op \in {"col", "str", "num"} -> e.text
    [] e.op = "cmp" -> EvalCmp(e)
    [] e.op = "case" -> EvalCase(e)
    [] e.op = "coalesce" -> EvalCoalesce(e)
    [] e.op = "nullif" -> EvalNullif(e)
    [] e.op = "pred" -> EvalPred(e)

----------------------------------------------------------------------------
(* Conditions of one comparison; x is the value of c.left and a its class. *)

Negated(neg, t) == IF neg THEN Flip(t) ELSE t

\* x BETWEEN lo AND hi: a bound that is NULL leaves its side open, the other can still say no.
Side(x, a, b, is) == IF b.text = Null THEN "U" ELSE Tri(Holds(is, compare_classed(a, written_class(b), x, b.text)))
Inside(low, high) == IF "F" \in {low, high} THEN "F" ELSE IF low = "T" /\ high = "T" THEN "T" ELSE "U"
EvalBetween(c, x, a) == IF x = Null THEN "U" ELSE Negated(c.neg, Inside(Side(x, a, c.lo, "ge"), Side(x, a, c.hi, "le")))

\* x IN (list): true at the first value that is equal; a NULL in the list leaves open what is not true.
EvalInList(c, x, a) ==
  LET same(v) == v.text # Null /\ compare_classed(a, written_class(v), x, v.text) = 0
  IN  IF x = Null THEN "U"
      ELSE IF \E i \in DOMAIN c.list : same(c.list[i]) THEN Tri(~c.neg)
      ELSE IF \E i \in DOMAIN c.list : c.list[i].text = Null THEN "U"
      ELSE Tri(c.neg)

EvalCompare(c, x, a, y, b) ==
  CASE c.is \in {"null", "notnull"} -> Tri((x = Null) <=> (c.is = "null"))
    [] c.is \notin {"null", "notnull"} /\ Null \in {x, y} -> "U"
    [] OTHER -> Tri(Holds(c.is, compare_classed(a, b, x, y)))

----------------------------------------------------------------------------
(* Conditions on a subquery, whose answer for the row is c.values (the     *)
(* rows of it, for (a, b) IN).  One that takes nothing from the row is     *)
(* asked once and kept as a set of keys.                                   *)

\* EXISTS looks for the words of an empty answer in the text of the answer (c.marked: a cell of it holds them).
EvalExists(c) == Tri((c.values # <<>> /\ ~c.marked) # c.neg)

Membership(c, isNull, contains, has_null, empty) ==
  IF isNull THEN (IF empty THEN Tri(c.neg) ELSE "U")
  ELSE IF contains THEN Tri(~c.neg)
  ELSE IF has_null THEN "U" ELSE Tri(c.neg)

in_key(class, v) == IF v = Null THEN <<"null">> ELSE IF class = "Text" THEN <<"text", v.place>> ELSE normalize_numeric_key(v)
in_equal(class, a, b) == a = b \/ (IF class = "Text" THEN a.place = b.place ELSE compare_classed(class, class, a, b) = 0)

\* The kept set of keys.
InKept(c, x, a, keys) == Membership(c, x = Null, in_key(a, x) \in keys, <<"null">> \in keys, keys = {})

\* The values of a correlated subquery, one by one.
InValues(c, x, a) ==
  Membership(c, x = Null, \E i \in DOMAIN c.values : c.values[i] # Null /\ in_equal(a, c.values[i], x),
             \E i \in DOMAIN c.values : c.values[i] = Null, c.values = <<>>)

\* (a, b) IN (SELECT ...): the rows up to the first that is equal.
Cell(same, p) ==
  IF same = "F" THEN "F"
  ELSE IF Null \in {p.mine, p.other} THEN "U"
  ELSE IF compare_classed(p.cls, p.cls, p.mine, p.other) # 0 THEN "F" ELSE same
AddRow(in, row) == IF in = "T" THEN "T" ELSE IF row = "F" THEN in ELSE row
RowIn(c) ==
  Negated(c.neg,
    FoldLeft(LAMBDA in, r : AddRow(in, FoldLeft(Cell, "T", [i \in DOMAIN c.row |-> [mine |-> eval_arith(c.row[i]), other |-> r[i], cls |-> class_of_expr(c.row[i])]])),
             "F", c.values))

\* x op ANY (SELECT ...), x op ALL (SELECT ...).
Decided(any, answers) == IF Tri(any) \in answers THEN Tri(any) ELSE IF "U" \in answers THEN "U" ELSE Tri(~any)
Quantified(c, x, a) ==
  Decided(c.quantifier = "any",
          {IF Null \in {x, v} THEN "U" ELSE Tri(Holds(c.is, compare_classed(a, c.right_class, x, v))) : v \in {c.values[i] : i \in DOMAIN c.values}})

\* x op (SELECT ...): no more than one row.
Scalar(c, x, a) ==
  IF x = Null THEN "U"
  ELSE IF Len(c.values) > 1 THEN "E"
  ELSE IF c.values = <<>> \/ c.values = <<Null>> THEN "U"
  ELSE Tri(Holds(c.is, compare_classed(a, c.right_class, x, c.values[1])))

eval_single_with_subquery(c, x, a) ==
  CASE c.op = "exists" -> EvalExists(c)
    [] c.op = "row in" -> RowIn(c)
    [] c.op = "in" -> IF c.correlated THEN InValues(c, x, a) ELSE InKept(c, x, a, {in_key(a, c.values[i]) : i \in DOMAIN c.values})
    [] c.op = "quantified" -> Quantified(c, x, a)
    [] c.op = "scalar" -> Scalar(c, x, a)

Single3(c, x, a) ==
  CASE c.op = "between" -> EvalBetween(c, x, a)
    [] c.op = "in list" -> EvalInList(c, x, a)
    [] c.op = "compare" -> EvalCompare(c, x, a, eval_arith(c.right), class_of_expr(c.right))
    [] OTHER -> eval_single_with_subquery(c, x, a)
eval_single3(c) == Single3(c, eval_arith(c.left), class_of_expr(c.left))

----------------------------------------------------------------------------
(* AND, OR and NOT.  The right side is not looked at when the left decides.*)

EvalAnd(l, r) == IF l \in {"F", "E"} THEN l ELSE IF r \in {"F", "E"} THEN r ELSE IF l = "T" /\ r = "T" THEN "T" ELSE "U"
EvalOr(l, r) == IF l \in {"T", "E"} THEN l ELSE IF r \in {"T", "E"} THEN r ELSE IF l = "F" /\ r = "F" THEN "F" ELSE "U"
eval_cond3(c) ==
  CASE c.op = "and" -> EvalAnd(eval_cond3(c.lhs), eval_cond3(c.rhs))
    [] c.op = "or" -> EvalOr(eval_cond3(c.lhs), eval_cond3(c.rhs))
    [] c.op = "not" -> Flip(eval_cond3(c.inner))
    [] OTHER -> eval_single3(c)

\* A WHERE keeps a row when its condition is true, a CHECK refuses one when it is false.
eval_condexpr(answer) == answer = "T"
eval_check_expr(answer) == answer # "F"

----------------------------------------------------------------------------
(* What SQL means: the three answers are F < U < T, AND is the smaller,    *)
(* OR the greater; IN and ANY are the OR of their comparisons, ALL and     *)
(* BETWEEN the AND; a comparison with NULL is open.                        *)

Rank(t) == CASE t = "F" -> 0 [] t = "U" -> 1 [] t = "T" -> 2
Least3(S) == CHOOSE t \in S : \A u \in S : Rank(t) <= Rank(u)
Greatest3(S) == CHOOSE t \in S : \A u \in S : Rank(t) >= Rank(u)
AllOf(S) == Least3(S \cup {"T"})
AnyOf(S) == Greatest3(S \cup {"F"})
Open(is, a, b, x, y) == IF Null \in {x, y} THEN "U" ELSE Tri(Holds(is, compare_classed(a, b, x, y)))

LeafMeans(c, x, a) ==
  CASE c.op = "between" -> Negated(c.neg, AllOf({Open("ge", a, written_class(c.lo), x, c.lo.text), Open("le", a, written_class(c.hi), x, c.hi.text)}))
    [] c.op = "in list" -> Negated(c.neg, AnyOf({Open("eq", a, written_class(v), x, v.text) : v \in Range(c.list)}))
    [] c.op = "exists" -> Negated(c.neg, Tri(c.values # <<>>))
    [] c.op = "in" -> Negated(c.neg, AnyOf({Open("eq", a, c.right_class, x, v) : v \in Range(c.values)}))
    [] c.op = "row in" ->
         Negated(c.neg, AnyOf({AllOf({LET b == class_of_expr(c.row[j]) IN Open("eq", b, b, eval_arith(c.row[j]), r[j]) : j \in DOMAIN c.row}) : r \in Range(c.values)}))
    [] c.op = "quantified" ->
         LET answers == {Open(c.is, a, c.right_class, x, v) : v \in Range(c.values)} IN IF c.quantifier = "any" THEN AnyOf(answers) ELSE AllOf(answers)
    [] c.op = "scalar" -> IF x = Null \/ c.values = <<>> THEN "U" ELSE IF Len(c.values) > 1 THEN "E" ELSE Open(c.is, a, c.right_class, x, c.values[1])
    [] c.op = "compare" -> IF c.is \in {"null", "notnull"} THEN Tri((x = Null) <=> (c.is = "null")) ELSE Open(c.is, a, class_of_expr(c.right), x, eval_arith(c.right))
LeafMeant(c) == LeafMeans(c, eval_arith(c.left), class_of_expr(c.left))

\* The condition, where `e` stands for a leaf that fails.
OrElse(t, e) == IF t = "E" THEN e ELSE t
RECURSIVE CondMeans(_, _)
CondMeans(c, e) ==
  CASE c.op = "and" -> Least3({CondMeans(c.lhs, e), CondMeans(c.rhs, e)})
    [] c.op = "or" -> Greatest3({CondMeans(c.lhs, e), CondMeans(c.rhs, e)})
    [] c.op = "not" -> Flip(CondMeans(c.inner, e))
    [] OTHER -> OrElse(LeafMeant(c), e)

\* A condition on a subquery compares as x = ANY (SELECT ...) does: the kept keys tell the same values apart as the comparisons where
\* both sides are of one class (a Text is compared with a Number by IN as texts, by = ANY as numbers).
LeafAsMeant(c) ==
  \/ c.op = "in" /\ class_of_expr(c.left) # c.right_class
  \/ c.op = "exists" /\ c.marked
  \/ eval_single3(c) = LeafMeant(c)

\* A condition answers what it means whatever a leaf that fails would have said, and fails otherwise.
Agrees(a, could) ==
  /\ a # "E" => could = {a}
  /\ Cardinality(could) > 1 => a = "E"
  /\ a # "E" => eval_check_expr(a) = (could # {"F"}) /\ (eval_condexpr(a) <=> could = {"T"})
TreeAsMeant(c) == Agrees(eval_cond3(c), {CondMeans(c, e) : e \in {"T", "F", "U"}})

\* COALESCE(a, b) compares as the argument it is, CASE is the branch its condition says, NULLIF(a, b) is a unless a = b, where the
\* arguments are of one class.
ValueAsMeant(e, a, b, aClass, bClass) ==
  CASE e.op = "coalesce" -> TRUE
    [] e.op = "case" -> eval_arith(e) = (IF eval_cond3(e.when.cond) = "T" THEN a ELSE b).text
                          /\ (a.op = "str" /\ a.text = Null /\ b.text # Null => class_of_expr(e) = bClass)
    [] e.op = "nullif" -> {aClass, bClass} \in {{"Number"}, {"Unknown"}}
                            => eval_arith(e) = (IF EvalCompare([is |-> "eq"], a.text, aClass, b.text, bClass) = "T" THEN Null ELSE a.text)
StandsFor(e, a, b, c) == eval_single3([c EXCEPT !.left = e]) = eval_single3([c EXCEPT !.left = IF a.text # Null THEN a ELSE b])
ExprAsMeant(e, c) ==
  /\ ValueAsMeant(e, e.args[1], e.args[2], class_of_expr(e.args[1]), class_of_expr(e.args[2]))
  /\ (e.op = "coalesce" /\ class_of_expr(e.args[1]) = class_of_expr(e.args[2])) => StandsFor(e, e.args[1], e.args[2], c)
=============================================================================
