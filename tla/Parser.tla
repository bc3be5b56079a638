------------------------------- MODULE Parser -------------------------------
(***************************************************************************)
(* The expressions of the parser (parser_expr.cpp): the grammar of a       *)
(* condition (WHERE, HAVING, ON, WHEN), the grammar of a value (a select   *)
(* list, an argument, what is in parentheses), and the text an expression  *)
(* is kept as (arith_to_string) until the executor reads it back           *)
(* (str_to_arith).                                                         *)
(*                                                                         *)
(* A text is a sequence of tokens.  A method of Parser is an operator from *)
(* the tokens that are left to what it returns and the tokens it leaves;   *)
(* Bad is a ParseError, and setting pos_ back is using the tokens again.   *)
(* An expression is a tuple with its kind first.  The token SELECT stands  *)
(* for the whole of a subquery, SUM for every aggregate, f for every call  *)
(* with ordinary arguments and LIKE for REGEXP too.  Left out are          *)
(* @variables, the calls with words between their arguments (TRIM(x FROM   *)
(* y)), LIKE ... ESCAPE, ->>, the types of CAST but SIGNED, a minus sign   *)
(* apart from its number in an IN list, COUNT(DISTINCT a, b) and the       *)
(* windows inside expressions.                                             *)
(***************************************************************************)
EXTENDS Integers, Sequences, SequencesExt, FiniteSetsExt

Numbers == {"0", "1", "-1"}
Negated(n) == CASE n = "1" -> "-1" [] n = "-1" -> "1" [] OTHER -> n

\* Strings as they are written, and what read_string of the lexer makes of them: a doubled quote is one quote, a backslash goes
\* with the character after it (\b is a backspace, shown as ^H) and stays before % and _.
Strings == {"'s'", "'NULL'", "'it''s'", "'x\\\\b'", "'x\\b'", "'x^H'", "'x\\%'"}
TextOf(token) ==
  CASE token = "'s'" -> "s" [] token = "'NULL'" -> "NULL" [] token = "'it''s'" -> "it's" [] token = "'x\\\\b'" -> "x\\b"
    [] token = "'x\\%'" -> "x\\%" [] OTHER -> "x^H"
\* BUG: quotes are not doubled.
BugQuotedText(t) == CASE t = "s" -> "'s'" [] t = "NULL" -> "'NULL'" [] t = "x\\b" -> "'x\\b'" [] t = "x\\%" -> "'x\\%'" [] t = "x^H" -> "'x^H'" [] OTHER -> "'it's'"
\* quoted_text: quotes are doubled, a backslash is left as it is.
QuotedText(t) ==
  CASE t = "s" -> "'s'" [] t = "NULL" -> "'NULL'" [] t = "it's" -> "'it''s'" [] t = "x\\b" -> "'x\\b'" [] t = "x\\%" -> "'x\\%'" [] OTHER -> "'x^H'"

\* A name in backquotes (read_quoted_ident), shown here in brackets, and the name as it is written back: bare, two words.
NameOf(word) == IF word = "[a b]" THEN "a b" ELSE word
NameText(name) == IF name = "a b" THEN <<"a", "b">> ELSE <<name>>
Operations == {"MOD", "CONCAT", "JSON_EXTRACT", "OP_DIV", "OP_XOR", "OP_BIT_NOT", "OP_BIT_XOR", "OP_BIT_AND", "OP_BIT_OR", "OP_SHL",
               "OP_SHR", "OP_NULL_SAFE_EQ"}
Words == {"a", "b", "c", "f", "[a b]", "XOR", "DIV", "DAY", "SIGNED", "ANY"} \cup Operations

Comparisons == {"=", "<>", "<", ">", "<=", ">="}
Arithmetic  == {"+", "-", "*", "/", "%", "||", "->", "&", "|", "^", "<<", ">>", "<=>"}

At(ts, i)   == IF i <= Len(ts) THEN ts[i] ELSE "end"
After(ts, n) == SubSeq(ts, n + 1, Len(ts))
Ok(v, rest) == [ok |-> TRUE, v |-> v, rest |-> rest]
Bad         == [ok |-> FALSE, v |-> <<"Bad">>, rest |-> <<>>]

\* What r returned with its value wrapped by f, or its error.
With(r, f(_)) == IF r.ok THEN Ok(f(r.v), r.rest) ELSE Bad
\* A token that has to follow what r read.
Then(r, token) == IF r.ok /\ At(r.rest, 1) = token THEN Ok(r.v, Tail(r.rest)) ELSE Bad

Func(name, args)    == <<"Func", name, args>>
Pred(c)             == <<"Pred", c>>
Leaf(left, op, val) == <<"Leaf", left, op, val>>
Literal(t, quoted)  == <<"Literal", t, quoted>>
Zero                == Literal("0", FALSE)
LiteralOf(token)    == IF token \in Strings THEN Literal(TextOf(token), TRUE) ELSE Literal(NameOf(token), FALSE)

\* condition_value_of, cond_of_value, value_of_cond
ConditionValueOf(e) ==
  CASE e[1] \in {"Col", "Num"} -> Literal(e[2], FALSE)
    [] e[1] = "Str" -> Literal(e[2], TRUE)
    [] e[1] = "Agg" -> e
    [] OTHER -> <<"Arith", e>>
CondOfValue(e) == IF e[1] = "Pred" THEN e[2] ELSE Leaf(e, "<>", Zero)

\* The comparisons of a list, joined from the left.
Chain(kind, conds) == FoldLeft(LAMBDA l, r : <<kind, l, r>>, conds[1], Tail(conds))

AtPredOperator(ts) ==
  \/ At(ts, 1) \in Comparisons \cup {"IN", "BETWEEN", "LIKE", "IS"}
  \/ At(ts, 1) = "NOT" /\ At(ts, 2) \in {"IN", "BETWEEN", "LIKE"}
AtValueContinuation(ts) == AtPredOperator(ts) \/ At(ts, 1) \in Arithmetic

\* A subquery in parentheses.
IsQuery(ts) == At(ts, 1) = "(" /\ At(ts, 2) = "SELECT" /\ At(ts, 3) = ")"

\* The place of the parenthesis that closes the first, and whether it holds a list.
DepthAt(ts, i) == Cardinality({j \in 1..i : ts[j] = "("}) - Cardinality({j \in 1..i : ts[j] = ")"})
Closes(ts) == {i \in DOMAIN ts : ts[i] = ")" /\ DepthAt(ts, i) = 0}
RowConstructorAhead(ts) ==
  /\ At(ts, 1) = "(" /\ At(ts, 2) # "SELECT"
  /\ Closes(ts) # {}
  /\ LET close == Min(Closes(ts))
     IN  /\ \E j \in 1..close : ts[j] = "," /\ DepthAt(ts, j) = 1
         /\ \/ At(ts, close + 1) \in Comparisons \cup {"IN"}
            \/ At(ts, close + 1) = "NOT" /\ At(ts, close + 2) = "IN"

\* in_list_is_literals, for what follows the parenthesis.
IsLiteral(t) == t \in Numbers \cup Strings \cup {"NULL"}
InListIsLiterals(ts) ==
  LET ends == {i \in DOMAIN ts : ts[i] = ")"}
  IN  /\ ends # {}
      /\ LET end == Min(ends)
         IN  end % 2 = 0 /\ \A i \in 1..end - 1 : IF i % 2 = 1 THEN IsLiteral(ts[i]) ELSE ts[i] = ","

----------------------------------------------------------------------------
\* The text of an expression.  "throw" stands for the ParseError of an expression that holds a subquery.
Strength(e) == CASE e[1] \in {"Add", "Sub"} -> 1 [] e[1] \in {"Mul", "Div"} -> 2 [] e[1] = "Pred" -> 0 [] OTHER -> 3
Symbol(kind) == CASE kind = "Add" -> "+" [] kind = "Sub" -> "-" [] kind = "Mul" -> "*" [] OTHER -> "/"
LiteralText(lit) == IF lit[2] = "__NULL__" THEN <<"NULL">> ELSE IF lit[3] THEN <<QuotedText(lit[2])>> ELSE NameText(lit[2])
\* The parts with token between them.
Joined(parts, token) == IF parts = <<>> THEN <<>> ELSE FoldLeft(LAMBDA l, r : l \o <<token>> \o r, parts[1], Tail(parts))
OperatorText(op) ==
  CASE op = "NOT BETWEEN" -> <<"NOT", "BETWEEN">> [] op = "NOT IN" -> <<"NOT", "IN">> [] op = "NOT LIKE" -> <<"NOT", "LIKE">>
    [] op = "IS NULL" -> <<"IS", "NULL">> [] op = "IS NOT NULL" -> <<"IS", "NOT", "NULL">> [] OTHER -> <<op>>

RECURSIVE ArithToString(_)
\* BUG: an operand gets its parentheses one level too late, a - (b - c) none.
BugOperand(e, needs) == IF Strength(e) < needs - 1 THEN <<"(">> \o ArithToString(e) \o <<")">> ELSE ArithToString(e)
\* arith_operand
Operand(e, needs) == IF Strength(e) < needs THEN <<"(">> \o ArithToString(e) \o <<")">> ELSE ArithToString(e)

CaseText(args) ==
  LET n == Len(args) \div 2
      whens[i \in 0..n] ==
        IF i = 0 THEN <<"CASE">> ELSE whens[i - 1] \o <<"WHEN">> \o ArithToString(args[2 * i - 1]) \o <<"THEN">> \o ArithToString(args[2 * i])
  IN  whens[n] \o (IF Len(args) % 2 = 1 THEN <<"ELSE">> \o ArithToString(Last(args)) ELSE <<>>) \o <<"END">>
CallText(name, args) ==
  CASE name = "CASE" -> CaseText(args)
    [] name \in {"DATE_ADD", "DATE_SUB"} ->
         <<name, "(">> \o ArithToString(args[1]) \o <<",", "INTERVAL">> \o ArithToString(args[2]) \o <<args[3][2], ")">>
    [] name = "CAST" -> <<"CAST", "(">> \o ArithToString(args[1]) \o <<"AS", args[2][2], ")">>
    [] OTHER -> <<name, "(">> \o Joined([i \in DOMAIN args |-> ArithToString(args[i])], ",") \o <<")">>

\* The pattern of LIKE is written as a string, whatever it was.
ValueText(op, v) ==
  CASE v[1] = "Literal" -> IF op \in {"LIKE", "NOT LIKE"} THEN <<IF v[3] THEN QuotedText(v[2]) ELSE "'column'">> ELSE LiteralText(v)
    [] v[1] = "List" -> <<"(">> \o Joined([i \in DOMAIN v[2] |-> LiteralText(v[2][i])], ",") \o <<")">>
    [] v[1] = "Between" -> LiteralText(v[2]) \o <<"AND">> \o LiteralText(v[3])
    [] v[1] = "Arith" -> Operand(v[2], 1)
    [] v[1] = "Agg" -> IF op \in {"LIKE", "NOT LIKE"} THEN <<"'column'">> ELSE ArithToString(v)
    [] OTHER -> <<"throw">>
RECURSIVE CondToString(_)
CondToString(c) ==
  CASE c[1] = "And" -> <<"(">> \o CondToString(c[2]) \o <<"AND">> \o CondToString(c[3]) \o <<")">>
    [] c[1] = "Or" -> <<"(">> \o CondToString(c[2]) \o <<"OR">> \o CondToString(c[3]) \o <<")">>
    [] c[1] = "Not" -> <<"NOT", "(">> \o CondToString(c[2]) \o <<")">>
    [] c[3] \in {"IS NULL", "IS NOT NULL"} -> Operand(c[2], 1) \o OperatorText(c[3])
    [] OTHER -> Operand(c[2], 1) \o OperatorText(c[3]) \o ValueText(c[3], c[4])

ArithToString(e) ==
  CASE e[1] \in {"Col", "Num"} -> NameText(e[2])
    [] e[1] = "Str" -> <<QuotedText(e[2])>>
    [] e[1] \in {"Add", "Sub"} -> Operand(e[2], 1) \o <<Symbol(e[1])>> \o Operand(e[3], 2)
    [] e[1] \in {"Mul", "Div"} -> Operand(e[2], 2) \o <<Symbol(e[1])>> \o Operand(e[3], 3)
    [] e[1] = "Func" -> CallText(e[2], e[3])
    [] e[1] = "Pred" -> CondToString(e[2])
    [] e[1] = "Agg" -> <<"SUM", "(">> \o e[2] \o <<")">>
    [] OTHER -> <<"throw">>

----------------------------------------------------------------------------
\* The rules that begin anew inside an expression: parse_or_expr, parse_value_expr, parse_arith_expr, parse_arith_factor.
RECURSIVE Parse(_, _)
ParseOr(ts)     == Parse("or", ts)
ValueExpr(ts)   == Parse("value", ts)
ParseArith(ts)  == Parse("arith", ts)
ParseFactor(ts) == Parse("factor", ts)

\* Items with commas between them, to the parenthesis that ends them; one is the item just read.
Listed(one, items, More(_, _)) ==
  CASE one.ok /\ At(one.rest, 1) = "," -> More(Tail(one.rest), Append(items, one.v))
    [] one.ok /\ At(one.rest, 1) = ")" -> Ok(Append(items, one.v), Tail(one.rest))
    [] OTHER -> Bad

\* parse_row
RECURSIVE ParseList(_, _)
ParseList(ts, items) == Listed(ParseArith(ts), items, ParseList)
ParseRow(ts) == IF At(ts, 1) = "(" THEN ParseList(Tail(ts), <<>>) ELSE Bad

\* A row compared with a row of as many values.
Cmp(l, r, i, op) == Leaf(l[i], op, ConditionValueOf(r[i]))
InOrder(op, strict, l, r) ==
  LET by[i \in 1..Len(l)] == IF i = Len(l) THEN Cmp(l, r, i, op)
                             ELSE <<"Or", Cmp(l, r, i, strict), <<"And", Cmp(l, r, i, "="), by[i + 1]>>>>
  IN  by[1]
CompareRows(op, l, r) ==
  CASE op = "=" -> Chain("And", [i \in DOMAIN l |-> Cmp(l, r, i, "=")])
    [] op = "<>" -> Chain("Or", [i \in DOMAIN l |-> Cmp(l, r, i, "<>")])
    [] OTHER -> InOrder(op, IF op \in {"<", "<="} THEN "<" ELSE ">", l, r)

RECURSIVE ParseRows(_, _)
ParseRows(ts, rows) == Listed(ParseRow(ts), rows, ParseRows)
Not(negated, c) == IF negated THEN <<"Not", c>> ELSE c
InRows(l, negated, rows) ==
  IF ~rows.ok THEN Bad
  ELSE IF \E i \in DOMAIN rows.v : Len(rows.v[i]) # Len(l) THEN Bad
  ELSE Ok(Not(negated, Chain("Or", [i \in DOMAIN rows.v |-> CompareRows("=", l, rows.v[i])])), rows.rest)
RowIn(l, negated, ts) ==
  IF IsQuery(ts) THEN Ok(Leaf(Func("ROW", l), IF negated THEN "NOT IN" ELSE "IN", <<"Subquery">>), After(ts, 3))
  ELSE IF At(ts, 1) = "(" THEN InRows(l, negated, ParseRows(Tail(ts), <<>>)) ELSE Bad
RowCompared(op, l, r) == IF ~r.ok THEN Bad ELSE IF Len(r.v) # Len(l) THEN Bad ELSE Ok(CompareRows(op, l, r.v), r.rest)
RowCondition(l, no, op) ==
  IF ~l.ok THEN Bad
  ELSE IF op = "IN" THEN RowIn(l.v, no = 1, After(l.rest, no + 1))
  ELSE IF no = 1 \/ op \notin Comparisons THEN Bad ELSE RowCompared(op, l.v, ParseRow(Tail(l.rest)))
Negations(ts) == IF At(ts, 1) = "NOT" THEN 1 ELSE 0
AfterRow(l) == RowCondition(l, Negations(l.rest), At(l.rest, Negations(l.rest) + 1))
ParseRowCondition(ts) == AfterRow(ParseRow(ts))

\* The values of an IN list or of a call; a call may end in a comma.
RECURSIVE ParseValues(_, _), ParseArgs(_, _)
ParseValues(ts, items) == Listed(ValueExpr(ts), items, ParseValues)
ParseArgs(ts, items) == IF At(ts, 1) = ")" THEN Ok(items, Tail(ts)) ELSE Listed(ValueExpr(ts), items, ParseArgs)

\* parse_pred_tail: one comparison.  l is the left side and what follows it.
LiteralList(l, op, ts, end) == Ok(Leaf(l.v, op, <<"List", [i \in 1..end \div 2 |-> LiteralOf(ts[2 * i - 1])]>>), After(ts, end))
Pattern(l, op, ts) ==
  IF At(ts, 1) \in Words \cup Strings /\ At(ts, 2) \notin Arithmetic \cup {"("}
  THEN Ok(Leaf(l.v, op, LiteralOf(ts[1])), Tail(ts))
  ELSE With(ParseArith(ts), LAMBDA e : Leaf(l.v, op, ConditionValueOf(e)))
Compared(l, op, ts) ==
  CASE IsQuery(ts) /\ At(ts, 4) \notin Arithmetic -> Ok(Leaf(l.v, op, <<"Subquery">>), After(ts, 3))
    [] At(ts, 1) \in {"ANY", "ALL"} /\ IsQuery(Tail(ts)) -> Ok(Leaf(l.v, op, <<"Subquery", ts[1]>>), After(ts, 4))
    [] At(ts, 1) = "NULL" /\ At(ts, 2) \notin {"+", "-", "*", "/", "%", "||"} -> Ok(Leaf(l.v, op, Literal("__NULL__", FALSE)), Tail(ts))
    [] OTHER -> With(ParseArith(ts), LAMBDA e : Leaf(l.v, op, ConditionValueOf(e)))
InTail(l, op, rest) ==
  IF IsQuery(rest) THEN Ok(Leaf(l.v, op, <<"Subquery">>), After(rest, 3))
  ELSE IF At(rest, 1) = "(" /\ InListIsLiterals(Tail(rest))
       THEN LiteralList(l, op, Tail(rest), Min({i \in DOMAIN Tail(rest) : rest[i + 1] = ")"})) ELSE Bad
IsNull(l, rest) ==
  CASE At(rest, 1) = "NOT" /\ At(rest, 2) = "NULL" -> Ok(Leaf(l.v, "IS NOT NULL", Literal("", FALSE)), After(rest, 2))
    [] At(rest, 1) = "NULL" -> Ok(Leaf(l.v, "IS NULL", Literal("", FALSE)), Tail(rest))
    [] OTHER -> Bad
PredTail(l, no, word, rest) ==
  CASE word = "IN" -> InTail(l, IF no = 1 THEN "NOT IN" ELSE "IN", rest)
    [] word = "LIKE" -> Pattern(l, IF no = 1 THEN "NOT LIKE" ELSE "LIKE", rest)
    [] word = "IS" -> IsNull(l, rest)
    [] word \in Comparisons -> Compared(l, word, rest)
    [] OTHER -> Bad
ParsePredTail(l, no) == PredTail(l, no, At(l.rest, no + 1), After(l.rest, no + 1))

\* parse_pred_cond: the operators that stand for several comparisons.
AnyOf(l, negated, items) ==
  IF ~items.ok THEN Bad
  ELSE Ok(Chain(IF negated THEN "And" ELSE "Or", [i \in DOMAIN items.v |-> Leaf(l.v, IF negated THEN "<>" ELSE "=", ConditionValueOf(items.v[i]))]), items.rest)
InList(l, negated, ts) == AnyOf(l, negated, ParseValues(ts, <<>>))
Plain(e) == e[1] \in {"Num", "Str"}
Bounded(l, negated, lo, hi, rest) ==
  IF Plain(lo) /\ Plain(hi) THEN Ok(Leaf(l.v, IF negated THEN "NOT BETWEEN" ELSE "BETWEEN", <<"Between", ConditionValueOf(lo), ConditionValueOf(hi)>>), rest)
  ELSE Ok(Not(negated, <<"And", Leaf(l.v, ">=", ConditionValueOf(lo)), Leaf(l.v, "<=", ConditionValueOf(hi))>>), rest)
UpperBound(l, negated, lo, hi) == IF hi.ok THEN Bounded(l, negated, lo, hi.v, hi.rest) ELSE Bad
LowerBound(l, negated, lo) == IF lo.ok THEN UpperBound(l, negated, lo.v, ParseArith(lo.rest)) ELSE Bad
Between(l, negated, ts) == LowerBound(l, negated, Then(ParseArith(ts), "AND"))
IsTruth(l, negated, word, rest) ==
  Ok(Not(negated, <<"And", Leaf(l.v, "IS NOT NULL", Literal("", FALSE)), Leaf(l.v, IF word = "true" THEN "<>" ELSE "=", Zero)>>), rest)
PredCond(l, ts, no, is) ==
  CASE At(ts, no + 1) = "IN" /\ At(ts, no + 2) = "(" /\ At(ts, no + 3) # "SELECT" /\ ~InListIsLiterals(After(ts, no + 2)) ->
         InList(l, no = 1, After(ts, no + 2))
    [] At(ts, no + 1) = "BETWEEN" -> Between(l, no = 1, After(ts, no + 1))
    [] At(ts, 1) = "IS" /\ At(ts, is + 2) \in {"true", "false"} -> IsTruth(l, is = 1, ts[is + 2], After(ts, is + 2))
    [] OTHER -> ParsePredTail(l, no)
ParsePredCond(l) == PredCond(l, l.rest, Negations(l.rest), Negations(After(l.rest, 1)))

\* parse_exists_subquery
Exists(op, ts) == IF IsQuery(ts) THEN Ok(Leaf(<<"Col", "">>, op, <<"Subquery">>), After(ts, 3)) ELSE Bad
ExistsAhead(ts) == At(ts, 1) = "EXISTS" \/ (At(ts, 1) = "NOT" /\ At(ts, 2) = "EXISTS")
ParseExists(ts) == IF At(ts, 1) = "EXISTS" THEN Exists("EXISTS", Tail(ts)) ELSE Exists("NOT EXISTS", After(ts, 2))

----------------------------------------------------------------------------
\* Conditions.  parse_or_expr, parse_and_expr, parse_not_expr, parse_primary_expr
AfterLeft(left) == IF left.ok /\ AtPredOperator(left.rest) THEN ParsePredCond(left) ELSE With(left, CondOfValue)
ParsePredExpr(ts) == IF ExistsAhead(ts) THEN ParseExists(ts) ELSE AfterLeft(ParseArith(ts))

\* BUG: what follows a group of conditions is not looked at.
BugGroupEnds(ts) == TRUE
\* The parenthesis is a group of conditions, and not a value that an operator goes on with.
GroupEnds(ts) == ~AtValueContinuation(ts)
GroupOrValue(ts, group) == IF group.ok /\ GroupEnds(group.rest) THEN group ELSE ParsePredExpr(ts)
ParsePrimary(ts) ==
  IF RowConstructorAhead(ts) THEN ParseRowCondition(ts)
  ELSE GroupOrValue(ts, IF At(ts, 1) = "(" /\ At(ts, 2) # "SELECT" THEN Then(ParseOr(Tail(ts)), ")") ELSE Bad)

RECURSIVE ParseNot(_), AndRest(_), OrRest(_)
ParseNot(ts) ==
  IF At(ts, 1) = "NOT" /\ At(ts, 2) \notin {"IN", "EXISTS"} THEN With(ParseNot(Tail(ts)), LAMBDA c : <<"Not", c>>)
  ELSE ParsePrimary(ts)
AndRest(l) ==
  IF ~l.ok \/ At(l.rest, 1) # "AND" THEN l
  ELSE AndRest(With(ParseNot(Tail(l.rest)), LAMBDA r : <<"And", l.v, r>>))
ParseAnd(ts) == AndRest(ParseNot(ts))
OrRest(l) ==
  IF ~l.ok \/ At(l.rest, 1) # "OR" THEN l
  ELSE OrRest(With(ParseAnd(Tail(l.rest)), LAMBDA r : <<"Or", l.v, r>>))

----------------------------------------------------------------------------
\* Values.  parse_value_expr, parse_value_and, parse_value_not, parse_value_pred: a condition is the value 1, 0 or NULL.
ValueAfter(left) == IF left.ok /\ AtPredOperator(left.rest) THEN With(ParsePredCond(left), Pred) ELSE left
ValuePred(ts) ==
  CASE RowConstructorAhead(ts) -> With(ParseRowCondition(ts), Pred)
    [] ~RowConstructorAhead(ts) /\ ExistsAhead(ts) -> With(ParseExists(ts), Pred)
    [] OTHER -> ValueAfter(ParseArith(ts))

RECURSIVE ValueNot(_), ValueAndRest(_), ValueOrRest(_)
ValueNot(ts) ==
  IF At(ts, 1) = "NOT" /\ At(ts, 2) # "EXISTS" THEN With(ValueNot(Tail(ts)), LAMBDA e : Pred(<<"Not", CondOfValue(e)>>))
  ELSE ValuePred(ts)
ValueAndRest(l) ==
  IF ~l.ok \/ At(l.rest, 1) # "AND" THEN l
  ELSE ValueAndRest(With(ValueNot(Tail(l.rest)), LAMBDA r : Pred(<<"And", CondOfValue(l.v), CondOfValue(r)>>)))
ValueAnd(ts) == ValueAndRest(ValueNot(ts))
ValueOrRest(l) ==
  IF ~l.ok \/ At(l.rest, 1) # "OR" THEN l
  ELSE ValueOrRest(With(ValueAnd(Tail(l.rest)), LAMBDA r : Pred(<<"Or", CondOfValue(l.v), CondOfValue(r)>>)))

----------------------------------------------------------------------------
\* Factors.
Call(name, ts) == With(ParseArgs(ts, <<>>), LAMBDA args : Func(name, args))

\* parse_case_expr: CASE(cond1, result1, ... [, else]); operand is <<>> when there is none.
RECURSIVE ParseWhens(_, _, _)
ParseWhen(operand, ts) ==
  IF operand = <<>> THEN With(ParseOr(ts), Pred)
  ELSE IF At(ts, 1) = "NULL" THEN Ok(Pred(Leaf(operand, "=", Literal("__NULL__", FALSE))), Tail(ts))
  ELSE With(ParseArith(ts), LAMBDA e : Pred(Leaf(operand, "=", ConditionValueOf(e))))
AfterThen(operand, args, result) == IF result.ok THEN ParseWhens(operand, result.rest, Append(args, result.v)) ELSE Bad
AfterWhen(operand, args, when) == IF when.ok THEN AfterThen(operand, Append(args, when.v), ValueExpr(when.rest)) ELSE Bad
ParseWhens(operand, ts, args) ==
  CASE At(ts, 1) = "WHEN" -> AfterWhen(operand, args, Then(ParseWhen(operand, Tail(ts)), "THEN"))
    [] At(ts, 1) = "ELSE" -> With(Then(ValueExpr(Tail(ts)), "END"), LAMBDA e : Func("CASE", Append(args, e)))
    [] At(ts, 1) = "END" -> Ok(Func("CASE", args), Tail(ts))
    [] OTHER -> Bad
AfterOperand(operand) == IF operand.ok /\ At(operand.rest, 1) = "WHEN" THEN ParseWhens(operand.v, operand.rest, <<>>) ELSE Bad
ParseCase(ts) == IF At(ts, 1) = "WHEN" THEN ParseWhens(<<>>, ts, <<>>) ELSE AfterOperand(ParseArith(ts))

IfOf(three) ==
  IF ~three.ok THEN Bad
  ELSE IF Len(three.v) # 3 THEN Bad
  ELSE Ok(Func("CASE", <<Pred(CondOfValue(three.v[1])), three.v[2], three.v[3]>>), three.rest)
ParseIf(ts) == IfOf(ParseValues(ts, <<>>))
CastOf(value) ==
  IF value.ok /\ At(value.rest, 1) = "SIGNED" /\ At(value.rest, 2) = ")" THEN Ok(Func("CAST", <<value.v, <<"Str", "SIGNED">>>>), After(value.rest, 2))
  ELSE Bad
ParseCast(ts) == CastOf(Then(ValueExpr(ts), "AS"))
\* DATE_ADD(date, INTERVAL amount unit)
WithUnit(name, date, amount) ==
  IF amount.ok /\ At(amount.rest, 1) \in Words THEN Ok(Func(name, <<date, amount.v, <<"Col", amount.rest[1]>>>>), Tail(amount.rest)) ELSE Bad
AfterDate(name, date) ==
  IF date.ok /\ At(date.rest, 1) = "INTERVAL" THEN Then(WithUnit(name, date.v, ParseArith(Tail(date.rest))), ")") ELSE Bad
ParseDateAdd(name, ts) == AfterDate(name, Then(ValueExpr(ts), ","))

\* An aggregate is a column whose name is the text of its argument: <<"Agg", text>>.
AggregateOf(text, rest) == IF "throw" \in Range(text) THEN Bad ELSE Ok(<<"Agg", text>>, rest)
AggregateArg(arg) == IF arg.ok THEN AggregateOf(ArithToString(arg.v), arg.rest) ELSE Bad
Aggregate(ts) == AggregateArg(Then(ValueExpr(ts), ")"))

Factor(t, ts, called) ==
  CASE t = "+" -> ParseFactor(Tail(ts))
    [] t = "~" -> With(ParseFactor(Tail(ts)), LAMBDA e : Func("OP_BIT_NOT", <<e>>))
    [] t = "SUM" /\ called -> Aggregate(After(ts, 2))
    [] t = "-" -> IF At(ts, 2) \in Numbers THEN Ok(<<"Num", Negated(ts[2])>>, After(ts, 2))
                  ELSE With(ParseFactor(Tail(ts)), LAMBDA e : <<"Sub", <<"Num", "0">>, e>>)
    [] t \in Numbers -> Ok(<<"Num", t>>, Tail(ts))
    [] t \in Strings -> Ok(<<"Str", TextOf(t)>>, Tail(ts))
    [] t = "NULL" -> Ok(<<"Str", "NULL">>, Tail(ts))
    [] t = "(" -> IF At(ts, 2) # "SELECT" THEN Then(ValueExpr(Tail(ts)), ")") ELSE IF IsQuery(ts) THEN Ok(<<"Subquery">>, After(ts, 3)) ELSE Bad
    [] t = "CASE" -> ParseCase(Tail(ts))
    [] t = "IF" /\ called -> ParseIf(After(ts, 2))
    [] t = "CAST" /\ called -> ParseCast(After(ts, 2))
    [] t \in {"DATE_ADD", "DATE_SUB"} /\ called -> ParseDateAdd(t, After(ts, 2))
    [] t \in {"true", "false"} -> Ok(<<"Num", IF t = "true" THEN "1" ELSE "0">>, Tail(ts))
    [] t \in Words -> IF called THEN Call(t, After(ts, 2)) ELSE Ok(<<"Col", NameOf(t)>>, Tail(ts))
    [] OTHER -> Bad

----------------------------------------------------------------------------
\* Operators, from the tightest.  parse_arith_term
StartsValue(t) == t \in Numbers \cup Strings \cup Words \cup {"(", "-"}
Product(op, l, r) ==
  CASE op = "*" -> <<"Mul", l, r>>
    [] op = "/" -> <<"Div", l, r>>
    [] op = "^" -> Func("OP_BIT_XOR", <<l, r>>)
    [] op = "%" -> Func("MOD", <<l, r>>)
    [] OTHER -> Func("OP_DIV", <<l, r>>)
RECURSIVE TermRest(_)
TermRest(l) ==
  IF l.ok /\ (At(l.rest, 1) \in {"*", "/", "^", "%"} \/ (At(l.rest, 1) = "DIV" /\ StartsValue(At(l.rest, 2))))
  THEN TermRest(With(ParseFactor(Tail(l.rest)), LAMBDA r : Product(l.rest[1], l.v, r))) ELSE l
ParseTerm(ts) == TermRest(ParseFactor(ts))

\* parse_additive_expr.  A path only follows a column.
RECURSIVE AdditiveRest(_)
Added(op, l, r) == CASE op = "+" -> <<"Add", l, r>> [] op = "-" -> <<"Sub", l, r>> [] op = "||" -> Func("CONCAT", <<l, r>>)
Path(l) == IF l.v[1] \notin {"Str", "Num", "Func"} /\ At(l.rest, 2) \in Strings
           THEN Ok(Func("JSON_EXTRACT", <<l.v, <<"Str", TextOf(l.rest[2])>>>>), After(l.rest, 2)) ELSE Bad
Interval(l, name) == WithUnit(name, l.v, ParseTerm(After(l.rest, 2)))
Additive(l, op) ==
  CASE op \in {"+", "-"} /\ At(l.rest, 2) = "INTERVAL" -> Interval(l, IF op = "-" THEN "DATE_SUB" ELSE "DATE_ADD")
    [] op = "->" -> Path(l)
    [] OTHER -> With(ParseTerm(Tail(l.rest)), LAMBDA r : Added(op, l.v, r))
AdditiveRest(l) == IF l.ok /\ At(l.rest, 1) \in {"+", "-", "||", "->"} THEN AdditiveRest(Additive(l, l.rest[1])) ELSE l
ParseAdditive(ts) == AdditiveRest(ParseTerm(ts))

\* parse_arith_expr: << and >>, then &, then |, then <=> and XOR.
RECURSIVE ShiftRest(_), BitAndRest(_), BitOrRest(_), ArithRest(_)
ShiftRest(l) ==
  IF l.ok /\ At(l.rest, 1) \in {"<<", ">>"}
  THEN ShiftRest(With(ParseAdditive(Tail(l.rest)), LAMBDA r : Func(IF l.rest[1] = "<<" THEN "OP_SHL" ELSE "OP_SHR", <<l.v, r>>))) ELSE l
ParseShift(ts) == ShiftRest(ParseAdditive(ts))
BitAndRest(l) ==
  IF l.ok /\ At(l.rest, 1) = "&" THEN BitAndRest(With(ParseShift(Tail(l.rest)), LAMBDA r : Func("OP_BIT_AND", <<l.v, r>>))) ELSE l
ParseBitAnd(ts) == BitAndRest(ParseShift(ts))
BitOrRest(l) ==
  IF l.ok /\ At(l.rest, 1) = "|" THEN BitOrRest(With(ParseBitAnd(Tail(l.rest)), LAMBDA r : Func("OP_BIT_OR", <<l.v, r>>))) ELSE l
ParseBitOr(ts) == BitOrRest(ParseBitAnd(ts))
ArithRest(l) ==
  IF l.ok /\ (At(l.rest, 1) = "<=>" \/ (At(l.rest, 1) = "XOR" /\ At(l.rest, 2) \notin {"end", ",", ")", "FROM"}))
  THEN ArithRest(With(ParseBitOr(Tail(l.rest)), LAMBDA r : Func(IF l.rest[1] = "XOR" THEN "OP_XOR" ELSE "OP_NULL_SAFE_EQ", <<l.v, r>>))) ELSE l

Parse(rule, ts) ==
  CASE rule = "or" -> OrRest(ParseAnd(ts))
    [] rule = "value" -> ValueOrRest(ValueAnd(ts))
    [] rule = "arith" -> ArithRest(ParseBitOr(ts))
    [] rule = "factor" -> Factor(At(ts, 1), ts, At(ts, 2) = "(")

\* str_to_arith: a text that is not one expression is taken for the name of a column.
WholeOrName(e, text) == IF e.ok /\ e.rest = <<>> THEN e.v ELSE IF text = NameText("a b") THEN <<"Col", "a b">> ELSE <<"Text", text>>
StrToArith(text) == WholeOrName(ValueExpr(text), text)

----------------------------------------------------------------------------
\* The operators from the loosest to the tightest; those of one level group from the left.
Level(op) ==
  CASE op = "OR" -> 1 [] op = "AND" -> 2 [] op = "NOT" -> 3 [] op \in Comparisons -> 4 [] op \in {"<=>", "XOR"} -> 5 [] op = "|" -> 6
    [] op = "&" -> 7 [] op \in {"<<", ">>"} -> 8 [] op \in {"+", "-", "||"} -> 9 [] OTHER -> 10
Tree(op, l, r) ==
  CASE op = "OR" -> Pred(<<"Or", CondOfValue(l), CondOfValue(r)>>)
    [] op = "AND" -> Pred(<<"And", CondOfValue(l), CondOfValue(r)>>)
    [] op \in Comparisons -> Pred(Leaf(l, op, ConditionValueOf(r)))
    [] op = "+" -> <<"Add", l, r>> [] op = "-" -> <<"Sub", l, r>> [] op = "*" -> <<"Mul", l, r>> [] op = "/" -> <<"Div", l, r>>
    [] op = "||" -> Func("CONCAT", <<l, r>>) [] op = "%" -> Func("MOD", <<l, r>>) [] op = "^" -> Func("OP_BIT_XOR", <<l, r>>)
    [] op = "DIV" -> Func("OP_DIV", <<l, r>>) [] op = "<<" -> Func("OP_SHL", <<l, r>>) [] op = ">>" -> Func("OP_SHR", <<l, r>>)
    [] op = "&" -> Func("OP_BIT_AND", <<l, r>>) [] op = "|" -> Func("OP_BIT_OR", <<l, r>>)
    [] op = "<=>" -> Func("OP_NULL_SAFE_EQ", <<l, r>>) [] OTHER -> Func("OP_XOR", <<l, r>>)
Atom(t) == IF t \in Numbers THEN <<"Num", t>> ELSE IF t \in Strings THEN <<"Str", TextOf(t)>> ELSE <<"Col", NameOf(t)>>
Negation(e) == Pred(<<"Not", CondOfValue(e)>>)

\* A text q is x o1 y o2 z, with NOT or a minus before it (q.sign), and with parentheses around the left or the right two
\* operands (q.group).  What it means follows from the levels alone.
Means(q) ==
  LET minus(e) == IF q.sign # "-" THEN e ELSE IF e[1] = "Num" THEN <<"Num", Negated(e[2])>> ELSE <<"Sub", <<"Num", "0">>, e>>
      x == minus(Atom(q.x))
      y == Atom(q.y)
      z == Atom(q.z)
      not(e) == IF q.sign = "NOT" THEN Negation(e) ELSE e
      \* NOT reaches over the operators that bind more tightly
      three(l, o1, m, o2, r) ==
        CASE Level(o1) > 3 /\ Level(o2) > 3 -> not(IF Level(o1) >= Level(o2) THEN Tree(o2, Tree(o1, l, m), r) ELSE Tree(o1, l, Tree(o2, m, r)))
          [] Level(o1) > 3 /\ Level(o2) <= 3 -> Tree(o2, not(Tree(o1, l, m)), r)
          [] OTHER -> IF Level(o1) >= Level(o2) THEN Tree(o2, Tree(o1, not(l), m), r) ELSE Tree(o1, not(l), Tree(o2, m, r))
      two(l, o, r) == IF Level(o) > 3 THEN not(Tree(o, l, r)) ELSE Tree(o, not(l), r)
  IN  CASE q.group = "left" -> two(minus(Tree(q.o1, Atom(q.x), y)), q.o2, z)
        [] q.group = "right" -> two(x, q.o1, Tree(q.o2, y, z))
        [] OTHER -> three(x, q.o1, y, q.o2, z)

Signed(q) == IF q.sign = "" THEN <<>> ELSE <<q.sign>>
Written(q) ==
  Signed(q) \o
  CASE q.group = "left" -> <<"(", q.x, q.o1, q.y, ")", q.o2, q.z>>
    [] q.group = "right" -> <<q.x, q.o1, "(", q.y, q.o2, q.z, ")">>
    [] OTHER -> <<q.x, q.o1, q.y, q.o2, q.z>>

Whole(r, v) == r.ok /\ r.rest = <<>> /\ r.v = v

\* A value means what the levels of its operators say; a comparison of a comparison has to be put in parentheses.
ParsedAsMeant(q) ==
  IF q.group = "" /\ {q.o1, q.o2} \subseteq Comparisons THEN ValueExpr(Written(q)).rest # <<>>
  ELSE Whole(ValueExpr(Written(q)), Means(q))

\* What is a value in a select list is a condition in a WHERE, and the same one, but for a parenthesis that XOR or DIV goes on with.
Complete(r) == r.ok /\ r.rest = <<>>
SameCondition(c, e) == (Complete(c) <=> Complete(e)) /\ (Complete(c) => c.v = CondOfValue(e.v))
GrammarsAgree(ts) ==
  \/ \E i \in DOMAIN ts : ts[i] = ")" /\ At(ts, i + 1) \in {"XOR", "DIV"}
  \/ SameCondition(ParseOr(ts), ValueExpr(ts))

\* The text that is kept for an expression is read back as that expression, quotes in strings included, but for a column after
\* LIKE, a condition after INTERVAL, a string with a backslash (which is not written twice, and read with what follows it; the
\* ones before % and _ are) and a name that needs its backquotes and is only part of the expression.
Unreadable(text) ==
  \/ {"throw", "'column'", "'x\\b'"} \cap Range(text) # {}
  \/ \E i \in DOMAIN text : text[i] = "INTERVAL" /\ (Range(text) \cap (Comparisons \cup {"AND", "OR", "NOT"})) # {}
IsReadBack(text, e) == Unreadable(text) \/ StrToArith(text) = e
WholeReadsBack(r) == Complete(r) => IsReadBack(ArithToString(r.v), r.v)
BareName(ts) == "[a b]" \in Range(ts) /\ Range(ts) \ {"(", ")"} # {"[a b]"}
ReadsBack(ts) == BareName(ts) \/ WholeReadsBack(ValueExpr(ts))
=============================================================================
