------------------------------- MODULE Texts -------------------------------
(***************************************************************************)
(* The texts that cross the edges of the system: where a statement ends in *)
(* what a client types (the same scan in the server, the client and the    *)
(* CLI), how the lexer reads it, how a prepared statement takes its        *)
(* values, how a result table is written and read back, and the line       *)
(* protocol between the client and the server.                             *)
(*                                                                         *)
(* A text is a sequence of atoms: characters ("'", "\\", "sp", "nl", ";",  *)
(* "5", ...), the pairs "/*" and "*/", and whole words ("BEGIN", "x").     *)
(***************************************************************************)
EXTENDS Integers, Sequences, FiniteSets, SequencesExt

Blanks == {"sp", "nl", "tab"}
Digits == {"5", "."}
Words == {"BEGIN", "END", "CASE", "IF", "WORK", "SELECT", "CREATE", "FROM", "INT", "WHEN", "THEN", "ELSE", "x", "n", "s", "AND"}
At(s, i) == IF i \in DOMAIN s THEN s[i] ELSE ""
Dashes(s, i) == At(s, i) = "-" /\ At(s, i + 1) = "-"

\* The first of the positions i, i + 1, ... at which Stop holds, or one past the end.
Upto(s, i, Stop(_)) == LET found == {j \in i..Len(s) : Stop(j)} IN IF found = {} THEN Len(s) + 1 ELSE CHOOSE j \in found : \A k \in found : j <= k
\* ... and the one after it.
Past(s, i, Stop(_)) == LET j == Upto(s, i, Stop) IN IF j > Len(s) THEN j ELSE j + 1

RECURSIVE SkipBlank(_, _)
SkipBlank(s, i) ==
  IF At(s, i) \in Blanks THEN SkipBlank(s, i + 1)
  ELSE IF Dashes(s, i) THEN SkipBlank(s, Upto(s, i, LAMBDA j : s[j] = "nl"))
  ELSE IF At(s, i) \in {"/*", "/*!"} THEN SkipBlank(s, Past(s, i + 1, LAMBDA j : s[j] = "*/"))
  ELSE i
WordAt(s, i) == IF At(s, i) \in Words THEN s[i] ELSE ""

\* BEGIN or END that names a column.
UsedAsName(prev, s, next, lookAhead) ==
  \/ prev \in {",", "(", "=", "-"}
  \/ prev \in {"SELECT", "AND", "WHEN"}
  \/ lookAhead /\ At(s, next) \in {",", ")", "=", "-", "FROM", "AND", "THEN", "INT"}

\* The position after the string that opens at i; after the name in backquotes that does.
RECURSIVE StringEnd(_, _)
StringEnd(s, i) ==
  IF i > Len(s) THEN i
  ELSE IF s[i] = "\\" /\ i < Len(s) THEN StringEnd(s, i + 2)
  ELSE IF s[i] = "'" THEN i + 1 ELSE StringEnd(s, i + 1)
NameEnd(s, i) == Past(s, i, LAMBDA j : s[j] = "bq")

\* What the word w does to the open blocks and CASEs, j the position of what follows it: st is [block, case, prev].
Opens(w, s, j, st) == w = "BEGIN" /\ ~UsedAsName(st.prev, s, j, TRUE) /\ At(s, j) \notin {"", ";", "WORK"}
Closes(w, s, j, st) == w = "END" /\ st.prev \notin {"THEN", "ELSE"} /\ ~UsedAsName(st.prev, s, j, st.case = 0)
Marked(st, w, opens, caseEnds, blockEnds) ==
  [block |-> st.block + (IF opens THEN 1 ELSE 0) - (IF blockEnds THEN 1 ELSE 0),
   case |-> st.case + (IF w = "CASE" /\ st.prev # "END" THEN 1 ELSE 0) - (IF caseEnds THEN 1 ELSE 0),
   prev |-> w]
Ending(st, w, opens, closes, next) ==
  Marked(st, w, opens, closes /\ st.case > 0 /\ next # "IF",
         closes /\ ~(st.case > 0 /\ next # "IF") /\ next \notin {"CASE", "IF"} /\ st.block > 0)
Word(s, w, j, st) == Ending(st, w, Opens(w, s, j, st), Closes(w, s, j, st), WordAt(s, j))

RECURSIVE ScanFrom(_, _, _, _)
\* scan: the positions of the ";" that end a statement.
Skipped(s, i, j, st) ==
  CASE j # i -> [next |-> j, st |-> st, ends |-> <<>>]
    [] j = i /\ At(s, i) = "'" -> [next |-> StringEnd(s, i + 1), st |-> [st EXCEPT !.prev = "'"], ends |-> <<>>]
    [] j = i /\ At(s, i) = "bq" -> [next |-> NameEnd(s, i + 1), st |-> [st EXCEPT !.prev = "bq"], ends |-> <<>>]
    [] j = i /\ At(s, i) \in Words -> [next |-> i + 1, st |-> Word(s, s[i], SkipBlank(s, i + 1), st), ends |-> <<>>]
    [] j = i /\ At(s, i) = ";" /\ st.block = 0 -> [next |-> i + 1, st |-> [st EXCEPT !.case = 0, !.prev = ";"], ends |-> <<i>>]
    [] OTHER -> [next |-> i + 1, st |-> [st EXCEPT !.prev = s[i]], ends |-> <<>>]
Onward(s, step, ends) == ScanFrom(s, step.next, step.st, ends \o step.ends)
ScanFrom(s, i, st, ends) == IF i > Len(s) THEN ends ELSE Onward(s, Skipped(s, i, SkipBlank(s, i), st), ends)
StatementEnds(s) == ScanFrom(s, 1, [block |-> 0, case |-> 0, prev |-> ""], <<>>)
FirstOf(ends) == IF ends = <<>> THEN 0 ELSE ends[1]
FindStatementEnd(s) == FirstOf(StatementEnds(s))
CountStatementEnds(s) == Len(StatementEnds(s))

\* Trailing and leading blanks taken off.
Trim(s) ==
  LET solid == {i \in DOMAIN s : s[i] \notin Blanks}
  IN  IF solid = {} THEN <<>>
      ELSE SubSeq(s, CHOOSE i \in solid : \A j \in solid : i <= j, CHOOSE i \in solid : \A j \in solid : i >= j)

RECURSIVE CutFrom(_, _)
\* The buffer of the server, cut one statement at a time: [done, rest].
CutAt(done, buf, end) ==
  IF end = 0 THEN [done |-> done, rest |-> buf]
  ELSE CutFrom(Append(done, Trim(SubSeq(buf, 1, end - 1))), SubSeq(buf, end + 1, Len(buf)))
CutFrom(done, buf) == CutAt(done, buf, FindStatementEnd(buf))
Pieces(buf) == CutFrom(<<>>, buf)

-----------------------------------------------------------------------------
(* The lexer.                                                              *)

Tok(kind, text) == [kind |-> kind, text |-> text]
Unescaped(c) == CASE c = "n" -> <<"nl">> [] c = "%" -> <<"\\", "%">> [] OTHER -> <<c>>
RECURSIVE ReadString(_, _, _)
ReadString(s, i, text) ==
  CASE i > Len(s) -> [text |-> text, next |-> i]
    [] At(s, i) = "'" /\ At(s, i + 1) = "'" -> ReadString(s, i + 2, Append(text, "'"))
    [] At(s, i) = "'" /\ At(s, i + 1) # "'" -> [text |-> text, next |-> i + 1]
    [] At(s, i) = "\\" /\ i = Len(s) -> [text |-> text, next |-> i + 1]
    [] At(s, i) = "\\" /\ i < Len(s) -> ReadString(s, i + 2, text \o Unescaped(s[i + 1]))
    [] OTHER -> ReadString(s, i + 1, Append(text, s[i]))
QuotedIdent(s, i, end) == [text |-> SubSeq(s, i, end - 1), next |-> IF end > Len(s) THEN end ELSE end + 1]
ReadQuotedIdent(s, i) == QuotedIdent(s, i, Upto(s, i, LAMBDA j : s[j] = "bq"))
NumberEnd(s, i) == Upto(s, i, LAMBDA j : s[j] \notin Digits)
IsValue(toks) == toks # <<>> /\ (Last(toks).kind \in {"num", "word", "name", "str"} \/ Last(toks) = Tok("sym", ")"))

RECURSIVE Tokenize(_, _, _)
\* tokenize.  A "?" that is left is a token here; the code drops it.
NoToken(next) == [toks |-> <<>>, next |-> next]
OneToken(kind, r) == [toks |-> <<Tok(kind, r.text)>>, next |-> r.next]
ReadNumber(s, i, end) == [text |-> SubSeq(s, i, end - 1), next |-> end]
NextToken(s, i, c, value) ==
  CASE c \in Blanks -> NoToken(i + 1)
    [] Dashes(s, i) -> NoToken(Past(s, i, LAMBDA j : s[j] = "nl"))
    [] c = "/*" -> NoToken(Past(s, i + 1, LAMBDA j : s[j] = "*/"))
    [] c = "-" /\ ~Dashes(s, i) /\ At(s, i + 1) \in Digits \ {"."} /\ ~value -> OneToken("num", ReadNumber(s, i, NumberEnd(s, i + 1)))
    [] c = "'" -> OneToken("str", ReadString(s, i + 1, <<>>))
    [] c = "bq" -> OneToken("name", ReadQuotedIdent(s, i + 1))
    [] c \in Digits \ {"."} -> OneToken("num", ReadNumber(s, i, NumberEnd(s, i)))
    [] c \in Words -> OneToken("word", [text |-> <<c>>, next |-> i + 1])
    [] OTHER -> OneToken("sym", [text |-> c, next |-> i + 1])
Further(s, toks, t) == Tokenize(s, t.next, toks \o t.toks)
Tokenize(s, i, toks) == IF i > Len(s) THEN toks ELSE Further(s, toks, NextToken(s, i, s[i], IsValue(toks)))
Lex(s) == Tokenize(s, 1, <<>>)

\* The end of a literal or a quoted name, as expand_executable_comments sees it.
RECURSIVE CopiedTo(_, _, _)
CopiedTo(s, j, c) ==
  IF j > Len(s) THEN j - 1
  ELSE IF s[j] = c THEN j
  ELSE CopiedTo(s, j + (IF s[j] = "\\" /\ c # "bq" /\ j < Len(s) THEN 2 ELSE 1), c)

RECURSIVE Expand(_, _)
\* expand_executable_comments: the text of a comment that opens with /*! is run.
Copy(s, i, to) == SubSeq(s, i, to) \o Expand(s, to + 1)
Run(s, i, close) == <<"sp">> \o SubSeq(s, i + 1, close - 1) \o <<"sp">> \o Expand(s, close + 1)
UptoEnd(s, i) == IF i > Len(s) THEN Len(s) ELSE i
CopyTo(s, i) ==
  CASE At(s, i) \in {"'", "bq"} -> UptoEnd(s, CopiedTo(s, i + 1, s[i]))
    [] Dashes(s, i) -> Upto(s, i, LAMBDA j : s[j] = "nl") - 1
    [] At(s, i) = "/*" -> UptoEnd(s, Upto(s, i + 1, LAMBDA j : s[j] = "*/"))
    [] OTHER -> i
Expand(s, i) ==
  CASE i > Len(s) -> <<>>
    [] At(s, i) = "/*!" -> Run(s, i, Upto(s, i + 1, LAMBDA j : s[j] = "*/"))
    [] OTHER -> Copy(s, i, CopyTo(s, i))
HasOpenSemicolon(toks) == \E i \in DOMAIN toks : toks[i] = Tok("sym", ";")

-----------------------------------------------------------------------------
(* Prepared statements.  A value is a text.                                *)

Doubled(v, C) == LET d[n \in 0..Len(v)] == IF n = 0 THEN <<>> ELSE d[n - 1] \o (IF v[n] \in C THEN <<v[n], v[n]>> ELSE <<v[n]>>) IN d[Len(v)]
Quoted(v, C) == <<"'">> \o Doubled(v, C) \o <<"'">>
LooksNumber(v) ==
  /\ \E i \in DOMAIN v : v[i] = "5"
  /\ \A i \in DOMAIN v : v[i] = "5" \/ (v[i] = "-" /\ i = 1) \/ (v[i] = "." /\ i > 1)

\* Mutant: only the quotes of a value are doubled.
BugLiteral(v) == IF v = <<"NULL">> \/ LooksNumber(v) THEN v ELSE Quoted(v, {"'"})

\* EXECUTE ... USING: the literal a variable's value is written as.
Literal(v) == IF v = <<"NULL">> \/ LooksNumber(v) THEN v ELSE Quoted(v, {"'", "\\"})

\* COM_STMT_EXECUTE: a string parameter, as parse_execute_params writes it.  Parameters that the client sends as numbers,
\* dates and times are written without quotes, from binary, and are not modelled.
WireLiteral(v) == IF v = <<"NULL">> THEN v ELSE Quoted(v, {"'"})

RECURSIVE QuoteEnd(_, _, _)
\* The last position of the quoted part that opens with c before i.
QuoteEnd(s, i, c) ==
  IF i > Len(s) THEN Len(s)
  ELSE IF s[i] = "\\" /\ c # "bq" /\ i < Len(s) THEN QuoteEnd(s, i + 2, c)
  ELSE IF s[i] # c THEN QuoteEnd(s, i + 1, c)
  ELSE IF At(s, i + 1) = c THEN QuoteEnd(s, i + 2, c) ELSE i

RECURSIVE Substituted(_, _, _)
\* prepared_statement: [text, used, ok].
Substituted(s, i, values) ==
  LET rest(j, vs) == Substituted(s, j, vs)
      put(t, r) == [r EXCEPT !.text = t \o @]
  IN  IF i > Len(s) THEN [text |-> <<>>, ok |-> values = <<>>]
      ELSE IF s[i] \in {"'", "bq"} THEN LET e == QuoteEnd(s, i + 1, s[i]) IN put(SubSeq(s, i, e), rest(e + 1, values))
      ELSE IF s[i] # "?" THEN put(<<s[i]>>, rest(i + 1, values))
      ELSE IF values = <<>> THEN [text |-> <<>>, ok |-> FALSE]
      ELSE put(Literal(Head(values)), rest(i + 1, Tail(values)))

\* count_placeholders and bind_params: the positions of the "?" outside a string, and the text with their literals.
Placeholders(s) ==
  {i \in DOMAIN s : s[i] = "?" /\ Cardinality({j \in 1..i - 1 : s[j] = "'" /\ At(s, j - 1) # "\\"}) % 2 = 0}
BindParams(s, values) ==
  LET nth(i) == Cardinality({j \in Placeholders(s) : j <= i})
      out[n \in 0..Len(s)] == IF n = 0 THEN <<>>
                              ELSE out[n - 1] \o (IF n \in Placeholders(s) /\ nth(n) <= Len(values) THEN WireLiteral(values[nth(n)]) ELSE <<s[n]>>)
  IN  out[Len(s)]

\* What a statement with values means: its tokens, each "?" the value.
ValueToken(v) == IF v = <<"NULL">> THEN Tok("sym", "NULL") ELSE IF LooksNumber(v) THEN Tok("num", v) ELSE Tok("str", v)
StringToken(v) == IF v = <<"NULL">> THEN Tok("sym", "NULL") ELSE Tok("str", v)
Nth(toks, i) == Cardinality({j \in 1..i : toks[j] = Tok("sym", "?")})
Meant(toks, values, Token(_)) == [i \in DOMAIN toks |-> IF toks[i] = Tok("sym", "?") THEN Token(values[Nth(toks, i)]) ELSE toks[i]]

\* EXECUTE refuses a wrong number of values, and runs the statement with the values it is given.
PreparedIsExact(toks, r, values) ==
  /\ r.ok <=> Nth(toks, Len(toks)) = Len(values)
  /\ r.ok => Lex(r.text) = Meant(toks, values, ValueToken)

\* ... as it does when no "?" touches a word, a number or a minus or follows a value, no comment holds one, and no value is a
\* number with two points.
EndsWith(toks, c) == toks # <<>> /\ Last(toks) = Tok("sym", c)
Apart(s) == \A i \in DOMAIN s : /\ ~Dashes(s, i)
                               /\ (s[i] = "?" /\ EndsWith(Lex(SubSeq(s, 1, i)), "?")) => /\ At(s, i - 1) \in {"", "sp", "="} /\ At(s, i + 1) \in {"", "sp", "="}
                                                                /\ EndsWith(<<Tok("sym", "=")>> \o Lex(SubSeq(s, 1, i - 1)), "=")
OneNumber(v) == LooksNumber(v) => Cardinality({i \in DOMAIN v : v[i] = "."}) <= 1
PreparedAsMeant(s, values) == (Apart(s) /\ \A i \in DOMAIN values : OneNumber(values[i])) => PreparedIsExact(Lex(s), Substituted(s, 1, values), values)

\* The binary protocol: the same for string parameters without a backslash in a statement without one.
BoundAsMeant(s, values) ==
  (/\ Apart(s) /\ Cardinality(Placeholders(s)) = Len(values)
   /\ \A i \in DOMAIN s : s[i] \notin {"\\", "bq"}
   /\ \A i \in DOMAIN values : \A j \in DOMAIN values[i] : values[i][j] # "\\")
  => Lex(BindParams(s, values)) = Meant(Lex(s), values, StringToken)

-----------------------------------------------------------------------------
(* Result tables.                                                          *)

AtAnEnd(v, i) == (\A j \in 1..i : v[j] \in {"sp", "tab"}) \/ (\A j \in i..Len(v) : v[j] \in {"sp", "tab"})
EscapeCell(v) ==
  LET esc(i) == CASE v[i] = "\\" -> <<"\\", "\\">>
                  [] v[i] = "nl" -> <<"\\", "n">>
                  [] v[i] = "|" -> <<"\\", "|">>
                  [] v[i] = "sp" /\ AtAnEnd(v, i) -> <<"\\", "s">>
                  [] v[i] = "tab" /\ AtAnEnd(v, i) -> <<"\\", "t">>
                  [] OTHER -> <<v[i]>>
      out[n \in 0..Len(v)] == IF n = 0 THEN <<>> ELSE out[n - 1] \o esc(n)
  IN  out[Len(v)]

RECURSIVE UnescapeCell(_)
UnescapeCell(c) ==
  LET back == [x \in {"\\", "|", "n", "s", "t"} |-> CASE x = "n" -> "nl" [] x = "s" -> "sp" [] x = "t" -> "tab" [] OTHER -> x]
  IN  IF c = <<>> THEN <<>>
      ELSE IF Head(c) = "\\" /\ At(c, 2) \in DOMAIN back THEN <<back[c[2]]>> \o UnescapeCell(SubSeq(c, 3, Len(c)))
      ELSE <<Head(c)>> \o UnescapeCell(Tail(c))

RECURSIVE FindUnescapedBar(_, _)
FindUnescapedBar(line, i) ==
  IF i > Len(line) THEN 0
  ELSE IF line[i] = "\\" /\ i < Len(line) THEN FindUnescapedBar(line, i + 2)
  ELSE IF line[i] = "|" THEN i ELSE FindUnescapedBar(line, i + 1)

RECURSIVE SplitRow(_)
SplitRow(line) ==
  LET bar == FindUnescapedBar(line, 1)
      piece == IF bar = 0 THEN line ELSE SubSeq(line, 1, bar - 1)
      cell == IF piece = <<>> THEN <<>> ELSE <<UnescapeCell(Trim(piece))>>
  IN  IF bar = 0 THEN cell ELSE cell \o SplitRow(SubSeq(line, bar + 1, Len(line)))

\* make_row: each cell after a space, padded to the width of its column.
MakeRow(cells, width) ==
  LET row[n \in 0..Len(cells)] ==
        IF n = 0 THEN <<>>
        ELSE LET c == EscapeCell(cells[n])
             IN  row[n - 1] \o <<"|", "sp">> \o c \o [i \in 1..(IF width > Len(c) THEN width - Len(c) ELSE 0) |-> "sp"] \o <<"sp">>
  IN  Append(row[Len(cells)], "|")

\* What a row says is what is read back, whatever its cells hold, and it is one line.
CellsAsMeant(cells, width) ==
  LET line == MakeRow(cells, width) IN SplitRow(line) = cells /\ \A i \in DOMAIN line : line[i] # "nl"

-----------------------------------------------------------------------------
(* The line protocol.  A conversation is                                   *)
(* [typed (the client's buffer), buf (the server's), ran, state]; state is *)
(* "open", "bye", "gave up" (the client took an empty answer for the end   *)
(* of the connection) or "waits" (for an answer that does not come).       *)

\* The first line of a text and what follows it.
SplitAt(s) == LET e == Upto(s, 1, LAMBDA j : s[j] = "nl") IN <<SubSeq(s, 1, e - 1), SubSeq(s, e + 1, Len(s))>>

\* The server reads one line, t without the blanks: [buf, ran, answers, open].  An answer is "empty" or "text".
RunAll(v, cut) == [v EXCEPT !.buf = cut.rest, !.ran = @ \o SelectSeq(cut.done, LAMBDA q : q # <<>>),
                            !.answers = @ \o [i \in DOMAIN cut.done |-> IF cut.done[i] = <<>> THEN "empty" ELSE "text"]]
ServerLine(v, line, t) ==
  CASE t = <<"exit">> -> [v EXCEPT !.answers = Append(@, "text"), !.open = FALSE]
    [] t = <<"help">> -> [v EXCEPT !.answers = Append(@, "text")]
    [] t # <<>> /\ Head(t) = "\\" -> [v EXCEPT !.answers = IF t = <<"\\", "status">> THEN Append(@, "text") ELSE @]
    [] OTHER -> RunAll(v, Pieces(v.buf \o line \o <<"nl">>))
RECURSIVE Received(_, _)
ReceivedLine(v, l, last) == IF last THEN ServerLine(v, l[1], Trim(l[1])) ELSE Received(ServerLine(v, l[1], Trim(l[1])), l[2])
Received(v, text) == IF ~v.open THEN v ELSE ReceivedLine(v, SplitAt(text), \A i \in DOMAIN text : text[i] # "nl")

\* The client reads n answers, one after the other; answers it did not ask for are read by the next statement.
Read(c, r, n) ==
  LET seen == SubSeq(r.answers, 1, n)
  IN  CASE \E i \in DOMAIN seen : seen[i] = "empty" -> [c EXCEPT !.state = "gave up"]
        [] (\A i \in DOMAIN seen : seen[i] # "empty") /\ Len(seen) < n -> [c EXCEPT !.state = IF r.open THEN "waits" ELSE "gave up"]
        [] OTHER -> [c EXCEPT !.answers = SubSeq(r.answers, n + 1, Len(r.answers))]

\* The client is given one line of input, t without the blanks.
AskFor(c, n, r) == Read([c EXCEPT !.buf = r.buf, !.ran = r.ran, !.typed = <<>>], r, n)
Ask(c, text, n) == AskFor(c, n, Received([buf |-> c.buf, ran |-> c.ran, answers |-> c.answers, open |-> TRUE], text))
Send(c, typed, n) == IF n = 0 THEN [c EXCEPT !.typed = typed]
                     ELSE Ask(c, IF typed = <<"\\", "status">> THEN typed ELSE Trim(typed), n)
Sending(c, typed) == Send(c, typed, IF typed = <<"\\", "status">> THEN 1 ELSE CountStatementEnds(typed))
Type(c, line, t) ==
  LET fresh == Trim(c.typed) = <<>>
  IN  CASE c.state # "open" \/ t = <<>> -> c
        [] c.state = "open" /\ fresh /\ t = <<"exit">> -> [c EXCEPT !.state = "bye"]
        [] c.state = "open" /\ fresh /\ t = <<"help">> -> c
        [] OTHER -> Sending(c, IF fresh /\ t = <<"\\", "status">> THEN t ELSE c.typed \o line \o <<"nl">>)

RECURSIVE Talk(_, _)
Talk(c, lines) == IF lines = <<>> THEN c ELSE Talk(Type(c, Head(lines), Trim(Head(lines))), Tail(lines))
Fresh == [typed |-> <<>>, buf |-> <<>>, ran |-> <<>>, answers |-> <<>>, state |-> "open"]

\* Every statement the client counts is answered, and what runs is what was typed,
ConversationIsExact(c, typed) == c.state = "open" /\ c.answers = <<>> /\ c.ran = typed

\* ... so long as no line is empty or a command word, no statement is empty, and what is left after the ";" of a line opens nothing.
Commands == {<<"exit">>, <<"help">>, <<"\\", "status">>}
OpensNothing(cut) == cut.done = <<>> \/ \A i \in DOMAIN cut.rest : cut.rest[i] \notin {"'", "bq", "/*", "-", "BEGIN", "CASE"}
TalkAsMeant(lines, typed) ==
  (/\ \A i \in DOMAIN lines : Trim(lines[i]) \notin Commands \cup {<<>>} /\ OpensNothing(Pieces(lines[i]))
   /\ \A i \in DOMAIN typed : typed[i] # <<>>)
  => ConversationIsExact(Talk(Fresh, lines), typed)
ConversationAsMeant(lines) == TalkAsMeant(lines, Pieces(FlattenSeq([i \in DOMAIN lines |-> lines[i] \o <<"nl">>])).done)

\* A piece that is cut out holds one statement for the lexer: the ";" of an executable comment apart, none but those inside a block.
HoldsOne(cut) ==
  /\ \A i \in DOMAIN cut.done : ~HasOpenSemicolon(Lex(Expand(cut.done[i], 1)))
  /\ ~HasOpenSemicolon(Lex(cut.rest))
PiecesAreStatements(s) == (\A i \in DOMAIN s : s[i] \notin {"/*!", "BEGIN"}) => HoldsOne(Pieces(s)) /\ Expand(s, 1) = s

\* A script is cut where its statements were put together.
CutAsWritten(statements) ==
  Pieces(FlattenSeq([i \in DOMAIN statements |-> Append(statements[i], ";")])) = [done |-> statements, rest |-> <<>>]
=============================================================================
