------------------------------ MODULE Numbers ------------------------------
(***************************************************************************)
(* Exact arithmetic on the numbers and dates of expressions.  A decimal    *)
(* is [u |-> units, s |-> scale], u / 10^s.  The code's strings of digits  *)
(* are integers of any length; its 64-bit integers are those from -MaxInt  *)
(* - 1 to MaxInt.  The width of an integer and the digits kept of a        *)
(* quotient (9, of which 4 more than the dividend's are shown) are small   *)
(* here, in the proportion that matters: what is kept is a whole group,    *)
(* and more than what is shown.                                            *)
(***************************************************************************)
EXTENDS Integers, Sequences, SequencesExt

MaxInt == 9999
MaxDigits == 3
Shown == 1
Group == 2

MinInt == -MaxInt - 1
Fits(n) == MinInt <= n /\ n <= MaxInt
Magnitude(n) == IF n < 0 THEN -n ELSE n
SignOf(n) == IF n < 0 THEN -1 ELSE 1
\* Integer division as the processor does it, toward zero, and its remainder.
Quot(a, b) == SignOf(a) * SignOf(b) * (Magnitude(a) \div Magnitude(b))
Rem(a, b) == a - b * Quot(a, b)
Pow10 == [n \in 0..9 |-> <<1, 10, 100, 1000, 10000, 100000, 1000000, 10000000, 100000000, 1000000000>>[n + 1]]
None == <<>>

\* + - * of two 64-bit integers, none when it overflows: told before it is done, without a wider integer.
int64_arith(op, a, b) ==
  CASE op = "+" -> IF (b > 0 /\ a > MaxInt - b) \/ (b < 0 /\ a < MinInt - b) THEN None ELSE <<a + b>>
    [] op = "-" -> IF (b < 0 /\ a > MaxInt + b) \/ (b > 0 /\ a < MinInt + b) THEN None ELSE <<a - b>>
    [] op = "*" -> IF a = 0 \/ b = 0 THEN <<0>>
                   ELSE IF (a = -1 /\ b = MinInt) \/ (b = -1 /\ a = MinInt) THEN None
                   ELSE IF (IF a > 0 THEN (IF b > 0 THEN a > Quot(MaxInt, b) ELSE b < Quot(MinInt, a))
                                     ELSE (IF b > 0 THEN a < Quot(MinInt, b) ELSE a < Quot(MaxInt, b))) THEN None
                   ELSE <<a * b>>

----------------------------------------------------------------------------
(* DECIMAL: sums, products and quotients that keep their digits.           *)

align_scale(n, scale) == [u |-> n.u * Pow10[scale - n.s], s |-> scale]
num_add(a, b, subtract) ==
  LET scale == IF a.s > b.s THEN a.s ELSE b.s
      x == align_scale(a, scale)
      y == align_scale(b, scale)
  IN  [u |-> IF subtract THEN x.u - y.u ELSE x.u + y.u, s |-> scale]
num_mul(a, b) == [u |-> a.u * b.u, s |-> a.s + b.s]

\* Half away from zero, by the first digit that is dropped; or cut off.
num_round(n, scale, cut) ==
  LET drop == n.s - scale
      kept == Magnitude(n.u) \div Pow10[drop]
      next == (Magnitude(n.u) \div Pow10[drop - 1]) % 10
  IN  IF drop <= 0 THEN align_scale(n, scale)
      ELSE [u |-> SignOf(n.u) * (kept + (IF ~cut /\ next >= 5 THEN 1 ELSE 0)), s |-> scale]

num_div(a, b, scale, cut) ==
  LET shift == scale + 1 + b.s - a.s
      num == Magnitude(a.u) * (IF shift >= 0 THEN Pow10[shift] ELSE 1)
      den == Magnitude(b.u) * (IF shift < 0 THEN Pow10[-shift] ELSE 1)
  IN  num_round([u |-> SignOf(a.u) * SignOf(b.u) * (num \div den), s |-> scale + 1], scale, cut)

\* The quotient of two integers digit by digit, as long division makes it.
int_quotient(a, b) ==
  LET digit(x, k) == [f |-> x.f * 10 + (x.rest * 10) \div Magnitude(b), rest |-> (x.rest * 10) % Magnitude(b)]
      done == FoldLeft(digit, [f |-> 0, rest |-> Magnitude(a) % Magnitude(b)], [k \in 1..Group |-> k])
  IN  [u |-> SignOf(a) * SignOf(b) * ((Magnitude(a) \div Magnitude(b)) * Pow10[Group] + done.f), s |-> Group]

\* a op b of two operands [num, shown scale, is it an integer]; Null for x / 0; none when an integer overflows.
combine(op, l, r) ==
  LET shown == CASE op \in {"+", "-"} -> (IF l.scale > r.scale THEN l.scale ELSE r.scale)
                 [] op = "*" -> l.scale + r.scale
                 [] op = "/" -> l.scale + Shown
      internal == ((l.scale + Shown + Group - 1) \div Group) * Group
      ints == l.int /\ r.int
  IN  CASE op = "/" /\ r.num.u = 0 -> "null"
        [] op = "/" /\ r.num.u # 0 ->
             [num |-> IF ints THEN int_quotient(l.num.u, r.num.u) ELSE num_div(l.num, r.num, internal, TRUE), scale |-> shown, int |-> FALSE]
        [] op # "/" /\ ints -> LET n == int64_arith(op, l.num.u, r.num.u)
                               IN  IF n = None THEN None ELSE [num |-> [u |-> n[1], s |-> 0], scale |-> 0, int |-> TRUE]
        [] op \in {"+", "-"} /\ ~ints -> [num |-> num_add(l.num, r.num, op = "-"), scale |-> shown, int |-> FALSE]
        [] op = "*" /\ ~ints -> [num |-> num_mul(l.num, r.num), scale |-> shown, int |-> FALSE]

\* What a result column shows of it.
arithmetic_text(v) == num_round(v.num, v.scale, FALSE)

\* ROUND and TRUNCATE of a decimal, to a place after the point or (negative) before it.
rounded(d, places, cut) ==
  LET whole == Magnitude(d.u) \div Pow10[d.s]
      drop == -places
      size == CHOOSE k \in 1..9 : whole < Pow10[k] /\ (k = 1 \/ whole >= Pow10[k - 1])
      up == ~cut /\ (whole \div Pow10[drop - 1]) % 10 >= 5
  IN  CASE places >= 0 /\ d.s <= places -> d
        [] places >= 0 /\ d.s > places -> num_round(d, places, cut)
        [] places < 0 /\ drop > size -> [u |-> 0, s |-> 0]
        [] places < 0 /\ drop <= size -> [u |-> SignOf(d.u) * (whole \div Pow10[drop] + (IF up THEN 1 ELSE 0)) * Pow10[drop], s |-> 0]

----------------------------------------------------------------------------
(* SUM and AVG: units of 10^-scale in one 64-bit integer, as long as it    *)
(* holds them.                                                             *)

EmptySum == [units |-> 0, scale |-> 0, max_places |-> 0, exact |-> TRUE]
Inexact(sum) == [sum EXCEPT !.exact = FALSE]

RECURSIVE Trimmed(_)
Trimmed(d) == IF d.s > 0 /\ Rem(d.u, 10) = 0 THEN Trimmed([u |-> Quot(d.u, 10), s |-> d.s - 1]) ELSE d

\* A value of more digits than an integer is sure to hold, and a sum that does not fit, end the exact sum.
Add(sum, d) ==
  LET t == Trimmed(d)
      scale == IF t.s > sum.scale THEN t.s ELSE sum.scale
      mine == int64_arith("*", t.u, Pow10[scale - t.s])
      all == int64_arith("*", sum.units, Pow10[scale - sum.scale])
      total == int64_arith("+", all[1], mine[1])
      counted == [sum EXCEPT !.max_places = IF d.s > @ THEN d.s ELSE @]
  IN  IF ~sum.exact THEN sum
      ELSE IF Magnitude(d.u) >= Pow10[MaxDigits] THEN Inexact(sum)
      ELSE IF all = None \/ mine = None THEN Inexact(counted)
      ELSE IF total = None THEN Inexact([counted EXCEPT !.units = all[1], !.scale = scale])
      ELSE [counted EXCEPT !.units = total[1], !.scale = scale]
SumOf(values) == FoldLeft(Add, EmptySum, values)

\* The sum with every place the values were written with.
text_with_places(sum) == IF sum.max_places > sum.scale THEN [u |-> sum.units * Pow10[sum.max_places - sum.scale], s |-> sum.max_places] ELSE [u |-> sum.units, s |-> sum.scale]

average_text(sum, divisor, places) ==
  LET up == IF sum.scale <= places THEN int64_arith("*", sum.units, Pow10[places - sum.scale]) ELSE <<sum.units>>
      down == IF sum.scale <= places THEN <<divisor>> ELSE int64_arith("*", divisor, Pow10[sum.scale - places])
      q == Quot(up[1], down[1])
      rest == Magnitude(Rem(up[1], down[1]))
  IN  IF None \in {up, down} THEN None
      ELSE <<[u |-> q + (IF rest >= down[1] - rest THEN SignOf(up[1]) ELSE 0), s |-> places]>>

----------------------------------------------------------------------------
(* The calendar, and intervals added to a time.                            *)

is_leap(y) == (y % 4 = 0 /\ y % 100 # 0) \/ y % 400 = 0
days_in_month(y, m) == IF m = 2 /\ is_leap(y) THEN 29 ELSE <<31, 28, 31, 30, 31, 30, 31, 31, 30, 31, 30, 31>>[m]

days_from_civil(t) ==
  LET y == t.y - (IF t.m <= 2 THEN 1 ELSE 0)
      era == Quot(IF y >= 0 THEN y ELSE y - 399, 400)
      yoe == y - era * 400
      doy == Quot(153 * (t.m + (IF t.m > 2 THEN -3 ELSE 9)) + 2, 5) + t.d - 1
      doe == yoe * 365 + yoe \div 4 - yoe \div 100 + doy
  IN  era * 146097 + doe - 719468

YearOfEra(doe) == (doe - doe \div 1460 + doe \div 36524 - doe \div 146096) \div 365
DayOfYear(doe, yoe) == doe - (365 * yoe + yoe \div 4 - yoe \div 100)
InYear(y, doy, mp) == [y |-> y + (IF mp < 10 THEN 0 ELSE 1), m |-> IF mp < 10 THEN mp + 3 ELSE mp - 9, d |-> doy - (153 * mp + 2) \div 5 + 1]
FromMarch(y, doy) == InYear(y, doy, (5 * doy + 2) \div 153)
InEra(era, doe, yoe) == FromMarch(yoe + era * 400, DayOfYear(doe, yoe))
OfEra(era, doe) == InEra(era, doe, YearOfEra(doe))
EraOf(z) == Quot(IF z >= 0 THEN z ELSE z - 146096, 146097)
civil_from_days(days) == LET z == days + 719468 IN OfEra(EraOf(z), z - EraOf(z) * 146097)

\* A time is its date, the seconds of its day and its microseconds (of which a second has Micros).
Micros == 10
epoch_seconds(t) == days_from_civil(t.date) * 86400 + t.sec
OnDay(s, micro, days) == [date |-> civil_from_days(days), sec |-> s - days * 86400, micro |-> micro]
from_epoch_seconds(s, micro) == OnDay(s, micro, IF s >= 0 THEN s \div 86400 ELSE -((-s + 86399) \div 86400))

\* add_interval: months keep the day where the month has it; the rest moves the clock, microseconds with a carry.
Months(unit) == IF unit = "year" THEN 12 ELSE IF unit = "quarter" THEN 3 ELSE 1
Seconds(unit, amount) ==
  CASE unit = "day" -> amount * 86400
    [] unit = "hour" -> amount * 3600
    [] unit = "second" -> amount
    [] unit = "microsecond" -> Quot(amount, Micros)
InMonth(t, y, m) == [t EXCEPT !.date = [y |-> y, m |-> m, d |-> IF @.d < days_in_month(y, m) THEN @.d ELSE days_in_month(y, m)]]
ToMonth(t, total) == IF total < 0 \/ total \div 12 > 9999 THEN None ELSE InMonth(t, total \div 12, (total % 12) + 1)
InCalendar(t) == IF t.date.y < 0 \/ t.date.y > 9999 THEN None ELSE t
Moved(t, seconds, micros) ==
  InCalendar(from_epoch_seconds(epoch_seconds(t) + seconds + (IF micros >= Micros THEN 1 ELSE IF micros < 0 THEN -1 ELSE 0),
                                ((micros % Micros) + Micros) % Micros))
add_interval(t, unit, amount) ==
  IF unit \in {"month", "quarter", "year"} THEN ToMonth(t, t.date.y * 12 + (t.date.m - 1) + Months(unit) * amount)
  ELSE Moved(t, Seconds(unit, amount), t.micro + (IF unit = "microsecond" THEN Rem(amount, Micros) ELSE 0))

----------------------------------------------------------------------------
(* What they mean.                                                         *)

\* p / q to the nearest integer, a half away from zero.
Nearest(p, q) == SignOf(p) * SignOf(q) * ((2 * Magnitude(p) + Magnitude(q)) \div (2 * Magnitude(q)))
SameNumber(a, b) == a.u * Pow10[b.s] = b.u * Pow10[a.s]

IntegersAsMeant(op, a, b) ==
  LET exact == CASE op = "+" -> a + b [] op = "-" -> a - b [] op = "*" -> a * b
  IN  int64_arith(op, a, b) = (IF Fits(exact) THEN <<exact>> ELSE None)

\* A quotient is shown as the nearest one, or cut off there when the group of digits that is kept ends with the last that is shown;
\* long division and the division of decimals make the same one; a quotient times its divisor is shown as the dividend.
QuotientAsMeant(a, b) ==
  LET operand(d) == [num |-> d, scale |-> d.s, int |-> d.s = 0]
      q == combine("/", operand(a), operand(b))
      shown == arithmetic_text(q)
      back == combine("*", q, operand(b))
  IN  IF b.u = 0 THEN q = "null"
      ELSE /\ shown.s = a.s + Shown
           /\ shown.u = IF shown.s % Group = 0 THEN Quot(a.u * Pow10[Shown + b.s], b.u) ELSE Nearest(a.u * Pow10[Shown + b.s], b.u)
           /\ a.s = 0 /\ b.s = 0 => int_quotient(a.u, b.u) = num_div(a, b, Group, TRUE)
           /\ a.s = 0 /\ Magnitude(b.u) < 5 => SameNumber(num_round(back.num, a.s + Shown, FALSE), a)

RoundedAsMeant(d, places) ==
  LET exact == IF places >= d.s THEN d
               ELSE IF places >= 0 THEN [u |-> Nearest(d.u, Pow10[d.s - places]), s |-> places]
               ELSE [u |-> Nearest(d.u, Pow10[d.s - places]) * Pow10[-places], s |-> 0]
  IN  SameNumber(rounded(d, places, FALSE), exact)

\* A sum is the sum of its values in whatever order they come, an average the nearest; they are given up only when an integer does
\* not hold the values written out to the places of all of them.
SumAsMeant(values) ==
  LET sum == SumOf(values)
      top == FoldLeft(LAMBDA n, d : IF d.s > n THEN d.s ELSE n, 0, values)
      units == FoldLeft(LAMBDA n, d : n + d.u * Pow10[top - d.s], 0, values)
      span == FoldLeft(LAMBDA n, d : n + Magnitude(d.u) * Pow10[top - d.s], 0, values)
      avg == average_text(sum, Len(values), top + Shown)
  IN  /\ sum.exact => SameNumber(text_with_places(sum), [u |-> units, s |-> top]) /\ text_with_places(sum).s = top
      /\ sum.exact /\ values # <<>> => avg = None \/ avg[1].u = Nearest(units * Pow10[Shown], Len(values))
      /\ span <= MaxInt /\ (\A i \in DOMAIN values : Magnitude(values[i].u) < Pow10[MaxDigits]) => sum.exact

NextDay(t) == IF t.d < days_in_month(t.y, t.m) THEN [t EXCEPT !.d = @ + 1]
              ELSE IF t.m < 12 THEN [y |-> t.y, m |-> t.m + 1, d |-> 1] ELSE [y |-> t.y + 1, m |-> 1, d |-> 1]
CalendarAsMeant(z) ==
  /\ days_from_civil(civil_from_days(z)) = z
  /\ civil_from_days(z + 1) = NextDay(civil_from_days(z))

\* Microseconds since 1970, of a time not too far from it.
Count(t) == epoch_seconds(t) * Micros + t.micro
Each(unit) == CASE unit = "hour" -> 3600 * Micros [] unit = "day" -> 86400 * Micros [] unit = "second" -> Micros [] unit = "microsecond" -> 1
ThereAndBack(t, unit, n, r, back) ==
  /\ r.date.d \in 1..days_in_month(r.date.y, r.date.m) /\ r.sec \in 0..86399 /\ r.micro \in 0..(Micros - 1)
  /\ unit \in {"month", "quarter", "year"} => /\ t.date.d <= 28 => back = t
                                              /\ back.date.d <= t.date.d /\ [back EXCEPT !.date.d = t.date.d] = t
  /\ unit \notin {"month", "quarter", "year"} => Count(r) = Count(t) + n * Each(unit)
Added(t, unit, n, r) == ThereAndBack(t, unit, n, r, add_interval(r, unit, -n))
IntervalAsMeant(t, unit, n) == Added(t, unit, n, add_interval(t, unit, n))
=============================================================================
