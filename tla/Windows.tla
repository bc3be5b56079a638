------------------------------ MODULE Windows ------------------------------
(***************************************************************************)
(* compute_window_functions: the rows of a partition in the order of the   *)
(* window, who ties with whom, the frame of each row, and the functions    *)
(* over it.                                                                *)
(*                                                                         *)
(* A row is [p, o, v]: the PARTITION BY, ORDER BY and argument values.  A  *)
(* window is                                                               *)
(*   order    "none", "asc" or "desc"                                      *)
(*   frame    NoFrame or [unit, start, end]; a bound is [at, n] with at    *)
(*            "first", "before", "here", "after" or "last"                 *)
(* Positions count from 1; the frame <<from, to>> with from > to is empty. *)
(***************************************************************************)
EXTENDS SqlValues, FiniteSets

NoFrame == [unit |-> "none"]
Empty == <<2, 1>>

OrderSign(w) == IF w.order = "desc" THEN -1 ELSE 1

\* The rows (by their number) of the partition of a value, as the window orders them.
Partition(w, rows, p) ==
  LET own == SelectSeq([i \in DOMAIN rows |-> i], LAMBDA i : rows[i].p = p)
  IN  IF w.order = "none" THEN own
      ELSE StableSort(own, LAMBDA i, j : OrderSign(w) * Cmp(rows[i].o, rows[j].o) < 0)

\* win_order_eq: with no ORDER BY everybody ties with everybody.
WinOrderEq(w, a, b) == w.order = "none" \/ Cmp(a.o, b.o) = 0

\* peer_first, peer_last: the run of ties around a position.
PeerFirst(w, rows, sorted, pos) ==
  CHOOSE i \in 1..pos : /\ \A k \in i..pos : WinOrderEq(w, rows[sorted[i]], rows[sorted[k]])
                        /\ i = 1 \/ ~WinOrderEq(w, rows[sorted[i - 1]], rows[sorted[i]])
PeerLast(w, rows, sorted, pos) ==
  CHOOSE j \in pos..Len(sorted) : /\ \A k \in pos..j : WinOrderEq(w, rows[sorted[pos]], rows[sorted[k]])
                                  /\ j = Len(sorted) \/ ~WinOrderEq(w, rows[sorted[j]], rows[sorted[j + 1]])

\* frame_bounds: the frame counted in rows and cut to the partition.
RowOf(b, pos, len) == CASE b.at = "before" -> pos - b.n
                        [] b.at = "after"  -> pos + b.n
                        [] b.at = "here"   -> pos
                        [] b.at = "first"  -> 1
                        [] b.at = "last"   -> len
FrameBounds(w, pos, len) ==
  IF w.frame = NoFrame THEN <<1, IF w.order = "none" THEN len ELSE pos>>
  ELSE LET start == RowOf(w.frame.start, pos, len)
           end == RowOf(w.frame.end, pos, len)
           from == IF start < 1 THEN 1 ELSE start
           to == IF end > len THEN len ELSE end
       IN  IF from > to THEN Empty ELSE <<from, to>>

\* RangeAxis: the positions of the rows that have a value, on one number line that grows along the order.
Axis(w, rows, sorted) == SelectSeq([i \in DOMAIN sorted |-> i], LAMBDA i : rows[sorted[i]].o # Null)

\* Mutant: a descending order does not turn the line round.
BugPosition(w, rows, sorted, i) == rows[sorted[i]].o[1]

Position(w, rows, sorted, i) == OrderSign(w) * rows[sorted[i]].o[1]

\* lower_bound and upper_bound on the axis, as positions of the partition.
AxisFirst(w, rows, sorted, target) ==
  LET axis == Axis(w, rows, sorted)
  IN  axis[1] + Len(SelectSeq(axis, LAMBDA i : Position(w, rows, sorted, i) < target))
AxisLast(w, rows, sorted, target) ==
  LET axis == Axis(w, rows, sorted)
  IN  axis[1] + Len(SelectSeq(axis, LAMBDA i : Position(w, rows, sorted, i) <= target)) - 1

\* frame_of with RANGE offsets: a bound is where the value of the row, moved by the offset, comes to lie;
\* a row without a value has its peers instead.
RangeBound(w, rows, sorted, pos, b, isStart) ==
  LET target == Position(w, rows, sorted, pos) + (IF b.at = "before" THEN -b.n ELSE b.n)
  IN  CASE b.at = "first" -> 1
        [] b.at = "last"  -> Len(sorted)
        [] b.at = "here" \/ (b.at \in {"before", "after"} /\ rows[sorted[pos]].o = Null) ->
             IF isStart THEN PeerFirst(w, rows, sorted, pos) ELSE PeerLast(w, rows, sorted, pos)
        [] OTHER -> IF isStart THEN AxisFirst(w, rows, sorted, target) ELSE AxisLast(w, rows, sorted, target)

RangeOffsets(w) == w.frame.unit = "range" /\ {w.frame.start.at, w.frame.end.at} \cap {"before", "after"} # {}

FrameOf(w, rows, sorted, pos) ==
  LET start == RangeBound(w, rows, sorted, pos, w.frame.start, TRUE)
      end == RangeBound(w, rows, sorted, pos, w.frame.end, FALSE)
      f == FrameBounds(w, pos, Len(sorted))
  IN  CASE RangeOffsets(w) -> IF start > end \/ start > Len(sorted) \/ end < 1 THEN Empty ELSE <<IF start < 1 THEN 1 ELSE start, end>>
        [] w.frame = NoFrame -> <<f[1], IF w.order = "none" THEN f[2] ELSE PeerLast(w, rows, sorted, pos)>>
        [] w.frame.unit = "range" /\ ~RangeOffsets(w) ->
             <<IF w.frame.start.at = "here" THEN PeerFirst(w, rows, sorted, pos) ELSE f[1],
               IF w.frame.end.at = "here" THEN PeerLast(w, rows, sorted, pos) ELSE f[2]>>
        [] OTHER -> f

----------------------------------------------------------------------------
\* The functions, for the row at a position.
At(rows, sorted, i) == rows[sorted[i]].v
Lag(rows, sorted, pos, off) == IF pos > off THEN At(rows, sorted, pos - off) ELSE Null
Lead(rows, sorted, pos, off) == IF pos + off <= Len(sorted) THEN At(rows, sorted, pos + off) ELSE Null
FirstValue(rows, sorted, f) == IF f[1] > f[2] THEN Null ELSE At(rows, sorted, f[1])
LastValue(rows, sorted, f) == IF f[1] > f[2] THEN Null ELSE At(rows, sorted, f[2])
NthValue(rows, sorted, f, nth) == IF f[1] + nth - 1 <= f[2] THEN At(rows, sorted, f[1] + nth - 1) ELSE Null

FrameValues(rows, sorted, f) ==
  SelectSeq([i \in 1..f[2] - f[1] + 1 |-> At(rows, sorted, f[1] + i - 1)], LAMBDA x : x # Null)
Sum(values) == IF values = <<>> THEN Null ELSE <<FoldLeft(LAMBDA n, x : n + x[1], 0, values)>>
Best(values, smallest) ==
  LET better(best, x) == IF best = Null \/ (IF smallest THEN Cmp(x, best) < 0 ELSE Cmp(x, best) > 0) THEN x ELSE best
  IN  FoldLeft(better, Null, values)

\* RANK is the position of the first peer, DENSE_RANK the number of runs up to it; the rank of
\* PERCENT_RANK and the position of the last peer, for CUME_DIST, with the rows to divide by.
DenseRank(w, rows, sorted, pos) == Cardinality({PeerFirst(w, rows, sorted, i) : i \in 1..pos})
PercentRank(w, rows, sorted, pos) ==
  IF Len(sorted) <= 1 THEN <<0, 1>> ELSE <<PeerFirst(w, rows, sorted, pos) - 1, Len(sorted) - 1>>
CumeDist(w, rows, sorted, pos) == <<PeerLast(w, rows, sorted, pos), Len(sorted)>>
Ntile(sorted, pos, n) == ((pos - 1) * (IF n < Len(sorted) THEN n ELSE Len(sorted))) \div Len(sorted) + 1

\* What the row at a position is given; f is its frame.
WindowValues(w, rows, sorted, pos, f, values) ==
  [row_number |-> pos, rank |-> PeerFirst(w, rows, sorted, pos), dense_rank |-> DenseRank(w, rows, sorted, pos),
   percent_rank |-> PercentRank(w, rows, sorted, pos), cume_dist |-> CumeDist(w, rows, sorted, pos),
   ntile |-> Ntile(sorted, pos, 2), lag |-> Lag(rows, sorted, pos, 1), lead |-> Lead(rows, sorted, pos, 1),
   first |-> FirstValue(rows, sorted, f), last |-> LastValue(rows, sorted, f), second |-> NthValue(rows, sorted, f, 2),
   star |-> f[2] - f[1] + 1, count |-> Len(values), sum |-> Sum(values), min |-> Best(values, TRUE), max |-> Best(values, FALSE)]
InFrame(w, rows, sorted, pos, f) == WindowValues(w, rows, sorted, pos, f, FrameValues(rows, sorted, f))
InPartition(w, rows, sorted, pos) == InFrame(w, rows, sorted, pos, FrameOf(w, rows, sorted, pos))
OfRow(w, rows, r, sorted) == InPartition(w, rows, sorted, CHOOSE i \in DOMAIN sorted : sorted[i] = r)
ComputeWindowFunctions(w, rows, r) == OfRow(w, rows, r, Partition(w, rows, rows[r].p))

----------------------------------------------------------------------------
(***************************************************************************)
(* The same by what the window says, row by row: who is in the partition,  *)
(* who comes before, and whom the frame of a row takes in.                 *)
(***************************************************************************)
Before(w, rows, i, j) == w.order # "none" /\ OrderSign(w) * Cmp(rows[i].o, rows[j].o) < 0
Tie(w, rows, i, j) == ~Before(w, rows, i, j) /\ ~Before(w, rows, j, i)

\* Is row x, m places further in its partition than r, at or after (for a start; for an end at or
\* before) the bound?
Inside(w, rows, r, x, m, b, side) ==
  LET both == rows[r].o # Null /\ rows[x].o # Null
      moved == IF b.at = "before" THEN -b.n ELSE b.n
      gap == OrderSign(w) * (rows[x].o[1] - rows[r].o[1])
      beyond == IF side > 0 THEN ~Before(w, rows, x, r) ELSE ~Before(w, rows, r, x)
  IN  CASE b.at \in {"first", "last"} -> TRUE
        [] w.frame.unit = "rows" -> side * (m - (IF b.at = "here" THEN 0 ELSE moved)) >= 0
        [] w.frame.unit = "range" /\ (b.at = "here" \/ (b.at \in {"before", "after"} /\ ~both)) -> beyond
        [] OTHER -> side * (gap - moved) >= 0

Own(rows, r) == {x \in DOMAIN rows : rows[x].p = rows[r].p}
Place(w, rows, x) == Cardinality({y \in Own(rows, x) : Before(w, rows, y, x) \/ (Tie(w, rows, y, x) /\ y <= x)})
FrameMeant(w, rows, r) ==
  {x \in Own(rows, r) : IF w.frame = NoFrame THEN ~Before(w, rows, r, x)
                        ELSE LET m == Place(w, rows, x) - Place(w, rows, r)
                             IN  Inside(w, rows, r, x, m, w.frame.start, 1) /\ Inside(w, rows, r, x, m, w.frame.end, -1)}
\* The value of the row of S, of which there is at most one.
ValueAt(rows, S) == IF S = {} THEN Null ELSE rows[CHOOSE x \in S : TRUE].v

RanksAsMeant(rows, S, before, ties, out) ==
  /\ out.rank = 1 + Cardinality(before)
  /\ out.dense_rank = 1 + Cardinality({KeyOf(rows[x].o) : x \in before})
  /\ out.cume_dist[1] = Cardinality(before) + Cardinality(ties)
  /\ out.percent_rank[1] = IF Cardinality(S) = 1 THEN 0 ELSE Cardinality(before)
PlacesAsMeant(rows, place, frame, here, out) ==
  /\ out.row_number = here
  /\ out.lag = ValueAt(rows, {x \in DOMAIN place : place[x] = here - 1})
  /\ out.lead = ValueAt(rows, {x \in DOMAIN place : place[x] = here + 1})
  /\ out.first = ValueAt(rows, {x \in frame : \A y \in frame : place[x] <= place[y]})
  /\ out.last = ValueAt(rows, {x \in frame : \A y \in frame : place[x] >= place[y]})
TotalsAsMeant(rows, frame, vals, out) ==
  /\ out.star = Cardinality(frame)
  /\ out.count = Cardinality(vals)
  /\ out.sum = IF vals = {} THEN Null ELSE <<FoldLeft(LAMBDA n, x : n + rows[x].v[1], 0, SetToSeq(vals))>>
  /\ vals # {} => /\ \E x \in vals : KeyOf(rows[x].v) = KeyOf(out.min)
                  /\ \A x \in vals : Cmp(out.min, rows[x].v) <= 0 /\ Cmp(rows[x].v, out.max) <= 0

\* What compute_window_functions gives row r is what its window means.
RowAsMeant(w, rows, r, S, frame, out) ==
  /\ RanksAsMeant(rows, S, {x \in S : Before(w, rows, x, r)}, {x \in S : Tie(w, rows, x, r)}, out)
  /\ PlacesAsMeant(rows, [x \in S |-> Place(w, rows, x)], frame, Place(w, rows, r), out)
  /\ TotalsAsMeant(rows, frame, {x \in frame : rows[x].v # Null}, out)
WindowAsMeant(w, rows, r) == RowAsMeant(w, rows, r, Own(rows, r), FrameMeant(w, rows, r), ComputeWindowFunctions(w, rows, r))
=============================================================================
