---------------------------- MODULE TablesProofs ----------------------------
(***************************************************************************)
(* Two parts that keep the tables right, for any number of sessions, any   *)
(* statements and any rows.                                                *)
(*                                                                         *)
(* The keys (Integrity).  The claims of two sessions never meet but to     *)
(* share, and a transaction has claimed what it has written or ended; so   *)
(* of two versions of a key, one is ended by the transaction that wrote    *)
(* the other.  That is the unique key whichever transactions commit.  For  *)
(* the foreign key the same is said of every set of transactions: while no *)
(* race has happened, a child that is there when they commit has a parent  *)
(* that is there when they commit, or a cascade is at it.                  *)
(*                                                                         *)
(* The cache of UNIQUE values and the cached order of a scan (UniqueProbe) *)
(* never show rows that are no longer there.  The argument is about stamps *)
(* only: the sum of the lock counts never falls while the table is the     *)
(* same, every section that changes a row raises it, and a cache is        *)
(* believed only when its stamp is the sum of before the section that      *)
(* asks.                                                                   *)
(***************************************************************************)
EXTENDS Integrity, FiniteSetTheorems, TLAPS

(***************************************************************************)
(* The keys: the inductive invariant                                       *)
(***************************************************************************)
(* A session is at a label, or will be when its claim is granted.          *)
At(s, l) == pc[s] = l \/ (pc[s] = "wait" /\ want[s].at = l)

(* A version is a record of its table, key, reference and transactions.    *)
Formed(v) ==
    /\ v = [tab |-> v.tab, key |-> v.key, ref |-> v.ref, xmin |-> v.xmin, xmax |-> v.xmax]
    /\ v.xmin \in Sessions \cup {Zero} /\ v.xmax \in Sessions \cup {Zero}

(* The types, as far as the argument needs them.                           *)
Shape ==
    /\ IsFiniteSet(rows) /\ \A v \in rows : Formed(v)
    /\ open \in [Sessions -> BOOLEAN]
    /\ DOMAIN held = Sessions /\ DOMAIN want = Sessions /\ DOMAIN pc = Sessions
    /\ DOMAIN stmt = Sessions /\ DOMAIN doomed = Sessions
    /\ \A s \in Sessions : IsFiniteSet(doomed[s])

(* Claims of two sessions on one thing are shared.                         *)
ClaimsApart ==
    \A r, s \in Sessions : \A g \in held[r], h \in held[s] : r # s /\ g[1] = h[1] => g[2] = "S" /\ h[2] = "S"

(* What an open transaction has written or ended it has claimed.           *)
UndecidedIsClaimed ==
    \A v \in rows, s \in Sessions : v.xmin = s \/ v.xmax = s => open[s] /\ RowClaim(v) \in held[s]

(* What a session is about to do, and with which statement.                *)
PlacedOf(s) ==
    /\ \A l \in {"updP", "updC", "delP", "delC"} : At(s, l) => stmt[s].op = l
    /\ At(s, "erase") => stmt[s].op = "delP"
    /\ ~(pc[s] = "wait" /\ want[s].at = "push")

Placed == \A s \in Sessions : PlacedOf(s)

(* An INSERT past the check of its key has claimed it, and nobody has it.  *)
InsertReadyOf(s) ==
    At(s, "push") \/ At(s, "valued") => RowClaim(New(s)) \in held[s] /\ ~Duplicate(s)

InsertReady == \A s \in Sessions : InsertReadyOf(s)

(* Whether a version is there when the transactions of C have committed    *)
(* and the other ones have been rolled back.                               *)
There(v, C) == (v.xmin = Zero \/ v.xmin \in C) /\ (v.xmax = Zero \/ v.xmax \notin C)

(* Two versions of a key are never there together: the transaction that    *)
(* wrote one has ended the other, or one is ended by who wrote it.         *)
Never(v) == v.xmin # Zero /\ v.xmin = v.xmax
Follows(v, w) == v.xmin # Zero /\ v.xmin = w.xmax
VersionsApart ==
    \A v, w \in rows : v.tab = w.tab /\ v.key = w.key /\ v # w => Never(v) \/ Never(w) \/ Follows(v, w) \/ Follows(w, v)

KeyInv == Shape /\ ClaimsApart /\ UndecidedIsClaimed /\ Placed /\ InsertReady /\ VersionsApart

(* A version of the parent of key k; a version of a child that refers.     *)
Parent(p, k) == p.tab = "p" /\ p.key = k
Child(v) == v.tab = "c" /\ v.ref # Null

(* While there has been no race: an INSERT that is about to push its row   *)
(* holds the value it refers to shared, and finds the parent there.        *)
PushReady(s) ==
    pc[s] = "push" /\ stmt[s].ref # Null =>
        /\ ValueClaim(stmt[s].ref, "S") \in held[s]
        /\ \E p \in rows : Parent(p, stmt[s].ref) /\ p.xmax = Zero /\ p.xmin \in {Zero, s}

(* A DELETE about to end parents holds their values exclusively, and has   *)
(* ended every child that refers to them.                                  *)
EraseReady(s) ==
    At(s, "erase") =>
        /\ \A k \in doomed[s] : ValueClaim(k, "X") \in held[s]
        /\ \A v \in rows : Child(v) /\ v.ref \in doomed[s] => v.xmax = s

(* An UPDATE in the middle of its cascade has claimed the new key and      *)
(* written the parent that has it.                                         *)
FollowReady(s) ==
    MidCascade(s) =>
        /\ <<<<"p", stmt[s].to>>, "X">> \in held[s]
        /\ \E p \in rows : Parent(p, stmt[s].to) /\ p.xmax = Zero /\ p.xmin = Id(s)

Ready(s) == PushReady(s) /\ EraseReady(s) /\ FollowReady(s)

(* A cascade is at the children of k, and its transaction commits with C.  *)
Excused(k, C) == \E s \in Sessions : MidCascade(s) /\ k \in doomed[s] /\ (open[s] => s \in C)
(* Whichever transactions commit, a child that is there then has a parent  *)
(* that is there then, or a cascade is at it.                              *)
Sheltered ==
    \A v \in rows, C \in SUBSET Sessions :
        Child(v) /\ There(v, C) => Excused(v.ref, C) \/ \E p \in rows : Parent(p, v.ref) /\ There(p, C)

ParentInv == race = {} => (\A s \in Sessions : Ready(s)) /\ Sheltered

(***************************************************************************)
(* Lists of claims                                                         *)
(***************************************************************************)
(* The elements of a finite set in a list: each is there.                  *)
LEMMA ListOfSet ==
    ASSUME NEW S, IsFiniteSet(S)
    PROVE  SetToSeq(S) \in Seq(S) /\ ToSet(SetToSeq(S)) = S
  <1> DEFINE n == Cardinality(S)
             f == SetToSeq(S)
  <1>1. n \in Nat /\ ExistsBijection(1..n, S)
    BY FS_CardinalityType
  <1>2. PICK b \in [1..n -> S] : IsInjective(b)
    BY <1>1 DEF ExistsBijection, Bijection, Injection
  <1>3. f \in [1..n -> S] /\ IsInjective(f)
    BY <1>2 DEF SetToSeq
  <1>4. f \in Injection(1..n, S)
    BY <1>3 DEF Injection
  <1>5. IsFiniteSet(1..n) /\ Cardinality(1..n) = n
    BY <1>1, FS_Interval
  <1>6. f \in Surjection(1..n, S)
    BY <1>4, <1>5, FS_Injection
  <1>7. \A t \in S : \E i \in 1..n : f[i] = t
    BY <1>6 DEF Surjection
  <1>8. f \in Seq(S)
    BY <1>1, <1>3
  <1>9. DOMAIN f = 1..n
    BY <1>3
  <1> HIDE DEF f
  <1>10. ToSet(f) = S
    BY <1>3, <1>7, <1>9 DEF ToSet
  <1> QED
    BY <1>8, <1>10 DEF f

(* What a function makes of a finite set is finite.                        *)
LEMMA ImageIsFinite ==
    ASSUME NEW S, IsFiniteSet(S), NEW f, DOMAIN f = S, f = [x \in S |-> f[x]]
    PROVE  IsFiniteSet({f[x] : x \in S})
  <1> DEFINE T == {f[x] : x \in S}
  <1>1. f \in [S -> T]
    OBVIOUS
  <1>2. f \in Surjection(S, T)
    BY <1>1 DEF Surjection
  <1> QED
    BY <1>2, FS_Surjection

(* One list after another lists what both list.                            *)
LEMMA Concatenated ==
    ASSUME NEW S, NEW a \in Seq(S), NEW b \in Seq(S)
    PROVE  a \o b \in Seq(S) /\ ToSet(a \o b) = ToSet(a) \cup ToSet(b)
  <1>1. a \in Seq(S) /\ b \in Seq(S)
    OBVIOUS
  <1>2. a \o b \in Seq(S) /\ Len(a \o b) = Len(a) + Len(b)
    BY <1>1
  <1>3. DOMAIN a = 1..Len(a) /\ DOMAIN b = 1..Len(b) /\ DOMAIN (a \o b) = 1..(Len(a) + Len(b))
    BY <1>1, <1>2
  <1>4. \A i \in 1..(Len(a) + Len(b)) : (a \o b)[i] = IF i <= Len(a) THEN a[i] ELSE b[i - Len(a)]
    BY <1>1
  <1>5. Len(a) \in Nat /\ Len(b) \in Nat
    BY <1>1
  <1>6. ToSet(a \o b) \subseteq ToSet(a) \cup ToSet(b)
    <2> SUFFICES ASSUME NEW i \in 1..(Len(a) + Len(b))
                 PROVE  (a \o b)[i] \in ToSet(a) \cup ToSet(b)
      BY <1>3 DEF ToSet
    <2>1. CASE i <= Len(a)
      BY <1>3, <1>4, <1>5, <2>1 DEF ToSet
    <2>2. CASE ~(i <= Len(a))
      <3>1. i - Len(a) \in 1..Len(b)
        BY <1>5, <2>2
      <3> QED
        BY <1>3, <1>4, <2>2, <3>1 DEF ToSet
    <2> QED
      BY <2>1, <2>2
  <1>7. ToSet(a) \subseteq ToSet(a \o b)
    <2> SUFFICES ASSUME NEW i \in 1..Len(a)
                 PROVE  a[i] \in ToSet(a \o b)
      BY <1>3 DEF ToSet
    <2>1. i \in 1..(Len(a) + Len(b)) /\ (a \o b)[i] = a[i]
      BY <1>4, <1>5
    <2> QED
      BY <1>3, <2>1 DEF ToSet
  <1>8. ToSet(b) \subseteq ToSet(a \o b)
    <2> SUFFICES ASSUME NEW i \in 1..Len(b)
                 PROVE  b[i] \in ToSet(a \o b)
      BY <1>3 DEF ToSet
    <2>1. i + Len(a) \in 1..(Len(a) + Len(b)) /\ ~(i + Len(a) <= Len(a)) /\ (i + Len(a)) - Len(a) = i
      BY <1>5
    <2>2. (a \o b)[i + Len(a)] = b[i]
      BY <1>4, <2>1
    <2> QED
      BY <1>3, <2>1, <2>2 DEF ToSet
  <1> QED
    BY <1>2, <1>6, <1>7, <1>8

(* A list of the elements of S.                                            *)
Lists(c, S) == (\E T : c \in Seq(T)) /\ ToSet(c) = S

(* The same of lists of two sets.                                          *)
LEMMA ListsJoin ==
    ASSUME NEW a, NEW b, NEW S, NEW T, Lists(a, S), Lists(b, T)
    PROVE  Lists(a \o b, S \cup T)
  <1>1. PICK A : a \in Seq(A)
    BY DEF Lists
  <1>2. PICK B : b \in Seq(B)
    BY DEF Lists
  <1> DEFINE C == A \cup B
  <1>3. a \in Seq(C) /\ b \in Seq(C)
    BY <1>1, <1>2
  <1> HIDE DEF C
  <1>4. a \o b \in Seq(C) /\ ToSet(a \o b) = ToSet(a) \cup ToSet(b)
    BY <1>3, Concatenated
  <1>5. ToSet(a) = S /\ ToSet(b) = T
    BY DEF Lists
  <1> QED
    BY <1>4, <1>5 DEF Lists

(* The first element of a list.                                            *)
LEMMA FirstListed ==
    ASSUME NEW S, NEW a \in Seq(S), NEW b \in Seq(S)
    PROVE  Len(a) > 0 => 1 \in DOMAIN (a \o b) /\ (a \o b)[1] = a[1]
  <1>1. DOMAIN (a \o b) = 1..(Len(a) + Len(b)) /\ Len(a) \in Nat /\ Len(b) \in Nat
    OBVIOUS
  <1>2. \A i \in 1..(Len(a) + Len(b)) : (a \o b)[i] = IF i <= Len(a) THEN a[i] ELSE b[i - Len(a)]
    OBVIOUS
  <1> QED
    BY <1>1, <1>2

(* A list of one element.                                                  *)
LEMMA OneListed ==
    ASSUME NEW a
    PROVE  <<a>> \in Seq({a}) /\ Len(<<a>>) = 1 /\ <<a>>[1] = a /\ DOMAIN <<a>> = 1..1 /\ ToSet(<<a>>) = {a}
  BY DEF ToSet

(* A list of two.                                                          *)
LEMMA PairListed ==
    ASSUME NEW a, NEW b
    PROVE  <<a, b>> \in Seq({a, b}) /\ ToSet(<<a, b>>) = {a, b}
  <1>1. DOMAIN <<a, b>> = 1..2 /\ <<a, b>>[1] = a /\ <<a, b>>[2] = b
    OBVIOUS
  <1>2. ToSet(<<a, b>>) = {a, b}
    BY <1>1 DEF ToSet
  <1> QED
    BY <1>2

(* A claim that is granted is free, and those that are granted are held.   *)
LEMMA ClaimsGranted ==
    ASSUME NEW s, NEW T, NEW cs \in Seq(T)
    PROVE  /\ \A i \in Reached(s, cs) : i \in DOMAIN cs /\ Free(s, cs[i])
           /\ Granted(s, cs) => \A c \in ToSet(cs) : Free(s, c)
           /\ Granted(s, cs) => {cs[i] : i \in Reached(s, cs)} = ToSet(cs)
  <1>1. \A i \in Reached(s, cs) : i \in DOMAIN cs /\ Free(s, cs[i])
    BY DEF Reached
  <1> QED
    BY <1>1 DEF Granted, ToSet

(***************************************************************************)
(* A step of one session                                                   *)
(***************************************************************************)
(* Session s takes a step: what the others are doing stays.                *)
Turn(s) ==
    /\ open' = open
    /\ DOMAIN held' = Sessions /\ DOMAIN want' = Sessions /\ DOMAIN pc' = Sessions
    /\ DOMAIN stmt' = Sessions /\ DOMAIN doomed' = Sessions
    /\ IsFiniteSet(doomed'[s])
    /\ \A r \in Sessions \ {s} :
         held'[r] = held[r] /\ want'[r] = want[r] /\ pc'[r] = pc[r] /\ stmt'[r] = stmt[r] /\ doomed'[r] = doomed[r]

(* It takes only claims that are free, and lets them go only when it has   *)
(* no transaction open.                                                    *)
Takes(s) ==
    /\ \A h \in held'[s] : h \in held[s] \/ Free(s, h)
    /\ open[s] => held[s] \subseteq held'[s]

(* It ends live versions and writes new ones whose keys are free: nothing  *)
(* live is left there.  A transaction has claimed what it has touched.     *)
Writes(s, V, W) ==
    /\ Write(s, V, W)
    /\ V \subseteq rows /\ \A v \in V : v.xmax = Zero
    /\ IsFiniteSet(W)
    /\ \A w \in W : w = Row(w.tab, w.key, w.ref, Id(s)) /\ Free(s, RowClaim(w))
    /\ \A w \in W, v \in rows \ V : v.tab = w.tab /\ v.key = w.key => v.xmax # Zero
    /\ \A w, x \in W : w.tab = x.tab /\ w.key = x.key => w = x
    /\ open[s] => \A v \in V \cup W : RowClaim(v) \in held'[s]

(* What is free to be claimed exclusively nobody else holds in any mode.   *)
LEMMA FreeIsAlone ==
    ASSUME NEW s \in Sessions, NEW a, Free(s, <<a, "X">>)
    PROVE  \A r \in Sessions \ {s} : \A h \in held[r] : h[1] # a
  <1>1. <<a, "X">>[1] = a /\ <<a, "X">>[2] = "X" /\ "X" # "S"
    OBVIOUS
  <1> QED
    BY <1>1 DEF Free

(* What is held exclusively is free, and what is held shared is free to    *)
(* be shared.                                                              *)
LEMMA HeldIsFree ==
    ASSUME ClaimsApart, NEW s \in Sessions, NEW c \in held[s]
    PROVE  Free(s, c)
  BY DEF ClaimsApart, Free

(* Claims that are taken only when free stay apart.                        *)
LEMMA ClaimsStayApart ==
    ASSUME ClaimsApart, NEW s \in Sessions, Turn(s), Takes(s)
    PROVE  ClaimsApart'
  <1> SUFFICES ASSUME NEW r \in Sessions, NEW t \in Sessions, NEW g \in held'[r], NEW h \in held'[t],
                      r # t, g[1] = h[1]
               PROVE  g[2] = "S" /\ h[2] = "S"
    BY DEF ClaimsApart
  <1>1. CASE r # s /\ t # s
    BY <1>1 DEF ClaimsApart, Turn
  <1>2. CASE r = s
    <2>1. h \in held[t] /\ t \in Sessions \ {s}
      BY <1>2 DEF Turn
    <2>2. g \in held[s] \/ Free(s, g)
      BY <1>2 DEF Takes
    <2> QED
      BY <1>2, <2>1, <2>2 DEF ClaimsApart, Free
  <1>3. CASE t = s
    <2>1. g \in held[r] /\ r \in Sessions \ {s}
      BY <1>3 DEF Turn
    <2>2. h \in held[s] \/ Free(s, h)
      BY <1>3 DEF Takes
    <2> QED
      BY <1>3, <2>1, <2>2 DEF ClaimsApart, Free
  <1> QED
    BY <1>1, <1>2, <1>3

(* A version whose key is free for s is decided, or of s.                  *)
LEMMA FreeIsOwn ==
    ASSUME Shape, UndecidedIsClaimed, NEW s \in Sessions, NEW v \in rows, NEW w,
           w.tab = v.tab, w.key = v.key, Free(s, RowClaim(w))
    PROVE  v.xmin \in {Zero, s} /\ v.xmax \in {Zero, s}
  <1>1. \A r \in Sessions \ {s} : \A h \in held[r] : h[1] # <<w.tab, w.key>>
    BY FreeIsAlone DEF RowClaim
  <1>2. RowClaim(v)[1] = <<w.tab, w.key>>
    BY DEF RowClaim
  <1>3. \A r \in Sessions \ {s} : v.xmin # r /\ v.xmax # r
    BY <1>1, <1>2 DEF UndecidedIsClaimed
  <1> QED
    BY <1>3 DEF Shape, Formed

(* A version that is ended.                                                *)
LEMMA EndedIsFormed ==
    ASSUME NEW v, Formed(v), NEW x \in Sessions \cup {Zero}
    PROVE  LET e == [v EXCEPT !.xmax = x]
           IN  /\ Formed(e) /\ RowClaim(e) = RowClaim(v)
               /\ e.tab = v.tab /\ e.key = v.key /\ e.ref = v.ref /\ e.xmin = v.xmin /\ e.xmax = x
  <1> DEFINE e == [tab |-> v.tab, key |-> v.key, ref |-> v.ref, xmin |-> v.xmin, xmax |-> x]
  <1>1. [v EXCEPT !.xmax = x] = e
    <2>1. v = [tab |-> v.tab, key |-> v.key, ref |-> v.ref, xmin |-> v.xmin, xmax |-> v.xmax]
      BY DEF Formed
    <2> QED
      BY <2>1
  <1>2. e.tab = v.tab /\ e.key = v.key /\ e.ref = v.ref /\ e.xmin = v.xmin /\ e.xmax = x
    OBVIOUS
  <1> HIDE DEF e
  <1>3. e = [tab |-> e.tab, key |-> e.key, ref |-> e.ref, xmin |-> e.xmin, xmax |-> e.xmax]
    BY <1>2 DEF e
  <1> QED
    BY <1>1, <1>2, <1>3 DEF Formed, RowClaim

(* A version whose transaction has committed.                              *)
LEMMA DecidedIsFormed ==
    ASSUME NEW v, Formed(v), NEW x \in Sessions \cup {Zero}
    PROVE  LET e == [v EXCEPT !.xmin = x]
           IN  /\ Formed(e) /\ RowClaim(e) = RowClaim(v)
               /\ e.tab = v.tab /\ e.key = v.key /\ e.ref = v.ref /\ e.xmin = x /\ e.xmax = v.xmax
  <1> DEFINE e == [tab |-> v.tab, key |-> v.key, ref |-> v.ref, xmin |-> x, xmax |-> v.xmax]
  <1>1. [v EXCEPT !.xmin = x] = e
    <2>1. v = [tab |-> v.tab, key |-> v.key, ref |-> v.ref, xmin |-> v.xmin, xmax |-> v.xmax]
      BY DEF Formed
    <2> QED
      BY <2>1
  <1>2. e.tab = v.tab /\ e.key = v.key /\ e.ref = v.ref /\ e.xmin = x /\ e.xmax = v.xmax
    OBVIOUS
  <1> HIDE DEF e
  <1>3. e = [tab |-> e.tab, key |-> e.key, ref |-> e.ref, xmin |-> e.xmin, xmax |-> e.xmax]
    BY <1>2 DEF e
  <1> QED
    BY <1>1, <1>2, <1>3 DEF Formed, RowClaim

(* A version that is written.                                              *)
LEMMA RowIsFormed ==
    ASSUME NEW s \in Sessions, open \in [Sessions -> BOOLEAN], NEW t, NEW k, NEW r
    PROVE  LET w == Row(t, k, r, Id(s))
           IN  /\ Formed(w) /\ w.tab = t /\ w.key = k /\ w.ref = r /\ w.xmin = Id(s) /\ w.xmax = Zero
               /\ w = Row(w.tab, w.key, w.ref, Id(s))
  BY DEF Row, Formed, Id

(***************************************************************************)
(* What a write leaves of the keys                                         *)
(***************************************************************************)
(* The versions after a write: those that stay, the new ones, and in a     *)
(* transaction the ended ones.                                             *)
LEMMA AfterWrite ==
    ASSUME NEW s \in Sessions, NEW V, NEW W, Write(s, V, W)
    PROVE  /\ \A x \in rows' : \/ x \in rows \ V
                               \/ x \in W
                               \/ open[s] /\ \E v \in V : x = [v EXCEPT !.xmax = s]
           /\ \A x \in rows \ V : x \in rows'
           /\ \A x \in W : x \in rows'
           /\ open[s] => \A v \in V : [v EXCEPT !.xmax = s] \in rows'
  BY DEF Write

(* A write keeps the shape of the rows.                                    *)
LEMMA WriteKeepsShape ==
    ASSUME Shape, NEW s \in Sessions, NEW V, NEW W, Writes(s, V, W), Turn(s)
    PROVE  Shape'
  <1> DEFINE E == {[v EXCEPT !.xmax = s] : v \in V}
             f == [v \in V |-> [v EXCEPT !.xmax = s]]
  <1>1. IsFiniteSet(rows) /\ IsFiniteSet(W) /\ V \in SUBSET rows
    BY DEF Shape, Writes
  <1>2. IsFiniteSet(V)
    BY <1>1, FS_Subset
  <1>3. IsFiniteSet({f[x] : x \in V})
    <2>1. DOMAIN f = V /\ f = [x \in V |-> f[x]]
      OBVIOUS
    <2> HIDE DEF f
    <2> QED
      BY <1>2, <2>1, ImageIsFinite
  <1>4. {f[x] : x \in V} = E
    OBVIOUS
  <1>5. IsFiniteSet(rows \ V)
    BY <1>1, FS_Subset
  <1>6. IsFiniteSet((rows \ V) \cup W)
    BY <1>1, <1>5, FS_Union
  <1>7. IsFiniteSet(((rows \ V) \cup W) \cup E) /\ IsFiniteSet(((rows \ V) \cup W) \cup {})
    BY <1>3, <1>4, <1>6, FS_Union
  <1>8. IsFiniteSet(rows')
    <2>1. rows' = ((rows \ V) \cup W) \cup (IF open[s] THEN E ELSE {})
      BY DEF Writes, Write
    <2> QED
      BY <1>7, <2>1
  <1>9. \A x \in rows' : Formed(x)
    <2> SUFFICES ASSUME NEW x \in rows'
                 PROVE  Formed(x)
      OBVIOUS
    <2>1. CASE x \in rows \ V
      BY <2>1 DEF Shape
    <2>2. CASE x \in W
      <3>1. x = Row(x.tab, x.key, x.ref, Id(s)) /\ open \in [Sessions -> BOOLEAN]
        BY <2>2 DEF Writes, Shape
      <3>2. Formed(Row(x.tab, x.key, x.ref, Id(s)))
        BY <3>1, RowIsFormed
      <3> QED
        BY <3>1, <3>2
    <2>3. CASE \E v \in V : x = [v EXCEPT !.xmax = s]
      <3>1. PICK v \in V : x = [v EXCEPT !.xmax = s]
        BY <2>3
      <3>2. Formed(v)
        BY <1>1 DEF Shape
      <3> QED
        BY <3>1, <3>2, EndedIsFormed
    <2> QED
      BY <2>1, <2>2, <2>3, AfterWrite DEF Writes
  <1>10. \A r \in Sessions : IsFiniteSet(doomed'[r])
    BY DEF Shape, Turn
  <1> QED
    BY <1>8, <1>9, <1>10 DEF Shape, Turn, Formed

(* What a write touches stays claimed.                                     *)
LEMMA WriteKeepsClaims ==
    ASSUME Shape, UndecidedIsClaimed, NEW s \in Sessions, NEW V, NEW W, Writes(s, V, W), Turn(s), Takes(s)
    PROVE  UndecidedIsClaimed'
  <1> SUFFICES ASSUME NEW x \in rows', NEW r \in Sessions, x.xmin = r \/ x.xmax = r
               PROVE  open'[r] /\ RowClaim(x) \in held'[r]
    BY DEF UndecidedIsClaimed, RowClaim
  <1>0. r # Zero
    BY IntegrityAssumption
  <1>1. \A v \in rows : v.xmin = r \/ v.xmax = r => open'[r] /\ RowClaim(v) \in held'[r]
    BY DEF UndecidedIsClaimed, Turn, Takes
  <1>2. CASE x \in rows \ V
    BY <1>1, <1>2
  <1>3. CASE x \in W
    <2>1. x.xmin = Id(s) /\ x.xmax = Zero
      <3>1. x = Row(x.tab, x.key, x.ref, Id(s)) /\ open \in [Sessions -> BOOLEAN]
        BY <1>3 DEF Writes, Shape
      <3> QED
        BY <3>1 DEF Row
    <2>2. r = s /\ open[s]
      BY <1>0, <2>1 DEF Id
    <2>3. RowClaim(x) \in held'[s]
      BY <1>3, <2>2 DEF Writes
    <2> QED
      BY <2>2, <2>3 DEF Turn
  <1>4. CASE open[s] /\ \E v \in V : x = [v EXCEPT !.xmax = s]
    <2>1. PICK v \in V : x = [v EXCEPT !.xmax = s]
      BY <1>4
    <2>2. v \in rows /\ Formed(v)
      BY DEF Writes, Shape
    <2>3. x.xmin = v.xmin /\ x.xmax = s /\ RowClaim(x) = RowClaim(v)
      BY <2>1, <2>2, EndedIsFormed
    <2>4. CASE r = s
      BY <1>4, <2>3, <2>4 DEF Writes, Turn
    <2>5. CASE r # s
      BY <1>1, <2>2, <2>3, <2>5
    <2> QED
      BY <2>4, <2>5
  <1> QED
    BY <1>2, <1>3, <1>4, AfterWrite DEF Writes

Apart(v, w) == Never(v) \/ Never(w) \/ Follows(v, w) \/ Follows(w, v)

(* A live version that s ends stays apart from the others.                 *)
LEMMA EndedStaysApart ==
    ASSUME NEW s \in Sessions, NEW v, NEW w, Formed(v), Formed(w), v.xmax = Zero, Apart(v, w)
    PROVE  Apart([v EXCEPT !.xmax = s], w)
  BY EndedIsFormed DEF Apart, Never, Follows

(* A write keeps the versions of a key apart.                              *)
LEMMA WriteKeepsApart ==
    ASSUME Shape, UndecidedIsClaimed, VersionsApart, NEW s \in Sessions, NEW V, NEW W, Writes(s, V, W)
    PROVE  VersionsApart'
  <1> DEFINE Twins(x, y) == x.tab = y.tab /\ x.key = y.key /\ x # y
             Ended == {[v EXCEPT !.xmax = s] : v \in V}
  <1>0. open \in [Sessions -> BOOLEAN] /\ s # Zero
    BY IntegrityAssumption DEF Shape
  <1>1. \A x, y \in rows : Twins(x, y) => Apart(x, y)
    BY DEF VersionsApart, Apart
  <1>2. \A x \in rows : Formed(x)
    BY DEF Shape
  <1>3. \A v \in V : v \in rows /\ v.xmax = Zero
    BY DEF Writes
  <1>4. \A x \in W : x.xmin = Id(s) /\ x.xmax = Zero
    BY <1>0, RowIsFormed DEF Writes
  (* a version of the key of a new one *)
  <1>5. ASSUME NEW x \in W, NEW y \in rows, y.tab = x.tab, y.key = x.key, y \notin V
        PROVE  open[s] /\ Follows(x, y)
    <2>1. y.xmax # Zero
      BY <1>5 DEF Writes
    <2>2. y.xmax \in {Zero, s}
      BY <1>5, FreeIsOwn DEF Writes
    <2>3. y.xmax = s /\ open[s]
      BY <2>1, <2>2 DEF UndecidedIsClaimed
    <2> QED
      BY <1>0, <1>4, <2>3 DEF Follows, Id
  <1>6. ASSUME NEW x \in W, NEW v \in V, open[s]
        PROVE  Follows(x, [v EXCEPT !.xmax = s])
    <2>1. [v EXCEPT !.xmax = s].xmax = s
      BY <1>2, <1>3, EndedIsFormed
    <2> QED
      BY <1>0, <1>4, <1>6, <2>1 DEF Follows, Id
  <1>7. ASSUME NEW v \in V, NEW y \in rows, v.tab = y.tab, v.key = y.key, v # y
        PROVE  Apart([v EXCEPT !.xmax = s], y)
    <2>1. Apart(v, y)
      BY <1>1, <1>3, <1>7
    <2> QED
      BY <1>2, <1>3, <2>1, EndedStaysApart
  <1>8. ASSUME NEW v \in V, NEW w \in V, v.tab = w.tab, v.key = w.key
        PROVE  v = w
    <2>1. ~Apart(v, w)
      BY <1>3 DEF Apart, Never, Follows
    <2> QED
      BY <1>1, <1>3, <1>8, <2>1
  <1> SUFFICES ASSUME NEW x \in rows', NEW y \in rows', Twins(x, y)
               PROVE  Apart(x, y)
    BY DEF VersionsApart, Apart
  <1>9. \A z \in rows' : \/ z \in rows \ V \/ z \in W
                         \/ open[s] /\ \E v \in V : z = [v EXCEPT !.xmax = s] /\ z.tab = v.tab /\ z.key = v.key
    <2> SUFFICES ASSUME NEW z \in rows', ~(z \in rows \ V \/ z \in W)
                 PROVE  open[s] /\ \E v \in V : z = [v EXCEPT !.xmax = s] /\ z.tab = v.tab /\ z.key = v.key
      OBVIOUS
    <2>1. Write(s, V, W)
      BY DEF Writes
    <2>2. open[s] /\ \E v \in V : z = [v EXCEPT !.xmax = s]
      BY <2>1, AfterWrite
    <2>3. PICK v \in V : z = [v EXCEPT !.xmax = s]
      BY <2>2
    <2>4. Formed(v)
      BY <1>2, <1>3
    <2>5. z.tab = v.tab /\ z.key = v.key
      BY <2>3, <2>4, EndedIsFormed
    <2> QED
      BY <2>2, <2>3, <2>5
  <1>10. \A a, b : Apart(a, b) <=> Apart(b, a)
    BY DEF Apart
  <1>11. \A a, b : Follows(a, b) => Apart(a, b)
    BY DEF Apart
  <1>12. CASE x \in rows \ V
    <2>1. CASE y \in rows \ V
      BY <1>1, <1>12, <2>1
    <2>2. CASE y \in W
      BY <1>5, <1>10, <1>11, <1>12, <2>2
    <2>3. CASE \E v \in V : y = [v EXCEPT !.xmax = s] /\ y.tab = v.tab /\ y.key = v.key
      BY <1>7, <1>10, <1>12, <2>3
    <2> QED
      BY <1>9, <2>1, <2>2, <2>3
  <1>13. CASE x \in W
    <2>1. CASE y \in rows \ V
      BY <1>5, <1>11, <1>13, <2>1
    <2>2. CASE y \in W
      BY <1>13, <2>2 DEF Writes
    <2>3. CASE open[s] /\ \E v \in V : y = [v EXCEPT !.xmax = s] /\ y.tab = v.tab /\ y.key = v.key
      BY <1>6, <1>11, <1>13, <2>3
    <2> QED
      BY <1>9, <2>1, <2>2, <2>3
  <1>14. CASE open[s] /\ \E v \in V : x = [v EXCEPT !.xmax = s] /\ x.tab = v.tab /\ x.key = v.key
    <2>0. PICK v \in V : x = [v EXCEPT !.xmax = s] /\ x.tab = v.tab /\ x.key = v.key
      BY <1>14
    <2>1. CASE y \in rows \ V
      BY <1>7, <2>0, <2>1
    <2>2. CASE y \in W
      BY <1>6, <1>10, <1>11, <1>14, <2>0, <2>2
    <2>3. CASE \E w \in V : y = [w EXCEPT !.xmax = s] /\ y.tab = w.tab /\ y.key = w.key
      <3>1. PICK w \in V : y = [w EXCEPT !.xmax = s] /\ y.tab = w.tab /\ y.key = w.key
        BY <2>3
      <3>2. v = w
        BY <1>8, <2>0, <3>1
      <3> QED
        BY <2>0, <3>1, <3>2
    <2> QED
      BY <1>9, <2>1, <2>2, <2>3
  <1> QED
    BY <1>9, <1>12, <1>13, <1>14

(* The key of an INSERT of another session stays without a live row.       *)
LEMMA WriteKeepsReady ==
    ASSUME Shape, ClaimsApart, InsertReady, NEW s \in Sessions, NEW V, NEW W, Writes(s, V, W), Turn(s),
           NEW r \in Sessions \ {s}, (At(r, "push") \/ At(r, "valued"))'
    PROVE  (RowClaim(New(r)) \in held[r] /\ ~Duplicate(r))'
  <1>1. At(r, "push") \/ At(r, "valued")
    BY DEF At, Turn
  <1>2. RowClaim(New(r)) \in held[r] /\ ~Duplicate(r)
    BY <1>1 DEF InsertReady, InsertReadyOf
  <1>3. Kind(r)' = Kind(r) /\ stmt'[r] = stmt[r] /\ RowClaim(New(r))' = RowClaim(New(r)) /\ held'[r] = held[r]
    BY DEF Kind, Turn, RowClaim, New, Row
  <1>4. RowClaim(New(r))[1] = <<Kind(r), stmt[r].key>>
    BY DEF RowClaim, New, Row
  <1>5. \A w \in W : <<w.tab, w.key>> # <<Kind(r), stmt[r].key>>
    <2> SUFFICES ASSUME NEW w \in W
                 PROVE  <<w.tab, w.key>> # <<Kind(r), stmt[r].key>>
      OBVIOUS
    <2>1. Free(s, <<<<w.tab, w.key>>, "X">>)
      BY DEF Writes, RowClaim
    <2> QED
      BY <1>2, <1>4, <2>1, FreeIsAlone
  <1>6. \A x \in rows' : x.tab = Kind(r) /\ x.key = stmt[r].key => x.xmax # Zero
    <2> SUFFICES ASSUME NEW x \in rows', x.tab = Kind(r), x.key = stmt[r].key
                 PROVE  x.xmax # Zero
      OBVIOUS
    <2>1. CASE x \in rows
      BY <1>2, <2>1 DEF Duplicate, LiveOf, Live
    <2>2. CASE x \in W
      BY <1>5, <2>2
    <2>3. CASE \E v \in V : x = [v EXCEPT !.xmax = s]
      <3>1. PICK v \in V : x = [v EXCEPT !.xmax = s]
        BY <2>3
      <3>2. Formed(v) /\ s # Zero
        BY IntegrityAssumption DEF Writes, Shape
      <3> QED
        BY <3>1, <3>2, EndedIsFormed
    <2> QED
      BY <2>1, <2>2, <2>3, AfterWrite DEF Writes
  <1>7. ~Duplicate(r)'
    BY <1>3, <1>6 DEF Duplicate, LiveOf, Live
  <1> QED
    BY <1>2, <1>3, <1>7

(***************************************************************************)
(* What every step of a statement has in common                            *)
(***************************************************************************)
(* A step of s that ends V and writes W, and where it leaves s.            *)
Stepped(s, V, W) == Turn(s) /\ Takes(s) /\ Writes(s, V, W) /\ PlacedOf(s)' /\ InsertReadyOf(s)'

(* A step that writes nothing.                                             *)
LEMMA NothingWritten ==
    ASSUME NEW s \in Sessions, rows' = rows
    PROVE  Writes(s, {}, {})
  <1>1. Write(s, {}, {})
    BY DEF Write
  <1>2. IsFiniteSet({})
    BY FS_EmptySet
  <1> QED
    BY <1>1, <1>2 DEF Writes

(* The statement is over.                                                  *)
LEMMA Overs ==
    ASSUME Shape, NEW s \in Sessions, NEW cs, Over(s, cs), \A c \in ToSet(cs) : Free(s, c)
    PROVE  /\ Turn(s) /\ Takes(s) /\ PlacedOf(s)' /\ InsertReadyOf(s)'
           /\ Ready(s)' /\ ~MidCascade(s)'
           /\ open[s] => ToSet(cs) \subseteq held'[s] /\ held[s] \subseteq held'[s]
  <1>1. pc'[s] = "idle" /\ doomed'[s] = {} /\ held'[s] = IF open[s] THEN held[s] \cup ToSet(cs) ELSE {}
    BY DEF Over, Goto, Shape
  <1>2. IsFiniteSet(doomed'[s])
    BY <1>1, FS_EmptySet
  <1>3. Turn(s)
    BY <1>2 DEF Over, Goto, Shape, Turn
  <1>4. Takes(s)
    BY <1>1 DEF Takes
  <1>5. \A l : l # "idle" => ~At(s, l)'
    BY <1>1 DEF At
  <1>6. PlacedOf(s)' /\ InsertReadyOf(s)'
    BY <1>1, <1>5 DEF PlacedOf, InsertReadyOf
  <1>7. ~MidCascade(s)'
    BY <1>1 DEF MidCascade
  <1>8. Ready(s)'
    BY <1>1, <1>5, <1>7 DEF Ready, PushReady, EraseReady, FollowReady
  <1> QED
    BY <1>1, <1>3, <1>4, <1>6, <1>7, <1>8

(* The statement waits for a claim.                                        *)
LEMMA Waits ==
    ASSUME Shape, NEW s \in Sessions, NEW T, NEW cs \in Seq(T), NEW at, WaitFor(s, cs, at),
           UNCHANGED <<stmt, doomed>>, Same
    PROVE  /\ Turn(s) /\ Takes(s) /\ stmt' = stmt /\ doomed' = doomed /\ open' = open
           /\ \A l : l # "wait" => (At(s, l)' <=> l = at)
           /\ MidCascade(s)' <=> at = "follow"
           /\ pc'[s] = "wait" /\ want'[s].at = at
           /\ \A i \in Reached(s, cs) : cs[i] \in held'[s]
           /\ held[s] \subseteq held'[s]
  <1>1. pc'[s] = "wait" /\ want'[s].at = at /\ held'[s] = held[s] \cup {cs[i] : i \in Reached(s, cs)}
    BY DEF WaitFor, Goto, Claim, Shape
  <1>2. Turn(s)
    BY DEF WaitFor, Goto, Claim, Shape, Turn, Same
  <1>3. Takes(s)
    BY <1>1, ClaimsGranted DEF Takes
  <1>4. \A l : l # "wait" => (At(s, l)' <=> l = at)
    BY <1>1 DEF At
  <1>5. MidCascade(s)' <=> at = "follow"
    BY <1>1 DEF MidCascade
  <1> QED
    BY <1>1, <1>2, <1>3, <1>4, <1>5 DEF Same

(* The statement goes on, with the claims it has asked for.                *)
LEMMA Goes ==
    ASSUME Shape, NEW s \in Sessions, NEW T, NEW cs \in Seq(T), NEW l, l # "wait", Granted(s, cs),
           Claim(s, cs), Goto(s, l), UNCHANGED <<stmt, want>>, Same,
           NEW K, IsFiniteSet(K), DOMAIN doomed' = Sessions, doomed'[s] = K,
           \A r \in Sessions \ {s} : doomed'[r] = doomed[r]
    PROVE  /\ Turn(s) /\ Takes(s) /\ stmt' = stmt /\ doomed'[s] = K /\ open' = open
           /\ \A m : m # "wait" => (At(s, m)' <=> m = l)
           /\ MidCascade(s)' <=> l = "follow"
           /\ pc'[s] = l
           /\ ToSet(cs) \subseteq held'[s] /\ held[s] \subseteq held'[s]
  <1>1. pc'[s] = l /\ doomed'[s] = K /\ held'[s] = held[s] \cup {cs[i] : i \in Reached(s, cs)}
    BY DEF Goto, Claim, Shape
  <1>2. Turn(s)
    BY <1>1 DEF Goto, Claim, Shape, Turn, Same
  <1>3. Takes(s)
    BY <1>1, ClaimsGranted DEF Takes
  <1>4. \A m : m # "wait" => (At(s, m)' <=> m = l)
    BY <1>1 DEF At
  <1>5. MidCascade(s)' <=> l = "follow"
    BY <1>1 DEF MidCascade
  <1>6. ToSet(cs) \subseteq held'[s]
    BY <1>1, ClaimsGranted
  <1> QED
    BY <1>1, <1>2, <1>3, <1>4, <1>5, <1>6 DEF Same

(* Live versions of one key are one.                                       *)
LEMMA LiveIsOne ==
    ASSUME VersionsApart, NEW v \in rows, NEW w \in rows, v.tab = w.tab, v.key = w.key, v.xmax = Zero, w.xmax = Zero
    PROVE  v = w
  BY DEF VersionsApart, Never, Follows

(* Children that are claimed are ended, and written again with another     *)
(* parent.                                                                 *)
LEMMA Rewrites ==
    ASSUME KeyInv, NEW s \in Sessions, NEW V, V \subseteq rows, \A v \in V : v.tab = "c" /\ v.xmax = Zero,
           \A v \in V : Free(s, RowClaim(v)), open[s] => \A v \in V : RowClaim(v) \in held'[s],
           NEW r, NEW W, W = {Row("c", v.key, r, Id(s)) : v \in V}, Write(s, V, W)
    PROVE  Writes(s, V, W)
  <1>0. open \in [Sessions -> BOOLEAN] /\ VersionsApart /\ IsFiniteSet(rows)
    BY DEF KeyInv, Shape
  <1>1. \A w \in W : \E v \in V : w = Row("c", v.key, r, Id(s)) /\ w.key = v.key
    BY <1>0, RowIsFormed
  <1>2. \A w \in W : w.tab = "c" /\ w.ref = r /\ w.xmin = Id(s) /\ w.xmax = Zero /\ w = Row("c", w.key, r, Id(s))
    BY <1>0, <1>1, RowIsFormed
  <1>3. \A w \in W : \E v \in V : w.key = v.key /\ RowClaim(w) = RowClaim(v)
    BY <1>1, <1>2 DEF RowClaim
  <1>4. \A w \in W : w = Row(w.tab, w.key, w.ref, Id(s)) /\ Free(s, RowClaim(w))
    BY <1>2, <1>3
  <1>5. ASSUME NEW w \in W, NEW y \in rows \ V, y.tab = w.tab, y.key = w.key
        PROVE  y.xmax # Zero
    <2>1. PICK v \in V : w.key = v.key
      BY <1>3
    <2> QED
      BY <1>0, <1>2, <1>5, <2>1, LiveIsOne
  <1>6. \A w, x \in W : w.tab = x.tab /\ w.key = x.key => w = x
    BY <1>2
  <1>7. open[s] => \A v \in V \cup W : RowClaim(v) \in held'[s]
    BY <1>3
  <1>8. IsFiniteSet(W)
    <2> DEFINE f == [v \in V |-> Row("c", v.key, r, Id(s))]
    <2>1. IsFiniteSet(V)
      BY <1>0, FS_Subset
    <2>2. W = {f[x] : x \in V}
      OBVIOUS
    <2>3. DOMAIN f = V /\ f = [x \in V |-> f[x]]
      OBVIOUS
    <2> HIDE DEF f
    <2>4. IsFiniteSet({f[x] : x \in V})
      BY ONLY <2>1, <2>3, ImageIsFinite
    <2> QED
      BY ONLY <2>2, <2>4
  <1> QED
    BY <1>4, <1>5, <1>6, <1>7, <1>8 DEF Writes

(* Versions are ended and nothing is written.                              *)
LEMMA Erases ==
    ASSUME NEW s \in Sessions, NEW V, V \subseteq rows, \A v \in V : v.xmax = Zero,
           open[s] => \A v \in V : RowClaim(v) \in held'[s], Write(s, V, {})
    PROVE  Writes(s, V, {})
  BY FS_EmptySet DEF Writes

(* Such a step keeps the keys apart.                                       *)
LEMMA KeyStep ==
    ASSUME KeyInv, NEW s \in Sessions, NEW V, NEW W, Stepped(s, V, W)
    PROVE  KeyInv'
  <1>1. Shape /\ ClaimsApart /\ UndecidedIsClaimed /\ Placed /\ InsertReady /\ VersionsApart
    BY DEF KeyInv
  <1>2. Turn(s) /\ Takes(s) /\ Writes(s, V, W) /\ PlacedOf(s)' /\ InsertReadyOf(s)'
    BY DEF Stepped
  <1>3. Shape'
    BY <1>1, <1>2, WriteKeepsShape
  <1>4. ClaimsApart'
    BY <1>1, <1>2, ClaimsStayApart
  <1>5. UndecidedIsClaimed'
    BY <1>1, <1>2, WriteKeepsClaims
  <1>6. VersionsApart'
    BY <1>1, <1>2, WriteKeepsApart
  <1>7. Placed'
    <2> SUFFICES ASSUME NEW r \in Sessions, r # s
                 PROVE  PlacedOf(r)'
      BY <1>2 DEF Placed
    <2>1. PlacedOf(r)
      BY <1>1 DEF Placed
    <2> QED
      BY <1>2, <2>1 DEF PlacedOf, At, Turn
  <1>8. InsertReady'
    <2> SUFFICES ASSUME NEW r \in Sessions \ {s}
                 PROVE  InsertReadyOf(r)'
      BY <1>2 DEF InsertReady
    <2>1. (At(r, "push") \/ At(r, "valued"))' => (RowClaim(New(r)) \in held[r] /\ ~Duplicate(r))'
      BY <1>1, <1>2, WriteKeepsReady
    <2> QED
      BY <2>1 DEF InsertReadyOf
  <1> QED
    BY <1>3, <1>4, <1>5, <1>6, <1>7, <1>8 DEF KeyInv

(***************************************************************************)
(* What a write leaves of parents and children                             *)
(***************************************************************************)
(* Whoever ends a parent has its key and its value to itself, and is at    *)
(* the children or has ended them; a new child shares the value and finds  *)
(* a parent, or is an old one that refers to what it did; and a cascade    *)
(* goes on until it has ended its children.                                *)
Sharing(s, w) ==
    /\ Free(s, ValueClaim(w.ref, "S"))
    /\ \E p \in rows' : Parent(p, w.ref) /\ p.xmax = Zero /\ p.xmin \in {Zero, Id(s)}

Rewriting(s, V, w) ==
    /\ ~MidCascade(s)
    /\ \A v \in V : v.tab # "p"
    /\ \E v \in V : Child(v) /\ v.ref = w.ref /\ v.xmin \in {Zero, Id(s)}

Lawful(s, V, W) ==
    /\ \A v \in V : v.tab = "p" =>
         /\ Free(s, ValueClaim(v.key, "X")) /\ Free(s, RowClaim(v))
         /\ \/ MidCascade(s)' /\ v.key \in doomed'[s]
            \/ \A x \in rows \ V : Child(x) /\ x.ref = v.key => x.xmax = s
    /\ \A w \in W : Child(w) => Sharing(s, w) \/ Rewriting(s, V, w)
    /\ MidCascade(s) => \/ MidCascade(s)' /\ doomed'[s] = doomed[s]
                        \/ \A x \in rows \ V : Child(x) /\ x.ref \in doomed[s] => x.xmax = s

(* A parent that s may not end is still there.                             *)
LEMMA ParentStays ==
    ASSUME NEW s \in Sessions, NEW V, NEW W, Writes(s, V, W), Lawful(s, V, W), NEW r \in Sessions \ {s},
           NEW p \in rows, NEW k, Parent(p, k),
           ValueClaim(k, "S") \in held[r] \/ <<<<"p", k>>, "X">> \in held[r]
    PROVE  p \in rows'
  <1>0. \A v : RowClaim(v) = <<<<v.tab, v.key>>, "X">>
    BY DEF RowClaim
  <1>1. ASSUME p \in V
        PROVE  FALSE
    <2>1. Free(s, <<<<"fk", k>>, "X">>) /\ Free(s, <<<<"p", k>>, "X">>)
      BY <1>0, <1>1 DEF Lawful, Parent, ValueClaim
    <2>2. \A h \in held[r] : h[1] # <<"fk", k>> /\ h[1] # <<"p", k>>
      BY <2>1, FreeIsAlone
    <2>3. <<<<"fk", k>>, "S">>[1] = <<"fk", k>> /\ <<<<"p", k>>, "X">>[1] = <<"p", k>>
      OBVIOUS
    <2> QED
      BY <2>2, <2>3 DEF ValueClaim
  <1>2. p \in rows \ V
    BY <1>1
  <1> QED
    BY <1>2, AfterWrite DEF Writes

(* The other sessions stay ready for what they are about to do.            *)
LEMMA OthersStayReady ==
    ASSUME KeyInv, NEW s \in Sessions, NEW V, NEW W, Writes(s, V, W), Turn(s), Lawful(s, V, W),
           NEW r \in Sessions \ {s}, Ready(r)
    PROVE  Ready(r)'
  <1>0. Shape /\ ClaimsApart /\ UndecidedIsClaimed /\ r # Zero /\ r # s
    BY IntegrityAssumption DEF KeyInv
  <1>1. held'[r] = held[r] /\ want'[r] = want[r] /\ pc'[r] = pc[r] /\ stmt'[r] = stmt[r] /\ doomed'[r] = doomed[r]
        /\ open' = open
    BY DEF Turn
  <1>2. PushReady(r)'
    <2> SUFFICES ASSUME pc[r] = "push", stmt[r].ref # Null
                 PROVE  (/\ ValueClaim(stmt[r].ref, "S") \in held[r]
                         /\ \E p \in rows : Parent(p, stmt[r].ref) /\ p.xmax = Zero /\ p.xmin \in {Zero, r})'
      BY <1>1 DEF PushReady
    <2>1. ValueClaim(stmt[r].ref, "S") \in held[r]
      BY DEF Ready, PushReady
    <2>2. PICK p \in rows : Parent(p, stmt[r].ref) /\ p.xmax = Zero /\ p.xmin \in {Zero, r}
      BY DEF Ready, PushReady
    <2>3. p \in rows'
      BY <2>1, <2>2, ParentStays
    <2> QED
      BY <1>1, <2>1, <2>2, <2>3 DEF ValueClaim, Parent
  <1>3. FollowReady(r)'
    <2> SUFFICES ASSUME MidCascade(r)
                 PROVE  (/\ <<<<"p", stmt[r].to>>, "X">> \in held[r]
                         /\ \E p \in rows : Parent(p, stmt[r].to) /\ p.xmax = Zero /\ p.xmin = Id(r))'
      BY <1>1 DEF FollowReady, MidCascade
    <2>1. <<<<"p", stmt[r].to>>, "X">> \in held[r]
      BY DEF Ready, FollowReady
    <2>2. PICK p \in rows : Parent(p, stmt[r].to) /\ p.xmax = Zero /\ p.xmin = Id(r)
      BY DEF Ready, FollowReady
    <2>3. p \in rows'
      BY <2>1, <2>2, ParentStays
    <2> QED
      BY <1>1, <2>1, <2>2, <2>3 DEF Parent, Id
  <1>4. EraseReady(r)'
    <2> SUFFICES ASSUME At(r, "erase")
                 PROVE  (/\ \A k \in doomed[r] : ValueClaim(k, "X") \in held[r]
                         /\ \A v \in rows : Child(v) /\ v.ref \in doomed[r] => v.xmax = r)'
      BY <1>1 DEF EraseReady, At
    <2>1. \A k \in doomed[r] : ValueClaim(k, "X") \in held[r]
      BY DEF Ready, EraseReady
    <2>2. \A v \in rows : Child(v) /\ v.ref \in doomed[r] => v.xmax = r
      BY DEF Ready, EraseReady
    <2>3. ASSUME NEW x \in rows', Child(x), x.ref \in doomed[r]
          PROVE  x.xmax = r
      <3>1. CASE x \in rows \ V
        BY <2>2, <2>3, <3>1
      <3>2. CASE x \in W
        <4>1. CASE Sharing(s, x)
          <5>1. Free(s, ValueClaim(x.ref, "S"))
            BY <4>1 DEF Sharing
          <5>2. ValueClaim(x.ref, "X") \in held[r]
            BY <2>1, <2>3
          <5>3. ValueClaim(x.ref, "S")[1] = ValueClaim(x.ref, "X")[1] /\ ValueClaim(x.ref, "X")[2] # "S"
            BY DEF ValueClaim
          <5> QED
            BY <5>1, <5>2, <5>3 DEF Free
        <4>2. CASE Rewriting(s, V, x)
          <5>1. PICK v \in V : Child(v) /\ v.ref = x.ref
            BY <4>2 DEF Rewriting
          <5>2. v \in rows /\ v.xmax = Zero
            BY DEF Writes
          <5> QED
            BY <1>0, <2>2, <2>3, <5>1, <5>2
        <4> QED
          BY <2>3, <3>2, <4>1, <4>2 DEF Lawful
      <3>3. CASE \E v \in V : x = [v EXCEPT !.xmax = s]
        <4>1. PICK v \in V : x = [v EXCEPT !.xmax = s]
          BY <3>3
        <4>2. v \in rows /\ Formed(v) /\ v.xmax = Zero
          BY <1>0 DEF Writes, Shape
        <4>3. v.tab = x.tab /\ v.ref = x.ref
          BY <4>1, <4>2, EndedIsFormed
        <4> QED
          BY <1>0, <2>2, <2>3, <4>2, <4>3 DEF Child
      <3> QED
        BY <3>1, <3>2, <3>3, AfterWrite DEF Writes
    <2>4. \A k \in doomed'[r] : ValueClaim(k, "X") \in held'[r]
      BY <1>1, <2>1
    <2>5. \A v \in rows' : Child(v) /\ v.ref \in doomed'[r] => v.xmax = r
      BY <1>1, <2>3
    <2> QED
      BY <2>4, <2>5 DEF ValueClaim, Child
  <1> QED
    BY <1>2, <1>3, <1>4 DEF Ready

(* Every child stays sheltered.                                            *)
LEMMA ChildrenStaySheltered ==
    ASSUME KeyInv, UndecidedIsClaimed', NEW s \in Sessions, NEW V, NEW W, Writes(s, V, W), Turn(s), Lawful(s, V, W),
           Sheltered
    PROVE  Sheltered'
  <1>0. Shape /\ UndecidedIsClaimed /\ s # Zero /\ open' = open /\ open \in [Sessions -> BOOLEAN]
    BY IntegrityAssumption DEF KeyInv, Turn, Shape
  <1>1. /\ \A x \in rows' : \/ x \in rows \ V
                            \/ x \in W
                            \/ open[s] /\ \E v \in V : x = [v EXCEPT !.xmax = s]
        /\ \A x \in rows \ V : x \in rows'
        /\ open[s] => \A v \in V : [v EXCEPT !.xmax = s] \in rows'
    BY AfterWrite DEF Writes
  <1>2. \A v \in V : v \in rows /\ Formed(v) /\ v.xmax = Zero
    BY <1>0 DEF Writes, Shape
  <1> SUFFICES ASSUME NEW x \in rows', NEW C \in SUBSET Sessions, Child(x), There(x, C)
               PROVE  Excused(x.ref, C)' \/ \E p \in rows' : Parent(p, x.ref) /\ There(p, C)
    BY DEF Sheltered, Child, There, Parent
  (* an old child, live or ended by s just now *)
  <1>3. ASSUME NEW y \in rows, Child(y), There(y, C), y.ref = x.ref,
               \/ y = x /\ y \notin V
               \/ open[s] /\ s \notin C
        PROVE  Excused(x.ref, C)' \/ \E p \in rows' : Parent(p, x.ref) /\ There(p, C)
    <2>1. Excused(y.ref, C) \/ \E p \in rows : Parent(p, y.ref) /\ There(p, C)
      BY <1>3 DEF Sheltered
    (* what s has ended is not there when s commits *)
    <2>2. ASSUME open[s] => s \in C
          PROVE  y \in rows \ V /\ y.xmax # s
      <3>1. y = x /\ y \notin V
        BY <1>3, <2>2
      <3>2. ASSUME y.xmax = s
            PROVE  FALSE
        <4>1. open[s]
          BY <1>0, <3>2 DEF UndecidedIsClaimed
        <4> QED
          BY <1>0, <1>3, <2>2, <3>2, <4>1 DEF There
      <3> QED
        BY <3>1, <3>2
    <2>3. CASE Excused(y.ref, C)
      <3>1. PICK r \in Sessions : MidCascade(r) /\ y.ref \in doomed[r] /\ (open[r] => r \in C)
        BY <2>3 DEF Excused
      <3>2. CASE r # s
        <4>1. MidCascade(r)' /\ doomed'[r] = doomed[r]
          BY <3>1, <3>2 DEF MidCascade, Turn
        <4> QED
          BY <1>0, <1>3, <3>1, <4>1 DEF Excused
      <3>3. CASE r = s
        <4>1. y \in rows \ V /\ y.xmax # s
          BY <2>2, <3>1, <3>3
        <4>2. MidCascade(s)' /\ doomed'[s] = doomed[s]
          BY <1>3, <3>1, <3>3, <4>1 DEF Lawful
        <4> QED
          BY <1>0, <1>3, <3>1, <3>3, <4>2 DEF Excused
      <3> QED
        BY <3>2, <3>3
    <2>4. CASE \E p \in rows : Parent(p, y.ref) /\ There(p, C)
      <3>1. PICK p \in rows : Parent(p, y.ref) /\ There(p, C)
        BY <2>4
      <3>2. CASE p \notin V
        BY <1>1, <1>3, <3>1, <3>2
      <3>3. CASE p \in V /\ open[s] /\ s \notin C
        <4> DEFINE e == [p EXCEPT !.xmax = s]
        <4>1. e \in rows'
          BY <1>1, <3>3
        <4>2. e.tab = p.tab /\ e.key = p.key /\ e.xmin = p.xmin /\ e.xmax = s
          BY <1>2, <3>3, EndedIsFormed
        <4> HIDE DEF e
        <4>3. Parent(e, x.ref) /\ There(e, C)
          BY <1>3, <3>1, <3>3, <4>2 DEF Parent, There
        <4> QED
          BY <4>1, <4>3
      <3>4. CASE p \in V /\ (open[s] => s \in C)
        <4>1. y \in rows \ V /\ y.xmax # s
          BY <2>2, <3>4
        <4>2. p.tab = "p" /\ p.key = y.ref
          BY <3>1 DEF Parent
        <4>3. MidCascade(s)' /\ y.ref \in doomed'[s]
          BY <1>3, <3>4, <4>1, <4>2 DEF Lawful
        <4> QED
          BY <1>0, <1>3, <3>4, <4>3 DEF Excused
      <3> QED
        BY <3>2, <3>3, <3>4
    <2> QED
      BY <2>1, <2>3, <2>4
  <1>4. CASE x \in rows \ V
    BY <1>3, <1>4
  <1>5. CASE x \in W
    <2>1. x.xmin = Id(s)
      BY <1>0, <1>5, RowIsFormed DEF Writes
    <2>2. CASE Sharing(s, x)
      <3>1. PICK p \in rows' : Parent(p, x.ref) /\ p.xmax = Zero /\ p.xmin \in {Zero, Id(s)}
        BY <2>2 DEF Sharing
      <3>2. There(p, C)
        BY <2>1, <3>1 DEF There
      <3> QED
        BY <3>1, <3>2
    <2>3. CASE Rewriting(s, V, x)
      <3>1. PICK v \in V : Child(v) /\ v.ref = x.ref /\ v.xmin \in {Zero, Id(s)}
        BY <2>3 DEF Rewriting
      <3>2. v \in rows /\ There(v, C)
        BY <1>2, <2>1, <3>1 DEF There
      <3>3. CASE Excused(v.ref, C)
        <4>1. PICK r \in Sessions : MidCascade(r) /\ v.ref \in doomed[r] /\ (open[r] => r \in C)
          BY <3>3 DEF Excused
        <4>2. r # s
          BY <2>3, <4>1 DEF Rewriting
        <4>3. MidCascade(r)' /\ doomed'[r] = doomed[r]
          BY <4>1, <4>2 DEF MidCascade, Turn
        <4> QED
          BY <1>0, <3>1, <4>1, <4>3 DEF Excused
      <3>4. CASE \E p \in rows : Parent(p, v.ref) /\ There(p, C)
        <4>1. PICK p \in rows : Parent(p, v.ref) /\ There(p, C)
          BY <3>4
        <4>2. p \in rows'
          BY <1>1, <2>3, <4>1 DEF Rewriting, Parent
        <4> QED
          BY <3>1, <4>1, <4>2
      <3> QED
        BY <3>1, <3>2, <3>3, <3>4 DEF Sheltered
    <2> QED
      BY <1>5, <2>2, <2>3 DEF Lawful
  <1>6. CASE open[s] /\ \E v \in V : x = [v EXCEPT !.xmax = s]
    <2>1. PICK v \in V : x = [v EXCEPT !.xmax = s]
      BY <1>6
    <2>2. v.tab = x.tab /\ v.ref = x.ref /\ v.xmin = x.xmin /\ x.xmax = s /\ v \in rows /\ v.xmax = Zero
      BY <1>2, <2>1, EndedIsFormed
    <2>3. s \notin C /\ There(v, C) /\ Child(v)
      BY <1>0, <2>2 DEF There, Child
    <2> QED
      BY <1>3, <1>6, <2>2, <2>3
  <1> QED
    BY <1>1, <1>4, <1>5, <1>6

(***************************************************************************)
(* The actions                                                             *)
(***************************************************************************)
(* A step of s that keeps the keys apart, and children and parents         *)
(* together unless there has been a race.                                  *)
Kept(s, V, W) ==
    /\ Stepped(s, V, W)
    /\ race \subseteq race'
    /\ race' = {} /\ Ready(s) => Lawful(s, V, W) /\ Ready(s)'

(* The claims of a set of rows, as a list.                                 *)
LEMMA RowClaimsListed ==
    ASSUME NEW S, IsFiniteSet(S)
    PROVE  LET cs == SetToSeq({RowClaim(v) : v \in S})
           IN  cs \in Seq({RowClaim(v) : v \in S}) /\ ToSet(cs) = {RowClaim(v) : v \in S}
  <1> DEFINE f == [v \in S |-> RowClaim(v)]
  <1>1. DOMAIN f = S /\ f = [x \in S |-> f[x]] /\ {f[x] : x \in S} = {RowClaim(v) : v \in S}
    OBVIOUS
  <1> HIDE DEF f
  <1>2. IsFiniteSet({RowClaim(v) : v \in S})
    BY <1>1, ImageIsFinite
  <1> QED
    BY <1>2, ListOfSet

(* The list of nothing.                                                    *)
LEMMA NothingListed == <<>> \in Seq({}) /\ ToSet(<<>>) = {}
  BY DEF ToSet

(* A statement that is refused.                                            *)
LEMMA RefuseKept ==
    ASSUME KeyInv, NEW s \in Sessions, NEW cs, Refuse(s, cs), \A c \in ToSet(cs) : Free(s, c), ~MidCascade(s)
    PROVE  Kept(s, {}, {})
  <1>1. Over(s, cs) /\ rows' = rows /\ race' = race /\ Shape
    BY DEF Refuse, KeyInv
  <1>2. Turn(s) /\ Takes(s) /\ PlacedOf(s)' /\ InsertReadyOf(s)' /\ Ready(s)'
    BY <1>1, Overs
  <1>3. Writes(s, {}, {})
    BY <1>1, NothingWritten
  <1>4. Lawful(s, {}, {})
    BY DEF Lawful
  <1> QED
    BY <1>1, <1>2, <1>3, <1>4 DEF Kept, Stepped

(* A statement that waits and has written nothing.                         *)
LEMMA WaitKept ==
    ASSUME KeyInv, NEW s \in Sessions, NEW T, NEW cs \in Seq(T), NEW at, WaitFor(s, cs, at),
           UNCHANGED <<rows, stmt, doomed, race>>, Same,
           ~MidCascade(s), at \notin {"wait", "push", "erase", "follow"},
           at \in {"updP", "updC", "delP", "delC"} => stmt[s].op = at,
           at = "valued" => ~Duplicate(s) /\ \E i \in Reached(s, cs) : cs[i] = RowClaim(New(s))
    PROVE  Kept(s, {}, {})
  <1>1. Shape
    BY DEF KeyInv
  <1>2. /\ Turn(s) /\ Takes(s) /\ stmt' = stmt /\ doomed' = doomed /\ open' = open
        /\ \A l : l # "wait" => (At(s, l)' <=> l = at)
        /\ MidCascade(s)' <=> at = "follow"
        /\ pc'[s] = "wait" /\ want'[s].at = at
        /\ \A i \in Reached(s, cs) : cs[i] \in held'[s]
    BY <1>1, Waits
  <1>3. Writes(s, {}, {})
    BY NothingWritten
  <1>4. PlacedOf(s)'
    BY <1>2 DEF PlacedOf
  <1>5. InsertReadyOf(s)'
    <2> SUFFICES ASSUME at = "valued"
                 PROVE  (RowClaim(New(s)) \in held[s] /\ ~Duplicate(s))'
      BY <1>2 DEF InsertReadyOf
    <2>1. RowClaim(New(s)) \in held'[s] /\ ~Duplicate(s)
      BY <1>2
    <2> QED
      BY <1>2, <2>1 DEF RowClaim, New, Kind, Row, Id, Duplicate, LiveOf, Live
  <1>6. Ready(s)'
    BY <1>2 DEF Ready, PushReady, EraseReady, FollowReady
  <1>7. Lawful(s, {}, {})
    BY DEF Lawful
  <1> QED
    BY <1>2, <1>3, <1>4, <1>5, <1>6, <1>7 DEF Kept, Stepped

(* A claim that is granted lets its session go on.                         *)
LEMMA WakeKept ==
    ASSUME KeyInv, NEW s \in Sessions, Wake(s)
    PROVE  Kept(s, {}, {})
  <1>0. Shape /\ PlacedOf(s) /\ InsertReadyOf(s)
    BY DEF KeyInv, Placed, InsertReady
  <1>1. /\ pc[s] = "wait" /\ pc'[s] = want[s].at /\ want' = want /\ stmt' = stmt /\ doomed' = doomed /\ rows' = rows
        /\ race' = race /\ open' = open /\ held'[s] = held[s] \cup {want[s].claim} /\ Free(s, want[s].claim)
    BY <1>0 DEF Wake, Goto, Same, Shape
  <1>2. Turn(s)
    BY <1>0, <1>1 DEF Wake, Goto, Shape, Turn
  <1>3. Takes(s)
    BY <1>1 DEF Takes
  <1>4. Writes(s, {}, {})
    BY <1>1, NothingWritten
  <1>5. \A l : l # "wait" => (At(s, l)' => At(s, l))
    BY <1>1 DEF At
  <1>6. MidCascade(s) <=> MidCascade(s)'
    BY <1>1 DEF MidCascade
  <1>7. PlacedOf(s)'
    BY <1>0, <1>1, <1>5 DEF PlacedOf
  <1>8. InsertReadyOf(s)'
    <2> SUFFICES ASSUME At(s, "push") \/ At(s, "valued")
                 PROVE  (RowClaim(New(s)) \in held[s] /\ ~Duplicate(s))'
      BY <1>5 DEF InsertReadyOf
    <2>1. RowClaim(New(s)) \in held'[s] /\ ~Duplicate(s)
      BY <1>0, <1>1 DEF InsertReadyOf
    <2> QED
      BY <1>1, <2>1 DEF RowClaim, New, Kind, Row, Id, Duplicate, LiveOf, Live
  <1>9. ASSUME Ready(s)
        PROVE  Ready(s)'
    <2>1. PushReady(s)'
      BY <1>0, <1>1 DEF PushReady, PlacedOf
    <2>2. EraseReady(s)'
      BY <1>1, <1>5, <1>9 DEF Ready, EraseReady, ValueClaim, Child
    <2>3. FollowReady(s)'
      BY <1>1, <1>6, <1>9 DEF Ready, FollowReady, Parent, Id
    <2> QED
      BY <2>1, <2>2, <2>3 DEF Ready
  <1>10. Lawful(s, {}, {})
    BY <1>1, <1>6 DEF Lawful
  <1> QED
    BY <1>1, <1>2, <1>3, <1>4, <1>7, <1>8, <1>9, <1>10 DEF Kept, Stepped

(* A deadlock or the deadline ends a statement.                            *)
LEMMA GiveUpKept ==
    ASSUME KeyInv, NEW s \in Sessions, GiveUp(s)
    PROVE  Kept(s, {}, {})
  <1>1. Over(s, <<>>) /\ rows' = rows /\ Shape /\ race \subseteq race' /\ pc[s] = "wait"
        /\ (want[s].at = "follow" => race' # {})
    BY DEF GiveUp, KeyInv
  <1>2. Turn(s) /\ Takes(s) /\ PlacedOf(s)' /\ InsertReadyOf(s)' /\ Ready(s)'
    BY <1>1, Overs, NothingListed
  <1>3. Writes(s, {}, {})
    BY <1>1, NothingWritten
  <1>4. race' = {} => Lawful(s, {}, {})
    BY <1>1 DEF Lawful, MidCascade
  <1> QED
    BY <1>1, <1>2, <1>3, <1>4 DEF Kept, Stepped

(* The keys of live rows of p: finitely many.                              *)
LEMMA KeysAreFinite ==
    ASSUME Shape, NEW t, NEW K
    PROVE  IsFiniteSet({v.key : v \in LiveOf(t, K)})
  <1> DEFINE S == LiveOf(t, K)
             f == [v \in S |-> v.key]
  <1>1. IsFiniteSet(S)
    <2>1. S \subseteq rows /\ IsFiniteSet(rows)
      BY DEF LiveOf, Shape
    <2> QED
      BY <2>1, FS_Subset
  <1> HIDE DEF S
  <1>2. DOMAIN f = S /\ f = [x \in S |-> f[x]] /\ {f[x] : x \in S} = {v.key : v \in S}
    OBVIOUS
  <1> HIDE DEF f
  <1>3. IsFiniteSet({v.key : v \in S})
    BY <1>1, <1>2, ImageIsFinite
  <1> QED
    BY <1>3 DEF S

(* The start of a statement.                                               *)
LEMMA StartKept ==
    ASSUME KeyInv, NEW s \in Sessions, NEW st \in Menu, Start(s, st)
    PROVE  Kept(s, {}, {})
  <1>0. Shape
    BY DEF KeyInv
  <1>1. /\ pc[s] = "idle" /\ pc'[s] = st.op /\ stmt'[s] = st /\ rows' = rows /\ race' = race /\ open' = open /\ held' = held
        /\ want' = want
    BY <1>0 DEF Start, Goto, Shape
  <1>2. st.op \in {"insP", "insC", "updP", "updC", "delP", "delC"}
    BY IntegrityAssumption
  <1>3. IsFiniteSet(doomed'[s])
    <2>1. doomed'[s] = IF st.op = "delP" THEN {v.key : v \in LiveOf("p", st.keys)} ELSE {}
      BY <1>0 DEF Start, Shape
    <2> QED
      BY <1>0, <2>1, KeysAreFinite, FS_EmptySet
  <1>4. Turn(s)
    BY <1>0, <1>3 DEF Start, Goto, Shape, Turn
  <1>5. Takes(s)
    BY <1>1 DEF Takes
  <1>6. Writes(s, {}, {})
    BY <1>1, NothingWritten
  <1>7. \A l : At(s, l)' <=> l = st.op
    BY <1>1, <1>2 DEF At
  <1>8. PlacedOf(s)' /\ InsertReadyOf(s)'
    BY <1>1, <1>2, <1>7 DEF PlacedOf, InsertReadyOf
  <1>9. ~MidCascade(s) /\ ~MidCascade(s)'
    BY <1>1, <1>2 DEF MidCascade
  <1>10. Ready(s)'
    BY <1>1, <1>2, <1>7, <1>9 DEF Ready, PushReady, EraseReady, FollowReady
  <1>11. Lawful(s, {}, {})
    BY <1>9 DEF Lawful
  <1> QED
    BY <1>1, <1>4, <1>5, <1>6, <1>8, <1>10, <1>11 DEF Kept, Stepped

(* The claims of an INSERT.                                                *)
LEMMA InsertAsksFor ==
    ASSUME NEW s \in Sessions
    PROVE  LET cs == InsertClaims(s)
               T  == {RowClaim(New(s)), ValueClaim(stmt[s].ref, "S")}
           IN  /\ cs \in Seq(T) /\ 1 \in DOMAIN cs /\ cs[1] = RowClaim(New(s))
               /\ RowClaim(New(s)) \in ToSet(cs)
               /\ stmt[s].ref # Null => ValueClaim(stmt[s].ref, "S") \in ToSet(cs)
  <1> DEFINE a == RowClaim(New(s))
             b == ValueClaim(stmt[s].ref, "S")
             cs == InsertClaims(s)
  <1>1. CASE stmt[s].ref = Null
    <2>1. cs = <<a>>
      BY <1>1 DEF InsertClaims
    <2> HIDE DEF a, b, cs
    <2>2. cs \in Seq({a, b}) /\ DOMAIN cs = 1..1 /\ cs[1] = a
      BY <2>1
    <2>3. a \in ToSet(cs)
      BY <2>2 DEF ToSet
    <2> QED
      BY <1>1, <2>2, <2>3 DEF a, b, cs
  <1>2. CASE stmt[s].ref # Null
    <2>1. cs = <<a>> \o <<b>>
      BY <1>2 DEF InsertClaims
    <2> HIDE DEF a, b, cs
    <2> DEFINE c == <<a>>
               d == <<b>>
    <2>2. /\ c \in Seq({a}) /\ d \in Seq({b}) /\ c[1] = a /\ Len(c) = 1 /\ ToSet(c) = {a} /\ ToSet(d) = {b}
          /\ cs = c \o d
      BY <2>1, OneListed
    <2>3. c \in Seq({a, b}) /\ d \in Seq({a, b})
      OBVIOUS
    <2> HIDE DEF c, d
    <2>4. Len(c) > 0
      BY <2>2
    <2>5. c \o d \in Seq({a, b}) /\ ToSet(c \o d) = ToSet(c) \cup ToSet(d)
      BY <2>3, Concatenated
    <2>6. Len(c) > 0 => 1 \in DOMAIN (c \o d) /\ (c \o d)[1] = c[1]
      BY <2>3, FirstListed
    <2>7. cs \in Seq({a, b}) /\ ToSet(cs) = {a} \cup {b} /\ 1 \in DOMAIN cs /\ cs[1] = a
      BY <2>2, <2>4, <2>5, <2>6, Zenon
    <2>8. {a} \cup {b} = {a, b}
      OBVIOUS
    <2> QED
      BY <2>7, <2>8 DEF a, b, cs
  <1> QED
    BY <1>1, <1>2

(* An INSERT claims its key and looks for it, then its reference.          *)
LEMMA PrepareKept ==
    ASSUME KeyInv, NEW s \in Sessions, Prepare(s)
    PROVE  Kept(s, {}, {})
  <1> DEFINE cs == InsertClaims(s)
             T  == {RowClaim(New(s)), ValueClaim(stmt[s].ref, "S")}
  <1>0. Shape /\ ClaimsApart /\ PlacedOf(s) /\ InsertReadyOf(s)
    BY DEF KeyInv, Placed, InsertReady
  <1>1. pc[s] \in {"insP", "insC", "keyed", "valued"}
    BY DEF Prepare
  <1>2. ~MidCascade(s)
    BY <1>1 DEF MidCascade
  <1>3. /\ cs \in Seq(T) /\ 1 \in DOMAIN cs /\ cs[1] = RowClaim(New(s)) /\ RowClaim(New(s)) \in ToSet(cs)
        /\ stmt[s].ref # Null => ValueClaim(stmt[s].ref, "S") \in ToSet(cs)
    BY InsertAsksFor
  <1> DEFINE Twice == \/ pc[s] \in {"insP", "insC"} /\ (Duplicate(s) \/ ~HasParent(stmt[s].ref))
                      \/ pc[s] = "keyed" /\ Duplicate(s)
  <1> HIDE DEF cs, T
  <1>4. CASE Twice
    <2>1. Refuse(s, <<>>)
      BY <1>4 DEF Prepare
    <2> QED
      BY <1>2, <2>1, RefuseKept, NothingListed
  <1>5. CASE ~Twice
    <2>1. ~Duplicate(s)
      BY <1>0, <1>1, <1>5 DEF InsertReadyOf, At
    <2>2. CASE ~Granted(s, cs)
      <3> DEFINE at == IF ~Free(s, RowClaim(New(s))) THEN "keyed" ELSE "valued"
      <3>1. WaitFor(s, cs, at) /\ UNCHANGED <<rows, stmt, doomed, race>> /\ Same
        BY <1>5, <2>2 DEF Prepare, cs
      <3>2. at = "valued" => Free(s, RowClaim(New(s)))
        OBVIOUS
      <3>3. at \in {"keyed", "valued"}
        OBVIOUS
      <3> HIDE DEF at
      <3>4. ASSUME at = "valued"
            PROVE  \E i \in Reached(s, cs) : cs[i] = RowClaim(New(s))
        <4>1. \A j \in 1..1 : Free(s, cs[j])
          BY <1>3, <3>2, <3>4
        <4>2. 1 \in Reached(s, cs)
          BY <1>3, <4>1 DEF Reached
        <4> QED
          BY <1>3, <4>2
      <3>5. at \notin {"wait", "push", "erase", "follow"} /\ at \notin {"updP", "updC", "delP", "delC"}
        BY <3>3
      <3> QED
        BY <1>2, <1>3, <2>1, <3>1, <3>4, <3>5, WaitKept
    <2>3. CASE Granted(s, cs) /\ ~HasParent(stmt[s].ref)
      <3>1. Refuse(s, cs)
        BY <1>5, <2>3 DEF Prepare, cs
      <3>2. \A c \in ToSet(cs) : Free(s, c)
        BY <1>3, <2>3, ClaimsGranted
      <3> QED
        BY <1>2, <3>1, <3>2, RefuseKept
    <2>4. CASE Granted(s, cs) /\ HasParent(stmt[s].ref)
      <3>1. /\ Claim(s, cs) /\ Goto(s, "push") /\ UNCHANGED <<rows, stmt, want, doomed>> /\ Same
            /\ race' = race \cup (IF Borrowed(s, stmt[s].ref) THEN {"borrowed"} ELSE {})
        BY <1>5, <2>4 DEF Prepare, cs
      <3>2. DOMAIN doomed' = Sessions /\ doomed' = doomed /\ IsFiniteSet(doomed[s])
        BY <1>0, <3>1 DEF Shape
      <3>3. /\ Turn(s) /\ Takes(s) /\ stmt' = stmt /\ open' = open
            /\ \A m : m # "wait" => (At(s, m)' <=> m = "push")
            /\ MidCascade(s)' <=> "push" = "follow"
            /\ pc'[s] = "push"
            /\ ToSet(cs) \subseteq held'[s]
        BY <1>0, <1>3, <2>4, <3>1, <3>2, Goes
      <3>4. Writes(s, {}, {})
        BY <3>1, NothingWritten
      <3>5. PlacedOf(s)'
        BY <3>3 DEF PlacedOf
      <3>6. InsertReadyOf(s)'
        <4>1. RowClaim(New(s)) \in held'[s]
          BY <1>3, <3>3
        <4>2. (RowClaim(New(s)) \in held[s] /\ ~Duplicate(s))'
          BY <2>1, <3>1, <3>3, <4>1 DEF RowClaim, New, Kind, Row, Id, Duplicate, LiveOf, Live
        <4> QED
          BY <4>2 DEF InsertReadyOf
      <3>7. ASSUME race' = {}
            PROVE  Ready(s)'
        <4>1. PushReady(s)'
          <5> SUFFICES ASSUME stmt[s].ref # Null
                       PROVE  (/\ ValueClaim(stmt[s].ref, "S") \in held[s]
                               /\ \E p \in rows : Parent(p, stmt[s].ref) /\ p.xmax = Zero /\ p.xmin \in {Zero, s})'
            BY <3>3 DEF PushReady
          <5>1. ~Borrowed(s, stmt[s].ref)
            BY <3>1, <3>7
          <5>2. \E p \in rows : p.tab = "p" /\ p.key = stmt[s].ref /\ p.xmax = Zero /\ p.xmin \in {Zero, s}
            BY <5>1 DEF Borrowed, LiveOf, Live
          <5>3. ValueClaim(stmt[s].ref, "S") \in held'[s]
            BY <1>3, <3>3
          <5> QED
            BY <3>1, <5>2, <5>3 DEF Parent, ValueClaim
        <4>2. EraseReady(s)' /\ FollowReady(s)'
          BY <3>3 DEF EraseReady, FollowReady
        <4> QED
          BY <4>1, <4>2 DEF Ready
      <3>8. Lawful(s, {}, {})
        BY <1>2 DEF Lawful
      <3>9. race \subseteq race'
        BY <3>1
      <3> QED
        BY <3>3, <3>4, <3>5, <3>6, <3>7, <3>8, <3>9 DEF Kept, Stepped
    <2> QED
      BY <2>2, <2>3, <2>4
  <1> QED
    BY <1>4, <1>5

(* An INSERT pushes its row.                                               *)
LEMMA PushKept ==
    ASSUME KeyInv, NEW s \in Sessions, Push(s)
    PROVE  Kept(s, {}, {New(s)})
  <1> DEFINE w == New(s)
  <1>0. Shape /\ ClaimsApart /\ PlacedOf(s) /\ InsertReadyOf(s) /\ UndecidedIsClaimed /\ open \in [Sessions -> BOOLEAN]
    BY DEF KeyInv, Placed, InsertReady, Shape
  <1>1. pc[s] = "push" /\ Write(s, {}, {w}) /\ Over(s, <<>>) /\ race' = race
    BY DEF Push
  <1>2. Turn(s) /\ Takes(s) /\ PlacedOf(s)' /\ InsertReadyOf(s)' /\ Ready(s)' /\ (open[s] => held[s] \subseteq held'[s])
    BY <1>0, <1>1, Overs, NothingListed
  <1>3. RowClaim(w) \in held[s] /\ ~Duplicate(s)
    BY <1>0, <1>1 DEF InsertReadyOf, At
  <1>4. /\ w.tab = Kind(s) /\ w.key = stmt[s].key /\ w.ref = stmt[s].ref /\ w.xmin = Id(s)
        /\ w = Row(w.tab, w.key, w.ref, Id(s))
    BY <1>0, RowIsFormed DEF New
  <1> HIDE DEF w
  <1>5. Free(s, RowClaim(w))
    BY <1>0, <1>3, HeldIsFree
  <1>6. \A v \in rows : v.tab = w.tab /\ v.key = w.key => v.xmax # Zero
    BY <1>3, <1>4 DEF Duplicate, LiveOf, Live
  <1>7. IsFiniteSet({w})
    BY FS_Singleton
  <1>8. Writes(s, {}, {w})
    BY <1>1, <1>2, <1>3, <1>4, <1>5, <1>6, <1>7 DEF Writes
  <1>9. ASSUME Ready(s)
        PROVE  Lawful(s, {}, {w})
    <2>1. ~MidCascade(s)
      BY <1>1 DEF MidCascade
    <2>2. ASSUME Child(w)
          PROVE  /\ Free(s, ValueClaim(w.ref, "S"))
                 /\ \E p \in rows' : Parent(p, w.ref) /\ p.xmax = Zero /\ p.xmin \in {Zero, Id(s)}
      <3>1. stmt[s].ref # Null
        BY <1>4, <2>2 DEF Child
      <3>2. ValueClaim(w.ref, "S") \in held[s]
        BY <1>1, <1>4, <1>9, <3>1 DEF Ready, PushReady
      <3>3. PICK p \in rows : Parent(p, w.ref) /\ p.xmax = Zero /\ p.xmin \in {Zero, s}
        BY <1>1, <1>4, <1>9, <3>1 DEF Ready, PushReady
      <3>4. p.xmin \in {Zero, Id(s)}
        BY <1>0, <3>3 DEF UndecidedIsClaimed, Id
      <3>5. p \in rows'
        BY <1>1, AfterWrite
      <3>6. Free(s, ValueClaim(w.ref, "S"))
        BY <1>0, <3>2, HeldIsFree
      <3> QED
        BY <3>3, <3>4, <3>5, <3>6
    <2> QED
      BY <2>1, <2>2 DEF Lawful, Sharing
  <1>10. Kept(s, {}, {w})
    BY <1>1, <1>2, <1>8, <1>9 DEF Kept, Stepped
  <1> QED
    BY <1>10 DEF w

(* The claims of an UPDATE besides its rows.                               *)
LEMMA UpdateAsksFor ==
    ASSUME NEW s \in Sessions, stmt[s].op \in {"updP", "updC"}
    PROVE  /\ \E T : UpdateClaims(s) \in Seq(T)
           /\ stmt[s].op = "updP" => /\ <<<<"p", stmt[s].to>>, "X">> \in ToSet(UpdateClaims(s))
                                     /\ ValueClaim(stmt[s].key, "X") \in ToSet(UpdateClaims(s))
           /\ Referring(s) /\ stmt[s].to # Null => ValueClaim(stmt[s].to, "S") \in ToSet(UpdateClaims(s))
  <1>1. CASE stmt[s].op = "updP"
    <2> DEFINE a == <<<<"p", stmt[s].to>>, "X">>
               b == ValueClaim(stmt[s].key, "X")
    <2>1. UpdateClaims(s) = <<a, b>>
      BY <1>1 DEF UpdateClaims
    <2> HIDE DEF a, b
    <2>2. UpdateClaims(s) \in Seq({a, b}) /\ ToSet(UpdateClaims(s)) = {a, b}
      BY <2>1, PairListed
    <2>3. a \in ToSet(UpdateClaims(s)) /\ b \in ToSet(UpdateClaims(s))
      BY <2>2
    <2> QED
      BY <1>1, <2>2, <2>3 DEF a, b, Referring
  <1>2. CASE stmt[s].op = "updC" /\ Referring(s) /\ stmt[s].to # Null
    <2> DEFINE a == ValueClaim(stmt[s].to, "S")
    <2>1. UpdateClaims(s) = <<a>>
      BY <1>2 DEF UpdateClaims
    <2> HIDE DEF a
    <2>2. UpdateClaims(s) \in Seq({a}) /\ ToSet(UpdateClaims(s)) = {a}
      BY <2>1, OneListed
    <2>3. a \in ToSet(UpdateClaims(s))
      BY <2>2
    <2> QED
      BY <1>2, <2>2, <2>3 DEF a
  <1>3. CASE stmt[s].op = "updC" /\ ~(Referring(s) /\ stmt[s].to # Null)
    <2>1. UpdateClaims(s) = <<>>
      BY <1>3 DEF UpdateClaims
    <2> QED
      BY <1>3, <2>1, NothingListed
  <1> QED
    BY <1>1, <1>2, <1>3

(* The rows an UPDATE has found and claimed are live.                      *)
LEMMA TargetsAreLive ==
    ASSUME KeyInv, NEW s \in Sessions, NEW v \in Targets(s), Free(s, RowClaim(v))
    PROVE  v \in rows /\ v.xmax = Zero
  <1>1. v \in rows /\ v.xmax # s /\ Shape /\ UndecidedIsClaimed
    BY DEF Targets, Seen, KeyInv
  <1>2. v.xmax \in {Zero, s}
    BY <1>1, FreeIsOwn
  <1> QED
    BY <1>1, <1>2

(* An UPDATE of children.                                                  *)
LEMMA UpdateChildKept ==
    ASSUME KeyInv, NEW s \in Sessions, pc[s] = "updC", stmt[s].op = "updC",
           NEW T, T = Targets(s), NEW cs, Over(s, cs), \A c \in ToSet(cs) : Free(s, c),
           \A v \in T : RowClaim(v) \in ToSet(cs),
           Referring(s) /\ stmt[s].to # Null => ValueClaim(stmt[s].to, "S") \in ToSet(cs),
           ~UpdateRefused(s), NEW W, W = {Updated(s, v) : v \in T}, Write(s, T, W),
           race' = race \cup (IF Referring(s) /\ Borrowed(s, stmt[s].to) THEN {"borrowed"} ELSE {})
    PROVE  Kept(s, T, W)
  <1>0. Shape /\ UndecidedIsClaimed /\ open \in [Sessions -> BOOLEAN]
    BY DEF KeyInv, Shape
  <1>1. /\ Turn(s) /\ Takes(s) /\ PlacedOf(s)' /\ InsertReadyOf(s)' /\ Ready(s)'
        /\ open[s] => ToSet(cs) \subseteq held'[s]
    BY <1>0, Overs
  <1>2. \A v \in T : v \in rows /\ v.tab = "c" /\ v.xmax = Zero
    <2> SUFFICES ASSUME NEW v \in T
                 PROVE  v \in rows /\ v.tab = "c" /\ v.xmax = Zero
      OBVIOUS
    <2>1. v.tab = "c"
      BY DEF Targets
    <2> QED
      BY <2>1, TargetsAreLive
  <1>3. W = {Row("c", v.key, stmt[s].to, Id(s)) : v \in T}
    BY DEF Updated
  <1>4. Writes(s, T, W)
    <2>1. T \subseteq rows
      BY <1>2
    <2> QED
      BY <1>1, <1>2, <1>3, <2>1, Rewrites
  <1>5. ASSUME race' = {}
        PROVE  Lawful(s, T, W)
    <2>1. ~MidCascade(s)
      BY DEF MidCascade
    <2>2. \A v \in T : v.tab # "p"
      BY <1>2
    <2>3. ASSUME NEW w \in W, Child(w)
          PROVE  Sharing(s, w) \/ Rewriting(s, T, w)
      <3>0. PICK v \in T : w = Row("c", v.key, stmt[s].to, Id(s))
        BY <1>3
      <3>1. w.ref = stmt[s].to
        BY <1>0, <3>0, RowIsFormed
      <3>2. stmt[s].to # Null
        BY <2>3, <3>1 DEF Child
      <3>3. CASE Referring(s)
        <4>1. ~Borrowed(s, stmt[s].to)
          BY <1>5, <3>3
        <4>2. PICK p \in rows : p.tab = "p" /\ p.key = stmt[s].to /\ p.xmax = Zero /\ p.xmin \in {Zero, s}
          BY <3>2, <4>1 DEF Borrowed, LiveOf, Live
        <4>3. p.xmin \in {Zero, Id(s)}
          BY <1>0, <4>2 DEF UndecidedIsClaimed, Id
        <4>4. p \in rows'
          BY <2>2, <4>2, AfterWrite
        <4> QED
          BY <3>1, <3>2, <3>3, <4>2, <4>3, <4>4 DEF Parent, Sharing
      <3>4. CASE ~Referring(s)
        <4>1. v.ref = stmt[s].to /\ v \in rows /\ v.tab = "c"
          BY <1>2, <3>4 DEF Referring
        <4>2. v.xmin \in {Zero, s}
          BY DEF Targets, Seen
        <4>3. v.xmin \in {Zero, Id(s)}
          BY <1>0, <4>1, <4>2 DEF UndecidedIsClaimed, Id
        <4> QED
          BY <2>1, <2>2, <3>1, <3>2, <4>1, <4>3 DEF Rewriting, Child
      <3> QED
        BY <3>3, <3>4
    <2> QED
      BY <2>1, <2>2, <2>3 DEF Lawful
  <1>6. race \subseteq race'
    OBVIOUS
  <1> QED
    BY <1>1, <1>4, <1>5, <1>6 DEF Kept, Stepped

(* An UPDATE of a parent's key.                                            *)
LEMMA UpdateParentKept ==
    ASSUME KeyInv, NEW s \in Sessions, pc[s] = "updP", stmt[s].op = "updP",
           NEW T, T = Targets(s), T # {}, NEW S, NEW cs \in Seq(S), Granted(s, cs), Claim(s, cs),
           \A v \in T : RowClaim(v) \in ToSet(cs),
           <<<<"p", stmt[s].to>>, "X">> \in ToSet(cs), ValueClaim(stmt[s].key, "X") \in ToSet(cs),
           LiveOf("p", {stmt[s].to}) = {}, NEW W, W = {Updated(s, v) : v \in T}, Write(s, T, W),
           race' = race, doomed' = [doomed EXCEPT ![s] = {stmt[s].key}], Goto(s, "follow"),
           UNCHANGED <<stmt, want>>, Same
    PROVE  Kept(s, T, W)
  <1> DEFINE w == Row("p", stmt[s].to, Null, Id(s))
             K == {stmt[s].key}
  <1>0. Shape /\ UndecidedIsClaimed /\ open \in [Sessions -> BOOLEAN]
    BY DEF KeyInv, Shape
  <1>1. IsFiniteSet(K) /\ DOMAIN doomed' = Sessions /\ doomed'[s] = K /\ \A r \in Sessions \ {s} : doomed'[r] = doomed[r]
    BY <1>0, FS_Singleton DEF Shape
  <1> HIDE DEF K
  <1>2. /\ Turn(s) /\ Takes(s) /\ stmt' = stmt /\ open' = open
        /\ \A m : m # "wait" => (At(s, m)' <=> m = "follow")
        /\ MidCascade(s)' /\ pc'[s] = "follow"
        /\ ToSet(cs) \subseteq held'[s]
    BY <1>0, <1>1, Goes
  <1>3. \A c \in ToSet(cs) : Free(s, c)
    BY ClaimsGranted
  <1>4. \A v \in T : v \in rows /\ v.tab = "p" /\ v.key = stmt[s].key /\ v.xmax = Zero
    <2> SUFFICES ASSUME NEW v \in T
                 PROVE  v \in rows /\ v.tab = "p" /\ v.key = stmt[s].key /\ v.xmax = Zero
      OBVIOUS
    <2>1. v.tab = "p" /\ v.key = stmt[s].key
      BY DEF Targets
    <2> QED
      BY <1>3, <2>1, TargetsAreLive
  <1>5. W = {w}
    BY DEF Updated
  <1>6. w.tab = "p" /\ w.key = stmt[s].to /\ w.xmin = Id(s) /\ w.xmax = Zero /\ w = Row(w.tab, w.key, w.ref, Id(s))
    BY <1>0, RowIsFormed
  <1> HIDE DEF w
  <1>7. RowClaim(w) = <<<<"p", stmt[s].to>>, "X">>
    BY <1>6 DEF RowClaim
  <1>8. \A v \in rows : v.tab = w.tab /\ v.key = w.key => v.xmax # Zero
    BY <1>6 DEF LiveOf, Live
  <1>9. Writes(s, T, W)
    <2>1. T \subseteq rows /\ \A v \in T : v.xmax = Zero
      BY <1>4
    <2>2. IsFiniteSet(W)
      BY <1>5, FS_Singleton
    <2>3. RowClaim(w) \in held'[s] /\ Free(s, RowClaim(w)) /\ \A v \in T : RowClaim(v) \in held'[s]
      BY <1>2, <1>3, <1>7
    <2> QED
      BY <1>5, <1>6, <1>8, <2>1, <2>2, <2>3 DEF Writes
  <1>10. Lawful(s, T, W)
    <2>1. ~MidCascade(s)
      BY DEF MidCascade
    <2>2. \A v \in T : Free(s, ValueClaim(v.key, "X")) /\ Free(s, RowClaim(v)) /\ v.key \in doomed'[s]
      BY <1>1, <1>3, <1>4 DEF K
    <2>3. \A x \in W : ~Child(x)
      BY <1>5, <1>6 DEF Child
    <2> QED
      BY <1>2, <2>1, <2>2, <2>3 DEF Lawful
  <1>11. PlacedOf(s)' /\ InsertReadyOf(s)'
    BY <1>2 DEF PlacedOf, InsertReadyOf
  <1>12. Ready(s)'
    <2>1. w \in rows' /\ w.tab = "p" /\ w.key = stmt'[s].to /\ w.xmax = Zero /\ w.xmin = Id(s)'
      BY <1>2, <1>5, <1>6, AfterWrite DEF Id
    <2>2. <<<<"p", stmt[s].to>>, "X">> \in held'[s]
      BY <1>2
    <2>3. FollowReady(s)'
      BY <1>2, <2>1, <2>2 DEF FollowReady, Parent
    <2>4. PushReady(s)' /\ EraseReady(s)'
      BY <1>2 DEF PushReady, EraseReady
    <2> QED
      BY <2>3, <2>4 DEF Ready
  <1> QED
    BY <1>2, <1>9, <1>10, <1>11, <1>12 DEF Kept, Stepped

(* UPDATE of a parent or a child.                                          *)
LEMMA UpdateKept ==
    ASSUME KeyInv, NEW s \in Sessions, Update(s)
    PROVE  \E V, W : Kept(s, V, W)
  <1> DEFINE T  == Targets(s)
             R  == {RowClaim(v) : v \in T}
             cs == SetToSeq(R)
             us == UpdateClaims(s)
             ds == cs \o us
  <1>0. Shape /\ PlacedOf(s)
    BY DEF KeyInv, Placed
  <1>1. pc[s] \in {"updP", "updC"} /\ stmt[s].op = pc[s]
    BY <1>0 DEF Update, PlacedOf, At
  <1>2. ~MidCascade(s)
    BY <1>1 DEF MidCascade
  <1>3. IsFiniteSet(T)
    <2>1. T \subseteq rows /\ IsFiniteSet(rows)
      BY <1>0 DEF Targets, Shape
    <2> QED
      BY <2>1, FS_Subset
  <1>4. cs \in Seq(R) /\ ToSet(cs) = R
    BY <1>3, RowClaimsListed
  <1>5. PICK U : us \in Seq(U)
    BY <1>1, UpdateAsksFor
  <1> DEFINE Found   == T # {}
             Mine    == Granted(s, cs)
             Allowed == ~UpdateRefused(s)
             All     == Granted(s, ds)
             Taken2  == stmt[s].op = "updP" /\ LiveOf("p", {stmt[s].to}) # {}
  <1>6. IF ~Found THEN Refuse(s, <<>>)
        ELSE IF ~Mine THEN WaitFor(s, cs, stmt[s].op) /\ UNCHANGED <<rows, stmt, doomed, race>> /\ Same
        ELSE IF ~Allowed THEN Refuse(s, cs)
        ELSE IF ~All THEN WaitFor(s, ds, stmt[s].op) /\ UNCHANGED <<rows, stmt, doomed, race>> /\ Same
        ELSE IF Taken2 THEN Refuse(s, ds)
        ELSE /\ Write(s, T, {Updated(s, v) : v \in T})
             /\ race' = race \cup (IF Referring(s) /\ Borrowed(s, stmt[s].to) THEN {"borrowed"} ELSE {})
             /\ IF stmt[s].op = "updC" THEN Over(s, ds)
                ELSE /\ Claim(s, ds)
                     /\ doomed' = [doomed EXCEPT ![s] = {stmt[s].key}]
                     /\ Goto(s, "follow")
                     /\ UNCHANGED <<stmt, want>> /\ Same
    BY DEF Update
  <1> HIDE DEF cs, us
  <1>7. Lists(ds, R \cup ToSet(us))
    <2>1. Lists(cs, R)
      BY <1>4 DEF Lists
    <2>2. Lists(us, ToSet(us))
      BY <1>5 DEF Lists
    <2> HIDE DEF R
    <2> QED
      BY <2>1, <2>2, ListsJoin
  <1>8. PICK D : ds \in Seq(D)
    BY <1>7 DEF Lists
  <1>9. ToSet(ds) = R \cup ToSet(us)
    BY <1>7 DEF Lists
  <1>10. All => \A c \in ToSet(ds) : Free(s, c)
    BY <1>8, ClaimsGranted
  <1>11. Mine => \A c \in ToSet(cs) : Free(s, c)
    BY <1>4, ClaimsGranted
  <1>12. ASSUME NEW S, NEW as \in Seq(S), WaitFor(s, as, stmt[s].op), UNCHANGED <<rows, stmt, doomed, race>>, Same
         PROVE  Kept(s, {}, {})
    <2> DEFINE at == stmt[s].op
    <2>1. at \notin {"wait", "push", "erase", "follow"} /\ at # "valued"
      BY <1>1
    <2> HIDE DEF at
    <2>2. WaitFor(s, as, at) /\ at = stmt[s].op
      BY <1>12 DEF at
    <2> QED
      BY <1>2, <1>12, <2>1, <2>2, WaitKept
  <1>13. \A v \in T : RowClaim(v) \in ToSet(ds)
    BY <1>9
  <1>14. /\ stmt[s].op = "updP" => /\ <<<<"p", stmt[s].to>>, "X">> \in ToSet(us)
                                   /\ ValueClaim(stmt[s].key, "X") \in ToSet(us)
         /\ Referring(s) /\ stmt[s].to # Null => ValueClaim(stmt[s].to, "S") \in ToSet(us)
    BY <1>1, UpdateAsksFor DEF us
  <1> HIDE DEF ds, R, T, Mine, Allowed, All, Taken2
  <1>15. CASE ~Found
    BY <1>2, <1>6, <1>15, RefuseKept, NothingListed
  <1>16. CASE Found /\ ~Mine
    BY <1>4, <1>6, <1>12, <1>16
  <1>17. CASE Found /\ Mine /\ ~Allowed
    BY <1>2, <1>6, <1>11, <1>17, RefuseKept
  <1>18. CASE Found /\ Mine /\ Allowed /\ ~All
    BY <1>8, <1>6, <1>12, <1>18
  <1>19. CASE Found /\ Mine /\ Allowed /\ All /\ Taken2
    BY <1>2, <1>6, <1>10, <1>19, RefuseKept
  <1>20. CASE Found /\ Mine /\ Allowed /\ All /\ ~Taken2 /\ stmt[s].op = "updC"
    <2> DEFINE W == {Updated(s, v) : v \in T}
    <2>1. /\ Over(s, ds) /\ Write(s, T, W)
          /\ race' = race \cup (IF Referring(s) /\ Borrowed(s, stmt[s].to) THEN {"borrowed"} ELSE {})
      BY <1>6, <1>20
    <2>2. T = Targets(s) /\ ~UpdateRefused(s)
      BY <1>20 DEF T, Allowed
    <2>3. pc[s] = "updC" /\ stmt[s].op = "updC"
      BY <1>1, <1>20
    <2>4. Referring(s) /\ stmt[s].to # Null => ValueClaim(stmt[s].to, "S") \in ToSet(ds)
      BY <1>9, <1>14, <1>20
    <2>5. W = {Updated(s, v) : v \in T}
      OBVIOUS
    <2> HIDE DEF W
    <2>6. \A c \in ToSet(ds) : Free(s, c)
      BY <1>10, <1>20
    <2>7. Kept(s, T, W)
      BY <1>13, <2>1, <2>2, <2>3, <2>4, <2>5, <2>6, UpdateChildKept
    <2> QED
      BY <2>7
  <1>21. CASE Found /\ Mine /\ Allowed /\ All /\ ~Taken2 /\ stmt[s].op = "updP"
    <2> DEFINE W == {Updated(s, v) : v \in T}
    <2>1. /\ Claim(s, ds) /\ Write(s, T, W) /\ race' = race
          /\ doomed' = [doomed EXCEPT ![s] = {stmt[s].key}]
          /\ Goto(s, "follow")
          /\ UNCHANGED <<stmt, want>> /\ Same
      BY <1>6, <1>21 DEF Referring
    <2>2. T = Targets(s) /\ T # {} /\ Granted(s, ds) /\ LiveOf("p", {stmt[s].to}) = {}
      BY <1>21 DEF T, All, Taken2
    <2>3. pc[s] = "updP" /\ stmt[s].op = "updP"
      BY <1>1, <1>21
    <2>4. <<<<"p", stmt[s].to>>, "X">> \in ToSet(ds) /\ ValueClaim(stmt[s].key, "X") \in ToSet(ds)
      BY <1>9, <1>14, <1>21
    <2>5. W = {Updated(s, v) : v \in T}
      OBVIOUS
    <2> HIDE DEF W
    <2>7. Kept(s, T, W)
      BY <1>8, <1>13, <2>1, <2>2, <2>3, <2>4, <2>5, UpdateParentKept
    <2> QED
      BY <2>7
  <1> QED
    BY <1>1, <1>15, <1>16, <1>17, <1>18, <1>19, <1>20, <1>21

(* The cascade of an UPDATE reaches the children.                          *)
LEMMA FollowKept ==
    ASSUME KeyInv, NEW s \in Sessions, Follow(s)
    PROVE  \E V, W : Kept(s, V, W)
  <1> DEFINE kids == ChildrenOf(doomed[s])
             R    == {RowClaim(v) : v \in kids}
             cs   == SetToSeq(R)
             to   == IF rule.upd = "cascade" THEN stmt[s].to ELSE Null
             W    == {Row("c", v.key, to, Id(s)) : v \in kids}
  <1>0. Shape /\ UndecidedIsClaimed /\ open \in [Sessions -> BOOLEAN] /\ PlacedOf(s) /\ DOMAIN doomed = Sessions
    BY DEF KeyInv, Shape, Placed
  <1>1. pc[s] = "follow" /\ MidCascade(s)
    BY DEF Follow, MidCascade
  <1>2. kids \subseteq rows /\ \A v \in kids : v.tab = "c" /\ v.xmax = Zero
    BY DEF ChildrenOf, Live
  <1>3. cs \in Seq(R) /\ ToSet(cs) = R
    <2>1. IsFiniteSet(kids)
      BY <1>0, <1>2, FS_Subset DEF Shape
    <2> QED
      BY <2>1, RowClaimsListed
  <1>4. IF rule.upd = "restrict" /\ kids # {}
        THEN Over(s, <<>>) /\ race' = race \cup {"late"} /\ UNCHANGED rows
        ELSE IF ~Granted(s, cs) THEN WaitFor(s, cs, "follow") /\ UNCHANGED <<rows, stmt, doomed, race>> /\ Same
        ELSE /\ Write(s, kids, W)
             /\ Over(s, cs)
             /\ race' = race
                  \cup (IF MayReturn(s, doomed[s]) THEN {"revived"} ELSE {})
                  \cup (IF rule.upd = "cascade" /\ kids # {} /\ ~Free(s, ValueClaim(stmt[s].to, "S")) THEN {"moved"} ELSE {})
    BY DEF Follow
  <1>5. \A x \in rows \ kids : Child(x) /\ x.ref \in doomed[s] => x.xmax # Zero
    BY DEF ChildrenOf, Live, Child
  <1> HIDE DEF cs
  <1>6. CASE rule.upd = "restrict" /\ kids # {}
    <2>1. Over(s, <<>>) /\ race' # {} /\ rows' = rows /\ race \subseteq race'
      BY <1>4, <1>6
    <2>2. Turn(s) /\ Takes(s) /\ PlacedOf(s)' /\ InsertReadyOf(s)'
      BY <1>0, <2>1, Overs, NothingListed
    <2>3. Writes(s, {}, {})
      BY <2>1, NothingWritten
    <2>4. Kept(s, {}, {})
      BY <2>1, <2>2, <2>3 DEF Kept, Stepped
    <2> QED
      BY <2>4
  <1>7. CASE ~(rule.upd = "restrict" /\ kids # {}) /\ ~Granted(s, cs)
    <2>1. WaitFor(s, cs, "follow") /\ UNCHANGED <<rows, stmt, doomed, race>> /\ Same
      BY <1>4, <1>7
    <2> HIDE DEF R
    <2>2. /\ Turn(s) /\ Takes(s) /\ stmt' = stmt /\ doomed' = doomed /\ open' = open
          /\ \A l : l # "wait" => (At(s, l)' <=> l = "follow")
          /\ MidCascade(s)'
          /\ pc'[s] = "wait" /\ want'[s].at = "follow"
          /\ held[s] \subseteq held'[s]
      BY <1>0, <1>3, <2>1, Waits
    <2>3. Writes(s, {}, {})
      BY <2>1, NothingWritten
    <2>4. PlacedOf(s)' /\ InsertReadyOf(s)'
      BY <2>2 DEF PlacedOf, InsertReadyOf
    <2>5. Ready(s) => Ready(s)'
      <3>1. PushReady(s)' /\ EraseReady(s)'
        BY <2>2 DEF PushReady, EraseReady
      <3>2. FollowReady(s) => FollowReady(s)'
        BY <1>1, <2>1, <2>2 DEF FollowReady, Parent, Id
      <3> QED
        BY <3>1, <3>2 DEF Ready
    <2>6. Lawful(s, {}, {})
      BY <2>2 DEF Lawful
    <2>7. race' = race
      BY <2>1
    <2>8. Kept(s, {}, {})
      BY <2>2, <2>3, <2>4, <2>5, <2>6, <2>7 DEF Kept, Stepped
    <2> QED
      BY <2>8
  <1>8. CASE ~(rule.upd = "restrict" /\ kids # {}) /\ Granted(s, cs)
    <2>1. /\ Write(s, kids, W)
          /\ Over(s, cs)
          /\ race \subseteq race'
          /\ race' = {} => ~MayReturn(s, doomed[s])
          /\ race' = {} /\ rule.upd = "cascade" /\ kids # {} => Free(s, ValueClaim(stmt[s].to, "S"))
      BY <1>4, <1>8
    <2>2. \A c \in ToSet(cs) : Free(s, c)
      BY <1>3, <1>8, ClaimsGranted
    <2>3. /\ Turn(s) /\ Takes(s) /\ PlacedOf(s)' /\ InsertReadyOf(s)' /\ Ready(s)'
          /\ open[s] => ToSet(cs) \subseteq held'[s]
      BY <1>0, <2>1, <2>2, Overs
    <2>4. \A v \in kids : Free(s, RowClaim(v)) /\ (open[s] => RowClaim(v) \in held'[s])
      BY <1>3, <2>2, <2>3
    <2>5. W = {Row("c", v.key, to, Id(s)) : v \in kids}
      OBVIOUS
    <2>6. \A w \in W : w.ref = to /\ kids # {}
      BY <1>0, RowIsFormed
    <2> HIDE DEF W, R, kids
    <2>7. Writes(s, kids, W)
      BY <1>2, <2>1, <2>4, <2>5, Rewrites
    <2>8. ASSUME race' = {}, Ready(s)
          PROVE  Lawful(s, kids, W)
      <3>1. \A x \in rows \ kids : Child(x) /\ x.ref \in doomed[s] => x.xmax = s
        BY <1>5, <2>1, <2>8 DEF MayReturn, Child
      <3>2. ASSUME NEW w \in W, Child(w)
            PROVE  /\ Free(s, ValueClaim(w.ref, "S"))
                   /\ \E p \in rows' : Parent(p, w.ref) /\ p.xmax = Zero /\ p.xmin \in {Zero, Id(s)}
        <4>1. w.ref = stmt[s].to /\ rule.upd = "cascade" /\ kids # {}
          BY <2>6, <3>2 DEF Child
        <4>2. PICK p \in rows : Parent(p, stmt[s].to) /\ p.xmax = Zero /\ p.xmin = Id(s)
          BY <1>1, <2>8 DEF Ready, FollowReady
        <4>3. p \in rows \ kids
          BY <1>2, <4>2 DEF Parent
        <4>4. p \in rows'
          BY <2>1, <4>3, AfterWrite
        <4> QED
          BY <2>1, <2>8, <4>1, <4>2, <4>4
      <3>3. \A v \in kids : v.tab # "p"
        BY <1>2
      <3> QED
        BY <3>1, <3>2, <3>3 DEF Lawful, Sharing
    <2>9. Kept(s, kids, W)
      BY <2>1, <2>3, <2>7, <2>8 DEF Kept, Stepped
    <2> QED
      BY <2>9
  <1> QED
    BY <1>6, <1>7, <1>8

(* A DELETE of children while no transaction is open.                      *)
LEMMA FastDeleteKept ==
    ASSUME KeyInv, NEW s \in Sessions, FastDelete(s)
    PROVE  \E V, W : Kept(s, V, W)
  <1> DEFINE V == LiveOf("c", stmt[s].keys)
  <1>1. pc[s] = "delC" /\ ~open[s] /\ Write(s, V, {}) /\ race \subseteq race' /\ Over(s, <<>>) /\ Shape
    BY DEF FastDelete, KeyInv
  <1>2. Turn(s) /\ Takes(s) /\ PlacedOf(s)' /\ InsertReadyOf(s)' /\ Ready(s)'
    BY <1>1, Overs, NothingListed
  <1>3. V \subseteq rows /\ \A v \in V : v.xmax = Zero /\ v.tab = "c"
    BY DEF LiveOf, Live
  <1> HIDE DEF V
  <1>4. Writes(s, V, {})
    BY <1>1, <1>3, Erases
  <1>5. Lawful(s, V, {})
    BY <1>1, <1>3 DEF Lawful, MidCascade
  <1>6. Kept(s, V, {})
    BY <1>1, <1>2, <1>4, <1>5 DEF Kept, Stepped
  <1> QED
    BY <1>6

(* The claims of a DELETE: the children, and the values of the rows.       *)
LEMMA DeleteAsksFor ==
    ASSUME Shape, NEW s \in Sessions, NEW K \in Plans(s)
    PROVE  /\ IsFiniteSet(K)
           /\ Lists(DeleteClaims(K), {RowClaim(v) : v \in ChildrenOf(K)} \cup {ValueClaim(k, "X") : k \in K})
  <1> DEFINE kids == ChildrenOf(K)
             R    == {RowClaim(v) : v \in kids}
             U    == {ValueClaim(k, "X") : k \in K}
             f    == [k \in K |-> ValueClaim(k, "X")]
  <1>1. IsFiniteSet(K)
    <2>1. K = doomed[s] \/ K = {v.key : v \in LiveOf("p", doomed[s])}
      BY DEF Plans
    <2> QED
      BY <2>1, KeysAreFinite DEF Shape
  <1>2. IsFiniteSet(kids)
    <2>1. kids \subseteq rows /\ IsFiniteSet(rows)
      BY DEF ChildrenOf, Shape
    <2> QED
      BY <2>1, FS_Subset
  <1>3. Lists(SetToSeq(R), R)
    <2> HIDE DEF kids
    <2> QED
      BY <1>2, RowClaimsListed DEF Lists
  <1>4. IsFiniteSet(U)
    <2>1. DOMAIN f = K /\ f = [x \in K |-> f[x]] /\ {f[x] : x \in K} = U
      OBVIOUS
    <2> HIDE DEF f, U
    <2> QED
      BY <1>1, <2>1, ImageIsFinite
  <1>5. Lists(SetToSeq(U), U)
    <2> HIDE DEF U
    <2> QED
      BY <1>4, ListOfSet DEF Lists
  <1>6. Lists(SetToSeq(R) \o SetToSeq(U), R \cup U)
    <2> HIDE DEF R, U
    <2> QED
      BY <1>3, <1>5, ListsJoin
  <1>7. DeleteClaims(K) = SetToSeq(R) \o SetToSeq(U)
    BY DEF DeleteClaims
  <1> QED
    BY <1>1, <1>6, <1>7

(* The cascade of a DELETE.                                                *)
LEMMA CascadeKept ==
    ASSUME KeyInv, NEW s \in Sessions, Cascade(s)
    PROVE  \E V, W : Kept(s, V, W)
  <1>a. PICK K \in Plans(s) : CascadeOf(s, K, DeleteClaims(K))
    BY DEF Cascade
  <1> DEFINE kids == ChildrenOf(K)
             cs   == DeleteClaims(K)
             W    == IF rule.del = "setnull" THEN {Row("c", v.key, Null, Id(s)) : v \in kids} ELSE {}
  <1>0. Shape /\ UndecidedIsClaimed /\ open \in [Sessions -> BOOLEAN] /\ PlacedOf(s) /\ DOMAIN doomed = Sessions
    BY DEF KeyInv, Shape, Placed
  <1>1. pc[s] = "delP" /\ stmt[s].op = "delP" /\ ~MidCascade(s)
    BY <1>0 DEF Cascade, MidCascade, PlacedOf, At
  <1>2. kids \subseteq rows /\ \A v \in kids : v.tab = "c" /\ v.xmax = Zero
    BY DEF ChildrenOf, Live
  <1>3. /\ IsFiniteSet(K)
        /\ Lists(cs, {RowClaim(v) : v \in kids} \cup {ValueClaim(k, "X") : k \in K})
    BY <1>0, DeleteAsksFor
  <1>4. PICK T : cs \in Seq(T)
    BY <1>3 DEF Lists
  <1>5. (\A v \in kids : RowClaim(v) \in ToSet(cs)) /\ (\A k \in K : ValueClaim(k, "X") \in ToSet(cs))
    BY <1>3 DEF Lists
  <1>6. IF rule.del = "restrict" /\ kids # {} THEN Refuse(s, <<>>)
        ELSE IF ~Granted(s, cs)
        THEN WaitFor(s, cs, "delP") /\ UNCHANGED <<rows, stmt, doomed, race>> /\ Same
        ELSE /\ Claim(s, cs)
             /\ Write(s, kids, W)
             /\ race' = race \cup (IF MayReturn(s, K) THEN {"revived"} ELSE {})
             /\ doomed' = [doomed EXCEPT ![s] = K]
             /\ Goto(s, "erase")
             /\ UNCHANGED <<stmt, want>> /\ Same
    BY <1>a DEF CascadeOf
  <1>7. \A x \in rows \ kids : Child(x) /\ x.ref \in K => x.xmax # Zero
    BY DEF ChildrenOf, Live, Child
  <1>8. W = {} \/ W = {Row("c", v.key, Null, Id(s)) : v \in kids}
    OBVIOUS
  <1> HIDE DEF cs, kids, W
  <1>9. CASE rule.del = "restrict" /\ kids # {}
    BY <1>1, <1>6, <1>9, RefuseKept, NothingListed
  <1>10. CASE ~(rule.del = "restrict" /\ kids # {}) /\ ~Granted(s, cs)
    <2>1. WaitFor(s, cs, "delP") /\ UNCHANGED <<rows, stmt, doomed, race>> /\ Same
      BY <1>6, <1>10
    <2> QED
      BY <1>1, <1>4, <2>1, WaitKept
  <1>11. CASE ~(rule.del = "restrict" /\ kids # {}) /\ Granted(s, cs)
    <2>1. /\ Claim(s, cs) /\ Write(s, kids, W) /\ race \subseteq race' /\ (race' = {} => ~MayReturn(s, K))
          /\ doomed' = [doomed EXCEPT ![s] = K] /\ Goto(s, "erase") /\ UNCHANGED <<stmt, want>> /\ Same
      BY <1>6, <1>11
    <2>2. DOMAIN doomed' = Sessions /\ doomed'[s] = K /\ \A r \in Sessions \ {s} : doomed'[r] = doomed[r]
      BY <1>0, <2>1
    <2>3. /\ Turn(s) /\ Takes(s) /\ stmt' = stmt /\ open' = open
          /\ \A m : m # "wait" => (At(s, m)' <=> m = "erase")
          /\ MidCascade(s)' <=> "erase" = "follow"
          /\ pc'[s] = "erase"
          /\ ToSet(cs) \subseteq held'[s]
      BY <1>0, <1>3, <1>4, <1>11, <2>1, <2>2, Goes
    <2>4. \A c \in ToSet(cs) : Free(s, c)
      BY <1>4, <1>11, ClaimsGranted
    <2>5. \A v \in kids : Free(s, RowClaim(v)) /\ RowClaim(v) \in held'[s]
      BY <1>5, <2>3, <2>4
    <2>6. Writes(s, kids, W)
      <3>1. CASE W = {}
        BY <1>2, <2>1, <2>5, <3>1, Erases
      <3>2. CASE W = {Row("c", v.key, Null, Id(s)) : v \in kids}
        BY <1>2, <2>1, <2>5, <3>2, Rewrites
      <3> QED
        BY <1>8, <3>1, <3>2
    <2>7. \A w \in W : ~Child(w)
      <3> SUFFICES ASSUME NEW w \in W
                   PROVE  w.ref = Null
        BY DEF Child
      <3>1. PICK v \in kids : w = Row("c", v.key, Null, Id(s))
        BY <1>8
      <3> QED
        BY <1>0, <3>1, RowIsFormed
    <2>8. PlacedOf(s)' /\ InsertReadyOf(s)'
      BY <1>1, <2>3 DEF PlacedOf, InsertReadyOf
    <2>9. Lawful(s, kids, W)
      BY <1>1, <1>2, <2>7 DEF Lawful
    <2>10. ASSUME race' = {}
           PROVE  Ready(s)'
      <3>1. \A k \in K : ValueClaim(k, "X") \in held'[s]
        BY <1>5, <2>3
      <3>2. ASSUME NEW x \in rows', Child(x), x.ref \in K
            PROVE  x.xmax = s
        <4>1. CASE x \in rows \ kids
          BY <1>7, <2>1, <2>10, <3>2, <4>1 DEF MayReturn, Child
        <4>2. CASE x \in W
          BY <2>7, <3>2, <4>2
        <4>3. CASE \E v \in kids : x = [v EXCEPT !.xmax = s]
          <5>1. PICK v \in kids : x = [v EXCEPT !.xmax = s]
            BY <4>3
          <5>2. Formed(v)
            BY <1>0, <1>2 DEF Shape
          <5> QED
            BY <5>1, <5>2, EndedIsFormed
        <4> QED
          BY <2>1, <4>1, <4>2, <4>3, AfterWrite
      <3>3. EraseReady(s)'
        BY <2>2, <3>1, <3>2 DEF EraseReady, ValueClaim, Child
      <3>4. PushReady(s)' /\ FollowReady(s)'
        BY <2>3 DEF PushReady, FollowReady
      <3> QED
        BY <3>3, <3>4 DEF Ready
    <2>11. Kept(s, kids, W)
      BY <2>1, <2>3, <2>6, <2>8, <2>9, <2>10 DEF Kept, Stepped
    <2> QED
      BY <2>11
  <1> QED
    BY <1>9, <1>10, <1>11

(* Rows that a DELETE takes away, as planned and as nobody else claims.    *)
LEMMA ErasesLawfully ==
    ASSUME KeyInv, NEW s \in Sessions, NEW V, V \subseteq Matches(s), ~MidCascade(s), Ready(s),
           stmt[s].op = "delP" => At(s, "erase"), ~Phantom(s, V),
           stmt[s].op = "delP" => \A v \in V : Free(s, RowClaim(v))
    PROVE  Lawful(s, V, {})
  <1>1. CASE stmt[s].op = "delP"
    <2>1. \A v \in V : v.key \in doomed[s]
      BY <1>1 DEF Phantom
    <2>2. /\ \A k \in doomed[s] : ValueClaim(k, "X") \in held[s]
          /\ \A x \in rows : Child(x) /\ x.ref \in doomed[s] => x.xmax = s
      BY <1>1 DEF Ready, EraseReady
    <2>3. \A k \in doomed[s] : Free(s, ValueClaim(k, "X"))
      BY <2>2, HeldIsFree DEF KeyInv
    <2> QED
      BY <1>1, <2>1, <2>2, <2>3 DEF Lawful
  <1>2. CASE stmt[s].op # "delP"
    <2>1. \A v \in V : v.tab = "c"
      BY <1>2 DEF Matches, LiveOf
    <2> QED
      BY <2>1 DEF Lawful
  <1> QED
    BY <1>1, <1>2

(* The rows a DELETE finds are live and of its table.                      *)
LEMMA MatchesAreLive ==
    ASSUME NEW s \in Sessions
    PROVE  /\ Matches(s) \subseteq rows
           /\ \A v \in Matches(s) : v.xmax = Zero /\ v.tab = (IF stmt[s].op = "delP" THEN "p" ELSE "c")
  BY DEF Matches, LiveOf, Live

(* Rows that are erased for good, unclaimed.                               *)
LEMMA HardEraseKept ==
    ASSUME KeyInv, NEW s \in Sessions, HardErase(s)
    PROVE  \E V, W : Kept(s, V, W)
  <1> DEFINE V == Matches(s)
  <1>1. /\ pc[s] = "erase" /\ ~open[s] /\ Write(s, V, {}) /\ race \subseteq race' /\ Over(s, <<>>) /\ Shape
        /\ (race' = {} => ~Phantom(s, V) /\ ~Claimed(s, V))
    BY DEF HardErase, Hard, KeyInv
  <1>2. Turn(s) /\ Takes(s) /\ PlacedOf(s)' /\ InsertReadyOf(s)' /\ Ready(s)'
    BY <1>1, Overs, NothingListed
  <1>3. V \subseteq rows /\ \A v \in V : v.xmax = Zero
    BY MatchesAreLive
  <1>4. V \subseteq Matches(s)
    OBVIOUS
  <1> HIDE DEF V
  <1>5. Writes(s, V, {})
    BY <1>1, <1>3, Erases
  <1>6. ~MidCascade(s) /\ At(s, "erase")
    BY <1>1 DEF MidCascade, At
  <1>7. race' = {} /\ Ready(s) => Lawful(s, V, {})
    BY <1>1, <1>4, <1>6, ErasesLawfully DEF Claimed
  <1>8. Kept(s, V, {})
    BY <1>1, <1>2, <1>5, <1>7 DEF Kept, Stepped
  <1> QED
    BY <1>8

(* The end of a DELETE: its parents go when their children have gone.      *)
LEMMA EraseKept ==
    ASSUME KeyInv, NEW s \in Sessions, Erase(s)
    PROVE  \E V, W : Kept(s, V, W)
  <1> DEFINE M  == Matches(s)
             vs == SetToSeq(M)
             cs == [i \in 1..Len(vs) |-> RowClaim(vs[i])]
             V  == {vs[i] : i \in Reached(s, cs)}
             T  == {RowClaim(v) : v \in M}
             at == pc[s]
  <1>0. Shape /\ PlacedOf(s)
    BY DEF KeyInv, Placed
  <1>1. /\ pc[s] \in {"erase", "delC"}
        /\ Write(s, V, {})
        /\ race' = race \cup (IF Phantom(s, V) THEN {"phantom"} ELSE {})
        /\ IF Granted(s, cs) THEN Over(s, cs) ELSE WaitFor(s, cs, at) /\ UNCHANGED <<stmt, doomed>> /\ Same
    BY DEF Erase
  <1>2. M \subseteq rows /\ \A v \in M : v.xmax = Zero /\ v.tab = (IF stmt[s].op = "delP" THEN "p" ELSE "c")
    BY MatchesAreLive
  <1>3. vs \in Seq(M)
    <2>1. IsFiniteSet(M)
      BY <1>0, <1>2, FS_Subset DEF Shape
    <2> HIDE DEF M
    <2> QED
      BY <2>1, ListOfSet
  <1>4. at \in {"erase", "delC"} /\ (stmt[s].op = "delP" <=> at = "erase") /\ (at = "delC" => stmt[s].op = "delC")
    BY <1>0, <1>1 DEF PlacedOf, At
  <1> HIDE DEF vs, M
  <1>5. /\ Len(vs) \in Nat /\ DOMAIN cs = 1..Len(vs) /\ \A i \in 1..Len(vs) : vs[i] \in M /\ cs[i] = RowClaim(vs[i])
    BY <1>3
  <1>6. cs \in Seq(T)
    BY <1>5
  <1> HIDE DEF cs, T
  <1>7. \A i \in Reached(s, cs) : i \in 1..Len(vs) /\ Free(s, cs[i])
    BY <1>5, <1>6, ClaimsGranted
  <1>8. V \subseteq M /\ \A v \in V : Free(s, RowClaim(v))
    BY <1>5, <1>7
  <1>9. \A v \in V : \E i \in Reached(s, cs) : RowClaim(v) = cs[i] /\ i \in DOMAIN cs
    BY <1>5, <1>7
  <1> HIDE DEF V
  <1>10. ~MidCascade(s) /\ (stmt[s].op = "delP" => At(s, "erase"))
    BY <1>1, <1>4 DEF MidCascade, At
  <1>11. race' = {} /\ Ready(s) => Lawful(s, V, {})
    <2>1. V \subseteq Matches(s)
      BY <1>8 DEF M
    <2>2. race' = {} => ~Phantom(s, V)
      BY <1>1
    <2> QED
      BY <1>8, <1>10, <2>1, <2>2, ErasesLawfully
  <1>12. race \subseteq race'
    BY <1>1
  <1>13. V \subseteq rows /\ \A v \in V : v.xmax = Zero /\ v.tab = (IF stmt[s].op = "delP" THEN "p" ELSE "c")
    BY <1>2, <1>8
  <1>14. CASE Granted(s, cs)
    <2>1. Over(s, cs)
      BY <1>1, <1>14
    <2>2. \A c \in ToSet(cs) : Free(s, c)
      BY <1>6, <1>14, ClaimsGranted
    <2>3. /\ Turn(s) /\ Takes(s) /\ PlacedOf(s)' /\ InsertReadyOf(s)' /\ Ready(s)'
          /\ open[s] => ToSet(cs) \subseteq held'[s]
      BY <1>0, <2>1, <2>2, Overs
    <2>4. open[s] => \A v \in V : RowClaim(v) \in held'[s]
      BY <1>9, <2>3 DEF ToSet
    <2>5. Writes(s, V, {})
      BY <1>1, <1>13, <2>4, Erases
    <2>6. Kept(s, V, {})
      BY <1>11, <1>12, <2>3, <2>5 DEF Kept, Stepped
    <2> QED
      BY <2>6
  <1>15. CASE ~Granted(s, cs)
    <2>1. WaitFor(s, cs, at) /\ UNCHANGED <<stmt, doomed>> /\ Same
      BY <1>1, <1>15
    <2> HIDE DEF at
    <2>2. /\ Turn(s) /\ Takes(s) /\ stmt' = stmt /\ doomed' = doomed /\ open' = open
          /\ \A l : l # "wait" => (At(s, l)' <=> l = at)
          /\ MidCascade(s)' <=> at = "follow"
          /\ pc'[s] = "wait" /\ want'[s].at = at
          /\ \A i \in Reached(s, cs) : cs[i] \in held'[s]
          /\ held[s] \subseteq held'[s]
      BY <1>0, <1>6, <2>1, Waits
    <2>3. open[s] => \A v \in V : RowClaim(v) \in held'[s]
      BY <1>9, <2>2
    <2>4. Writes(s, V, {})
      BY <1>1, <1>13, <2>3, Erases
    <2>5. PlacedOf(s)' /\ InsertReadyOf(s)'
      BY <1>4, <2>2 DEF PlacedOf, InsertReadyOf
    <2>6. ASSUME Ready(s)
          PROVE  Ready(s)'
      <3>1. PushReady(s)' /\ FollowReady(s)'
        BY <1>4, <2>2 DEF PushReady, FollowReady
      <3>2. ASSUME At(s, "erase")'
            PROVE  /\ \A k \in doomed'[s] : ValueClaim(k, "X") \in held'[s]
                   /\ \A x \in rows' : Child(x) /\ x.ref \in doomed'[s] => x.xmax = s
        <4>1. at = "erase" /\ stmt[s].op = "delP" /\ At(s, "erase")
          BY <1>4, <1>10, <2>2, <3>2
        <4>2. /\ \A k \in doomed[s] : ValueClaim(k, "X") \in held[s]
              /\ \A x \in rows : Child(x) /\ x.ref \in doomed[s] => x.xmax = s
          BY <2>6, <4>1 DEF Ready, EraseReady
        <4>3. ASSUME NEW x \in rows', Child(x)
              PROVE  x \in rows
          <5>1. CASE \E v \in V : x = [v EXCEPT !.xmax = s]
            <6>1. PICK v \in V : x = [v EXCEPT !.xmax = s]
              BY <5>1
            <6>2. Formed(v) /\ v.tab = "p"
              BY <1>0, <1>13, <4>1 DEF Shape
            <6>3. x.tab = "p"
              BY <6>1, <6>2, EndedIsFormed
            <6> QED
              BY <4>3, <6>3 DEF Child
          <5> QED
            BY <1>1, <5>1, AfterWrite
        <4> QED
          BY <2>2, <4>2, <4>3
      <3>3. EraseReady(s)'
        BY <3>2 DEF EraseReady, ValueClaim, Child
      <3> QED
        BY <3>1, <3>3 DEF Ready
    <2>7. Kept(s, V, {})
      BY <1>11, <1>12, <2>2, <2>4, <2>5, <2>6 DEF Kept, Stepped
    <2> QED
      BY <2>7
  <1> QED
    BY <1>14, <1>15

(***************************************************************************)
(* BEGIN, COMMIT and ROLLBACK                                              *)
(***************************************************************************)
(* A session that is idle is at no label.                                  *)
LEMMA IdleIsNowhere ==
    ASSUME NEW s \in Sessions, pc[s] = "idle"
    PROVE  ~MidCascade(s) /\ \A l : l # "idle" => ~At(s, l)
  BY DEF MidCascade, At

(* BEGIN changes who writes, and nothing that is written.                  *)
LEMMA BeginKeeps ==
    ASSUME KeyInv, ParentInv, NEW s \in Sessions, Begin(s)
    PROVE  KeyInv' /\ ParentInv'
  <1>0. Shape /\ ClaimsApart /\ UndecidedIsClaimed /\ Placed /\ InsertReady /\ VersionsApart
    BY DEF KeyInv
  <1>1. /\ rows' = rows /\ held' = held /\ want' = want /\ pc' = pc /\ stmt' = stmt /\ doomed' = doomed /\ race' = race
        /\ pc[s] = "idle" /\ open' = [open EXCEPT ![s] = TRUE]
    BY DEF Begin
  <1>2. open' \in [Sessions -> BOOLEAN] /\ open'[s] /\ \A r \in Sessions \ {s} : open'[r] = open[r]
    BY <1>0, <1>1 DEF Shape
  <1>3. ~MidCascade(s) /\ \A l : l # "idle" => ~At(s, l)
    BY <1>1, IdleIsNowhere
  <1>4. \A r \in Sessions : \A l : At(r, l)' <=> At(r, l)
    BY <1>1 DEF At
  <1>5. \A r \in Sessions : MidCascade(r)' <=> MidCascade(r)
    BY <1>1 DEF MidCascade
  <1>6. Shape' /\ ClaimsApart' /\ VersionsApart'
    BY <1>0, <1>1, <1>2 DEF Shape, Formed, ClaimsApart, VersionsApart, Never, Follows
  <1>7. UndecidedIsClaimed'
    BY <1>0, <1>1, <1>2 DEF UndecidedIsClaimed, RowClaim
  <1>8. Placed'
    BY <1>0, <1>1, <1>4 DEF Placed, PlacedOf
  <1>9. InsertReady'
    <2>1. \A r \in Sessions : RowClaim(New(r))' = RowClaim(New(r)) /\ (Duplicate(r)' <=> Duplicate(r))
      BY <1>1 DEF RowClaim, New, Kind, Row, Duplicate, LiveOf, Live
    <2> QED
      BY <1>0, <1>1, <1>4, <2>1 DEF InsertReady, InsertReadyOf
  <1>10. ParentInv'
    <2> SUFFICES ASSUME race = {}
                 PROVE  (\A r \in Sessions : Ready(r))' /\ Sheltered'
      BY <1>1 DEF ParentInv
    <2>1. (\A r \in Sessions : Ready(r)) /\ Sheltered
      BY DEF ParentInv
    <2>2. ASSUME NEW r \in Sessions
          PROVE  Ready(r)'
      <3>1. Ready(r)
        BY <2>1
      <3>2. PushReady(r)'
        BY <1>1, <3>1 DEF Ready, PushReady, ValueClaim, Parent
      <3>3. EraseReady(r)'
        BY <1>1, <1>4, <3>1 DEF Ready, EraseReady, ValueClaim, Child
      <3>4. FollowReady(r)'
        <4>1. MidCascade(r) => Id(r)' = Id(r)
          BY <1>2, <1>3 DEF Id
        <4> QED
          BY <1>1, <1>5, <3>1, <4>1 DEF Ready, FollowReady, Parent
      <3> QED
        BY <3>2, <3>3, <3>4 DEF Ready
    <2>3. \A k, C : Excused(k, C) => Excused(k, C)'
      BY <1>1, <1>2, <1>3, <1>5 DEF Excused
    <2>4. Sheltered'
      BY <1>1, <2>1, <2>3 DEF Sheltered, Child, There, Parent
    <2> QED
      BY <2>2, <2>4
  <1> QED
    BY <1>6, <1>7, <1>8, <1>9, <1>10 DEF KeyInv

(* When the transaction of s ends, S is what stays of the rows, and the    *)
(* name of s goes from its versions: S is what s has not ended when it     *)
(* commits, and what it has not written when it is rolled back.            *)
Settles(s, S, f) ==
    /\ S = {v \in rows : v.xmax # s} \/ S = {v \in rows : v.xmin # s}
    /\ DOMAIN f = S /\ f = [v \in S |-> f[v]] /\ rows' = {f[v] : v \in S}
    /\ \A v \in S : /\ Formed(f[v]) /\ f[v].tab = v.tab /\ f[v].key = v.key /\ f[v].ref = v.ref
                    /\ RowClaim(f[v]) = RowClaim(v)
                    /\ f[v].xmin = (IF v.xmin = s THEN Zero ELSE v.xmin)
                    /\ f[v].xmax = (IF v.xmax = s THEN Zero ELSE v.xmax)

(* What COMMIT leaves of a version.                                        *)
LEMMA CommitSettles ==
    ASSUME Shape, NEW s \in Sessions, rows' = Committed(rows, s)
    PROVE  \E S, f : Settles(s, S, f)
  <1> DEFINE S == {v \in rows : v.xmax # s}
             m(v) == IF v.xmin = s THEN Zero ELSE v.xmin
             f == [v \in S |-> [v EXCEPT !.xmin = m(v)]]
  <1>1. rows' = {[v EXCEPT !.xmin = m(v)] : v \in S}
    BY DEF Committed
  <1>2. DOMAIN f = S /\ f = [v \in S |-> f[v]] /\ \A v \in S : f[v] = [v EXCEPT !.xmin = m(v)]
    OBVIOUS
  <1>3. rows' = {f[v] : v \in S}
    BY <1>1, <1>2
  <1> HIDE DEF f
  <1>4. ASSUME NEW v \in S
        PROVE  /\ Formed(f[v]) /\ f[v].tab = v.tab /\ f[v].key = v.key /\ f[v].ref = v.ref
               /\ RowClaim(f[v]) = RowClaim(v)
               /\ f[v].xmin = (IF v.xmin = s THEN Zero ELSE v.xmin)
               /\ f[v].xmax = (IF v.xmax = s THEN Zero ELSE v.xmax)
    <2>1. Formed(v) /\ m(v) \in Sessions \cup {Zero}
      BY DEF Shape, Formed
    <2>2. f[v] = [v EXCEPT !.xmin = m(v)]
      BY <1>2
    <2> DEFINE x == m(v)
    <2>3. x = IF v.xmin = s THEN Zero ELSE v.xmin
      OBVIOUS
    <2> HIDE DEF x
    <2>4. Formed(v) /\ x \in Sessions \cup {Zero} /\ f[v] = [v EXCEPT !.xmin = x]
      BY <2>1, <2>2 DEF x
    <2>5. /\ Formed(f[v]) /\ f[v].tab = v.tab /\ f[v].key = v.key /\ f[v].ref = v.ref
          /\ RowClaim(f[v]) = RowClaim(v) /\ f[v].xmin = x /\ f[v].xmax = v.xmax
      BY <2>4, DecidedIsFormed
    <2> QED
      BY <2>3, <2>5
  <1>5. Settles(s, S, f)
    BY <1>2, <1>3, <1>4 DEF Settles
  <1> QED
    BY <1>5

(* What ROLLBACK leaves of a version.                                      *)
LEMMA RollbackSettles ==
    ASSUME Shape, NEW s \in Sessions, rows' = RolledBack(rows, s)
    PROVE  \E S, f : Settles(s, S, f)
  <1> DEFINE S == {v \in rows : v.xmin # s}
             m(v) == IF v.xmax = s THEN Zero ELSE v.xmax
             f == [v \in S |-> [v EXCEPT !.xmax = m(v)]]
  <1>1. rows' = {[v EXCEPT !.xmax = m(v)] : v \in S}
    BY DEF RolledBack
  <1>2. DOMAIN f = S /\ f = [v \in S |-> f[v]] /\ \A v \in S : f[v] = [v EXCEPT !.xmax = m(v)]
    OBVIOUS
  <1>3. rows' = {f[v] : v \in S}
    BY <1>1, <1>2
  <1> HIDE DEF f
  <1>4. ASSUME NEW v \in S
        PROVE  /\ Formed(f[v]) /\ f[v].tab = v.tab /\ f[v].key = v.key /\ f[v].ref = v.ref
               /\ RowClaim(f[v]) = RowClaim(v)
               /\ f[v].xmin = (IF v.xmin = s THEN Zero ELSE v.xmin)
               /\ f[v].xmax = (IF v.xmax = s THEN Zero ELSE v.xmax)
    <2> DEFINE x == m(v)
    <2>1. Formed(v) /\ x \in Sessions \cup {Zero} /\ f[v] = [v EXCEPT !.xmax = x]
      BY <1>2 DEF Shape, Formed
    <2>2. x = IF v.xmax = s THEN Zero ELSE v.xmax
      OBVIOUS
    <2> HIDE DEF x
    <2>3. /\ Formed(f[v]) /\ f[v].tab = v.tab /\ f[v].key = v.key /\ f[v].ref = v.ref
          /\ RowClaim(f[v]) = RowClaim(v) /\ f[v].xmin = v.xmin /\ f[v].xmax = x
      BY <2>1, EndedIsFormed
    <2> QED
      BY <2>2, <2>3
  <1>5. Settles(s, S, f)
    BY <1>2, <1>3, <1>4 DEF Settles
  <1> QED
    BY <1>5

(* COMMIT and ROLLBACK keep the versions of a key apart.                   *)
LEMMA EndKeepsKeys ==
    ASSUME KeyInv, NEW s \in Sessions, EndTxn(s), NEW S, NEW f, Settles(s, S, f)
    PROVE  KeyInv'
  <1>0. Shape /\ ClaimsApart /\ UndecidedIsClaimed /\ Placed /\ InsertReady /\ VersionsApart /\ s # Zero
    BY IntegrityAssumption DEF KeyInv
  <1>1. /\ want' = want /\ pc' = pc /\ stmt' = stmt /\ doomed' = doomed /\ race' = race
        /\ pc[s] = "idle" /\ open' = [open EXCEPT ![s] = FALSE] /\ held' = [held EXCEPT ![s] = {}]
    BY DEF EndTxn
  <1>2. /\ open' \in [Sessions -> BOOLEAN] /\ DOMAIN held' = Sessions /\ held'[s] = {}
        /\ \A r \in Sessions \ {s} : open'[r] = open[r] /\ held'[r] = held[r]
    BY <1>0, <1>1 DEF Shape
  <1>3. \A l : l # "idle" => ~At(s, l)
    BY <1>1, IdleIsNowhere
  <1>4. \A r \in Sessions : \A l : At(r, l)' <=> At(r, l)
    BY <1>1 DEF At
  <1>5. S \subseteq rows /\ \A x \in rows' : \E v \in S : x = f[v]
    BY DEF Settles
  <1>6. \A v \in S : /\ Formed(f[v]) /\ f[v].tab = v.tab /\ f[v].key = v.key /\ RowClaim(f[v]) = RowClaim(v)
                     /\ f[v].xmin = (IF v.xmin = s THEN Zero ELSE v.xmin)
                     /\ f[v].xmax = (IF v.xmax = s THEN Zero ELSE v.xmax)
    BY DEF Settles
  <1>7. Shape'
    <2>1. IsFiniteSet(S)
      BY <1>0, <1>5, FS_Subset DEF Shape
    <2>2. DOMAIN f = S /\ f = [v \in S |-> f[v]] /\ rows' = {f[v] : v \in S}
      BY DEF Settles
    <2>3. IsFiniteSet(rows')
      BY <2>1, <2>2, ImageIsFinite
    <2>4. \A x \in rows' : Formed(x)
      BY <1>5, <1>6
    <2> QED
      BY <1>0, <1>1, <1>2, <2>3, <2>4 DEF Shape, Formed
  <1>8. ClaimsApart'
    BY <1>0, <1>2 DEF ClaimsApart
  <1>9. UndecidedIsClaimed'
    <2> SUFFICES ASSUME NEW x \in rows', NEW r \in Sessions, x.xmin = r \/ x.xmax = r
                 PROVE  open'[r] /\ RowClaim(x) \in held'[r]
      BY DEF UndecidedIsClaimed, RowClaim
    <2>1. PICK v \in S : x = f[v]
      BY <1>5
    <2>2. r # Zero
      BY IntegrityAssumption
    <2>3. r # s /\ (v.xmin = r \/ v.xmax = r) /\ RowClaim(x) = RowClaim(v)
      BY <1>0, <1>6, <2>1, <2>2
    <2> QED
      BY <1>0, <1>2, <1>5, <2>3 DEF UndecidedIsClaimed
  <1>10. Placed'
    BY <1>0, <1>1, <1>4 DEF Placed, PlacedOf
  <1>11. InsertReady'
    <2> SUFFICES ASSUME NEW r \in Sessions, At(r, "push") \/ At(r, "valued")
                 PROVE  (RowClaim(New(r)) \in held[r] /\ ~Duplicate(r))'
      BY <1>4 DEF InsertReady, InsertReadyOf
    <2>1. r # s /\ RowClaim(New(r)) \in held[r] /\ ~Duplicate(r)
      BY <1>0, <1>3 DEF InsertReady, InsertReadyOf
    <2>2. RowClaim(New(r))' = RowClaim(New(r)) /\ Kind(r)' = Kind(r)
      BY <1>1 DEF RowClaim, New, Kind, Row
    <2>3. RowClaim(New(r)) = <<<<Kind(r), stmt[r].key>>, "X">>
      BY DEF RowClaim, New, Row
    <2>4. ASSUME NEW x \in rows', x.tab = Kind(r), x.key = stmt[r].key, x.xmax = Zero
          PROVE  FALSE
      <3>1. PICK v \in S : x = f[v]
        BY <1>5
      <3>2. v \in rows /\ v.tab = Kind(r) /\ v.key = stmt[r].key /\ v.xmax \in {Zero, s}
        BY <1>5, <1>6, <2>4, <3>1
      <3>3. v.xmax # Zero
        BY <2>1, <3>2 DEF Duplicate, LiveOf, Live
      <3>4. RowClaim(v) \in held[s] /\ RowClaim(v) = RowClaim(New(r))
        BY <1>0, <2>3, <3>2, <3>3 DEF UndecidedIsClaimed, RowClaim
      <3>5. Free(s, RowClaim(v))
        BY <1>0, <3>4, HeldIsFree
      <3>6. \A h \in held[r] : h[1] # <<Kind(r), stmt[r].key>>
        BY <2>1, <2>3, <3>4, <3>5, FreeIsAlone
      <3>7. RowClaim(New(r))[1] = <<Kind(r), stmt[r].key>>
        BY <2>3
      <3> QED
        BY <2>1, <3>6, <3>7
    <2>5. ~Duplicate(r)'
      BY <1>1, <2>2, <2>4 DEF Duplicate, LiveOf, Live
    <2> QED
      BY <1>2, <2>1, <2>2, <2>5
  <1>12. VersionsApart'
    <2> SUFFICES ASSUME NEW x \in rows', NEW y \in rows', x.tab = y.tab, x.key = y.key, x # y
                 PROVE  Apart(x, y)
      BY DEF VersionsApart, Apart
    <2>1. PICK v \in S : x = f[v]
      BY <1>5
    <2>2. PICK w \in S : y = f[w]
      BY <1>5
    <2>3. v \in rows /\ w \in rows /\ v # w /\ v.tab = w.tab /\ v.key = w.key
      BY <1>5, <1>6, <2>1, <2>2
    <2>4. Apart(v, w)
      BY <1>0, <2>3 DEF VersionsApart, Apart
    <2>5. (v.xmax # s /\ w.xmax # s) \/ (v.xmin # s /\ w.xmin # s)
      BY DEF Settles
    <2>6. /\ x.xmin = (IF v.xmin = s THEN Zero ELSE v.xmin) /\ x.xmax = (IF v.xmax = s THEN Zero ELSE v.xmax)
          /\ y.xmin = (IF w.xmin = s THEN Zero ELSE w.xmin) /\ y.xmax = (IF w.xmax = s THEN Zero ELSE w.xmax)
      BY <1>6, <2>1, <2>2
    <2> QED
      BY <2>4, <2>5, <2>6 DEF Apart, Never, Follows
  <1> QED
    BY <1>7, <1>8, <1>9, <1>10, <1>11, <1>12 DEF KeyInv

(* COMMIT and ROLLBACK leave every child its parent.                       *)
LEMMA EndKeepsParents ==
    ASSUME KeyInv, ParentInv, NEW s \in Sessions, EndTxn(s), NEW S, NEW f, Settles(s, S, f)
    PROVE  ParentInv'
  <1>0. Shape /\ s # Zero
    BY IntegrityAssumption DEF KeyInv
  <1>1. /\ want' = want /\ pc' = pc /\ stmt' = stmt /\ doomed' = doomed /\ race' = race
        /\ pc[s] = "idle" /\ open' = [open EXCEPT ![s] = FALSE] /\ held' = [held EXCEPT ![s] = {}]
    BY DEF EndTxn
  <1>2. \A r \in Sessions \ {s} : open'[r] = open[r] /\ held'[r] = held[r]
    BY <1>0, <1>1 DEF Shape
  <1>3. ~MidCascade(s) /\ \A l : l # "idle" => ~At(s, l)
    BY <1>1, IdleIsNowhere
  <1>4. \A r \in Sessions : (MidCascade(r)' <=> MidCascade(r)) /\ \A l : At(r, l)' <=> At(r, l)
    BY <1>1 DEF At, MidCascade
  <1>5. S \subseteq rows /\ (\A x \in rows' : \E v \in S : x = f[v]) /\ \A v \in S : f[v] \in rows'
    BY DEF Settles
  <1>6. \A v \in S : /\ f[v].tab = v.tab /\ f[v].key = v.key /\ f[v].ref = v.ref
                     /\ f[v].xmin = (IF v.xmin = s THEN Zero ELSE v.xmin)
                     /\ f[v].xmax = (IF v.xmax = s THEN Zero ELSE v.xmax)
    BY DEF Settles
  <1> SUFFICES ASSUME race = {}
               PROVE  (\A r \in Sessions : Ready(r))' /\ Sheltered'
    BY <1>1 DEF ParentInv
  <1>7. (\A r \in Sessions : Ready(r)) /\ Sheltered
    BY DEF ParentInv
  (* a version that s has neither written nor ended stays as it is *)
  <1>8. ASSUME NEW p \in rows, p.xmin # s, p.xmax # s
        PROVE  p \in S /\ f[p] \in rows' /\ f[p].tab = p.tab /\ f[p].key = p.key /\ f[p].xmin = p.xmin /\ f[p].xmax = p.xmax
    <2>1. p \in S
      BY <1>8 DEF Settles
    <2> QED
      BY <1>5, <1>6, <1>8, <2>1
  <1>9. ASSUME NEW r \in Sessions
        PROVE  Ready(r)'
    <2>0. Ready(r) /\ r # Zero
      BY <1>7, IntegrityAssumption
    <2>1. PushReady(r)'
      <3> SUFFICES ASSUME pc[r] = "push", stmt[r].ref # Null
                   PROVE  (/\ ValueClaim(stmt[r].ref, "S") \in held[r]
                           /\ \E p \in rows : Parent(p, stmt[r].ref) /\ p.xmax = Zero /\ p.xmin \in {Zero, r})'
        BY <1>1 DEF PushReady
      <3>1. r # s /\ ValueClaim(stmt[r].ref, "S") \in held[r]
        BY <1>1, <2>0 DEF Ready, PushReady
      <3>2. PICK p \in rows : Parent(p, stmt[r].ref) /\ p.xmax = Zero /\ p.xmin \in {Zero, r}
        BY <2>0 DEF Ready, PushReady
      <3>3. f[p] \in rows' /\ f[p].tab = p.tab /\ f[p].key = p.key /\ f[p].xmin = p.xmin /\ f[p].xmax = p.xmax
        BY <1>0, <1>8, <3>1, <3>2
      <3> QED
        BY <1>1, <1>2, <3>1, <3>2, <3>3 DEF ValueClaim, Parent
    <2>2. FollowReady(r)'
      <3> SUFFICES ASSUME MidCascade(r)
                   PROVE  (/\ <<<<"p", stmt[r].to>>, "X">> \in held[r]
                           /\ \E p \in rows : Parent(p, stmt[r].to) /\ p.xmax = Zero /\ p.xmin = Id(r))'
        BY <1>4 DEF FollowReady
      <3>1. r # s /\ <<<<"p", stmt[r].to>>, "X">> \in held[r]
        BY <1>3, <2>0 DEF Ready, FollowReady
      <3>2. PICK p \in rows : Parent(p, stmt[r].to) /\ p.xmax = Zero /\ p.xmin = Id(r)
        BY <2>0 DEF Ready, FollowReady
      <3>3. p.xmin # s
        BY <1>0, <3>1, <3>2 DEF Id
      <3>4. f[p] \in rows' /\ f[p].tab = p.tab /\ f[p].key = p.key /\ f[p].xmin = p.xmin /\ f[p].xmax = p.xmax
        BY <1>0, <1>8, <3>2, <3>3
      <3>5. Id(r)' = Id(r)
        BY <1>2, <3>1 DEF Id
      <3> QED
        BY <1>1, <1>2, <3>1, <3>2, <3>4, <3>5 DEF Parent
    <2>3. EraseReady(r)'
      <3> SUFFICES ASSUME At(r, "erase")
                   PROVE  (/\ \A k \in doomed[r] : ValueClaim(k, "X") \in held[r]
                           /\ \A v \in rows : Child(v) /\ v.ref \in doomed[r] => v.xmax = r)'
        BY <1>4 DEF EraseReady
      <3>1. /\ r # s
            /\ \A k \in doomed[r] : ValueClaim(k, "X") \in held[r]
            /\ \A v \in rows : Child(v) /\ v.ref \in doomed[r] => v.xmax = r
        BY <1>3, <2>0 DEF Ready, EraseReady
      <3>2. ASSUME NEW x \in rows', Child(x), x.ref \in doomed[r]
            PROVE  x.xmax = r
        <4>1. PICK v \in S : x = f[v]
          BY <1>5
        <4>2. v \in rows /\ Child(v) /\ v.ref \in doomed[r] /\ x.xmax = (IF v.xmax = s THEN Zero ELSE v.xmax)
          BY <1>5, <1>6, <3>2, <4>1 DEF Child
        <4> QED
          BY <3>1, <4>2
      <3>3. \A k \in doomed'[r] : ValueClaim(k, "X") \in held'[r]
        BY <1>1, <1>2, <3>1
      <3>4. \A x \in rows' : Child(x) /\ x.ref \in doomed'[r] => x.xmax = r
        BY <1>1, <3>2
      <3> QED
        BY <3>3, <3>4 DEF ValueClaim, Child
    <2> QED
      BY <2>1, <2>2, <2>3 DEF Ready
  <1>10. Sheltered'
    <2> SUFFICES ASSUME NEW x \in rows', NEW C \in SUBSET Sessions, Child(x), There(x, C)
                 PROVE  Excused(x.ref, C)' \/ \E p \in rows' : Parent(p, x.ref) /\ There(p, C)
      BY DEF Sheltered, Child, There, Parent
    (* the transactions that commit, with s or without it *)
    <2>1. PICK D \in SUBSET Sessions : /\ \A r \in Sessions \ {s} : r \in D <=> r \in C
                                       /\ \/ s \in D /\ S = {v \in rows : v.xmax # s}
                                          \/ s \notin D /\ S = {v \in rows : v.xmin # s}
      <3>1. CASE S = {v \in rows : v.xmax # s}
        <4>1. C \cup {s} \in SUBSET Sessions
          OBVIOUS
        <4> QED
          BY <3>1, <4>1
      <3>2. CASE S = {v \in rows : v.xmin # s}
        <4>1. C \ {s} \in SUBSET Sessions
          OBVIOUS
        <4> QED
          BY <3>2, <4>1
      <3> QED
        BY <3>1, <3>2 DEF Settles
    <2>2. \A v \in rows : v.xmin \in Sessions \cup {Zero} /\ v.xmax \in Sessions \cup {Zero}
      BY <1>0 DEF Shape, Formed
    <2>3. PICK v \in S : x = f[v]
      BY <1>5
    <2>4. v \in rows /\ Child(v) /\ v.ref = x.ref
      BY <1>5, <1>6, <2>3 DEF Child
    <2>5. There(v, D)
      BY <1>0, <1>6, <2>1, <2>2, <2>3, <2>4 DEF There
    <2>6. Excused(v.ref, D) \/ \E p \in rows : Parent(p, v.ref) /\ There(p, D)
      BY <1>7, <2>4, <2>5 DEF Sheltered
    <2>7. CASE Excused(v.ref, D)
      <3>1. PICK r \in Sessions : MidCascade(r) /\ v.ref \in doomed[r] /\ (open[r] => r \in D)
        BY <2>7 DEF Excused
      <3>2. r # s
        BY <1>3, <3>1
      <3> QED
        BY <1>1, <1>2, <1>4, <2>1, <2>4, <3>1, <3>2 DEF Excused
    <2>8. CASE \E p \in rows : Parent(p, v.ref) /\ There(p, D)
      <3>1. PICK p \in rows : Parent(p, v.ref) /\ There(p, D)
        BY <2>8
      <3>2. p \in S
        BY <1>0, <2>1, <3>1 DEF There
      <3>3. There(f[p], C)
        BY <1>0, <1>6, <2>1, <2>2, <3>1, <3>2 DEF There
      <3>4. f[p] \in rows' /\ Parent(f[p], x.ref)
        BY <1>5, <1>6, <2>4, <3>1, <3>2 DEF Parent
      <3> QED
        BY <3>3, <3>4
    <2> QED
      BY <2>6, <2>7, <2>8
  <1> QED
    BY <1>9, <1>10

(***************************************************************************)
(* The theorems                                                            *)
(***************************************************************************)
LEMMA InitIsKept ==
    ASSUME Init
    PROVE  KeyInv /\ ParentInv
  <1>1. /\ IsFiniteSet(rows)
        /\ \A v \in rows : v = [tab |-> v.tab, key |-> v.key, ref |-> v.ref, xmin |-> Zero, xmax |-> Zero]
        /\ \A v, w \in rows : v.tab = w.tab /\ v.key = w.key => v = w
        /\ \A v \in rows : v.tab = "c" /\ v.ref # Null => \E p \in rows : p.tab = "p" /\ p.key = v.ref
    BY BasesAssumption DEF Init
  <1>2. \A v \in rows : v.xmin = Zero /\ v.xmax = Zero
    BY <1>1
  <1>3. \A v \in rows : Formed(v)
    BY <1>1, <1>2 DEF Formed
  <1>4. \A s \in Sessions : pc[s] = "idle" /\ doomed[s] = {} /\ held[s] = {}
    BY DEF Init
  <1>5. \A s \in Sessions : ~MidCascade(s) /\ \A l : l # "idle" => ~At(s, l)
    BY <1>4, IdleIsNowhere
  <1>6. Shape
    BY <1>1, <1>3, <1>4, FS_EmptySet DEF Shape, Init
  <1>7. ClaimsApart /\ UndecidedIsClaimed /\ VersionsApart
    BY <1>1, <1>2, <1>4, IntegrityAssumption DEF ClaimsApart, UndecidedIsClaimed, VersionsApart
  <1>8. Placed /\ InsertReady
    BY <1>4, <1>5 DEF Placed, PlacedOf, InsertReady, InsertReadyOf
  <1>9. \A s \in Sessions : Ready(s)
    BY <1>4, <1>5 DEF Ready, PushReady, EraseReady, FollowReady
  <1>10. Sheltered
    BY <1>1, <1>2 DEF Sheltered, Child, Parent, There
  <1> QED
    BY <1>6, <1>7, <1>8, <1>9, <1>10 DEF KeyInv, ParentInv

(* A step that is kept keeps the invariant.                                *)
LEMMA KeptKeeps ==
    ASSUME KeyInv, ParentInv, NEW s \in Sessions, NEW V, NEW W, Kept(s, V, W)
    PROVE  KeyInv' /\ ParentInv'
  <1>1. Stepped(s, V, W) /\ race \subseteq race'
    BY DEF Kept
  <1>2. KeyInv'
    BY <1>1, KeyStep
  <1>3. ASSUME race' = {}
        PROVE  (\A r \in Sessions : Ready(r))' /\ Sheltered'
    <2>1. (\A r \in Sessions : Ready(r)) /\ Sheltered
      BY <1>1, <1>3 DEF ParentInv
    <2>2. Lawful(s, V, W) /\ Ready(s)' /\ Turn(s) /\ Writes(s, V, W)
      BY <1>1, <1>3, <2>1 DEF Kept, Stepped
    <2>3. UndecidedIsClaimed'
      BY <1>2 DEF KeyInv
    <2>4. \A r \in Sessions \ {s} : Ready(r)'
      BY <2>1, <2>2, OthersStayReady
    <2>5. Sheltered'
      BY <2>1, <2>2, <2>3, ChildrenStaySheltered
    <2> QED
      BY <2>2, <2>4, <2>5
  <1> QED
    BY <1>2, <1>3 DEF ParentInv

(* Every step keeps the invariant.                                         *)
LEMMA NextKeeps ==
    ASSUME KeyInv, ParentInv, [Next]_vars
    PROVE  KeyInv' /\ ParentInv'
  <1>1. CASE UNCHANGED vars
    <2>1. KeyInv'
      BY <1>1 DEF vars, KeyInv, Shape, Formed, ClaimsApart, UndecidedIsClaimed, RowClaim, Placed, PlacedOf, At, InsertReady,
                  InsertReadyOf, New, Kind, Row, Id, Duplicate, LiveOf, Live, VersionsApart, Never, Follows
    <2>2. ParentInv'
      BY <1>1 DEF vars, ParentInv, Ready, PushReady, EraseReady, FollowReady, Sheltered, Excused, MidCascade, At, Id, Child,
                  Parent, There, ValueClaim
    <2> QED
      BY <2>1, <2>2
  <1>2. ASSUME NEW s \in Sessions, \E V, W : Kept(s, V, W)
        PROVE  KeyInv' /\ ParentInv'
    BY <1>2, KeptKeeps
  <1>3. ASSUME NEW s \in Sessions, Commit(s) \/ Rollback(s)
        PROVE  KeyInv' /\ ParentInv'
    <2>1. Shape
      BY DEF KeyInv
    <2>2. EndTxn(s) /\ \E S, f : Settles(s, S, f)
      BY <1>3, <2>1, CommitSettles, RollbackSettles DEF Commit, Rollback
    <2> QED
      BY <2>2, EndKeepsKeys, EndKeepsParents
  <1>4. CASE Done
    BY <1>1, <1>4 DEF Done
  <1>5. ASSUME NEW s \in Sessions,
               \/ Begin(s) \/ Wake(s) \/ GiveUp(s) \/ Commit(s) \/ Rollback(s)
               \/ Prepare(s) \/ Push(s) \/ Update(s) \/ Follow(s)
               \/ FastDelete(s) \/ Cascade(s) \/ HardErase(s) \/ Erase(s)
               \/ \E st \in Menu : Start(s, st)
        PROVE  KeyInv' /\ ParentInv'
    <2>1. CASE Begin(s)
      BY <2>1, BeginKeeps
    <2>2. CASE Wake(s)
      BY <1>2, <2>2, WakeKept
    <2>3. CASE GiveUp(s)
      BY <1>2, <2>3, GiveUpKept
    <2>4. CASE Commit(s) \/ Rollback(s)
      BY <1>3, <2>4
    <2>5. CASE Prepare(s)
      BY <1>2, <2>5, PrepareKept
    <2>6. CASE Push(s)
      BY <1>2, <2>6, PushKept
    <2>7. CASE Update(s)
      BY <1>2, <2>7, UpdateKept
    <2>8. CASE Follow(s)
      BY <1>2, <2>8, FollowKept
    <2>9. CASE FastDelete(s)
      BY <1>2, <2>9, FastDeleteKept
    <2>10. CASE Cascade(s)
      BY <1>2, <2>10, CascadeKept
    <2>11. CASE HardErase(s)
      BY <1>2, <2>11, HardEraseKept
    <2>12. CASE Erase(s)
      BY <1>2, <2>12, EraseKept
    <2>13. CASE \E st \in Menu : Start(s, st)
      BY <1>2, <2>13, StartKept
    <2> QED
      BY <1>5, <2>1, <2>2, <2>3, <2>4, <2>5, <2>6, <2>7, <2>8, <2>9, <2>10, <2>11, <2>12, <2>13
  <1> QED
    BY <1>1, <1>4, <1>5 DEF Next

(* Versions that are apart are one row for each key.                       *)
LEMMA KeyInvIsEnough ==
    ASSUME KeyInv
    PROVE  OneRowPerKey
  <1> SUFFICES ASSUME NEW C, NEW v \in Outcome(C), NEW w \in Outcome(C), v.tab = w.tab, v.key = w.key, v # w
               PROVE  FALSE
    BY DEF OneRowPerKey, Outcomes
  <1>1. v \in rows /\ w \in rows /\ There(v, C) /\ There(w, C)
    BY DEF Outcome, There
  <1>2. Never(v) \/ Never(w) \/ Follows(v, w) \/ Follows(w, v)
    BY <1>1 DEF KeyInv, VersionsApart
  <1> QED
    BY <1>1, <1>2 DEF There, Never, Follows

(* Children that are sheltered are no orphans.                             *)
LEMMA ParentInvIsEnough ==
    ASSUME ParentInv
    PROVE  OrphanNeedsARace
  <1> SUFFICES ASSUME race = {}, \A s \in Sessions : ~MidCascade(s), NEW C \in SUBSET {s \in Sessions : open[s]},
                      NEW v \in Outcome(C), v.tab = "c", v.ref # Null
               PROVE  \E p \in Outcome(C) : p.tab = "p" /\ p.key = v.ref
    BY DEF OrphanNeedsARace, NoOrphans, Outcomes, Orphans
  <1>1. v \in rows /\ Child(v) /\ There(v, C) /\ C \in SUBSET Sessions
    BY DEF Outcome, There, Child
  <1>2. ~Excused(v.ref, C)
    BY DEF Excused
  <1>3. PICK p \in rows : Parent(p, v.ref) /\ There(p, C)
    BY <1>1, <1>2 DEF ParentInv, Sheltered
  <1> QED
    BY <1>3 DEF Outcome, There, Parent

(* The invariant holds of every state.                                     *)
LEMMA TablesAreKept == Spec => [](KeyInv /\ ParentInv)
  <1>1. Init => KeyInv /\ ParentInv
    BY InitIsKept
  <1>2. KeyInv /\ ParentInv /\ [Next]_vars => (KeyInv /\ ParentInv)'
    BY NextKeeps
  <1> QED
    BY <1>1, <1>2, PTL DEF Spec

(* No key is ever taken by two rows of a table, whichever of the open      *)
(* transactions commit (executor_dml.cpp:1376): for any number of          *)
(* sessions, any statements and any rows to begin with.                    *)
THEOREM KeysStayUnique == Spec => []OneRowPerKey
  BY TablesAreKept, KeyInvIsEnough, PTL

(* A child is left without its parent only after one of the six races      *)
(* (executor_update.cpp:612, executor_delete.cpp:573).                     *)
THEOREM OrphansComeFromRaces == Spec => []OrphanNeedsARace
  BY TablesAreKept, ParentInvIsEnough, PTL

(***************************************************************************)
(* The cache of UNIQUE values                                              *)
(***************************************************************************)
CONSTANTS Values, Copies, StreakNeeded, MinRows, Sections, Tables
VARIABLES live, table, taken, probe, order, hidden

Prb == INSTANCE UniqueProbe

(***************************************************************************)
(* The cache of UNIQUE values: its invariant                               *)
(***************************************************************************)
(* A cache, whatever it holds.                                             *)
Probes == [built : BOOLEAN, counts : [Values -> Int], table : Nat, sum : Nat, tails : Nat, seen : BOOLEAN,
           seenTable : Nat, seenSum : Nat, seenTails : Nat, streak : Nat, child : Nat]

(* Sums and tables are numbers, and so are the stamps.                     *)
Stamps ==
    /\ table \in Nat \ {0}
    /\ taken \in Nat
    /\ probe \in Probes
    /\ live \in [Values -> Int]
    /\ order.table \in Nat /\ order.sum \in Nat

(* The cache was stamped no later than now, and if nobody has taken a lock *)
(* since, it counts the rows as they are.                                  *)
CacheHonest ==
    probe.built /\ probe.table = table => probe.sum <= taken /\ (probe.sum = taken => probe.counts = live)

(* The same of the order of a scan, which outlives the table.              *)
OrderHonest ==
    /\ order.table <= table
    /\ order.table = table => order.sum <= taken /\ (order.sum = taken => order.rows = live)

ProbeInv == Stamps /\ CacheHonest /\ OrderHonest /\ ~hidden

(***************************************************************************)
(* The parts of a section                                                  *)
(***************************************************************************)
(* A cache that a section has told of its change: dropped, or stamped with *)
(* the section's sum and counting the rows it leaves.                      *)
Settled(p, cnt, sum) == p.built => p.table = table /\ p.sum = sum /\ p.counts = cnt

(* Rows that are added and taken are counted in numbers.                   *)
LEMMA RowsAreCounted ==
    ASSUME NEW cnt \in [Values -> Int], NEW v \in Values
    PROVE  Prb!Plus(cnt, v) \in [Values -> Int] /\ Prb!Minus(cnt, v) \in [Values -> Int]
  BY DEF Prb!Plus, Prb!Minus

(* count_rows: a cache that is made counts the rows as they are.           *)
LEMMA BuiltCounts ==
    ASSUME NEW p \in Probes, NEW sum \in Nat, live \in [Values -> Int], table \in Nat
    PROVE  LET q == Prb!Built(p, sum)
           IN  /\ [q EXCEPT !.streak = 0] \in Probes /\ [q EXCEPT !.child = 0] \in Probes
               /\ [q EXCEPT !.streak = 0].counts = live /\ [q EXCEPT !.child = 0].counts = live
               /\ [q EXCEPT !.streak = 0].table = table /\ [q EXCEPT !.streak = 0].sum = sum
  <1>1. /\ Prb!Built(p, sum) \in Probes
        /\ Prb!Built(p, sum).counts = live /\ Prb!Built(p, sum).table = table /\ Prb!Built(p, sum).sum = sum
    BY DEF Prb!Built, Probes
  <1> QED
    BY <1>1 DEF Probes

(* unique_probe_apply: a cache that counts the rows of before whenever it  *)
(* fits is settled afterwards.                                             *)
LEMMA ApplySettles ==
    ASSUME NEW p \in Probes, NEW sum \in Nat, NEW counts \in [Values -> Int], NEW before, NEW after,
           Prb!Fits(p, sum, TRUE) => p.counts = before,
           p.counts = before => counts = after
    PROVE  Prb!Apply(p, sum, counts) \in Probes /\ Settled(Prb!Apply(p, sum, counts), after, sum)
  <1>1. CASE ~p.built
    BY <1>1 DEF Prb!Apply, Settled
  <1>2. CASE p.built /\ Prb!Fits(p, sum, TRUE)
    BY <1>2 DEF Prb!Apply, Settled, Probes, Prb!Fits
  <1>3. CASE p.built /\ ~Prb!Fits(p, sum, TRUE)
    <2>1. Prb!None \in [Values -> Int]
      BY DEF Prb!None
    <2>2. Prb!Apply(p, sum, counts) = Prb!Dropped(p)
      BY <1>3 DEF Prb!Apply
    <2> QED
      BY <2>1, <2>2 DEF Prb!Dropped, Probes, Settled
  <1> QED
    BY <1>1, <1>2, <1>3

(* A cache that fits inside the section that comes next counts the rows as *)
(* they are before it; a statement that takes two locks finds none.        *)
LEMMA CurrentCounts ==
    ASSUME ProbeInv
    PROVE  /\ Prb!Fits(probe, taken, FALSE) => probe.counts = live
           /\ Prb!Fits(probe, taken + 1, TRUE) => probe.counts = live
           /\ ~Prb!Fits(probe, taken + 2, TRUE)
  BY DEF ProbeInv, Stamps, CacheHonest, Prb!Fits, Probes

(* What is left to show of a section that has settled the cache.           *)
LEMMA SectionHolds ==
    ASSUME ProbeInv, NEW n \in {1, 2}, Prb!Section(n), live' \in [Values -> Int], probe' \in Probes,
           Settled(probe', live', taken'), ~hidden'
    PROVE  ProbeInv'
  <1>1. taken' = taken + n /\ table' = table /\ order' = order
    BY DEF Prb!Section
  <1>2. taken' \in Nat /\ taken < taken'
    BY <1>1 DEF ProbeInv, Stamps
  <1>3. Stamps'
    BY <1>1, <1>2 DEF ProbeInv, Stamps
  <1>4. CacheHonest'
    BY <1>1, <1>2 DEF CacheHonest, Settled, ProbeInv, Stamps
  <1>5. OrderHonest'
    BY <1>1, <1>2 DEF OrderHonest, ProbeInv, Stamps
  <1> QED
    BY <1>3, <1>4, <1>5 DEF ProbeInv

(***************************************************************************)
(* The invariant                                                           *)
(***************************************************************************)
LEMMA InitHolds == Prb!Init => ProbeInv
  <1> SUFFICES ASSUME Prb!Init PROVE ProbeInv
    OBVIOUS
  <1>1. Prb!None \in [Values -> Int]
    BY DEF Prb!None
  <1> QED
    BY <1>1 DEF Prb!Init, ProbeInv, Stamps, CacheHonest, OrderHonest, Prb!NoProbe, Probes

LEMMA LookupHolds ==
    ASSUME ProbeInv, NEW v \in Values, Prb!Lookup(v)
    PROVE  ProbeInv'
  <1>1. live' = live /\ table' = table /\ taken' = taken /\ order' = order /\ probe' = Prb!Looked(probe)
    BY DEF Prb!Lookup
  <1> USE DEF ProbeInv, Stamps
  <1>2. probe' \in Probes /\ CacheHonest'
    <2> DEFINE p == probe
               onlyInserts == p.seen /\ p.seenTable = table /\ taken - p.seenSum = p.tails - p.seenTails
               streak == IF onlyInserts THEN p.streak + 1 ELSE 0
               noted == [p EXCEPT !.streak = streak, !.seen = TRUE, !.seenTable = table, !.seenSum = taken,
                                  !.seenTails = p.tails]
    <2>1. streak \in Nat
      BY DEF Probes
    <2>2. /\ noted \in Probes
          /\ noted.built = p.built /\ noted.table = p.table /\ noted.sum = p.sum /\ noted.counts = p.counts
      <3> HIDE DEF streak
      <3> QED
        BY <2>1 DEF Probes
    <2>3. \/ probe' = p
          \/ probe' = noted
          \/ probe' = [Prb!Built(noted, taken) EXCEPT !.streak = 0]
      BY <1>1 DEF Prb!Looked
    <2> HIDE DEF noted
    <2>4. CASE probe' = p
      BY <1>1, <2>4 DEF CacheHonest
    <2>5. CASE probe' = noted
      BY <1>1, <2>2, <2>5 DEF CacheHonest
    <2>6. CASE probe' = [Prb!Built(noted, taken) EXCEPT !.streak = 0]
      <3>1. /\ probe' \in Probes
            /\ probe'.counts = live /\ probe'.table = table /\ probe'.sum = taken
        BY <2>2, <2>6, BuiltCounts
      <3> QED
        BY <1>1, <3>1 DEF CacheHonest
    <2> QED
      BY <2>3, <2>4, <2>5, <2>6
  <1>3. Prb!Fits(probe', taken, FALSE) => probe'.counts = live
    BY <1>1, <1>2 DEF Prb!Fits, CacheHonest
  <1>4. ~hidden'
    <2>1. live[v] \in Int
      OBVIOUS
    <2>2. ~(live[v] = 0 /\ live[v] > 0)
      BY <2>1
    <2>3. ~(Prb!Fits(probe', taken, FALSE) /\ probe'.counts[v] = 0 /\ live[v] > 0)
      BY <1>3, <2>2, Zenon
    <2> QED
      BY <2>3, Zenon DEF Prb!Lookup
  <1>5. OrderHonest'
    BY <1>1 DEF OrderHonest
  <1> QED
    BY <1>1, <1>2, <1>4, <1>5

LEMMA InsertTailHolds ==
    ASSUME ProbeInv, NEW v \in Values, NEW whole \in BOOLEAN, Prb!InsertTail(v, whole)
    PROVE  ProbeInv'
  <1> DEFINE n == IF whole THEN 2 ELSE 1
             p == [probe EXCEPT !.tails = @ + 1]
  <1>1. n \in {1, 2} /\ Prb!Section(n) /\ live' = Prb!Plus(live, v) /\ hidden' = hidden
    BY DEF Prb!InsertTail
  <1>2. probe' = Prb!Apply(p, taken + n, Prb!Plus(probe.counts, v))
    BY DEF Prb!InsertTail
  <1>3. p \in Probes /\ p.built = probe.built /\ p.table = probe.table /\ p.sum = probe.sum /\ p.counts = probe.counts
    BY DEF ProbeInv, Stamps, Probes
  <1>4. Prb!Fits(p, taken + n, TRUE) => p.counts = live
    BY <1>3, CurrentCounts DEF Prb!Fits
  <1>5. taken + n \in Nat /\ taken' = taken + n /\ table' = table
    BY <1>1 DEF ProbeInv, Stamps, Prb!Section
  <1>6. Prb!Plus(live, v) \in [Values -> Int] /\ Prb!Plus(probe.counts, v) \in [Values -> Int]
    BY RowsAreCounted DEF ProbeInv, Stamps, Probes
  <1> HIDE DEF n, p
  <1>7. probe' \in Probes /\ Settled(probe', live', taken + n)
    BY <1>1, <1>2, <1>3, <1>4, <1>5, <1>6, ApplySettles
  <1> QED
    BY <1>1, <1>5, <1>6, <1>7, SectionHolds DEF ProbeInv

LEMMA UpdateSectionHolds ==
    ASSUME ProbeInv, NEW old \in Values, NEW new \in Values, Prb!UpdateSection(old, new)
    PROVE  ProbeInv'
  <1>1. Prb!Section(1) /\ taken' = taken + 1 /\ taken + 1 \in Nat
    BY DEF Prb!UpdateSection, Prb!Section, ProbeInv, Stamps
  <1>2. Prb!Fits(probe, taken + 1, TRUE) => probe.counts = live
    BY CurrentCounts
  <1>3. probe \in Probes /\ probe.counts \in [Values -> Int] /\ live \in [Values -> Int]
    BY DEF ProbeInv, Stamps, Probes
  <1>4. ~hidden'
    <2>1. live[new] \in Int
      BY <1>3
    <2>2. ~(live[new] = 0 /\ live[new] > 0)
      BY <2>1
    <2>3. ~(Prb!Fits(probe, taken + 1, TRUE) /\ probe.counts[new] = 0 /\ live[new] > 0)
      BY <1>2, <2>2, Zenon
    <2>4. hidden' = (hidden \/ ((Prb!Fits(probe, taken + 1, TRUE) /\ probe.counts[new] = 0) /\ live[new] > 0))
      BY DEF Prb!UpdateSection
    <2> QED
      BY <2>3, <2>4, Zenon DEF ProbeInv
  <1>5. CASE live' = live /\ probe' = Prb!Apply(probe, taken + 1, probe.counts)
    BY <1>1, <1>2, <1>3, <1>4, <1>5, ApplySettles, SectionHolds
  <1>6. CASE /\ live' = Prb!Plus(Prb!Minus(live, old), new)
             /\ probe' = Prb!Apply(probe, taken + 1, Prb!Plus(Prb!Minus(probe.counts, old), new))
    <2>1. live' \in [Values -> Int] /\ Prb!Plus(Prb!Minus(probe.counts, old), new) \in [Values -> Int]
      BY <1>3, <1>6, RowsAreCounted
    <2>2. probe' \in Probes /\ Settled(probe', live', taken + 1)
      BY <1>1, <1>2, <1>3, <1>6, <2>1, ApplySettles
    <2> QED
      BY <1>1, <1>4, <2>1, <2>2, SectionHolds
  <1> QED
    BY <1>5, <1>6 DEF Prb!UpdateSection

LEMMA DeleteSectionHolds ==
    ASSUME ProbeInv, NEW v \in Values, Prb!DeleteSection(v)
    PROVE  ProbeInv'
  <1>1. Prb!Section(1) /\ taken' = taken + 1 /\ taken + 1 \in Nat /\ live' = Prb!Minus(live, v) /\ hidden' = hidden
    BY DEF Prb!DeleteSection, Prb!Section, ProbeInv, Stamps
  <1>2. live' \in [Values -> Int] /\ Prb!Minus(probe.counts, v) \in [Values -> Int]
    BY <1>1, RowsAreCounted DEF ProbeInv, Stamps, Probes
  <1>3. probe' = Prb!Apply(probe, taken + 1, Prb!Minus(probe.counts, v)) /\ probe \in Probes
    BY DEF Prb!DeleteSection, ProbeInv, Stamps
  <1>4. probe' \in Probes /\ Settled(probe', live', taken + 1)
    BY <1>1, <1>2, <1>3, CurrentCounts, ApplySettles
  <1> QED
    BY <1>1, <1>2, <1>4, SectionHolds DEF ProbeInv

LEMMA ParentSectionHolds ==
    ASSUME ProbeInv, NEW asked \in Values, NEW old \in Values, NEW new \in Values, Prb!ParentSection(asked, old, new)
    PROVE  ProbeInv'
  <1> DEFINE sum == taken + 1
             made == IF Prb!Fits(probe, sum, TRUE) THEN probe
                     ELSE IF Prb!Rows(live) < MinRows THEN probe
                     ELSE IF probe.child + 1 < 2 THEN [probe EXCEPT !.child = @ + 1]
                     ELSE [Prb!Built(probe, sum) EXCEPT !.child = 0]
             first == Prb!Apply(made, sum, Prb!Minus(made.counts, old))
             second == Prb!Apply(first, sum, Prb!Plus(first.counts, new))
  <1>1. Prb!Section(1) /\ taken' = sum /\ sum \in Nat /\ live' = Prb!Plus(Prb!Minus(live, old), new)
    BY DEF Prb!ParentSection, Prb!Section, ProbeInv, Stamps
  <1>2. probe' = Prb!Apply(second, sum, second.counts)
    BY DEF Prb!ParentSection
  <1>3. hidden' = (hidden \/ (Prb!Fits(made, sum, TRUE) /\ made.counts[asked] = 0 /\ live[asked] > 0))
    BY DEF Prb!ParentSection
  <1>4. probe \in Probes /\ live \in [Values -> Int] /\ table \in Nat
    BY DEF ProbeInv, Stamps
  <1>5. made \in Probes /\ (Prb!Fits(made, sum, TRUE) => made.counts = live)
    <2>1. CASE made = probe
      BY <1>4, <2>1, CurrentCounts
    <2>2. CASE ~Prb!Fits(probe, sum, TRUE) /\ made = [probe EXCEPT !.child = @ + 1]
      BY <1>4, <2>2 DEF Probes, Prb!Fits
    <2>3. CASE made = [Prb!Built(probe, sum) EXCEPT !.child = 0]
      <3> HIDE DEF made, sum
      <3> QED
        BY <1>1, <1>4, <2>3, BuiltCounts
    <2> QED
      BY <2>1, <2>2, <2>3
  <1> HIDE DEF sum, made, first, second
  <1>6. /\ Prb!Minus(live, old) \in [Values -> Int] /\ Prb!Minus(made.counts, old) \in [Values -> Int]
        /\ Prb!Plus(Prb!Minus(live, old), new) \in [Values -> Int]
    BY <1>4, <1>5, RowsAreCounted DEF Probes
  <1>7. first \in Probes /\ Settled(first, Prb!Minus(live, old), sum)
    BY <1>1, <1>5, <1>6, ApplySettles DEF first
  <1>8. second \in Probes /\ Settled(second, Prb!Plus(Prb!Minus(live, old), new), sum)
    <2>1. Prb!Plus(first.counts, new) \in [Values -> Int]
      BY <1>7, RowsAreCounted DEF Probes
    <2>2. Prb!Fits(first, sum, TRUE) => first.counts = Prb!Minus(live, old)
      BY <1>7 DEF Prb!Fits, Settled
    <2> QED
      BY <1>1, <1>7, <2>1, <2>2, ApplySettles DEF second
  <1>9. probe' \in Probes /\ Settled(probe', live', sum)
    <2>1. second.counts \in [Values -> Int]
      BY <1>8 DEF Probes
    <2>2. Prb!Fits(second, sum, TRUE) => second.counts = live'
      BY <1>1, <1>8 DEF Prb!Fits, Settled
    <2> QED
      BY <1>1, <1>2, <1>8, <2>1, <2>2, ApplySettles
  <1>10. ~hidden'
    <2>1. live[asked] \in Int
      BY <1>4
    <2>2. ~(live[asked] = 0 /\ live[asked] > 0)
      BY <2>1
    <2>3. ~(Prb!Fits(made, sum, TRUE) /\ made.counts[asked] = 0 /\ live[asked] > 0)
      BY <1>5, <2>2, Zenon
    <2> QED
      BY <1>3, <2>3, Zenon DEF ProbeInv
  <1> QED
    BY <1>1, <1>6, <1>9, <1>10, SectionHolds

LEMMA CommitHolds ==
    ASSUME ProbeInv, Prb!Commit
    PROVE  ProbeInv'
  <1>1. Prb!Section(1) /\ taken' = taken + 1 /\ taken + 1 \in Nat /\ live' = live /\ hidden' = hidden
    BY DEF Prb!Commit, Prb!Section, ProbeInv, Stamps
  <1>2. Prb!None \in [Values -> Int]
    BY DEF Prb!None
  <1>3. probe \in Probes /\ live \in [Values -> Int]
    BY DEF ProbeInv, Stamps
  <1>4. CASE ~probe.built
    <2>1. probe' = probe
      BY <1>4 DEF Prb!Commit
    <2> QED
      BY <1>1, <1>3, <1>4, <2>1, SectionHolds DEF Settled, ProbeInv
  <1>5. CASE probe.built /\ probe.table = table /\ probe.sum + 1 = taken + 1
    <2>1. probe' = [probe EXCEPT !.sum = taken + 1] /\ probe.counts = live
      BY <1>3, <1>5 DEF Prb!Commit, ProbeInv, Stamps, CacheHonest, Probes
    <2>2. probe' \in Probes /\ Settled(probe', live', taken')
      BY <1>1, <1>3, <1>5, <2>1 DEF Probes, Settled
    <2> QED
      BY <1>1, <1>3, <2>2, SectionHolds DEF ProbeInv
  <1>6. CASE probe.built /\ ~(probe.table = table /\ probe.sum + 1 = taken + 1)
    <2>1. probe' = Prb!Dropped(probe)
      BY <1>6 DEF Prb!Commit
    <2>2. probe' \in Probes /\ Settled(probe', live', taken')
      BY <1>2, <1>3, <2>1 DEF Probes, Settled, Prb!Dropped
    <2> QED
      BY <1>1, <1>3, <2>2, SectionHolds DEF ProbeInv
  <1> QED
    BY <1>4, <1>5, <1>6

LEMMA UntoldHolds ==
    ASSUME ProbeInv, NEW v \in Values, Prb!Untold(v)
    PROVE  ProbeInv'
  <1>1. taken' = taken + 1 /\ table' = table /\ order' = order /\ probe' = probe /\ hidden' = hidden
    BY DEF Prb!Untold, Prb!Section
  <1>2. live' \in [Values -> Int]
    <2>1. Prb!None \in [Values -> Int]
      BY DEF Prb!None
    <2> QED
      BY <2>1, RowsAreCounted DEF Prb!Untold, ProbeInv, Stamps
  <1> QED
    BY <1>1, <1>2 DEF ProbeInv, Stamps, CacheHonest, OrderHonest, Probes

LEMMA RemadeHolds ==
    ASSUME ProbeInv, Prb!Remade
    PROVE  ProbeInv'
  <1>1. Prb!None \in [Values -> Int]
    BY DEF Prb!None
  <1>2. /\ table' = table + 1 /\ taken' \in Nat /\ live' = Prb!None /\ probe' = Prb!NoProbe /\ order' = order
        /\ hidden' = hidden
    BY DEF Prb!Remade, ProbeInv, Stamps
  <1> QED
    BY <1>1, <1>2 DEF ProbeInv, Stamps, CacheHonest, OrderHonest, Prb!NoProbe, Probes

LEMMA ScanKeyOrderHolds ==
    ASSUME ProbeInv, Prb!ScanKeyOrder
    PROVE  ProbeInv'
  BY DEF Prb!ScanKeyOrder, ProbeInv, Stamps, CacheHonest, OrderHonest

LEMMA StepHolds == ProbeInv /\ [Prb!Next]_(Prb!vars) => ProbeInv'
  <1> SUFFICES ASSUME ProbeInv, [Prb!Next]_(Prb!vars) PROVE ProbeInv'
    OBVIOUS
  <1>1. CASE UNCHANGED Prb!vars
    BY <1>1 DEF Prb!vars, ProbeInv, Stamps, CacheHonest, OrderHonest
  <1>2. CASE Prb!Next
    BY <1>2, LookupHolds, DeleteSectionHolds, UntoldHolds, InsertTailHolds, UpdateSectionHolds,
       ParentSectionHolds, CommitHolds, RemadeHolds, ScanKeyOrderHolds DEF Prb!Next
  <1> QED
    BY <1>1, <1>2

(* The cache of UNIQUE values is stamped no later than now and is right as *)
(* long as nobody has taken a lock since, whichever writers tell it of a   *)
(* change (executor_unique_probe.cpp) and whichever do not.                *)
THEOREM StampsHold == Prb!Spec => []ProbeInv
  BY InitHolds, StepHolds, PTL DEF Prb!Spec

(* No INSERT, UPDATE or check of children is told that a value is absent   *)
(* that a live row holds, and a scan uses a cached order only for the rows *)
(* it was made from (unique_probe_proves_absent, fk_children_absent,       *)
(* scan_key_order), for every set of values and every bound.               *)
THEOREM NothingIsHidden == Prb!Spec => []Prb!ProbeHidesNothing
  <1>1. ProbeInv => Prb!ProbeHidesNothing
    BY CurrentCounts DEF Prb!ProbeHidesNothing, ProbeInv, OrderHonest
  <1> QED
    BY <1>1, StampsHold, PTL
=============================================================================
