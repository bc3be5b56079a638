--------------------------- MODULE RedoLogProofs ---------------------------
(***************************************************************************)
(* That the redo log keeps its promises (RedoLog.tla), for any sessions,   *)
(* tables and bounds.                                                      *)
(*                                                                         *)
(* Control says which session is where and what it holds, Rows what the    *)
(* versions in memory and in the files look like, LogOk what the log holds *)
(* of them as long as no append and no fsync has failed, LineOk how the    *)
(* batches of a row follow each other as long as none is overtaken.        *)
(***************************************************************************)
EXTENDS RedoLog, FiniteSetTheorems, WellFoundedInduction, TLAPS

Serving == mode \in {"up", "checkpoint"}
Steps == InCall \cup {"idle", "open", "failed"}

(* The session's transaction is open: its id is in active_txn_ids.         *)
InOpen(s) ==
    /\ job[s].kind = "commit"
    /\ \/ pc[s] \in {"open", "failed", "changed", "appended", "durable"}
       \/ pc[s] \in {"vacuumed", "marked"} /\ ~job[s].committing

Types ==
    /\ mode \in {"up", "checkpoint", "down", "recovering"}
    /\ mem \in [Tables -> SUBSET Versions] /\ file \in [Tables -> SUBSET Versions]
    /\ log \in Seq(Entries) /\ stable \in 0 .. Len(log)
    /\ fp \in BOOLEAN /\ appended \in Nat /\ synced \in Nat
    /\ redo_dirty \subseteq Tables /\ pending \subseteq Tables
    /\ next_id \in 1 .. MaxId + 1
    /\ open \subseteq 1 .. MaxId /\ undone \subseteq 1 .. MaxId
    /\ pc \in [Sessions -> Steps] /\ job \in [Sessions -> Jobs] /\ seq \in [Sessions -> Nat]
    /\ acked \subseteq [table : Tables, id : 1 .. MaxId]
    /\ failed \in BOOLEAN /\ overtaken \in BOOLEAN /\ crashes \in Nat

(* Where a session is, and the job that goes with it.                      *)
Placed(s) ==
    /\ pc[s] = "idle" <=> job[s] = NoJob
    /\ pc[s] # "idle" =>
          /\ job[s].kind \in Kinds /\ job[s].table \in Tables
          /\ job[s].id \in 1 .. next_id - 1 /\ job[s].ended < job[s].id
    /\ job[s].kind = "auto" => pc[s] \in InCall /\ ~job[s].committing
    /\ job[s].kind = "commit" =>
          /\ pc[s] \in {"open", "failed"} => ~job[s].committing
          /\ pc[s] \in {"changed", "appended", "durable", "finished"} => job[s].committing
    /\ mode # "up" => pc[s] \notin InCall
    /\ ~Serving => pc[s] = "idle"

(* No two sessions have one id, an open transaction has its table to       *)
(* itself among those that are open, a COMMIT among all.                   *)
Apart(s, u) ==
    pc[s] # "idle" /\ pc[u] # "idle" =>
        /\ job[s].id # job[u].id
        /\ job[s].kind = "commit" /\ job[u].kind = "commit" => job[s].table # job[u].table
        /\ job[s].committing => job[s].table # job[u].table
        /\ pc[s] \in {"vacuumed", "marked"} /\ pc[u] \in {"vacuumed", "marked"} => job[s].table # job[u].table

Sync ==
    \/ syncing = NoSync
    \/ /\ syncing \in [session : Sessions, target : Nat, covers : 0 .. Len(log)]
       /\ mode = "up" /\ pc[syncing.session] \in {"appended", "marked"}

Control ==
    /\ \A s \in Sessions : Placed(s)
    /\ \A s, u \in Sessions : s # u => Apart(s, u)
    /\ \A i : i \in open <=> \E s \in Sessions : InOpen(s) /\ i = job[s].id
    /\ \A i \in undone : Serving => i < next_id
    /\ \A i \in open : i \notin undone
    /\ ~Serving => stable = Len(log)
    /\ mode \in {"up", "down"} => pending = {}
    /\ Sync

(* A set of versions a table can have: one version an id, ended later than *)
(* made.                                                                   *)
Sound(R) ==
    /\ \A v, w \in R : v.id = w.id => v = w
    /\ \A v \in R : v.xmax = 0 \/ v.id < v.xmax

(* Behind an ended version there is one at least as late as its end; O are *)
(* the transactions that do not count.                                     *)
Closed(R, O) ==
    /\ \E v \in R : v.id \notin O
    /\ \A v \in R : v.xmax # 0 /\ v.xmax \notin O => \E w \in R : w.id \notin O /\ v.xmax <= w.id

(* Some version that counts is at least as late as i.                      *)
Reaches(R, O, i) == \E v \in R : v.id \notin O /\ i <= v.id

Memory(tb) ==
    /\ Sound(mem[tb]) /\ Closed(mem[tb], open)
    /\ \A v \in file[tb] : Reaches(mem[tb], open, v.id)
    /\ Serving =>
          /\ \A v \in mem[tb] : /\ v.id < next_id /\ v.xmax < next_id
                                /\ v.id \notin undone /\ v.xmax \notin undone
          /\ \A s \in Sessions : InOpen(s) =>
                IF job[s].table = tb
                THEN /\ [id |-> job[s].id, xmax |-> 0] \in mem[tb]
                     /\ [id |-> job[s].ended, xmax |-> job[s].id] \in mem[tb]
                     /\ \A v \in mem[tb] : v.xmax = job[s].id => v.id = job[s].ended
                ELSE \A v \in mem[tb] : v.id # job[s].id /\ v.xmax # job[s].id
          /\ \A s \in Sessions : pc[s] # "idle" /\ ~InOpen(s) /\ job[s].table = tb => Reaches(mem[tb], open, job[s].id)

(* What the log holds of a transaction.                                    *)
Written == {log[i].id : i \in {i \in 1 .. Len(log) : log[i].kind = "batch"}}

File(tb) ==
    /\ Sound(file[tb]) /\ Closed(file[tb], {})
    /\ \A v \in file[tb] : IF Serving THEN {v.id, v.xmax} \cap (open \cup undone) = {}
                           ELSE {v.id, v.xmax} \cap undone \subseteq Written
    /\ mode = "recovering" /\ tb \notin pending => file[tb] = mem[tb]
    /\ mode = "recovering" => \A v \in mem[tb] : {v.id, v.xmax} \cap undone \subseteq Written

Rows == \A tb \in Tables : (mode # "down" => Memory(tb)) /\ File(tb)

\* where the batches of a table are
At(tb) == {i \in 1 .. Len(log) : log[i].kind = "batch" /\ log[i].table = tb}

Entry(e) ==
    /\ e.kind = "batch" => e.table \in Tables /\ e.id \in 1 .. MaxId /\ e.ended < e.id
    /\ e.kind = "flushed" => \E tb \in Tables : e = Flushed(tb)
Logged == \A i \in 1 .. Len(log) : Entry(log[i])

IInv == Types /\ Control /\ Rows /\ Logged

Offset == appended - Len(log)

(* The job's batch or a later one of its table is durable, or in the file. *)
Durable(tb, id) ==
    \/ Reaches(file[tb], {}, id)
    \/ \E i \in At(tb) : i <= stable /\ id <= log[i].id

(* The batch of the job has been handed to the log.                        *)
IsLogged(s) ==
    \/ pc[s] \in {"appended", "durable", "finished"}
    \/ pc[s] \in {"vacuumed", "marked"} /\ job[s].committing

Positions ==
    /\ \A i \in 1 .. Len(log) : log[i].kind # "torn"
    /\ Serving =>
          /\ Offset >= 0 /\ synced - Offset <= stable
          /\ log # <<>> => fp
          /\ syncing # NoSync => /\ syncing.target - Offset = syncing.covers
                                 /\ seq[syncing.session] <= syncing.target
          /\ \A s \in Sessions : pc[s] = "appended" =>
                seq[s] - Offset \in 1 .. Len(log) /\ log[seq[s] - Offset] = Batch(job[s])
          /\ \A s \in Sessions : pc[s] = "marked" => seq[s] - Offset \in 1 .. Len(log)
    /\ \A s \in Sessions : job[s].logged <=> IsLogged(s)

Covered(tb) ==
    /\ \A i \in At(tb) : Serving =>
          /\ tb \in redo_dirty
          /\ \/ Reaches(mem[tb], open, log[i].id)
             \/ \E s \in Sessions : InOpen(s) /\ job[s].logged /\ job[s].id = log[i].id /\ job[s].table = tb
    /\ \A i \in At(tb) : mode = "recovering" => Reaches(mem[tb], {}, log[i].id)
    /\ \A i \in At(tb), k \in 1 .. Len(log) : i < k /\ log[k] = Flushed(tb) => Reaches(file[tb], {}, log[i].id)
    /\ mode = "checkpoint" /\ tb \notin pending => \A i \in At(tb) : Reaches(file[tb], {}, log[i].id)
    /\ \A s \in Sessions : pc[s] = "vacuumed" /\ job[s].table = tb =>
          /\ \A i \in At(tb) : Reaches(file[tb], {}, log[i].id)
          /\ \A u \in Sessions : job[u].kind = "auto" /\ job[u].table = tb => Reaches(file[tb], {}, job[u].id)

(* The sessions to whom durability is due: the batch has been synced.      *)
Due(s) ==
    \/ pc[s] \in {"durable", "finished"}
    \/ pc[s] \in {"vacuumed", "marked"} /\ job[s].committing

Promised ==
    /\ \A a \in acked : Durable(a.table, a.id)
    /\ \A s \in Sessions : Due(s) => Durable(job[s].table, job[s].id)

LogOk == Positions /\ (\A tb \in Tables : Covered(tb)) /\ Promised
LogInv == ~failed => LogOk

-----------------------------------------------------------------------------
(* Numbers, sets and the log as a sequence.                                  *)

\* Min returns the smallest member of a set of numbers.
LEMMA MinIs ==
    ASSUME NEW S \in SUBSET Nat, S # {}
    PROVE  Min(S) \in S /\ \A y \in S : Min(S) <= y
<1>1. \E m \in S : \A n \in S : m <= n
  <2>1. PICK m \in S : \A n \in S : ~(<<n, m>> \in OpToRel(<, Nat))
    BY NatLessThanWellFounded, WFMin
  <2>2. \A n \in S : ~(n < m)
    BY <2>1 DEF OpToRel
  <2> QED
    BY <2>2
<1> QED
  BY <1>1 DEF Min

\* Max returns the largest member of a bounded set of numbers.
LEMMA MaxIs ==
    ASSUME NEW n \in Nat, NEW S \in SUBSET (0 .. n), S # {}
    PROVE  Max(S) \in S /\ \A y \in S : y <= Max(S)
<1> DEFINE D == {n - x : x \in S}
<1>1. D \in SUBSET Nat /\ D # {}
  <2>1. \A x \in S : n - x \in Nat
    <3> TAKE x \in S
    <3>1. x \in 0 .. n
      OBVIOUS
    <3> QED
      BY <3>1
  <2>2. D \in SUBSET Nat
    BY <2>1
  <2> QED
    BY <2>2
<1>2. PICK d \in D : \A e \in D : d <= e
  BY <1>1, MinIs
<1>3. PICK m \in S : d = n - m
  BY <1>2
<1>4. \A y \in S : y <= m
  <2> TAKE y \in S
  <2>1. n - m <= n - y
    BY <1>2, <1>3
  <2> QED
    BY <2>1
<1>5. \E x \in S : \A y \in S : x >= y
  BY <1>4
<1> QED
  BY <1>5 DEF Max

\* A non-empty set of versions has a latest one.
LEMMA LatestOf ==
    ASSUME NEW R \in SUBSET Versions, R # {}
    PROVE  \E v \in R : \A w \in R : w.id <= v.id
<1> DEFINE S == {v.id : v \in R}
<1>1. S \in SUBSET (0 .. MaxId) /\ S # {}
  BY DEF Versions, Ids
<1>2. Max(S) \in S /\ \A y \in S : y <= Max(S)
  BY <1>1, MaxIs, BoundsAssumption
<1> QED
  BY <1>2

LEMMA MaxOfTwo ==
    ASSUME NEW a \in Nat, NEW b \in Nat
    PROVE  Max({a, b}) = IF a >= b THEN a ELSE b
BY DEF Max

\* l is the beginning of m.
Begins(l, m) ==
    /\ l \in Seq(Entries)
    /\ Len(l) <= Len(m)
    /\ \A i \in 1 .. Len(l) : l[i] = m[i]

LEMMA PrefixBegins ==
    ASSUME NEW m \in Seq(Entries), NEW k \in 0 .. Len(m)
    PROVE  Begins(SubSeq(m, 1, k), m) /\ Len(SubSeq(m, 1, k)) = k
<1>1. \A i \in 1 .. k : m[i] \in Entries
  OBVIOUS
<1> QED
  BY <1>1 DEF Begins

\* read_all reads a beginning of the log.
LEMMA IntactBegins ==
    ASSUME NEW l \in Seq(Entries)
    PROVE  /\ Begins(Intact(l), l)
           /\ (\A i \in 1 .. Len(l) : l[i].kind # "torn") => Intact(l) = l
<1> DEFINE torn == {i \in 1 .. Len(l) : l[i].kind = "torn"}
           k == IF torn = {} THEN Len(l) ELSE Min(torn) - 1
<1>1. k \in 0 .. Len(l)
  <2>1. torn \in SUBSET Nat
    OBVIOUS
  <2>2. torn # {} => Min(torn) \in torn
    BY <2>1, MinIs
  <2> QED
    BY <2>2
<1>2. Intact(l) = SubSeq(l, 1, k)
  BY DEF Intact
<1>3. Begins(Intact(l), l)
  <2> HIDE DEF k
  <2> QED
    BY <1>1, <1>2, PrefixBegins
<1>4. ASSUME \A i \in 1 .. Len(l) : l[i].kind # "torn" PROVE Intact(l) = l
  <2>1. torn = {}
    BY <1>4
  <2>2. k = Len(l)
    BY <2>1
  <2>3. SubSeq(l, 1, Len(l)) = l
    OBVIOUS
  <2> QED
    BY <1>2, <2>2, <2>3
<1> QED
  BY <1>3, <1>4

LEMMA BeginsTrans ==
    ASSUME NEW a, NEW b, NEW c \in Seq(Entries), Begins(a, b), Begins(b, c)
    PROVE  Begins(a, c)
BY DEF Begins

-----------------------------------------------------------------------------
(* What a recovery makes of a file and a log.                                *)

\* The batches that are replayed are among those the log holds of the table.
LEMMA RelevantIs ==
    ASSUME NEW l \in Seq(Entries), NEW tb \in Tables
    PROVE  Relevant(l, tb) \in SUBSET Nat /\ Relevant(l, tb) \subseteq 1 .. Len(l)
BY DEF Relevant

\* Q has each version of R, one more for each batch of l at the places at, and is ended where a batch says so.
Replays(Q, R, l, at) ==
    /\ \A w \in Q :
          /\ w \in Versions
          /\ \/ w \in R
             \/ \E v \in R : /\ v.id = w.id /\ v.xmax = 0
                             /\ \E i \in at : l[i].ended = w.id /\ l[i].id = w.xmax
             \/ /\ \E i \in at : l[i].id = w.id
                /\ \A v \in R : v.id # w.id
                /\ w.xmax = 0 \/ \E i \in at : l[i].ended = w.id /\ l[i].id = w.xmax
          /\ w.xmax = 0 => \A i \in at : l[i].ended # w.id
    /\ \A v \in R : \E w \in Q : w.id = v.id
    /\ \A v \in R : v.xmax # 0 => v \in Q
    /\ \A i \in at : \E w \in Q : w.id = l[i].id
    /\ (\A v, w \in R : v.id = w.id => v = w) => \A v, w \in Q : v.id = w.id => v = w

LEMMA ReplayIs ==
    ASSUME NEW R \in SUBSET Versions, NEW l \in Seq(Entries), NEW at \in SUBSET (1 .. Len(l)),
           \A i \in at : l[i].id # 0
    PROVE  Replays(Replay(R, l, at), R, l, at)
<1> DEFINE made == {[id |-> l[i].id, xmax |-> 0] : i \in {i \in at : \A v \in R : v.id # l[i].id}}
           ends(v) == {i \in at : l[i].ended = v.id}
           after(v) == IF v.xmax = 0 /\ ends(v) # {} THEN [v EXCEPT !.xmax = l[Min(ends(v))].id] ELSE v
<1>0. \A i \in at : l[i] \in Entries /\ l[i].id \in Ids /\ l[i].ended \in Ids
  <2> TAKE i \in at
  <2>1. i \in 1 .. Len(l)
    OBVIOUS
  <2>2. l[i] \in Entries
    BY <2>1
  <2> QED
    BY <2>2 DEF Entries
<1>1. Replay(R, l, at) = {after(v) : v \in R \cup made}
  BY DEF Replay
<1>2. \A v \in made : /\ v \in Versions /\ v.xmax = 0
                      /\ \E i \in at : l[i].id = v.id
                      /\ \A r \in R : r.id # v.id
  <2> TAKE v \in made
  <2>1. PICK i \in at : v = [id |-> l[i].id, xmax |-> 0] /\ \A r \in R : r.id # l[i].id
    OBVIOUS
  <2>2. l[i].id \in Ids /\ 0 \in Ids
    BY <1>0, BoundsAssumption DEF Ids
  <2> QED
    BY <2>1, <2>2 DEF Versions
<1>3. \A v \in R \cup made : v \in Versions
  BY <1>2
<1>4. ASSUME NEW v \in R \cup made
      PROVE  /\ after(v) \in Versions /\ after(v).id = v.id
             /\ after(v) = v \/ (v.xmax = 0 /\ \E i \in at : l[i].ended = v.id /\ l[i].id = after(v).xmax)
             /\ v.xmax # 0 => after(v) = v
             /\ v.xmax = 0 /\ ends(v) = {} => after(v) = v
             /\ v.xmax = 0 /\ ends(v) # {} => \E i \in ends(v) : after(v).xmax = l[i].id
  <2>1. ends(v) \in SUBSET Nat
    <3>1. \A i \in at : i \in 1 .. Len(l)
      OBVIOUS
    <3>2. \A i \in ends(v) : i \in Nat
      <4> TAKE i \in ends(v)
      <4>1. i \in 1 .. Len(l)
        BY <3>1
      <4> QED
        BY <4>1
    <3> QED
      BY <3>2
  <2>2. ends(v) # {} => Min(ends(v)) \in ends(v)
    BY <2>1, MinIs
  <2>3. v \in Versions
    BY <1>3
  <2>4. CASE v.xmax = 0 /\ ends(v) # {}
    <3>1. PICK i \in ends(v) : i = Min(ends(v))
      BY <2>2, <2>4
    <3>2. after(v) = [v EXCEPT !.xmax = l[i].id]
      BY <2>4, <3>1
    <3>3. l[i].id \in Ids /\ l[i].ended = v.id /\ i \in at
      BY <1>0, <3>1
    <3> HIDE DEF after
    <3> QED
      BY <2>3, <2>4, <3>2, <3>3 DEF Versions
  <2>5. CASE ~(v.xmax = 0 /\ ends(v) # {})
    BY <2>3, <2>5
  <2> QED
    BY <2>4, <2>5
<1> HIDE DEF after
<1>5. ASSUME NEW w \in Replay(R, l, at)
      PROVE  /\ w \in Versions
             /\ \/ w \in R
                \/ \E v \in R : /\ v.id = w.id /\ v.xmax = 0
                                /\ \E i \in at : l[i].ended = w.id /\ l[i].id = w.xmax
                \/ /\ \E i \in at : l[i].id = w.id
                   /\ \A v \in R : v.id # w.id
                   /\ w.xmax = 0 \/ \E i \in at : l[i].ended = w.id /\ l[i].id = w.xmax
  <2>1. PICK v \in R \cup made : w = after(v)
    BY <1>1
  <2>2. CASE v \in R
    BY <1>4, <2>1, <2>2
  <2>3. CASE v \in made
    BY <1>2, <1>4, <2>1, <2>3
  <2> QED
    BY <2>2, <2>3
<1>6. \A v \in R : \E w \in Replay(R, l, at) : w.id = v.id
  BY <1>1, <1>4
<1>7. \A v \in R : v.xmax # 0 => v \in Replay(R, l, at)
  BY <1>1, <1>4
<1>8. ASSUME NEW i \in at PROVE \E w \in Replay(R, l, at) : w.id = l[i].id
  <2>1. CASE \E v \in R : v.id = l[i].id
    BY <1>6, <2>1
  <2>2. CASE \A v \in R : v.id # l[i].id
    <3>1. [id |-> l[i].id, xmax |-> 0] \in made
      BY <2>2
    <3> QED
      BY <1>1, <1>4, <3>1
  <2> QED
    BY <2>1, <2>2
<1>9. ASSUME \A v, w \in R : v.id = w.id => v = w, NEW a \in Replay(R, l, at), NEW b \in Replay(R, l, at), a.id = b.id
      PROVE  a = b
  <2>1. PICK v \in R \cup made : a = after(v)
    BY <1>1
  <2>2. PICK w \in R \cup made : b = after(w)
    BY <1>1
  <2>3. v.id = w.id
    BY <1>4, <1>9, <2>1, <2>2
  <2>4. v = w
    <3>1. CASE v \in R /\ w \in R
      BY <1>9, <2>3, <3>1
    <3>2. CASE v \in made /\ w \in made
      BY <2>3, <3>2
    <3>3. CASE v \in made /\ w \in R
      BY <1>2, <2>3, <3>3
    <3>4. CASE v \in R /\ w \in made
      BY <1>2, <2>3, <3>4
    <3> QED
      BY <3>1, <3>2, <3>3, <3>4
  <2> QED
    BY <2>1, <2>2, <2>4
<1>10. ASSUME NEW w \in Replay(R, l, at), w.xmax = 0, NEW i \in at, l[i].ended = w.id PROVE FALSE
  <2>1. PICK v \in R \cup made : w = after(v)
    BY <1>1
  <2>2. v.id = w.id
    BY <1>4, <2>1
  <2>3. i \in ends(v)
    BY <1>10, <2>2
  <2>4. v.xmax = 0
    BY <1>4, <1>10, <2>1
  <2>5. PICK j \in ends(v) : w.xmax = l[j].id
    BY <1>4, <2>1, <2>3, <2>4
  <2>6. l[j].id # 0
    BY <2>5
  <2> QED
    BY <1>10, <2>5, <2>6
<1> QED
  BY <1>5, <1>6, <1>7, <1>8, <1>9, <1>10 DEF Replays

\* The places in the log of the batches that a recovery from l replays for tb.
Replayed(tb, l) == Relevant(Intact(l), tb)

\* Every version that is recovered comes from the file or from a batch that is replayed.
LEMMA RecoveredIs ==
    ASSUME Types, Logged, NEW l, Begins(l, log), NEW tb \in Tables
    PROVE  /\ Replayed(tb, l) \subseteq At(tb)
           /\ \A i \in Replayed(tb, l) : i <= Len(l) /\ log[i].id # 0
           /\ Replays(Recovered(tb, l), file[tb], log, Replayed(tb, l))
<1>0. log \in Seq(Entries) /\ l \in Seq(Entries)
  BY DEF Types, Begins
<1> DEFINE b == Intact(l)
           at == Relevant(b, tb)
           rec == Recovered(tb, l)
<1>1. Begins(b, l) /\ Begins(b, log)
  BY <1>0, IntactBegins, BeginsTrans
<1>2. b \in Seq(Entries)
  BY <1>1 DEF Begins
<1>3. at \subseteq 1 .. Len(b)
  BY <1>2, RelevantIs
<1>4. ASSUME NEW i \in at
      PROVE  i \in At(tb) /\ i <= Len(l) /\ log[i].id # 0 /\ b[i] = log[i]
  <2>0. i \in 1 .. Len(b)
    BY <1>3
  <2>1. i \in 1 .. Len(l) /\ i \in 1 .. Len(log) /\ b[i] = log[i]
    BY <1>1, <1>0, <1>2, <2>0 DEF Begins
  <2>2. b[i].kind = "batch" /\ b[i].table = tb
    BY DEF Relevant
  <2>3. i \in At(tb)
    BY <2>1, <2>2 DEF At
  <2>4. Entry(log[i])
    BY <2>1 DEF Logged
  <2>5. log[i].id \in 1 .. MaxId
    BY <2>1, <2>2, <2>4 DEF Entry
  <2> QED
    BY <2>1, <2>3, <2>5
<1>5. rec = Replay(file[tb], b, at)
  BY DEF Recovered
<1>6. file[tb] \in SUBSET Versions
  BY DEF Types
<1>7. \A i \in at : b[i].id # 0
  BY <1>4
<1>8. Replayed(tb, l) = at
  BY DEF Replayed
<1> HIDE DEF b, at, rec
<1>9. at \in SUBSET (1 .. Len(b))
  BY <1>3
<1>10. Replays(rec, file[tb], b, at)
  BY <1>2, <1>5, <1>6, <1>7, <1>9, ReplayIs
<1>11. Replays(rec, file[tb], log, at)
  BY <1>4, <1>10 DEF Replays
<1>12. rec = Recovered(tb, l)
  BY DEF rec
<1> QED
  BY <1>4, <1>8, <1>11, <1>12

-----------------------------------------------------------------------------
(* Files and vacuums.                                                        *)

\* save_committed leaves the versions of open transactions out and keeps every other.
LEMMA SaveIs ==
    ASSUME NEW R \in SUBSET Versions, Sound(R), Closed(R, open), open \subseteq 1 .. MaxId
    PROVE  /\ save_committed(R) \in SUBSET Versions
           /\ Sound(save_committed(R)) /\ Closed(save_committed(R), {})
           /\ \A v \in save_committed(R) :
                 /\ v.id \notin open /\ v.xmax \notin open
                 /\ \E w \in R : w.id = v.id /\ (v.xmax = w.xmax \/ (v.xmax = 0 /\ w.xmax \in open))
           /\ \A w \in R : w.id \notin open => \E v \in save_committed(R) : v.id = w.id
<1> DEFINE kept(v) == IF v.xmax \in open THEN [v EXCEPT !.xmax = 0] ELSE v
           F == save_committed(R)
<1>1. F = {kept(v) : v \in {v \in R : v.id \notin open}}
  BY DEF save_committed
<1>2. ASSUME NEW v \in R
      PROVE  /\ kept(v) \in Versions /\ kept(v).id = v.id /\ kept(v).xmax \notin open
             /\ kept(v).xmax = v.xmax \/ (kept(v).xmax = 0 /\ v.xmax \in open)
  <2>1. 0 \notin open /\ 0 \in Ids
    BY BoundsAssumption DEF Ids
  <2> QED
    BY <2>1 DEF Versions
<1> HIDE DEF kept, F
<1>3. F \in SUBSET Versions
  BY <1>1, <1>2
<1>4. ASSUME NEW v \in F
      PROVE  /\ v.id \notin open /\ v.xmax \notin open
             /\ \E w \in R : v = kept(w) /\ w.id = v.id /\ (v.xmax = w.xmax \/ (v.xmax = 0 /\ w.xmax \in open))
  BY <1>1, <1>2
<1>5. \A w \in R : w.id \notin open => \E v \in F : v.id = w.id
  BY <1>1, <1>2
<1>6. Sound(F)
  <2>1. ASSUME NEW v \in F, NEW w \in F, v.id = w.id PROVE v = w
    <3>1. PICK x \in R : v = kept(x) /\ x.id = v.id
      BY <1>4
    <3>2. PICK y \in R : w = kept(y) /\ y.id = w.id
      BY <1>4
    <3>3. x = y
      BY <2>1, <3>1, <3>2 DEF Sound
    <3> QED
      BY <3>1, <3>2, <3>3
  <2>2. ASSUME NEW v \in F PROVE v.xmax = 0 \/ v.id < v.xmax
    <3>1. PICK x \in R : x.id = v.id /\ (v.xmax = x.xmax \/ v.xmax = 0)
      BY <1>4
    <3>2. x.xmax = 0 \/ x.id < x.xmax
      BY DEF Sound
    <3> QED
      BY <3>1, <3>2
  <2> QED
    BY <2>1, <2>2 DEF Sound
<1>7. Closed(F, {})
  <2>1. \E v \in F : v.id \notin {}
    <3>1. PICK w \in R : w.id \notin open
      BY DEF Closed
    <3> QED
      BY <1>5, <3>1
  <2>2. ASSUME NEW v \in F, v.xmax # 0 PROVE \E w \in F : v.xmax <= w.id
    <3>1. PICK x \in R : x.id = v.id /\ v.xmax = x.xmax /\ v.xmax \notin open
      BY <1>4, <2>2
    <3>2. PICK y \in R : y.id \notin open /\ x.xmax <= y.id
      BY <2>2, <3>1 DEF Closed
    <3>3. PICK w \in F : w.id = y.id
      BY <1>5, <3>2
    <3> QED
      BY <3>1, <3>2, <3>3
  <2> QED
    BY <2>1, <2>2 DEF Closed
<1>8. F = save_committed(R)
  BY DEF F
<1> QED
  BY <1>3, <1>4, <1>5, <1>6, <1>7, <1>8

\* With nobody open the whole table is saved.
LEMMA SaveAll ==
    ASSUME NEW R \in SUBSET Versions, open = {}
    PROVE  save_committed(R) = R
BY DEF save_committed

\* The latest version of those that count is never vacuumed.
LEMMA VacuumKeeps ==
    ASSUME Types, NEW tb \in Tables, Sound(mem[tb]), Closed(mem[tb], open)
    PROVE  /\ \A v \in Vacuumable(tb) : v.xmax # 0 /\ v.xmax \notin open
           /\ \A w \in mem[tb] : w.id \notin open =>
                 \E x \in mem[tb] \ Vacuumable(tb) : x.id \notin open /\ w.id <= x.id
<1>0. mem[tb] \in SUBSET Versions /\ open \in SUBSET Nat
  <2>1. open \subseteq 1 .. MaxId
    BY DEF Types
  <2>2. \A i \in open : i \in Nat
    BY <2>1, BoundsAssumption
  <2> QED
    BY <2>2 DEF Types
<1>1. ASSUME NEW v \in Vacuumable(tb) PROVE v \in mem[tb] /\ v.xmax # 0 /\ v.xmax \notin open
  <2>1. v \in mem[tb] /\ v.xmax # 0 /\ v.xmax < (IF open = {} THEN next_id ELSE Min(open))
    BY DEF Vacuumable
  <2>2. CASE open = {}
    BY <2>1, <2>2
  <2>3. CASE open # {}
    <3>1. \A y \in open : Min(open) <= y
      BY <1>0, <2>3, MinIs
    <3>2. Min(open) \in Nat
      BY <1>0, <2>3, MinIs
    <3>3. v.xmax \in Nat
      BY <1>0, <2>1, BoundsAssumption DEF Versions, Ids
    <3> QED
      BY <2>1, <2>3, <3>1, <3>2, <3>3
  <2> QED
    BY <2>2, <2>3
<1>2. ASSUME NEW w \in mem[tb], w.id \notin open
      PROVE  \E x \in mem[tb] \ Vacuumable(tb) : x.id \notin open /\ w.id <= x.id
  <2> DEFINE S == {x \in mem[tb] : x.id \notin open}
  <2>1. S \in SUBSET Versions /\ S # {}
    BY <1>0, <1>2
  <2>2. PICK x \in S : \A y \in S : y.id <= x.id
    BY <2>1, LatestOf
  <2>3. x \notin Vacuumable(tb)
    <3> SUFFICES ASSUME x \in Vacuumable(tb) PROVE FALSE
      OBVIOUS
    <3>1. x.xmax # 0 /\ x.xmax \notin open
      BY <1>1
    <3>2. PICK y \in mem[tb] : y.id \notin open /\ x.xmax <= y.id
      BY <2>2, <3>1 DEF Closed
    <3>3. x.id < x.xmax
      BY <2>2, <3>1 DEF Sound
    <3>4. y.id <= x.id
      BY <2>2, <3>2
    <3>5. x.id \in Int /\ y.id \in Int /\ x.xmax \in Int
      BY <1>0, <2>2, <3>2, BoundsAssumption DEF Versions, Ids
    <3> QED
      BY <3>2, <3>3, <3>4, <3>5
  <2> QED
    BY <1>2, <2>2, <2>3
<1> QED
  BY <1>1, <1>2

-----------------------------------------------------------------------------
(* The sessions: types and control.                                          *)

\* The job of a session: what it changes when it is not idle.
LEMMA JobIs ==
    ASSUME Types, Control, NEW s \in Sessions
    PROVE  /\ job[s] \in Jobs /\ pc[s] \in Steps /\ Placed(s)
           /\ job[s].kind \in Kinds \cup {"none"} /\ job[s].id \in Nat /\ job[s].ended \in Nat
           /\ job[s].logged \in BOOLEAN /\ job[s].committing \in BOOLEAN
           /\ pc[s] # "idle" => /\ job[s].kind \in {"auto", "commit"} /\ job[s].table \in Tables
                                /\ job[s].id \in 1 .. MaxId /\ job[s].id < next_id
                                /\ job[s].ended \in 0 .. MaxId
           /\ pc[s] = "idle" => job[s] = NoJob
<1>1. job[s] \in Jobs /\ pc[s] \in Steps /\ Placed(s)
  BY DEF Types, Control
<1>2. /\ job[s].id \in 0 .. MaxId /\ job[s].ended \in 0 .. MaxId /\ job[s].kind \in Kinds \cup {"none"}
      /\ job[s].logged \in BOOLEAN /\ job[s].committing \in BOOLEAN
  BY <1>1 DEF Jobs, Ids
<1>3. next_id \in 1 .. MaxId + 1
  BY DEF Types
<1>4. ASSUME pc[s] # "idle"
      PROVE  /\ job[s].kind \in {"auto", "commit"} /\ job[s].table \in Tables
             /\ job[s].id \in 1 .. MaxId /\ job[s].id < next_id
  <2>1. /\ job[s].kind \in Kinds /\ job[s].table \in Tables
        /\ job[s].id \in 1 .. next_id - 1
    BY <1>1, <1>4 DEF Placed
  <2>2. job[s].kind \in {"auto", "commit"}
    BY <2>1, KindsAssumption
  <2> QED
    BY <1>3, <2>1, <2>2, BoundsAssumption
<1>5. pc[s] = "idle" => job[s] = NoJob
  BY <1>1 DEF Placed
<1> QED
  BY <1>1, <1>2, <1>4, <1>5, BoundsAssumption

LEMMA InitTypes == Init => Types
<1> SUFFICES ASSUME Init PROVE Types
  OBVIOUS
<1>1. 0 \in Ids
  BY BoundsAssumption DEF Ids
<1>2. NoJob \in Jobs
  BY <1>1 DEF NoJob, Jobs
<1>3. mem \in [Tables -> SUBSET Versions]
  BY <1>1 DEF Init, Versions
<1>4. log \in Seq(Entries) /\ stable \in 0 .. Len(log)
  BY DEF Init
<1>5. pc \in [Sessions -> Steps] /\ job \in [Sessions -> Jobs] /\ seq \in [Sessions -> Nat]
  BY <1>2 DEF Init, Steps
<1>6. next_id \in 1 .. MaxId + 1
  BY BoundsAssumption DEF Init
<1> QED
  BY <1>3, <1>4, <1>5, <1>6 DEF Init, Types

\* What an appended entry makes of the log.
LEMMA Appends ==
    ASSUME Types, NEW e \in Entries
    PROVE  /\ Append(log, e) \in Seq(Entries) /\ Len(Append(log, e)) = Len(log) + 1
           /\ Append(log, e)[Len(log) + 1] = e
           /\ \A i \in 1 .. Len(log) : Append(log, e)[i] = log[i]
           /\ stable \in 0 .. Len(log) + 1
<1>1. log \in Seq(Entries) /\ stable \in 0 .. Len(log)
  BY DEF Types
<1> QED
  BY <1>1

LEMMA FailsIs ==
    ASSUME Types, NEW s \in Sessions, Fails(s)
    PROVE  /\ job' \in [Sessions -> Jobs] /\ pc' \in [Sessions -> Steps]
           /\ \A u \in Sessions : u # s => pc'[u] = pc[u] /\ job'[u] = job[u]
           /\ \/ /\ job[s].kind = "commit" /\ pc'[s] = "failed"
                 /\ job'[s] = [job[s] EXCEPT !.logged = TRUE, !.committing = FALSE]
              \/ job[s].kind # "commit" /\ pc'[s] = "idle" /\ job'[s] = NoJob
<1>1. job \in [Sessions -> Jobs] /\ pc \in [Sessions -> Steps]
  BY DEF Types
<1>2. NoJob \in Jobs
  BY BoundsAssumption DEF NoJob, Jobs, Ids
<1>3. CASE job[s].kind = "commit"
  <2>1. [job[s] EXCEPT !.logged = TRUE, !.committing = FALSE] \in Jobs
    BY <1>1 DEF Jobs
  <2>2. job' = [job EXCEPT ![s] = [job[s] EXCEPT !.logged = TRUE, !.committing = FALSE]]
    BY <1>1, <1>3 DEF Fails
  <2> QED
    BY <1>1, <1>3, <2>1, <2>2 DEF Fails, Steps
<1>4. CASE job[s].kind # "commit"
  BY <1>1, <1>2, <1>4 DEF Fails, Steps
<1> QED
  BY <1>3, <1>4

LEMMA SessionTypes ==
    ASSUME IInv, NEW s \in Sessions, Session(s)
    PROVE  Types'
<1>0. Types /\ Control
  BY DEF IInv
<1>1. /\ job[s] \in Jobs /\ pc[s] \in Steps
      /\ pc[s] # "idle" => /\ job[s].table \in Tables /\ job[s].kind \in {"auto", "commit"}
                           /\ job[s].id \in 1 .. MaxId /\ job[s].ended \in 0 .. MaxId
  BY <1>0, JobIs
<1>2. NoJob \in Jobs /\ 0 \in Ids
  BY BoundsAssumption DEF NoJob, Jobs, Ids
<1>3. next_id \in 1 .. MaxId + 1 /\ mem \in [Tables -> SUBSET Versions] /\ open \subseteq 1 .. MaxId
  BY <1>0 DEF Types
<1>4. ASSUME NEW kind \in Kinds, NEW tb \in Tables, Change(s, kind, tb) PROVE Types'
  <2>1. next_id \in 1 .. MaxId /\ next_id \in Ids
    BY <1>3, <1>4, BoundsAssumption DEF Change, Ids
  <2>2. PICK v \in Live(mem[tb]) :
          /\ mem' = [mem EXCEPT ![tb] = (@ \ {v}) \cup {[v EXCEPT !.xmax = next_id], [id |-> next_id, xmax |-> 0]}]
          /\ job' = [job EXCEPT ![s] = [NoJob EXCEPT !.kind = kind, !.table = tb, !.id = next_id, !.ended = v.id]]
    BY <1>4 DEF Change
  <2>3. v \in Versions
    BY <1>3 DEF Live
  <2>4. [v EXCEPT !.xmax = next_id] \in Versions /\ [id |-> next_id, xmax |-> 0] \in Versions /\ v.id \in Ids
    BY <2>1, <2>3, <1>2 DEF Versions
  <2>5. mem' \in [Tables -> SUBSET Versions]
    BY <1>3, <2>2, <2>4
  <2>6. job' \in [Sessions -> Jobs]
    <3>1. [NoJob EXCEPT !.kind = kind, !.table = tb, !.id = next_id, !.ended = v.id] \in Jobs
      BY <2>1, <2>4 DEF NoJob, Jobs
    <3> QED
      BY <2>2, <3>1, <1>0 DEF Types
  <2>7. next_id' \in 1 .. MaxId + 1 /\ open' \subseteq 1 .. MaxId
    <3>1. next_id' = next_id + 1 /\ open' \subseteq open \cup {next_id}
      BY <1>4 DEF Change
    <3>2. next_id + 1 \in 1 .. MaxId + 1
      BY <2>1, BoundsAssumption
    <3> QED
      BY <1>3, <2>1, <3>1, <3>2
  <2>8. pc' \in [Sessions -> Steps]
    BY <1>0, <1>4 DEF Change, Types, Steps, InCall
  <2> QED
    BY <1>0, <1>4, <2>5, <2>6, <2>7, <2>8 DEF Change, Types, logVars, history
<1>5. CASE Commit(s)
  BY <1>0, <1>1, <1>5 DEF Commit, Types, logVars, history, Steps, InCall, Jobs
<1>6. CASE Rollback(s)
  <2>1. pc[s] # "idle"
    BY <1>6 DEF Rollback, TakesTable
  <2>2. mem' \in [Tables -> SUBSET Versions]
    BY <1>1, <1>2, <1>3, <1>6, <2>1 DEF Rollback, Versions
  <2> QED
    BY <1>0, <1>1, <1>2, <1>6, <2>1, <2>2 DEF Rollback, Types, logVars, Steps
<1>7. CASE Finish(s)
  BY <1>0, <1>1, <1>7 DEF Finish, Types, logVars, history, Steps, InCall
<1>8. CASE Reply(s)
  <2>1. pc[s] # "idle"
    BY <1>8 DEF Reply
  <2>2. [table |-> job[s].table, id |-> job[s].id] \in [table : Tables, id : 1 .. MaxId]
    BY <1>1, <2>1
  <2> QED
    BY <1>0, <1>2, <1>8, <2>2 DEF Reply, Types, logVars, Steps, InCall
<1>9. CASE NothingToLog(s)
  BY <1>0, <1>9 DEF NothingToLog, Types, logVars, history, Steps, InCall
<1>10. CASE WriteBatch(s)
  <2>1. pc[s] # "idle"
    BY <1>10 DEF WriteBatch
  <2>2. Batch(job[s]) \in Entries
    BY <1>1, <2>1, BoundsAssumption DEF Batch, Entries, Ids
  <2>3. log' \in Seq(Entries) /\ stable' \in 0 .. Len(log')
    BY <1>0, <1>10, <2>2, Appends DEF WriteBatch, append_batch
  <2>4. job' \in [Sessions -> Jobs]
    BY <1>0, <1>1, <1>10 DEF WriteBatch, Types, Jobs
  <2> QED
    BY <1>0, <1>1, <1>10, <2>1, <2>3, <2>4 DEF WriteBatch, append_batch, Types, Steps, InCall
<1>11. CASE WriteBatchFails(s)
  <2>1. pc[s] # "idle"
    BY <1>11 DEF WriteBatchFails
  <2>2. Torn \in Entries
    BY <1>2 DEF Torn, Entries
  <2>3. log' \in Seq(Entries) /\ stable' \in 0 .. Len(log')
    BY <1>0, <1>11, <2>2, Appends DEF WriteBatchFails, Types
  <2>4. job' \in [Sessions -> Jobs] /\ pc' \in [Sessions -> Steps]
    BY <1>0, <1>11, FailsIs DEF WriteBatchFails
  <2> QED
    BY <1>0, <1>1, <1>11, <2>1, <2>3, <2>4 DEF WriteBatchFails, Types
<1>12. CASE SyncReturns(s)
  BY <1>0, <1>12 DEF SyncReturns, Synced, Types, logVars, history, Steps, InCall
<1>13. CASE SyncStart(s)
  BY <1>0, <1>13 DEF SyncStart, Types, sessVars, history
<1>14. CASE SyncEnd(s)
  <2>1. syncing # NoSync
    BY <1>14, NamesAssumption DEF SyncEnd, NoSync
  <2>2. syncing.target \in Nat /\ syncing.covers \in 0 .. Len(log)
    BY <1>0, <2>1 DEF Control, Sync
  <2>3. stable \in 0 .. Len(log) /\ log \in Seq(Entries)
    BY <1>0 DEF Types
  <2>4. Max({stable, syncing.covers}) \in 0 .. Len(log)
    BY <2>2, <2>3, MaxOfTwo
  <2> QED
    BY <1>0, <1>14, <2>2, <2>4 DEF SyncEnd, Synced, Types, history, Steps, InCall
<1>15. CASE SyncFailed(s)
  <2>1. job' \in [Sessions -> Jobs] /\ pc' \in [Sessions -> Steps]
    BY <1>0, <1>15, FailsIs DEF SyncFailed
  <2> QED
    BY <1>0, <1>15, <2>1 DEF SyncFailed, Types
<1>16. CASE Vacuum(s)
  <2>1. pc[s] # "idle"
    BY <1>16 DEF Vacuum
  <2>2. mem' \in [Tables -> SUBSET Versions]
    BY <1>3, <1>16 DEF Vacuum
  <2>3. save_committed(mem[job[s].table] \ Vacuumable(job[s].table)) \in SUBSET Versions
    BY <1>1, <1>2, <1>3, <2>1 DEF save_committed, Versions
  <2>4. file' \in [Tables -> SUBSET Versions]
    BY <1>0, <1>16, <2>3 DEF Vacuum, Types
  <2>5. pc' \in [Sessions -> Steps]
    BY <1>0, <1>16 DEF Vacuum, Types, Steps, InCall
  <2> QED
    BY <1>0, <1>16, <2>2, <2>4, <2>5 DEF Vacuum, Types, logVars
<1>17. CASE redo_mark_flushed(s)
  <2>1. pc[s] # "idle"
    BY <1>17 DEF redo_mark_flushed
  <2>2. Flushed(job[s].table) \in Entries
    BY <1>1, <1>2, <2>1 DEF Flushed, Entries
  <2>3. log' \in Seq(Entries) /\ stable' \in 0 .. Len(log')
    BY <1>0, <1>17, <2>2, Appends DEF redo_mark_flushed, append_batch
  <2> QED
    BY <1>0, <1>17, <2>3 DEF redo_mark_flushed, append_batch, Types, history, Steps, InCall
<1> QED
  BY <1>4, <1>5, <1>6, <1>7, <1>8, <1>9, <1>10, <1>11, <1>12, <1>13, <1>14, <1>15, <1>16, <1>17 DEF Session

\* A checkpoint, a crash and a recovery keep the types.
LEMMA SystemTypes ==
    ASSUME IInv, Checkpoint \/ CheckpointDone \/ (\E tb \in Tables : FlushTable(tb)) \/ Crash \/ Recover \/ RecoverDone
    PROVE  Types'
<1>0. Types /\ Control /\ Rows /\ Logged
  BY DEF IInv
<1>1. log \in Seq(Entries) /\ stable \in 0 .. Len(log) /\ mem \in [Tables -> SUBSET Versions]
  BY <1>0 DEF Types
<1>2. CASE Checkpoint
  BY <1>0, <1>2 DEF Checkpoint, Types, logVars, sessVars, history
<1>3. CASE CheckpointDone
  <2>1. log' \in Seq(Entries) /\ stable' \in 0 .. Len(log')
    BY <1>3 DEF CheckpointDone, clear
  <2> QED
    BY <1>0, <1>3, <2>1 DEF CheckpointDone, clear, Types, sessVars, history
<1>4. ASSUME NEW tb \in Tables, FlushTable(tb) PROVE Types'
  <2>1. 0 \in Ids
    BY BoundsAssumption DEF Ids
  <2>2. save_committed(mem[tb]) \in SUBSET Versions
    BY <1>1, <2>1 DEF save_committed, Versions
  <2>3. file' \in [Tables -> SUBSET Versions]
    BY <1>0, <1>4, <2>2 DEF FlushTable, Types
  <2> QED
    BY <1>0, <1>4, <2>3 DEF FlushTable, Types, logVars, sessVars, history
<1>5. CASE Crash
  <2>1. PICK k \in stable .. Len(log) : log' = SubSeq(log, 1, k)
    BY <1>5 DEF Crash
  <2>2. k \in 0 .. Len(log)
    BY <1>1, <2>1
  <2>3. log' \in Seq(Entries) /\ stable' \in 0 .. Len(log')
    BY <1>1, <1>5, <2>1, <2>2, PrefixBegins DEF Crash, Begins
  <2>4. NoJob \in Jobs
    BY BoundsAssumption DEF NoJob, Jobs, Ids
  <2>5. pc' \in [Sessions -> Steps] /\ job' \in [Sessions -> Jobs] /\ seq' \in [Sessions -> Nat]
    BY <1>5, <2>4 DEF Crash, Steps
  <2>6. next_id' \in 1 .. MaxId + 1 /\ crashes' \in Nat
    BY <1>0, <1>5, BoundsAssumption DEF Crash, Types
  <2>7. mem' \in [Tables -> SUBSET Versions]
    BY <1>5 DEF Crash
  <2> QED
    BY <1>0, <1>5, <2>3, <2>5, <2>6, <2>7 DEF Crash, Types, history
<1>6. CASE Recover
  <2>1. Begins(log, log)
    BY <1>1 DEF Begins
  <2>2. \A tb \in Tables : Recovered(tb, log) \in SUBSET Versions
    BY <1>0, <2>1, RecoveredIs DEF Replays
  <2>3. mem' \in [Tables -> SUBSET Versions] /\ pending' \subseteq Tables
    BY <1>6, <2>2 DEF Recover
  <2> QED
    BY <1>0, <1>6, <2>3 DEF Recover, Types, logVars, sessVars, history
<1>7. CASE RecoverDone
  <2> DEFINE S == UNION {{v.id, v.xmax} : v \in UNION {mem[tb] : tb \in Tables}}
  <2>1. PICK tb \in Tables : TRUE
    BY NamesAssumption
  <2>2. PICK v \in mem[tb] : TRUE
    BY <1>0, <1>7 DEF Rows, Memory, Closed, RecoverDone
  <2>3. v.id \in S
    BY <2>1, <2>2
  <2>4. S \in SUBSET (0 .. MaxId)
    BY <1>1 DEF Versions, Ids
  <2>5. Max(S) \in S
    BY <2>3, <2>4, MaxIs, BoundsAssumption
  <2>6. next_id' \in 1 .. MaxId + 1
    <3>1. next_id' = 1 + Max(S) /\ Max(S) \in 0 .. MaxId
      BY <1>7, <2>4, <2>5 DEF RecoverDone
    <3> HIDE DEF S
    <3> QED
      BY <3>1, BoundsAssumption
  <2>7. log' \in Seq(Entries) /\ stable' \in 0 .. Len(log')
    BY <1>7 DEF RecoverDone, clear
  <2> QED
    BY <1>0, <1>7, <2>6, <2>7 DEF RecoverDone, clear, Types
<1> QED
  BY <1>2, <1>3, <1>4, <1>5, <1>6, <1>7

\* The step of a session that keeps its place well leaves the others where they were.
LEMMA Moves ==
    ASSUME Types, Control, Types', NEW s \in Sessions, mode = "up", mode' = "up",
           \A u \in Sessions : u # s => pc'[u] = pc[u] /\ job'[u] = job[u],
           next_id <= next_id', Placed(s)',
           \A u \in Sessions : u # s => Apart(s, u)' /\ Apart(u, s)',
           \A i : i \in open' <=> (i \in open /\ i # job[s].id) \/ (InOpen(s)' /\ i = job[s]'.id),
           \A i \in undone' : i < next_id' /\ i \notin open',
           pending' = pending, Sync'
    PROVE  Control'
<1>1. ASSUME NEW u \in Sessions PROVE Placed(u)'
  <2>1. CASE u = s
    BY <2>1
  <2>2. CASE u # s
    <3>1. pc'[u] = pc[u] /\ job'[u] = job[u]
      BY <2>2
    <3>2. next_id \in Int /\ next_id' \in Int /\ next_id <= next_id'
      BY DEF Types
    <3>3. Placed(u) /\ job[u].id \in Nat
      BY JobIs
    <3> QED
      BY <3>1, <3>2, <3>3 DEF Placed, Serving
  <2> QED
    BY <2>1, <2>2
<1>2. ASSUME NEW u \in Sessions, NEW w \in Sessions, u # w PROVE Apart(u, w)'
  <2>1. CASE u # s /\ w # s
    BY <1>2, <2>1 DEF Control, Apart
  <2> QED
    BY <1>2, <2>1
<1>3. \A u \in Sessions : u # s => (InOpen(u)' <=> InOpen(u))
  BY DEF InOpen
<1>4. \A i : i \in open' <=> \E u \in Sessions : InOpen(u)' /\ i = job[u]'.id
  <2>1. ASSUME NEW i, i \in open, i # job[s].id PROVE \E u \in Sessions : InOpen(u)' /\ i = job[u]'.id
    <3>1. PICK u \in Sessions : InOpen(u) /\ i = job[u].id
      BY <2>1 DEF Control
    <3> QED
      BY <1>3, <2>1, <3>1
  <2>2. ASSUME NEW u \in Sessions, u # s, InOpen(u)' PROVE job[u].id \in open /\ job[u].id # job[s].id
    <3>1. InOpen(u)
      BY <1>3, <2>2
    <3>2. job[u].id \in open
      BY <3>1 DEF Control
    <3>3. Placed(s) /\ Placed(u) /\ Apart(u, s)
      BY <2>2 DEF Control
    <3>4. job[u].id # 0 /\ pc[u] # "idle"
      BY <3>1, <3>2, <3>3 DEF Types, InOpen
    <3>5. pc[s] = "idle" => job[s].id = 0
      BY <3>3 DEF Placed, NoJob
    <3> QED
      BY <3>2, <3>3, <3>4, <3>5 DEF Apart
  <2> QED
    BY <2>1, <2>2
<1> QED
  BY <1>1, <1>2, <1>4 DEF Control, Serving

\* An fsync under way is not disturbed by a session that is not in it.
LEMMA SyncStays ==
    ASSUME Types, Control, NEW s \in Sessions, syncing' = syncing, mode' = mode, Len(log) <= Len(log)', Len(log)' \in Nat,
           pc[s] \notin {"appended", "marked"} \/ syncing = NoSync,
           \A u \in Sessions : u # s => pc'[u] = pc[u]
    PROVE  Sync'
<1>1. CASE syncing = NoSync
  BY <1>1 DEF Sync
<1>2. CASE syncing # NoSync
  <2>1. /\ syncing \in [session : Sessions, target : Nat, covers : 0 .. Len(log)]
        /\ mode = "up" /\ pc[syncing.session] \in {"appended", "marked"}
    BY <1>2 DEF Control, Sync
  <2>2. syncing.session # s
    BY <1>2, <2>1
  <2>3. Len(log) \in Nat
    BY DEF Types
  <2>4. syncing \in [session : Sessions, target : Nat, covers : 0 .. Len(log)']
    BY <2>1, <2>3
  <2> QED
    BY <2>1, <2>2, <2>4 DEF Sync
<1> QED
  BY <1>1, <1>2

LEMMA SessionControl ==
    ASSUME IInv, NEW s \in Sessions, Session(s), Types'
    PROVE  Control'
<1>0. Types /\ Control
  BY DEF IInv
<1>1. /\ job[s] \in Jobs /\ pc[s] \in Steps /\ Placed(s)
      /\ job[s].kind \in Kinds \cup {"none"} /\ job[s].id \in Nat
      /\ job[s].logged \in BOOLEAN /\ job[s].committing \in BOOLEAN
      /\ pc[s] # "idle" => /\ job[s].kind \in {"auto", "commit"} /\ job[s].table \in Tables
                           /\ job[s].id \in 1 .. MaxId /\ job[s].id < next_id
      /\ pc[s] = "idle" => job[s] = NoJob
  BY <1>0, JobIs
<1>2. /\ pc \in [Sessions -> Steps] /\ job \in [Sessions -> Jobs]
      /\ next_id \in Nat /\ next_id <= next_id /\ Len(log) \in Nat /\ Len(log)' \in Nat
      /\ open \subseteq 1 .. MaxId
  BY <1>0, BoundsAssumption DEF Types
<1>3. \A u \in Sessions : u # s => Apart(s, u) /\ Apart(u, s) /\ Placed(u)
  BY <1>0 DEF Control
<1>4. \A i : i \in open <=> \E u \in Sessions : InOpen(u) /\ i = job[u].id
  BY <1>0 DEF Control
<1>5. \A i \in undone : (mode = "up" => i < next_id) /\ i \notin open
  BY <1>0 DEF Control, Serving
<1>6. InOpen(s) <=> job[s].id \in open
  <2>1. ASSUME job[s].id \in open PROVE InOpen(s)
    <3>1. PICK u \in Sessions : InOpen(u) /\ job[s].id = job[u].id
      BY <1>4, <2>1
    <3>2. pc[u] # "idle"
      BY <3>1 DEF InOpen
    <3>3. job[s].id # 0
      BY <1>2, <2>1
    <3>4. pc[s] # "idle"
      BY <1>1, <3>3 DEF NoJob
    <3> QED
      BY <1>3, <3>1, <3>2, <3>4 DEF Apart
  <2> QED
    BY <1>4, <2>1
<1>7. ASSUME NEW kind \in Kinds, NEW tb \in Tables, Change(s, kind, tb) PROVE Control'
  <2>1. PICK v \in Live(mem[tb]) :
          job' = [job EXCEPT ![s] = [NoJob EXCEPT !.kind = kind, !.table = tb, !.id = next_id, !.ended = v.id]]
    BY <1>7 DEF Change
  <2>2. /\ mode = "up" /\ mode' = "up" /\ pc[s] = "idle" /\ next_id' = next_id + 1 /\ kind \in {"auto", "commit"}
        /\ pc' = [pc EXCEPT ![s] = IF kind = "commit" THEN "open" ELSE "changed"]
        /\ open' = IF kind = "commit" THEN open \cup {next_id} ELSE open
        /\ undone' = undone /\ pending' = pending /\ syncing' = syncing /\ log' = log
    BY <1>7, KindsAssumption DEF Change, history, logVars
  <2>3. \A u \in Sessions : u # s => pc'[u] = pc[u] /\ job'[u] = job[u]
    BY <1>2, <2>1, <2>2
  <2>4. /\ pc'[s] = (IF kind = "commit" THEN "open" ELSE "changed")
        /\ job'[s] = [NoJob EXCEPT !.kind = kind, !.table = tb, !.id = next_id, !.ended = v.id]
    BY <1>2, <2>1, <2>2
  <2>5. v.id \in Nat /\ v.id < next_id
    <3>1. v \in mem[tb] /\ v \in Versions
      BY <1>0 DEF Live, Types
    <3>2. v.id < next_id
      BY <2>2, <3>1 DEF IInv, Rows, Memory, Serving
    <3> QED
      BY <3>1, <3>2, BoundsAssumption DEF Versions, Ids
  <2>6. Placed(s)'
    <3>0. job'[s].kind = kind /\ NoJob.kind = "none"
      BY <2>4 DEF NoJob
    <3>1. pc'[s] # "idle" /\ job'[s] # NoJob
      <4>1. job'[s] # NoJob
        BY <2>2, <3>0
      <4>2. pc'[s] # "idle"
        BY <2>4
      <4> QED
        BY <4>1, <4>2
    <3>2. job'[s].id \in 1 .. next_id' - 1 /\ job'[s].ended < job'[s].id
      <4>1. next_id \in 1 .. MaxId + 1
        BY <1>0 DEF Types
      <4> QED
        BY <2>2, <2>4, <2>5, <4>1, BoundsAssumption DEF NoJob
    <3> QED
      BY <2>2, <2>4, <3>1, <3>2 DEF Placed, NoJob, InCall, Serving
  <2>7. \A u \in Sessions : u # s => Apart(s, u)' /\ Apart(u, s)'
    <3> TAKE u \in Sessions
    <3> HAVE u # s
    <3>1. ~Claims(u, tb) /\ ~Flushing(u, tb)
      BY <1>7 DEF Change
    <3>2. pc[u] # "idle" => job[u].id < next_id /\ job[u].id \in Nat
      BY <1>0, JobIs
    <3>3. job[u].committing => job[u].kind = "commit"
      BY <1>0, JobIs, <1>3 DEF Placed, NoJob
    <3> QED
      BY <1>2, <2>2, <2>3, <2>4, <3>1, <3>2, <3>3 DEF Apart, Claims, Flushing, NoJob
  <2>8. \A i : i \in open' <=> (i \in open /\ i # job[s].id) \/ (InOpen(s)' /\ i = job[s]'.id)
    <3>1. job[s].id = 0 /\ 0 \notin open
      BY <1>1, <1>2, <2>2 DEF NoJob
    <3>2. job[s]'.id = next_id /\ (InOpen(s)' <=> kind = "commit")
      BY <2>2, <2>4 DEF InOpen, NoJob
    <3> QED
      BY <2>2, <3>1, <3>2
  <2>9. \A i \in undone' : i < next_id' /\ i \notin open'
    <3>1. \A i \in undone : i \in Nat
      BY <1>0, BoundsAssumption DEF Types
    <3> QED
      BY <1>2, <1>5, <2>2, <3>1
  <2>10. Sync'
    BY <1>0, <1>2, <2>2, <2>3, SyncStays
  <2> QED
    BY <1>0, <1>2, <2>2, <2>3, <2>6, <2>7, <2>8, <2>9, <2>10, Moves
<1>8. CASE Commit(s)
  <2>1. /\ mode = "up" /\ mode' = "up" /\ pc[s] \in {"open", "failed"} /\ pc' = [pc EXCEPT ![s] = "changed"]
        /\ job' = [job EXCEPT ![s].committing = TRUE]
        /\ UNCHANGED <<open, undone, pending, syncing, log, next_id>>
        /\ \A u \in Sessions \ {s} : ~Busy(u, job[s].table)
    BY <1>8 DEF Commit, TakesTable, history, logVars
  <2>2. \A u \in Sessions : u # s => pc'[u] = pc[u] /\ job'[u] = job[u]
    BY <1>2, <2>1
  <2>3. pc'[s] = "changed" /\ job'[s] = [job[s] EXCEPT !.committing = TRUE]
    BY <1>2, <2>1
  <2>4. job[s].kind = "commit"
    BY <1>1, <2>1 DEF Placed, InCall
  <2>5. /\ job'[s].kind = "commit" /\ job'[s].table = job[s].table /\ job'[s].id = job[s].id
        /\ job'[s].ended = job[s].ended /\ job'[s].committing
    BY <1>1, <2>3, <2>4 DEF Jobs
  <2>6. Placed(s)'
    BY <1>1, <2>1, <2>3, <2>4, <2>5 DEF Placed, InCall, Serving, NoJob
  <2>7. \A u \in Sessions : u # s => Apart(s, u)' /\ Apart(u, s)'
    <3> TAKE u \in Sessions
    <3> HAVE u # s
    <3>1. pc[u] # "idle" => job[u].table # job[s].table
      <4>1. pc[u] \in InCall => job[u].table # job[s].table
        BY <2>1 DEF Busy
      <4>2. pc[u] # "idle" /\ pc[u] \notin InCall => job[u].kind = "commit"
        BY <1>0, <1>3, JobIs DEF Placed
      <4> QED
        BY <1>3, <2>1, <2>4, <4>1, <4>2 DEF Apart
    <3> QED
      BY <1>3, <2>1, <2>2, <2>3, <2>5, <3>1 DEF Apart
  <2>8. \A i : i \in open' <=> (i \in open /\ i # job[s].id) \/ (InOpen(s)' /\ i = job[s]'.id)
    <3>1. InOpen(s) /\ InOpen(s)'
      BY <2>1, <2>3, <2>4, <2>5 DEF InOpen
    <3> QED
      BY <1>4, <2>1, <2>5, <3>1
  <2>9. Sync'
    BY <1>0, <1>2, <2>1, <2>2, SyncStays
  <2> QED
    BY <1>0, <1>2, <1>5, <2>1, <2>2, <2>6, <2>7, <2>8, <2>9, Moves
<1>9. CASE Rollback(s)
  <2>1. /\ mode = "up" /\ mode' = "up" /\ pc[s] \in {"open", "failed"} /\ pc' = [pc EXCEPT ![s] = "idle"]
        /\ job' = [job EXCEPT ![s] = NoJob] /\ open' = open \ {job[s].id} /\ undone' = undone \cup {job[s].id}
        /\ UNCHANGED <<pending, syncing, log, next_id>>
    BY <1>9 DEF Rollback, TakesTable, logVars
  <2>2. \A u \in Sessions : u # s => pc'[u] = pc[u] /\ job'[u] = job[u]
    BY <1>2, <2>1
  <2>3. pc'[s] = "idle" /\ job'[s] = NoJob
    BY <1>2, <2>1
  <2>4. Placed(s)'
    BY <2>1, <2>3 DEF Placed, NoJob, InCall, Serving
  <2>5. \A u \in Sessions : u # s => Apart(s, u)' /\ Apart(u, s)'
    BY <2>3 DEF Apart
  <2>6. \A i : i \in open' <=> (i \in open /\ i # job[s].id) \/ (InOpen(s)' /\ i = job[s]'.id)
    BY <2>1, <2>3 DEF InOpen, NoJob
  <2>7. \A i \in undone' : i < next_id' /\ i \notin open'
    BY <1>1, <1>5, <2>1
  <2>8. Sync'
    BY <1>0, <1>2, <2>1, <2>2, SyncStays
  <2> QED
    BY <1>0, <1>2, <2>1, <2>2, <2>4, <2>5, <2>6, <2>7, <2>8, Moves
<1>10. CASE Finish(s)
  <2>1. /\ mode = "up" /\ mode' = "up" /\ pc[s] = "durable" /\ pc' = [pc EXCEPT ![s] = "finished"]
        /\ open' = open \ {job[s].id}
        /\ UNCHANGED <<job, undone, pending, syncing, log, next_id>>
    BY <1>10 DEF Finish, logVars, history
  <2>2. /\ \A u \in Sessions : u # s => pc'[u] = pc[u] /\ job'[u] = job[u]
        /\ pc'[s] = "finished" /\ job'[s] = job[s]
    BY <1>2, <2>1
  <2>3. Placed(s)'
    BY <1>1, <2>1, <2>2 DEF Placed, InCall, Serving
  <2>4. \A u \in Sessions : u # s => Apart(s, u)' /\ Apart(u, s)'
    BY <1>3, <2>1, <2>2 DEF Apart
  <2>5. \A i : i \in open' <=> (i \in open /\ i # job[s].id) \/ (InOpen(s)' /\ i = job[s]'.id)
    BY <2>1, <2>2 DEF InOpen
  <2>6. Sync'
    BY <1>0, <1>2, <2>1, <2>2, SyncStays
  <2> QED
    BY <1>0, <1>2, <1>5, <2>1, <2>2, <2>3, <2>4, <2>5, <2>6, Moves
<1>11. CASE Reply(s)
  <2>1. /\ mode = "up" /\ mode' = "up" /\ pc[s] = "finished" /\ pc' = [pc EXCEPT ![s] = "idle"]
        /\ job' = [job EXCEPT ![s] = NoJob]
        /\ UNCHANGED <<open, undone, pending, syncing, log, next_id>>
    BY <1>11 DEF Reply, logVars
  <2>2. /\ \A u \in Sessions : u # s => pc'[u] = pc[u] /\ job'[u] = job[u]
        /\ pc'[s] = "idle" /\ job'[s] = NoJob
    BY <1>2, <2>1
  <2>3. Placed(s)'
    BY <2>1, <2>2 DEF Placed, NoJob, InCall, Serving
  <2>4. \A u \in Sessions : u # s => Apart(s, u)' /\ Apart(u, s)'
    BY <2>2 DEF Apart
  <2>5. \A i : i \in open' <=> (i \in open /\ i # job[s].id) \/ (InOpen(s)' /\ i = job[s]'.id)
    <3>1. ~InOpen(s) /\ ~InOpen(s)'
      BY <2>1, <2>2 DEF InOpen, NoJob
    <3> QED
      BY <1>6, <2>1, <3>1
  <2>6. Sync'
    BY <1>0, <1>2, <2>1, <2>2, SyncStays
  <2> QED
    BY <1>0, <1>2, <1>5, <2>1, <2>2, <2>3, <2>4, <2>5, <2>6, Moves
<1>12. ASSUME UNCHANGED <<open, undone, pending, next_id>>, mode = "up", mode' = "up", Sync',
              \A u \in Sessions : u # s => pc'[u] = pc[u] /\ job'[u] = job[u],
              pc[s] \in InCall \cup {"open"}, pc'[s] \in InCall \cup {"open"},
              job'[s].kind = job[s].kind, job'[s].table = job[s].table, job'[s].id = job[s].id, job'[s].ended = job[s].ended,
              job'[s].committing = job[s].committing, job'[s] # NoJob,
              job[s].kind = "auto" => pc'[s] # "open",
              job[s].kind = "commit" /\ ~job[s].committing => pc'[s] \in {"open", "vacuumed", "marked"},
              job[s].kind = "commit" /\ job[s].committing => pc'[s] # "open",
              InOpen(s)' <=> InOpen(s),
              pc'[s] \in {"vacuumed", "marked"} =>
                 \/ pc[s] \in {"vacuumed", "marked"}
                 \/ \A u \in Sessions \ {s} : ~Flushing(u, job[s].table)
       PROVE  Control'
  <2>1. pc[s] # "idle" /\ pc'[s] # "idle"
    BY <1>12 DEF InCall
  <2>2. Placed(s)'
    BY <1>1, <1>12, <2>1 DEF Placed, InCall, Serving
  <2>3. \A u \in Sessions : u # s => Apart(s, u)' /\ Apart(u, s)'
    BY <1>3, <1>12, <2>1 DEF Apart, Flushing
  <2>4. \A i : i \in open' <=> (i \in open /\ i # job[s].id) \/ (InOpen(s)' /\ i = job[s]'.id)
    BY <1>6, <1>12
  <2> QED
    BY <1>0, <1>2, <1>5, <1>12, <2>2, <2>3, <2>4, Moves
<1>13. ASSUME Fails(s), UNCHANGED <<open, undone, pending, next_id>>, mode = "up", mode' = "up", Sync',
              pc[s] \in {"changed", "appended"}
       PROVE  Control'
  <2>1. /\ \A u \in Sessions : u # s => pc'[u] = pc[u] /\ job'[u] = job[u]
        /\ \/ /\ job[s].kind = "commit" /\ pc'[s] = "failed"
              /\ job'[s] = [job[s] EXCEPT !.logged = TRUE, !.committing = FALSE]
           \/ job[s].kind # "commit" /\ pc'[s] = "idle" /\ job'[s] = NoJob
    BY <1>0, <1>13, FailsIs
  <2>2. job[s].kind = "commit" =>
           /\ pc'[s] = "failed" /\ job'[s].kind = job[s].kind /\ job'[s].table = job[s].table
           /\ job'[s].id = job[s].id /\ job'[s].ended = job[s].ended /\ ~job'[s].committing
    BY <1>1, <2>1 DEF Jobs
  <2>3. Placed(s)'
    BY <1>1, <1>13, <2>1, <2>2 DEF Placed, InCall, Serving, NoJob
  <2>4. \A u \in Sessions : u # s => Apart(s, u)' /\ Apart(u, s)'
    BY <1>3, <1>13, <2>1, <2>2 DEF Apart
  <2>5. \A i : i \in open' <=> (i \in open /\ i # job[s].id) \/ (InOpen(s)' /\ i = job[s]'.id)
    BY <1>6, <1>13, <2>1, <2>2 DEF InOpen, NoJob
  <2> QED
    BY <1>0, <1>2, <1>5, <1>13, <2>1, <2>3, <2>4, <2>5, Moves
<1>14. pc[s] # "idle" => job[s] # NoJob
  BY <1>1 DEF Placed
<1>15. CASE NothingToLog(s)
  <2>1. /\ mode = "up" /\ mode' = "up" /\ pc[s] = "changed" /\ pc' = [pc EXCEPT ![s] = "durable"]
        /\ UNCHANGED <<job, open, undone, pending, syncing, log, next_id>>
    BY <1>15 DEF NothingToLog, logVars, history
  <2>2. /\ \A u \in Sessions : u # s => pc'[u] = pc[u] /\ job'[u] = job[u]
        /\ pc'[s] = "durable" /\ job'[s] = job[s]
    BY <1>2, <2>1
  <2>3. Sync'
    BY <1>0, <1>2, <2>1, <2>2, SyncStays
  <2> QED
    BY <1>1, <1>12, <1>14, <2>1, <2>2, <2>3 DEF InCall, InOpen, Placed
<1>16. CASE WriteBatch(s)
  <2>1. /\ mode = "up" /\ mode' = "up" /\ pc[s] = "changed" /\ pc' = [pc EXCEPT ![s] = "appended"]
        /\ job' = [job EXCEPT ![s].logged = TRUE] /\ log' = Append(log, Batch(job[s]))
        /\ UNCHANGED <<open, undone, pending, syncing, next_id>>
    BY <1>16 DEF WriteBatch, append_batch
  <2>2. /\ \A u \in Sessions : u # s => pc'[u] = pc[u] /\ job'[u] = job[u]
        /\ pc'[s] = "appended" /\ job'[s] = [job[s] EXCEPT !.logged = TRUE]
    BY <1>2, <2>1
  <2>3. Len(log) <= Len(log)'
    BY <1>0, <2>1 DEF Types
  <2>4. Sync'
    BY <1>0, <1>2, <2>1, <2>2, <2>3, SyncStays
  <2>5. /\ job'[s].kind = job[s].kind /\ job'[s].table = job[s].table /\ job'[s].id = job[s].id
        /\ job'[s].ended = job[s].ended /\ job'[s].committing = job[s].committing
    BY <1>1, <2>2 DEF Jobs
  <2>6. job'[s] # NoJob
    BY <1>1, <2>1, <2>5 DEF NoJob
  <2> QED
    BY <1>1, <1>12, <2>1, <2>2, <2>4, <2>5, <2>6 DEF InCall, InOpen, Placed
<1>17. CASE WriteBatchFails(s)
  <2>1. /\ mode = "up" /\ mode' = "up" /\ pc[s] = "changed" /\ Fails(s)
        /\ log' \in {log, Append(log, Torn)}
        /\ UNCHANGED <<open, undone, pending, syncing, next_id>>
    BY <1>17 DEF WriteBatchFails
  <2>2. Len(log) <= Len(log)'
    BY <1>0, <2>1 DEF Types
  <2>3. Sync'
    BY <1>0, <1>2, <2>1, <2>2, SyncStays, FailsIs
  <2> QED
    BY <1>13, <2>1, <2>3
<1>18. CASE SyncReturns(s)
  <2>1. /\ mode = "up" /\ mode' = "up" /\ pc[s] \in {"appended", "marked"} /\ pc' = [pc EXCEPT ![s] = Synced(s)]
        /\ syncing = NoSync
        /\ UNCHANGED <<job, open, undone, pending, syncing, log, next_id>>
    BY <1>18 DEF SyncReturns, Waits, logVars, history
  <2>2. /\ \A u \in Sessions : u # s => pc'[u] = pc[u] /\ job'[u] = job[u]
        /\ pc'[s] = Synced(s) /\ job'[s] = job[s]
    BY <1>2, <2>1
  <2>3. Sync'
    BY <1>0, <1>2, <2>1, <2>2, SyncStays
  <2> QED
    BY <1>1, <1>12, <1>14, <2>1, <2>2, <2>3 DEF InCall, InOpen, Placed, Synced
<1>19. CASE SyncStart(s)
  <2>1. /\ mode = "up" /\ pc[s] \in {"appended", "marked"}
        /\ syncing' = [session |-> s, target |-> appended, covers |-> Len(log)]
        /\ UNCHANGED <<mode, pc, job, open, undone, pending, log, next_id>>
    BY <1>19 DEF SyncStart, Waits, sessVars, history
  <2>2. appended \in Nat
    BY <1>0 DEF Types
  <2>3. Sync'
    BY <1>2, <2>1, <2>2 DEF Sync
  <2> QED
    BY <1>1, <1>12, <1>14, <2>1, <2>3 DEF InCall, InOpen, Placed
<1>20. ASSUME syncing.session = s PROVE mode = "up" /\ pc[s] \in {"appended", "marked"}
  BY <1>0, <1>20, NamesAssumption DEF Control, Sync, NoSync
<1>21. CASE SyncEnd(s)
  <2>1. /\ mode = "up" /\ mode' = "up" /\ pc[s] \in {"appended", "marked"} /\ pc' = [pc EXCEPT ![s] = Synced(s)]
        /\ syncing' = NoSync
        /\ UNCHANGED <<job, open, undone, pending, log, next_id>>
    BY <1>20, <1>21 DEF SyncEnd, history
  <2>2. /\ \A u \in Sessions : u # s => pc'[u] = pc[u] /\ job'[u] = job[u]
        /\ pc'[s] = Synced(s) /\ job'[s] = job[s]
    BY <1>2, <2>1
  <2>3. Sync'
    BY <2>1 DEF Sync
  <2> QED
    BY <1>1, <1>12, <1>14, <2>1, <2>2, <2>3 DEF InCall, InOpen, Placed, Synced
<1>22. CASE SyncFailed(s)
  <2>1. /\ mode = "up" /\ mode' = "up" /\ pc[s] = "appended" /\ Fails(s) /\ syncing' = NoSync
        /\ UNCHANGED <<open, undone, pending, next_id>>
    BY <1>20, <1>22 DEF SyncFailed
  <2>2. Sync'
    BY <2>1 DEF Sync
  <2> QED
    BY <1>13, <2>1, <2>2
<1>23. CASE Vacuum(s)
  <2>1. /\ mode = "up" /\ mode' = "up"
        /\ \/ job[s].kind = "auto" /\ pc[s] = "changed"
           \/ job[s].kind = "commit" /\ pc[s] \in {"open", "finished"}
        /\ \A u \in Sessions \ {s} : ~Flushing(u, job[s].table)
        /\ pc' \in {pc, [pc EXCEPT ![s] = "vacuumed"]}
        /\ UNCHANGED <<job, open, undone, pending, syncing, log, next_id>>
    BY <1>23 DEF Vacuum, logVars
  <2>2. /\ \A u \in Sessions : u # s => pc'[u] = pc[u] /\ job'[u] = job[u]
        /\ pc'[s] \in {pc[s], "vacuumed"} /\ job'[s] = job[s]
    BY <1>2, <2>1
  <2>3. Sync'
    BY <1>0, <1>2, <2>1, <2>2, SyncStays
  <2> QED
    BY <1>1, <1>12, <1>14, <2>1, <2>2, <2>3 DEF InCall, InOpen, Placed
<1>24. CASE redo_mark_flushed(s)
  <2>1. /\ mode = "up" /\ mode' = "up" /\ pc[s] = "vacuumed" /\ pc' = [pc EXCEPT ![s] = "marked"]
        /\ log' = Append(log, Flushed(job[s].table))
        /\ UNCHANGED <<job, open, undone, pending, syncing, next_id>>
    BY <1>24 DEF redo_mark_flushed, append_batch, history
  <2>2. /\ \A u \in Sessions : u # s => pc'[u] = pc[u] /\ job'[u] = job[u]
        /\ pc'[s] = "marked" /\ job'[s] = job[s]
    BY <1>2, <2>1
  <2>3. Len(log) <= Len(log)'
    BY <1>0, <2>1 DEF Types
  <2>4. Sync'
    BY <1>0, <1>2, <2>1, <2>2, <2>3, SyncStays
  <2> QED
    BY <1>1, <1>12, <1>14, <2>1, <2>2, <2>4 DEF InCall, InOpen, Placed
<1> QED
  BY <1>7, <1>8, <1>9, <1>10, <1>11, <1>15, <1>16, <1>17, <1>18, <1>19, <1>21, <1>22, <1>23, <1>24 DEF Session

LEMMA SystemControl ==
    ASSUME IInv, Types',
           Checkpoint \/ CheckpointDone \/ (\E tb \in Tables : FlushTable(tb)) \/ Crash \/ Recover \/ RecoverDone
    PROVE  Control'
<1>0. Types /\ Control
  BY DEF IInv
<1>1. CASE Checkpoint
  <2>1. /\ mode = "up" /\ mode' = "checkpoint" /\ \A s \in Sessions : pc[s] \notin InCall
        /\ UNCHANGED <<pc, job, open, undone, syncing, log, stable, next_id>>
    BY <1>1 DEF Checkpoint, logVars, sessVars, history
  <2>2. \A s \in Sessions : Placed(s)'
    BY <1>0, <2>1 DEF Control, Placed, Serving
  <2>3. syncing = NoSync
    BY <1>0, <2>1 DEF Control, Sync, InCall
  <2> QED
    BY <1>0, <2>1, <2>2, <2>3 DEF Control, Apart, InOpen, Serving, Sync
<1>2. CASE CheckpointDone
  <2>1. /\ mode = "checkpoint" /\ mode' = "up" /\ pending' = {}
        /\ UNCHANGED <<pc, job, open, undone, syncing, next_id>>
    BY <1>2 DEF CheckpointDone, sessVars, history
  <2>2. \A s \in Sessions : Placed(s)'
    BY <1>0, <2>1 DEF Control, Placed, Serving
  <2>3. syncing = NoSync
    BY <1>0, <2>1 DEF Control, Sync
  <2> QED
    BY <1>0, <2>1, <2>2, <2>3 DEF Control, Apart, InOpen, Serving, Sync
<1>3. ASSUME NEW tb \in Tables, FlushTable(tb) PROVE Control'
  <2>1. /\ UNCHANGED <<mode, pc, job, open, undone, syncing, log, stable, next_id>>
        /\ pending' \subseteq pending
    BY <1>3 DEF FlushTable, logVars, sessVars, history
  <2> QED
    BY <1>0, <2>1 DEF Control, Placed, Apart, InOpen, Serving, Sync
<1>4. CASE Crash
  <2>1. /\ mode' = "down" /\ pending' = {} /\ open' = {} /\ syncing' = NoSync
        /\ pc' = [s \in Sessions |-> "idle"] /\ job' = [s \in Sessions |-> NoJob]
        /\ stable' = Len(log')
    BY <1>4 DEF Crash
  <2>2. \A s \in Sessions : pc'[s] = "idle" /\ job'[s] = NoJob
    BY <2>1
  <2>3. \A s \in Sessions : Placed(s)' /\ ~InOpen(s)'
    BY <2>1, <2>2 DEF Placed, InOpen, InCall, NoJob
  <2> QED
    BY <2>1, <2>2, <2>3 DEF Control, Apart, Serving, Sync
<1>5. CASE Recover
  <2>1. /\ mode = "down" /\ mode' = "recovering"
        /\ UNCHANGED <<pc, job, open, undone, syncing, log, stable, next_id>>
    BY <1>5 DEF Recover, logVars, sessVars, history
  <2> QED
    BY <1>0, <2>1 DEF Control, Placed, Apart, InOpen, Serving, Sync
<1>6. CASE RecoverDone
  <2>1. /\ mode = "recovering" /\ mode' = "up" /\ pending' = {} /\ undone' = {}
        /\ UNCHANGED <<pc, job, open, syncing>>
    BY <1>6 DEF RecoverDone
  <2>2. \A s \in Sessions : pc[s] = "idle" /\ job[s] = NoJob
    BY <1>0, <2>1 DEF Control, Placed, Serving
  <2>3. \A s \in Sessions : Placed(s)'
    <3>1. \A s \in Sessions : pc'[s] = "idle" /\ job'[s] = NoJob
      BY <2>1, <2>2
    <3>2. NoJob.kind = "none"
      BY DEF NoJob
    <3> QED
      BY <2>1, <3>1, <3>2 DEF Placed, InCall, Serving
  <2>4. syncing = NoSync
    BY <1>0, <2>1 DEF Control, Sync
  <2> QED
    BY <1>0, <2>1, <2>2, <2>3, <2>4 DEF Control, Apart, InOpen, Serving, Sync
<1> QED
  BY <1>1, <1>2, <1>3, <1>4, <1>5, <1>6

\* What is in the log names a table and a change that ends an earlier one.
LEMMA LoggedStep ==
    ASSUME IInv, [Next]_vars
    PROVE  Logged'
<1>0. Types /\ Control /\ Logged /\ log \in Seq(Entries) /\ stable \in 0 .. Len(log)
  BY DEF IInv, Types
<1>1. CASE log' = log
  BY <1>0, <1>1 DEF Logged, Entry
<1>2. CASE log' = <<>>
  BY <1>2 DEF Logged
<1>3. ASSUME NEW e \in Entries, log' = Append(log, e), Entry(e) PROVE Logged'
  <2> SUFFICES ASSUME NEW i \in 1 .. Len(log') PROVE Entry(log'[i])
    BY DEF Logged, Entry
  <2>1. i \in 1 .. Len(log) \/ i = Len(log) + 1
    BY <1>0, <1>3
  <2>2. CASE i \in 1 .. Len(log)
    BY <1>0, <1>3, <2>2, Appends DEF Logged
  <2>3. CASE i = Len(log) + 1
    BY <1>0, <1>3, <2>3, Appends
  <2> QED
    BY <2>1, <2>2, <2>3
<1>4. ASSUME NEW s \in Sessions, WriteBatch(s) PROVE Logged'
  <2>1. log' = Append(log, Batch(job[s])) /\ pc[s] # "idle"
    BY <1>4 DEF WriteBatch, append_batch
  <2>2. job[s].table \in Tables /\ job[s].id \in 1 .. MaxId /\ job[s].ended < job[s].id /\ job[s].ended \in 0 .. MaxId
    BY <1>0, <2>1, JobIs DEF Placed
  <2>3. Batch(job[s]) \in Entries /\ Entry(Batch(job[s]))
    BY <2>2, BoundsAssumption DEF Batch, Entries, Entry, Ids
  <2> QED
    BY <1>3, <2>1, <2>3
<1>5. ASSUME NEW s \in Sessions, WriteBatchFails(s) PROVE Logged'
  <2>1. log' = log \/ log' = Append(log, Torn)
    BY <1>5 DEF WriteBatchFails
  <2>2. Torn \in Entries /\ Entry(Torn)
    BY BoundsAssumption DEF Torn, Entries, Entry, Ids
  <2> QED
    BY <1>1, <1>3, <2>1, <2>2
<1>6. ASSUME NEW s \in Sessions, redo_mark_flushed(s) PROVE Logged'
  <2>1. log' = Append(log, Flushed(job[s].table)) /\ pc[s] # "idle"
    BY <1>6 DEF redo_mark_flushed, append_batch
  <2>2. job[s].table \in Tables
    BY <1>0, <2>1, JobIs
  <2>3. Flushed(job[s].table) \in Entries
    BY <2>2, BoundsAssumption DEF Flushed, Entries, Ids
  <2>4. Entry(Flushed(job[s].table))
    <3>1. Flushed(job[s].table).kind = "flushed"
      BY DEF Flushed
    <3> QED
      BY <2>2, <3>1 DEF Entry
  <2> QED
    BY <1>3, <2>1, <2>3, <2>4
<1>7. CASE Crash
  <2>1. PICK k \in stable .. Len(log) : log' = SubSeq(log, 1, k)
    BY <1>7 DEF Crash
  <2>2. k \in 0 .. Len(log)
    BY <1>0, <2>1
  <2>3. Begins(log', log)
    BY <1>0, <2>1, <2>2, PrefixBegins
  <2> QED
    BY <1>0, <2>3 DEF Begins, Logged, Entry
<1>8. ASSUME NEW s \in Sessions, Session(s) PROVE Logged'
  <2>1. ASSUME NEW kind \in Kinds, NEW tb \in Tables, Change(s, kind, tb) PROVE log' = log
    BY <2>1 DEF Change, logVars
  <2>2. Commit(s) \/ Rollback(s) \/ Finish(s) \/ Reply(s) \/ NothingToLog(s) \/ SyncReturns(s) \/ Vacuum(s) => log' = log
    BY DEF Commit, Rollback, Finish, Reply, NothingToLog, SyncReturns, Vacuum, logVars
  <2>3. SyncStart(s) \/ SyncEnd(s) \/ SyncFailed(s) => log' = log
    BY DEF SyncStart, SyncEnd, SyncFailed
  <2> QED
    BY <1>1, <1>4, <1>5, <1>6, <1>8, <2>1, <2>2, <2>3 DEF Session
<1>9. Checkpoint \/ Recover \/ (\E tb \in Tables : FlushTable(tb)) => log' = log
  BY DEF Checkpoint, Recover, FlushTable, logVars
<1>10. CheckpointDone \/ RecoverDone => log' = <<>>
  BY DEF CheckpointDone, RecoverDone, clear
<1>11. UNCHANGED vars => log' = log
  BY DEF vars, logVars
<1> QED
  BY <1>1, <1>2, <1>7, <1>8, <1>9, <1>10, <1>11 DEF Next

-----------------------------------------------------------------------------
(* The versions in memory and in the files.                                  *)

\* The session keeps its change, open or not, or has none any more.
Keeps(u) ==
    /\ InOpen(u)' <=> InOpen(u)
    /\ pc'[u] # "idle" => /\ pc[u] # "idle" /\ job'[u].table = job[u].table
                          /\ job'[u].id = job[u].id /\ job'[u].ended = job[u].ended

LEMMA RowsStay ==
    ASSUME Rows, UNCHANGED <<mem, file, next_id, undone, open>>, Serving, mode' \in {"up", "checkpoint"},
           \A u \in Sessions : Keeps(u)
    PROVE  Rows'
<1> SUFFICES ASSUME NEW tb \in Tables PROVE Memory(tb)' /\ File(tb)'
  BY DEF Rows
<1>1. Memory(tb) /\ File(tb) /\ Serving'
  BY DEF Rows, Serving
<1>2. File(tb)'
  BY <1>1 DEF File, Sound, Closed, Serving
<1>3. Memory(tb)'
  <2>1. \A u \in Sessions : InOpen(u)' => InOpen(u) /\ job'[u].table = job[u].table
                                          /\ job'[u].id = job[u].id /\ job'[u].ended = job[u].ended
    BY DEF Keeps, InOpen
  <2>2. \A u \in Sessions : pc'[u] # "idle" /\ ~InOpen(u)' =>
             pc[u] # "idle" /\ ~InOpen(u) /\ job'[u].table = job[u].table /\ job'[u].id = job[u].id
    BY DEF Keeps
  <2> QED
    BY <1>1, <2>1, <2>2 DEF Memory, Sound, Closed, Reaches
<1> QED
  BY <1>2, <1>3

\* Only these steps of a session touch a table or end a transaction.
LEMMA SessionKeeps ==
    ASSUME IInv, NEW s \in Sessions,
           \/ Commit(s) \/ Reply(s) \/ NothingToLog(s) \/ WriteBatch(s) \/ WriteBatchFails(s)
           \/ SyncReturns(s) \/ SyncStart(s) \/ SyncEnd(s) \/ SyncFailed(s) \/ redo_mark_flushed(s)
    PROVE  UNCHANGED <<mode, mem, file, next_id, undone, open>> /\ mode = "up" /\ \A u \in Sessions : Keeps(u)
<1>0. Types /\ Control
  BY DEF IInv
<1>1. /\ job[s] \in Jobs /\ pc[s] \in Steps /\ Placed(s) /\ job[s].committing \in BOOLEAN
      /\ pc[s] # "idle" => job[s].kind \in {"auto", "commit"}
  BY <1>0, JobIs
<1>2. pc \in [Sessions -> Steps] /\ job \in [Sessions -> Jobs]
  BY <1>0 DEF Types
<1>3. ASSUME \A u \in Sessions : u # s => pc'[u] = pc[u] /\ job'[u] = job[u], Keeps(s)
      PROVE  \A u \in Sessions : Keeps(u)
  <2>1. \A u \in Sessions : u # s => Keeps(u)
    BY <1>3 DEF Keeps, InOpen
  <2> QED
    BY <1>3, <2>1
<1>4. CASE Commit(s)
  <2>1. /\ mode = "up" /\ pc[s] \in {"open", "failed"} /\ pc' = [pc EXCEPT ![s] = "changed"]
        /\ job' = [job EXCEPT ![s].committing = TRUE] /\ UNCHANGED <<mode, mem, file, next_id, undone, open>>
    BY <1>4 DEF Commit, TakesTable, history
  <2>2. pc'[s] = "changed" /\ job'[s] = [job[s] EXCEPT !.committing = TRUE]
    BY <1>2, <2>1
  <2>3. /\ job'[s].kind = job[s].kind /\ job'[s].table = job[s].table /\ job'[s].id = job[s].id
        /\ job'[s].ended = job[s].ended
    BY <1>1, <2>2 DEF Jobs
  <2>4. Keeps(s)
    BY <2>1, <2>2, <2>3 DEF Keeps, InOpen
  <2> QED
    BY <1>2, <1>3, <2>1, <2>4
<1>5. CASE Reply(s)
  <2>1. /\ mode = "up" /\ pc[s] = "finished" /\ pc' = [pc EXCEPT ![s] = "idle"]
        /\ job' = [job EXCEPT ![s] = NoJob] /\ UNCHANGED <<mode, mem, file, next_id, undone, open>>
    BY <1>5 DEF Reply
  <2>2. Keeps(s)
    BY <1>2, <2>1 DEF Keeps, InOpen
  <2> QED
    BY <1>2, <1>3, <2>1, <2>2
<1>6. CASE NothingToLog(s)
  <2>1. /\ mode = "up" /\ pc[s] = "changed" /\ pc' = [pc EXCEPT ![s] = "durable"]
        /\ UNCHANGED <<mode, mem, file, next_id, undone, open, job>>
    BY <1>6 DEF NothingToLog, history
  <2>2. Keeps(s)
    BY <1>2, <2>1 DEF Keeps, InOpen
  <2> QED
    BY <1>2, <1>3, <2>1, <2>2
<1>7. CASE WriteBatch(s)
  <2>1. /\ mode = "up" /\ pc[s] = "changed" /\ pc' = [pc EXCEPT ![s] = "appended"]
        /\ job' = [job EXCEPT ![s].logged = TRUE] /\ UNCHANGED <<mode, mem, file, next_id, undone, open>>
    BY <1>7 DEF WriteBatch
  <2>2. pc'[s] = "appended" /\ job'[s] = [job[s] EXCEPT !.logged = TRUE]
    BY <1>2, <2>1
  <2>3. /\ job'[s].kind = job[s].kind /\ job'[s].table = job[s].table /\ job'[s].id = job[s].id
        /\ job'[s].ended = job[s].ended
    BY <1>1, <2>2 DEF Jobs
  <2>4. Keeps(s)
    BY <2>1, <2>2, <2>3 DEF Keeps, InOpen
  <2> QED
    BY <1>2, <1>3, <2>1, <2>4
<1>8. ASSUME Fails(s), pc[s] \in {"changed", "appended"} PROVE \A u \in Sessions : Keeps(u)
  <2>1. /\ \A u \in Sessions : u # s => pc'[u] = pc[u] /\ job'[u] = job[u]
        /\ \/ /\ job[s].kind = "commit" /\ pc'[s] = "failed"
              /\ job'[s] = [job[s] EXCEPT !.logged = TRUE, !.committing = FALSE]
           \/ job[s].kind # "commit" /\ pc'[s] = "idle" /\ job'[s] = NoJob
    BY <1>0, <1>8, FailsIs
  <2>2. job[s].kind = "commit" =>
           /\ pc'[s] = "failed" /\ job'[s].kind = job[s].kind /\ job'[s].table = job[s].table
           /\ job'[s].id = job[s].id /\ job'[s].ended = job[s].ended
    BY <1>1, <2>1 DEF Jobs
  <2>3. Keeps(s)
    BY <1>8, <2>1, <2>2 DEF Keeps, InOpen, NoJob
  <2> QED
    BY <1>3, <2>1, <2>3
<1>9. CASE WriteBatchFails(s)
  BY <1>8, <1>9 DEF WriteBatchFails
<1>10. syncing.session = s => mode = "up" /\ pc[s] \in {"appended", "marked"}
  BY <1>0, NamesAssumption DEF Control, Sync, NoSync
<1>11. CASE SyncFailed(s)
  BY <1>8, <1>10, <1>11 DEF SyncFailed
<1>12. ASSUME pc[s] \in {"appended", "marked"}, pc' = [pc EXCEPT ![s] = Synced(s)], job' = job
       PROVE  \A u \in Sessions : Keeps(u)
  <2>1. Keeps(s)
    BY <1>1, <1>2, <1>12 DEF Keeps, InOpen, Synced, Placed
  <2> QED
    BY <1>2, <1>3, <1>12, <2>1
<1>13. CASE SyncReturns(s)
  BY <1>12, <1>13 DEF SyncReturns, Waits, history
<1>14. CASE SyncEnd(s)
  BY <1>10, <1>12, <1>14 DEF SyncEnd, history
<1>15. CASE SyncStart(s)
  BY <1>15 DEF SyncStart, Waits, sessVars, history, Keeps, InOpen
<1>16. CASE redo_mark_flushed(s)
  <2>1. /\ mode = "up" /\ pc[s] = "vacuumed" /\ pc' = [pc EXCEPT ![s] = "marked"]
        /\ UNCHANGED <<mode, mem, file, next_id, undone, open, job>>
    BY <1>16 DEF redo_mark_flushed, history
  <2>2. Keeps(s)
    BY <1>2, <2>1 DEF Keeps, InOpen
  <2> QED
    BY <1>2, <1>3, <2>1, <2>2
<1> QED
  BY <1>4, <1>5, <1>6, <1>7, <1>9, <1>11, <1>13, <1>14, <1>15, <1>16

\* The ids of the sessions and of the versions in memory.
LEMMA ServingFacts ==
    ASSUME IInv, mode = "up", NEW tb \in Tables
    PROVE  /\ mem[tb] \in SUBSET Versions /\ file[tb] \in SUBSET Versions
           /\ Memory(tb) /\ File(tb) /\ Serving
           /\ next_id \in Nat /\ 0 < next_id /\ 0 \notin open /\ open \in SUBSET Nat /\ 0 \notin undone
           /\ \A v \in mem[tb] : /\ v.id \in Nat /\ v.xmax \in Nat /\ v.id < next_id /\ v.xmax < next_id
                                 /\ v.id \notin undone /\ v.xmax \notin undone
           /\ \A i \in open : i < next_id
           /\ \A i \in undone : i < next_id /\ i \in Nat
<1>1. Types /\ Control /\ Rows
  BY DEF IInv
<1>2. mem[tb] \in SUBSET Versions /\ file[tb] \in SUBSET Versions /\ Memory(tb) /\ File(tb) /\ Serving
  BY <1>1 DEF Types, Rows, Serving
<1>3. open \subseteq 1 .. MaxId /\ undone \subseteq 1 .. MaxId /\ next_id \in 1 .. MaxId + 1
  BY <1>1 DEF Types
<1>4. \A v \in mem[tb] : v.id \in Nat /\ v.xmax \in Nat
  BY <1>2, BoundsAssumption DEF Versions, Ids
<1>5. \A v \in mem[tb] : v.id < next_id /\ v.xmax < next_id /\ v.id \notin undone /\ v.xmax \notin undone
  BY <1>2 DEF Memory
<1>6. \A i \in open : i < next_id
  <2> TAKE i \in open
  <2>1. PICK u \in Sessions : InOpen(u) /\ i = job[u].id
    BY <1>1 DEF Control
  <2>2. pc[u] # "idle"
    BY <2>1 DEF InOpen
  <2> QED
    BY <1>1, <2>1, <2>2, JobIs
<1>7. \A i \in undone : i < next_id
  BY <1>1, <1>2 DEF Control
<1>8. next_id \in Nat /\ 0 < next_id /\ 0 \notin open /\ open \in SUBSET Nat /\ 0 \notin undone /\ undone \in SUBSET Nat
  <2>1. \A i \in 1 .. MaxId : i \in Nat /\ i # 0
    BY BoundsAssumption
  <2> QED
    BY <1>3, <2>1, BoundsAssumption
<1> QED
  BY <1>2, <1>4, <1>5, <1>6, <1>7, <1>8

LEMMA ChangeRows ==
    ASSUME IInv, NEW s \in Sessions, NEW kind \in Kinds, NEW tb \in Tables, Change(s, kind, tb)
    PROVE  Rows'
<1> DEFINE n == next_id
<1>0. Types /\ Control
  BY DEF IInv
<1>1. /\ mode = "up" /\ mode' = "up" /\ pc[s] = "idle" /\ UNCHANGED <<file, undone, log>> /\ next_id' = next_id + 1
      /\ open' = (IF kind = "commit" THEN open \cup {next_id} ELSE open)
      /\ pc' = [pc EXCEPT ![s] = IF kind = "commit" THEN "open" ELSE "changed"]
      /\ kind \in {"auto", "commit"}
      /\ \A u \in Sessions : ~Claims(u, tb)
  BY KindsAssumption DEF Change, history, logVars
<1>2. PICK v \in Live(mem[tb]) :
          /\ mem' = [mem EXCEPT ![tb] = (@ \ {v}) \cup {[v EXCEPT !.xmax = next_id], [id |-> next_id, xmax |-> 0]}]
          /\ job' = [job EXCEPT ![s] = [NoJob EXCEPT !.kind = kind, !.table = tb, !.id = next_id, !.ended = v.id]]
  BY DEF Change
<1>3. /\ pc \in [Sessions -> Steps] /\ job \in [Sessions -> Jobs]
      /\ mem \in [Tables -> SUBSET Versions]
  BY <1>0 DEF Types
<1>4. /\ \A u \in Sessions : u # s => pc'[u] = pc[u] /\ job'[u] = job[u] /\ (InOpen(u)' <=> InOpen(u))
      /\ job'[s] = [NoJob EXCEPT !.kind = kind, !.table = tb, !.id = next_id, !.ended = v.id]
      /\ pc'[s] = (IF kind = "commit" THEN "open" ELSE "changed")
  BY <1>1, <1>2, <1>3 DEF InOpen
<1>5. /\ job'[s].table = tb /\ job'[s].id = n /\ job'[s].ended = v.id
      /\ InOpen(s)' <=> kind = "commit"
  BY <1>1, <1>4 DEF InOpen, NoJob
<1>6. \A u \in Sessions : pc[u] # "idle" => job[u].id < n /\ job[u].id \in Nat
  BY <1>0, JobIs
<1>7. \A t \in Tables : t # tb => mem'[t] = mem[t]
  BY <1>2, <1>3
<1>8. \A t \in Tables : /\ Memory(t) /\ File(t) /\ n \in Nat /\ 0 < n /\ n \notin open /\ n \notin undone
                        /\ \A x \in mem[t] : /\ x.id \in Nat /\ x.xmax \in Nat /\ x.id < n /\ x.xmax < n
                                             /\ x.id \notin undone /\ x.xmax \notin undone
                        /\ 0 \notin open /\ 0 \notin undone
  BY <1>1, ServingFacts
<1>9. \A i : i # n => (i \in open' <=> i \in open)
  BY <1>1
<1>10. ASSUME NEW t \in Tables PROVE File(t)'
  <2>1. \A x \in file[t] : x.id # n /\ x.xmax # n
    <3> TAKE x \in file[t]
    <3>0. x \in Versions
      BY <1>0 DEF Types
    <3>1. x.id < n
      <4>1. PICK y \in mem[t] : x.id <= y.id
        BY <1>8 DEF Memory, Reaches
      <4> QED
        BY <1>8, <3>0, <4>1, BoundsAssumption DEF Versions, Ids
    <3>2. x.xmax = 0 \/ \E y \in file[t] : x.xmax <= y.id
      BY <1>8 DEF File, Closed
    <3>3. \A y \in file[t] : y.id < n /\ y.id \in Nat
      <4> TAKE y \in file[t]
      <4>0. y \in Versions
        BY <1>0 DEF Types
      <4>1. PICK z \in mem[t] : y.id <= z.id
        BY <1>8 DEF Memory, Reaches
      <4> QED
        BY <1>8, <4>0, <4>1, BoundsAssumption DEF Versions, Ids
    <3>4. x.xmax \in Nat /\ x.id \in Nat
      BY <3>0, BoundsAssumption DEF Versions, Ids
    <3> QED
      BY <1>8, <3>1, <3>2, <3>3, <3>4
  <2>2. \A x \in file[t] : {x.id, x.xmax} \cap (open' \cup undone) = {}
    BY <1>1, <1>8, <1>9, <2>1 DEF File, Serving
  <2> QED
    BY <1>1, <1>8, <2>2 DEF File, Serving, Sound, Closed
<1>11. ASSUME NEW t \in Tables, t # tb PROVE Memory(t)'
  <2>1. mem'[t] = mem[t] /\ file'[t] = file[t]
    BY <1>1, <1>7, <1>11
  <2>2. Sound(mem[t]) /\ Closed(mem[t], open')
    BY <1>8, <1>9 DEF Memory, Closed
  <2>3. \A i : Reaches(mem[t], open, i) => Reaches(mem[t], open', i)
    BY <1>8, <1>9 DEF Reaches
  <2>4. \A u \in Sessions : InOpen(u)' =>
             IF job'[u].table = t
             THEN /\ [id |-> job'[u].id, xmax |-> 0] \in mem[t]
                  /\ [id |-> job'[u].ended, xmax |-> job'[u].id] \in mem[t]
                  /\ \A x \in mem[t] : x.xmax = job'[u].id => x.id = job'[u].ended
             ELSE \A x \in mem[t] : x.id # job'[u].id /\ x.xmax # job'[u].id
    <3> TAKE u \in Sessions
    <3>1. CASE u = s
      BY <1>5, <1>8, <1>11, <3>1
    <3>2. CASE u # s
      BY <1>1, <1>4, <1>8, <3>2 DEF Memory, Serving
    <3> QED
      BY <3>1, <3>2
  <2>5. \A u \in Sessions : pc'[u] # "idle" /\ ~InOpen(u)' /\ job'[u].table = t => Reaches(mem[t], open', job'[u].id)
    <3> TAKE u \in Sessions
    <3>1. CASE u = s
      BY <1>5, <1>11, <3>1
    <3>2. CASE u # s
      BY <1>1, <1>4, <1>8, <2>3, <3>2 DEF Memory, Serving
    <3> QED
      BY <3>1, <3>2
  <2>6. \A x \in mem[t] : x.id < next_id' /\ x.xmax < next_id'
    BY <1>1, <1>8
  <2>7. \A x \in file[t] : Reaches(mem[t], open', x.id)
    BY <1>8, <2>3 DEF Memory
  <2> QED
    BY <1>1, <1>8, <2>1, <2>2, <2>4, <2>5, <2>6, <2>7 DEF Memory, Serving, Sound, Closed, Reaches
<1>12. Memory(tb)'
  <2> DEFINE a == [v EXCEPT !.xmax = n]
             b == [id |-> n, xmax |-> 0]
             M == (mem[tb] \ {v}) \cup {a, b}
  <2>1. mem'[tb] = M /\ file'[tb] = file[tb]
    BY <1>1, <1>2, <1>3
  <2>2. v \in mem[tb] /\ v.xmax = 0 /\ v \in Versions
    BY <1>3 DEF Live
  <2>3. a.id = v.id /\ a.xmax = n /\ b.id = n /\ b.xmax = 0 /\ a \in M /\ b \in M /\ a = [id |-> v.id, xmax |-> n]
    BY <2>2 DEF Versions
  <2>4. \A x \in M : x = a \/ x = b \/ (x \in mem[tb] /\ x # v)
    OBVIOUS
  <2>5. \A x \in mem[tb] : x = v \/ x \in M
    OBVIOUS
  <2>6. v.id \in Nat /\ v.id < n /\ v.id \notin undone /\ n \in Nat /\ 0 < n
    BY <1>8, <2>2
  <2> HIDE DEF a, b, M
  <2>7. Sound(M)
    <3>1. Sound(mem[tb])
      BY <1>8 DEF Memory
    <3>2. ASSUME NEW x \in M, NEW y \in M, x.id = y.id PROVE x = y
      <4>1. \A z \in mem[tb] : z.id # n /\ (z.id = v.id => z = v)
        BY <1>8, <2>2, <3>1 DEF Sound
      <4> QED
        BY <2>3, <2>4, <2>6, <3>1, <3>2, <4>1 DEF Sound
    <3>3. ASSUME NEW x \in M PROVE x.xmax = 0 \/ x.id < x.xmax
      BY <2>3, <2>4, <2>6, <3>1 DEF Sound
    <3> QED
      BY <3>2, <3>3 DEF Sound
  <2>8. \A i : Reaches(mem[tb], open, i) => Reaches(M, open', i)
    <3> TAKE i
    <3> HAVE Reaches(mem[tb], open, i)
    <3>1. PICK x \in mem[tb] : x.id \notin open /\ i <= x.id
      BY DEF Reaches
    <3>2. x.id \notin open'
      BY <1>8, <1>9, <3>1
    <3> QED
      BY <2>3, <2>5, <3>1, <3>2 DEF Reaches
  <2>9. Closed(M, open')
    <3>1. Closed(mem[tb], open)
      BY <1>8 DEF Memory
    <3>2. \E x \in M : x.id \notin open'
      <4>1. PICK x \in mem[tb] : x.id \notin open
        BY <3>1 DEF Closed
      <4>2. x.id \notin open'
        BY <1>8, <1>9, <4>1
      <4> QED
        BY <2>3, <2>5, <4>1, <4>2
    <3>3. ASSUME NEW x \in M, x.xmax # 0, x.xmax \notin open' PROVE Reaches(M, open', x.xmax)
      <4>1. CASE x = a
        <5>1. kind # "commit" /\ n \notin open'
          BY <1>1, <2>3, <3>3, <4>1
        <5> QED
          BY <2>3, <2>6, <4>1, <5>1 DEF Reaches
      <4>2. CASE x = b
        BY <2>3, <3>3, <4>2
      <4>3. CASE x \in mem[tb]
        <5>1. x.xmax \notin open
          BY <1>8, <1>9, <3>3, <4>3
        <5>2. Reaches(mem[tb], open, x.xmax)
          BY <3>1, <3>3, <4>3, <5>1 DEF Closed, Reaches
        <5> QED
          BY <2>8, <5>2
      <4> QED
        BY <2>4, <4>1, <4>2, <4>3
    <3> QED
      BY <3>2, <3>3 DEF Closed, Reaches
  <2>10. \A x \in file[tb] : Reaches(M, open', x.id)
    BY <1>8, <2>8 DEF Memory
  <2>11. \A x \in M : x.id < next_id' /\ x.xmax < next_id' /\ x.id \notin undone /\ x.xmax \notin undone
    BY <1>1, <1>8, <2>3, <2>4, <2>6
  <2>12. \A u \in Sessions : InOpen(u)' =>
             IF job'[u].table = tb
             THEN /\ [id |-> job'[u].id, xmax |-> 0] \in M
                  /\ [id |-> job'[u].ended, xmax |-> job'[u].id] \in M
                  /\ \A x \in M : x.xmax = job'[u].id => x.id = job'[u].ended
             ELSE \A x \in M : x.id # job'[u].id /\ x.xmax # job'[u].id
    <3> TAKE u \in Sessions
    <3> HAVE InOpen(u)'
    <3>1. CASE u = s
      <4>1. b = [id |-> job'[s].id, xmax |-> 0] /\ a = [id |-> job'[s].ended, xmax |-> job'[s].id]
        BY <1>5, <2>3 DEF b
      <4>2. \A x \in M : x.xmax = n => x.id = v.id
        BY <1>8, <2>3, <2>4, <2>6
      <4> QED
        BY <1>5, <2>3, <3>1, <4>1, <4>2
    <3>2. CASE u # s
      <4>1. InOpen(u) /\ job'[u] = job[u] /\ job[u].kind = "commit" /\ pc[u] # "idle"
        BY <1>4, <3>2 DEF InOpen
      <4>2. job[u].table # tb
        BY <1>1, <4>1 DEF Claims
      <4>3. \A x \in mem[tb] : x.id # job[u].id /\ x.xmax # job[u].id
        BY <1>1, <1>8, <4>1, <4>2 DEF Memory, Serving
      <4>4. job[u].id # n /\ job[u].id # 0
        <5>1. job[u].id \in open
          BY <1>0, <4>1 DEF Control
        <5> QED
          BY <1>8, <5>1
      <4> QED
        BY <2>2, <2>3, <2>4, <4>1, <4>2, <4>3, <4>4
    <3> QED
      BY <3>1, <3>2
  <2>13. \A u \in Sessions : pc'[u] # "idle" /\ ~InOpen(u)' /\ job'[u].table = tb => Reaches(M, open', job'[u].id)
    <3> TAKE u \in Sessions
    <3> HAVE pc'[u] # "idle" /\ ~InOpen(u)' /\ job'[u].table = tb
    <3>1. CASE u = s
      <4>1. n \notin open'
        BY <1>1, <1>5, <1>8, <3>1
      <4> QED
        BY <1>5, <2>3, <2>6, <3>1, <4>1 DEF Reaches
    <3>2. CASE u # s
      BY <1>1, <1>4, <1>8, <2>8, <3>2 DEF Memory, Serving
    <3> QED
      BY <3>1, <3>2
  <2> QED
    BY <1>1, <2>1, <2>7, <2>9, <2>10, <2>11, <2>12, <2>13 DEF Memory, Serving, Sound, Closed, Reaches
<1> QED
  BY <1>10, <1>11, <1>12 DEF Rows

LEMMA RollbackRows ==
    ASSUME IInv, NEW s \in Sessions, Rollback(s)
    PROVE  Rows'
<1>0. Types /\ Control
  BY DEF IInv
<1>a. PICK n, home : n = job[s].id /\ home = job[s].table
  OBVIOUS
<1>1. /\ mode = "up" /\ mode' = "up" /\ pc[s] \in {"open", "failed"} /\ pc' = [pc EXCEPT ![s] = "idle"]
      /\ job' = [job EXCEPT ![s] = NoJob] /\ open' = open \ {n} /\ undone' = undone \cup {n}
      /\ UNCHANGED <<file, log, next_id>>
      /\ mem' = [mem EXCEPT ![home] =
                    {IF v.xmax = n THEN [v EXCEPT !.xmax = 0] ELSE v : v \in {v \in @ : v.id # n}}]
  BY <1>a DEF Rollback, TakesTable, logVars
<1>2. /\ pc \in [Sessions -> Steps] /\ job \in [Sessions -> Jobs] /\ mem \in [Tables -> SUBSET Versions]
  BY <1>0 DEF Types
<1>3. /\ \A u \in Sessions : u # s => pc'[u] = pc[u] /\ job'[u] = job[u] /\ (InOpen(u)' <=> InOpen(u))
      /\ pc'[s] = "idle" /\ ~InOpen(s)'
  BY <1>1, <1>2 DEF InOpen
<1>4. home \in Tables /\ n \in Nat /\ n # 0 /\ Placed(s) /\ job[s].kind \in {"auto", "commit"}
  BY <1>0, <1>1, <1>a, JobIs
<1>5. InOpen(s) /\ n \in open
  <2>1. InOpen(s)
    BY <1>1, <1>4 DEF Placed, InOpen, InCall
  <2> QED
    BY <1>0, <1>a, <2>1 DEF Control
<1>6. \A t \in Tables : /\ Memory(t) /\ File(t)
                        /\ \A x \in mem[t] : x.id < next_id /\ x.xmax < next_id /\ x.id \notin undone /\ x.xmax \notin undone
                        /\ next_id \in Nat /\ 0 < next_id /\ 0 \notin open /\ 0 \notin undone
  BY <1>1, ServingFacts
<1>7. \A t \in Tables : File(t)'
  <2> TAKE t \in Tables
  <2>1. \A x \in file[t] : {x.id, x.xmax} \cap (open' \cup undone') = {}
    BY <1>1, <1>5, <1>6 DEF File, Serving
  <2> QED
    BY <1>1, <1>6, <2>1 DEF File, Serving, Sound, Closed
<1>8. ASSUME NEW t \in Tables, t # home PROVE Memory(t)'
  <2>1. mem'[t] = mem[t] /\ file'[t] = file[t]
    BY <1>1, <1>2, <1>8
  <2>2. \A x \in mem[t] : x.id # n /\ x.xmax # n
    BY <1>1, <1>5, <1>6, <1>8, <1>a DEF Memory, Serving
  <2>3. Closed(mem[t], open')
    BY <1>1, <1>6, <2>2 DEF Memory, Closed
  <2>4. \A i : Reaches(mem[t], open, i) => Reaches(mem[t], open', i)
    BY <1>1 DEF Reaches
  <2>5. \A u \in Sessions : InOpen(u)' =>
             IF job'[u].table = t
             THEN /\ [id |-> job'[u].id, xmax |-> 0] \in mem[t]
                  /\ [id |-> job'[u].ended, xmax |-> job'[u].id] \in mem[t]
                  /\ \A x \in mem[t] : x.xmax = job'[u].id => x.id = job'[u].ended
             ELSE \A x \in mem[t] : x.id # job'[u].id /\ x.xmax # job'[u].id
    BY <1>1, <1>3, <1>6 DEF Memory, Serving
  <2>6. \A u \in Sessions : pc'[u] # "idle" /\ ~InOpen(u)' /\ job'[u].table = t => Reaches(mem[t], open', job'[u].id)
    BY <1>1, <1>3, <1>6, <2>4 DEF Memory, Serving
  <2>7. Sound(mem[t]) /\ \A x \in file[t] : Reaches(mem[t], open', x.id)
    BY <1>6, <2>4 DEF Memory
  <2>8. \A x \in mem[t] : x.id < next_id /\ x.xmax < next_id /\ x.id \notin undone' /\ x.xmax \notin undone'
    BY <1>1, <1>6, <2>2
  <2> QED
    BY <1>1, <2>1, <2>3, <2>5, <2>6, <2>7, <2>8 DEF Memory, Serving, Sound, Closed, Reaches
<1>9. Memory(home)'
  <2>0. PICK R : R = mem[home]
    OBVIOUS
  <2> DEFINE back(v) == IF v.xmax = n THEN [v EXCEPT !.xmax = 0] ELSE v
             M == {back(v) : v \in {v \in R : v.id # n}}
  <2>1. mem'[home] = M /\ file'[home] = file[home]
    BY <1>1, <1>2, <1>4, <2>0
  <2>2. ASSUME NEW v \in R
        PROVE  /\ back(v).id = v.id /\ back(v).xmax # n
               /\ back(v).xmax = v.xmax \/ (back(v).xmax = 0 /\ v.xmax = n)
    <3>1. v \in Versions
      BY <1>2, <1>4, <2>0
    <3> QED
      BY <1>4, <3>1 DEF Versions
  <2>3. \A x \in M : \E v \in R : x = back(v) /\ v.id # n
    OBVIOUS
  <2>4. \A v \in R : v.id # n => back(v) \in M
    OBVIOUS
  <2>5. Memory(home) /\ R = mem[home]
    BY <1>4, <1>6, <2>0
  <2> HIDE DEF back, M
  <2>6. Sound(R) /\ Closed(R, open)
    BY <2>5 DEF Memory
  <2>7. Sound(M)
    <3>1. ASSUME NEW x \in M, NEW y \in M, x.id = y.id PROVE x = y
      <4>1. PICK v \in R : x = back(v)
        BY <2>3
      <4>2. PICK w \in R : y = back(w)
        BY <2>3
      <4>3. v = w
        BY <2>2, <2>6, <3>1, <4>1, <4>2 DEF Sound
      <4> QED
        BY <4>1, <4>2, <4>3
    <3>2. ASSUME NEW x \in M PROVE x.xmax = 0 \/ x.id < x.xmax
      BY <2>2, <2>3, <2>6 DEF Sound
    <3> QED
      BY <3>1, <3>2 DEF Sound
  <2>8. \A i : Reaches(R, open, i) => Reaches(M, open', i)
    <3> TAKE i
    <3> HAVE Reaches(R, open, i)
    <3>1. PICK v \in R : v.id \notin open /\ i <= v.id
      BY DEF Reaches
    <3>2. back(v) \in M /\ back(v).id = v.id /\ v.id \notin open'
      BY <1>1, <1>5, <2>2, <2>4, <3>1
    <3> QED
      BY <3>1, <3>2 DEF Reaches
  <2>9. Closed(M, open')
    <3>1. \E x \in M : x.id \notin open'
      <4>1. PICK v \in R : v.id \notin open
        BY <2>6 DEF Closed
      <4> QED
        BY <1>1, <1>5, <2>2, <2>4, <4>1
    <3>2. ASSUME NEW x \in M, x.xmax # 0, x.xmax \notin open' PROVE Reaches(M, open', x.xmax)
      <4>1. PICK v \in R : x = back(v)
        BY <2>3
      <4>2. x.xmax = v.xmax /\ v.xmax \notin open
        BY <1>1, <2>2, <3>2, <4>1
      <4>3. Reaches(R, open, v.xmax)
        BY <2>6, <3>2, <4>2 DEF Closed, Reaches
      <4> QED
        BY <2>8, <4>2, <4>3
    <3> QED
      BY <3>1, <3>2 DEF Closed, Reaches
  <2>10. \A x \in file[home] : Reaches(M, open', x.id)
    BY <2>5, <2>8 DEF Memory
  <2>11. \A x \in M : x.id < next_id /\ x.xmax < next_id /\ x.id \notin undone' /\ x.xmax \notin undone'
    <3> TAKE x \in M
    <3>1. PICK v \in R : x = back(v) /\ v.id # n
      BY <2>3
    <3>2. v.id < next_id /\ v.xmax < next_id /\ v.id \notin undone /\ v.xmax \notin undone /\ 0 < next_id /\ 0 \notin undone
      BY <1>4, <1>6, <2>5
    <3> QED
      BY <1>1, <1>4, <2>2, <3>1, <3>2
  <2>12. \A u \in Sessions : InOpen(u)' =>
             IF job'[u].table = home
             THEN /\ [id |-> job'[u].id, xmax |-> 0] \in M
                  /\ [id |-> job'[u].ended, xmax |-> job'[u].id] \in M
                  /\ \A x \in M : x.xmax = job'[u].id => x.id = job'[u].ended
             ELSE \A x \in M : x.id # job'[u].id /\ x.xmax # job'[u].id
    <3> TAKE u \in Sessions
    <3> HAVE InOpen(u)'
    <3>1. u # s /\ InOpen(u) /\ job'[u] = job[u] /\ pc[u] # "idle" /\ job[u].kind = "commit"
      BY <1>3 DEF InOpen
    <3>2. job[u].table # home
      BY <1>0, <1>1, <1>5, <1>a, <3>1 DEF Control, Apart, InOpen
    <3>3. \A v \in R : v.id # job[u].id /\ v.xmax # job[u].id
      BY <1>1, <2>5, <3>1, <3>2 DEF Memory, Serving
    <3>4. job[u].id # 0
      <4>1. job[u].id \in open
        BY <1>0, <3>1 DEF Control
      <4> QED
        BY <1>4, <1>6, <4>1
    <3> QED
      BY <2>2, <2>3, <3>1, <3>2, <3>3, <3>4
  <2>13. \A u \in Sessions : pc'[u] # "idle" /\ ~InOpen(u)' /\ job'[u].table = home => Reaches(M, open', job'[u].id)
    BY <1>1, <1>3, <2>5, <2>8 DEF Memory, Serving
  <2> QED
    BY <1>1, <2>1, <2>7, <2>9, <2>10, <2>11, <2>12, <2>13 DEF Memory, Serving, Sound, Closed, Reaches
<1> QED
  BY <1>7, <1>8, <1>9 DEF Rows

LEMMA FinishRows ==
    ASSUME IInv, NEW s \in Sessions, Finish(s)
    PROVE  Rows'
<1> DEFINE n == job[s].id
           home == job[s].table
<1>0. Types /\ Control
  BY DEF IInv
<1>1. /\ mode = "up" /\ mode' = "up" /\ pc[s] = "durable" /\ pc' = [pc EXCEPT ![s] = "finished"]
      /\ open' = open \ {n} /\ UNCHANGED <<mem, file, log, next_id, job, undone>>
  BY DEF Finish, logVars, history
<1>2. pc \in [Sessions -> Steps]
  BY <1>0 DEF Types
<1>3. /\ \A u \in Sessions : u # s => pc'[u] = pc[u] /\ (InOpen(u)' <=> InOpen(u))
      /\ pc'[s] = "finished" /\ ~InOpen(s)'
  BY <1>1, <1>2 DEF InOpen
<1>4. home \in Tables /\ n \in Nat
  BY <1>0, <1>1, JobIs
<1> SUFFICES ASSUME NEW t \in Tables PROVE Memory(t)' /\ File(t)'
  BY <1>1 DEF Rows
<1>5. /\ Memory(t) /\ File(t) /\ Serving
  BY <1>1, ServingFacts
<1>6. File(t)'
  BY <1>1, <1>5 DEF File, Serving, Sound, Closed
<1>7. \A i : Reaches(mem[t], open, i) => Reaches(mem[t], open', i)
  BY <1>1 DEF Reaches
<1>8. (t = home \/ \E v \in mem[t] : v.xmax = n /\ n \in open) => Reaches(mem[t], open', n)
  <2>1. CASE InOpen(s)
    <3>1. t = home => [id |-> n, xmax |-> 0] \in mem[t]
      BY <1>5, <2>1 DEF Memory
    <3>2. t # home => \A v \in mem[t] : v.xmax # n
      BY <1>5, <2>1 DEF Memory
    <3> QED
      BY <1>1, <1>4, <3>1, <3>2 DEF Reaches
  <2>2. CASE ~InOpen(s)
    <3>1. t = home => Reaches(mem[t], open, n)
      BY <1>1, <1>5, <2>2 DEF Memory
    <3>2. n \notin open
      <4> SUFFICES ASSUME n \in open PROVE FALSE
        OBVIOUS
      <4>1. PICK u \in Sessions : InOpen(u) /\ n = job[u].id
        BY <1>0 DEF Control
      <4>2. u # s /\ pc[u] # "idle"
        BY <2>2, <4>1 DEF InOpen
      <4> QED
        BY <1>0, <1>1, <4>1, <4>2 DEF Control, Apart
    <3> QED
      BY <1>7, <3>1, <3>2
  <2> QED
    BY <2>1, <2>2
<1>9. Closed(mem[t], open')
  <2>1. Closed(mem[t], open)
    BY <1>5 DEF Memory
  <2>2. ASSUME NEW v \in mem[t], v.xmax # 0, v.xmax \notin open' PROVE Reaches(mem[t], open', v.xmax)
    <3>1. CASE v.xmax \notin open
      BY <1>7, <2>1, <2>2, <3>1 DEF Closed, Reaches
    <3>2. CASE v.xmax \in open
      <4>1. v.xmax = n
        BY <1>1, <2>2, <3>2
      <4> QED
        BY <1>8, <3>2, <4>1
    <3> QED
      BY <3>1, <3>2
  <2>3. \E v \in mem[t] : v.id \notin open'
    BY <1>1, <2>1 DEF Closed
  <2> QED
    BY <2>2, <2>3 DEF Closed, Reaches
<1>10. \A u \in Sessions : InOpen(u)' => InOpen(u)
  BY <1>3
<1>11. \A u \in Sessions : pc'[u] # "idle" /\ ~InOpen(u)' /\ job[u].table = t => Reaches(mem[t], open', job[u].id)
  <2> TAKE u \in Sessions
  <2>1. CASE u = s
    BY <1>8, <2>1
  <2>2. CASE u # s
    BY <1>3, <1>5, <1>7, <2>2 DEF Memory
  <2> QED
    BY <2>1, <2>2
<1>12. Sound(mem[t]) /\ \A v \in file[t] : Reaches(mem[t], open', v.id)
  BY <1>5, <1>7 DEF Memory
<1>13. Memory(t)'
  BY <1>1, <1>5, <1>9, <1>10, <1>11, <1>12 DEF Memory, Serving, Sound, Closed, Reaches
<1> QED
  BY <1>6, <1>13

\* What a vacuum leaves of a table.
LEMMA KeptIs ==
    ASSUME IInv, mode = "up", NEW tb \in Tables, NEW K, K = mem[tb] \ Vacuumable(tb)
    PROVE  /\ K \in SUBSET Versions /\ Sound(K) /\ Closed(K, open)
           /\ \A i \in Nat : Reaches(mem[tb], open, i) => Reaches(K, open, i)
           /\ \A v \in mem[tb] : v.xmax = 0 \/ v.xmax \in open => v \in K
<1>1. /\ mem[tb] \in SUBSET Versions /\ Memory(tb) /\ Types
      /\ \A v \in mem[tb] : v.id \in Nat /\ v.xmax \in Nat
  BY ServingFacts DEF IInv
<1>2. Sound(mem[tb]) /\ Closed(mem[tb], open)
  BY <1>1 DEF Memory
<1>3. /\ \A v \in Vacuumable(tb) : v.xmax # 0 /\ v.xmax \notin open
      /\ \A w \in mem[tb] : w.id \notin open =>
            \E x \in mem[tb] \ Vacuumable(tb) : x.id \notin open /\ w.id <= x.id
  BY <1>1, <1>2, VacuumKeeps
<1>4. ASSUME NEW i \in Nat, Reaches(mem[tb], open, i) PROVE Reaches(K, open, i)
  <2>1. PICK w \in mem[tb] : w.id \notin open /\ i <= w.id
    BY <1>4 DEF Reaches
  <2>2. PICK x \in K : x.id \notin open /\ w.id <= x.id
    BY <1>3, <2>1
  <2>3. w.id \in Nat /\ x.id \in Nat
    BY <1>1, <2>1, <2>2
  <2>4. i <= x.id
    BY <2>1, <2>2, <2>3
  <2> QED
    BY <2>2, <2>4 DEF Reaches
<1>5. Sound(K)
  BY <1>2 DEF Sound
<1>6. Closed(K, open)
  <2>1. \E v \in K : v.id \notin open
    BY <1>2, <1>3 DEF Closed
  <2>2. ASSUME NEW v \in K, v.xmax # 0, v.xmax \notin open PROVE Reaches(K, open, v.xmax)
    <3>1. v \in mem[tb] /\ v.xmax \in Nat
      BY <1>1
    <3>2. Reaches(mem[tb], open, v.xmax)
      BY <1>2, <2>2, <3>1 DEF Closed, Reaches
    <3> QED
      BY <1>4, <3>1, <3>2
  <2> QED
    BY <2>1, <2>2 DEF Closed, Reaches
<1> QED
  BY <1>1, <1>3, <1>4, <1>5, <1>6

\* A file that save_committed has written is one a table can have.
LEMMA SavedFile ==
    ASSUME Types, NEW R \in SUBSET Versions, Sound(R), Closed(R, open), NEW F, F = save_committed(R)
    PROVE  /\ Sound(F) /\ Closed(F, {}) /\ F \in SUBSET Versions
           /\ \A v \in F : Reaches(R, open, v.id)
           /\ \A i \in Nat : Reaches(R, open, i) => Reaches(F, {}, i)
           /\ \A N : 0 \notin N /\ (\A w \in R : w.id \notin N /\ w.xmax \notin N) =>
                        \A v \in F : {v.id, v.xmax} \cap (open \cup N) = {}
<1>1. open \subseteq 1 .. MaxId
  BY DEF Types
<1>2. /\ F \in SUBSET Versions /\ Sound(F) /\ Closed(F, {})
      /\ \A v \in F :
            /\ v.id \notin open /\ v.xmax \notin open
            /\ \E w \in R : w.id = v.id /\ (v.xmax = w.xmax \/ (v.xmax = 0 /\ w.xmax \in open))
      /\ \A w \in R : w.id \notin open => \E v \in F : v.id = w.id
  BY <1>1, SaveIs
<1>3. \A v \in F : v.id \in Nat
  BY <1>2, BoundsAssumption DEF Versions, Ids
<1>4. \A v \in F : Reaches(R, open, v.id)
  <2> TAKE v \in F
  <2>1. PICK w \in R : w.id = v.id
    BY <1>2
  <2> QED
    BY <1>2, <1>3, <2>1 DEF Reaches
<1>5. \A i \in Nat : Reaches(R, open, i) => Reaches(F, {}, i)
  BY <1>2 DEF Reaches
<1>6. \A N : 0 \notin N /\ (\A w \in R : w.id \notin N /\ w.xmax \notin N) =>
                \A v \in F : {v.id, v.xmax} \cap (open \cup N) = {}
  BY <1>2
<1> QED
  BY <1>2, <1>4, <1>5, <1>6

LEMMA VacuumRows ==
    ASSUME IInv, NEW s \in Sessions, Vacuum(s)
    PROVE  Rows' /\ \A u \in Sessions : Keeps(u)
<1>0. Types /\ Control
  BY DEF IInv
<1>1. PICK tb : tb = job[s].table
  OBVIOUS
<1>2. PICK K : K = mem[tb] \ Vacuumable(tb)
  OBVIOUS
<1>3. PICK F : F = save_committed(K)
  OBVIOUS
<1>4. /\ mode = "up" /\ mode' = "up"
      /\ \/ job[s].kind = "auto" /\ pc[s] = "changed"
         \/ job[s].kind = "commit" /\ pc[s] \in {"open", "finished"}
      /\ mem' = [mem EXCEPT ![tb] = K] /\ file' = [file EXCEPT ![tb] = F]
      /\ pc' \in {pc, [pc EXCEPT ![s] = "vacuumed"]}
      /\ UNCHANGED <<job, open, undone, next_id, log>>
  BY <1>1, <1>2, <1>3 DEF Vacuum, logVars
<1>5. /\ pc \in [Sessions -> Steps] /\ mem \in [Tables -> SUBSET Versions] /\ file \in [Tables -> SUBSET Versions]
  BY <1>0 DEF Types
<1>6. tb \in Tables /\ Placed(s) /\ job[s].committing \in BOOLEAN
  BY <1>0, <1>1, <1>4, JobIs
<1>7. \A u \in Sessions : Keeps(u)
  <2>1. Keeps(s)
    BY <1>4, <1>5, <1>6 DEF Keeps, InOpen, Placed
  <2>2. \A u \in Sessions : u # s => Keeps(u)
    BY <1>4, <1>5 DEF Keeps, InOpen
  <2> QED
    BY <2>1, <2>2
<1>8. /\ K \in SUBSET Versions /\ Sound(K) /\ Closed(K, open)
      /\ \A i \in Nat : Reaches(mem[tb], open, i) => Reaches(K, open, i)
      /\ \A v \in mem[tb] : v.xmax = 0 \/ v.xmax \in open => v \in K
  BY <1>2, <1>4, <1>6, KeptIs
<1>9. /\ Sound(F) /\ Closed(F, {}) /\ \A v \in F : Reaches(K, open, v.id)
      /\ \A N : 0 \notin N /\ (\A w \in K : w.id \notin N /\ w.xmax \notin N) =>
                        \A v \in F : {v.id, v.xmax} \cap (open \cup N) = {}
  BY <1>0, <1>3, <1>8, SavedFile
<1>10. K \subseteq mem[tb]
  BY <1>2
<1>11. \A t \in Tables : /\ Memory(t) /\ File(t) /\ Serving /\ 0 \notin undone
                         /\ \A v \in mem[t] : v.id \notin undone /\ v.xmax \notin undone
  BY <1>4, ServingFacts
<1>12. \A u \in Sessions : InOpen(u)' => InOpen(u) /\ job[u].id \in open
  BY <1>0, <1>7 DEF Keeps, Control
<1>13. \A u \in Sessions : pc'[u] # "idle" /\ ~InOpen(u)' => pc[u] # "idle" /\ ~InOpen(u) /\ job[u].id \in Nat
  BY <1>0, <1>7, JobIs DEF Keeps
<1>14. ASSUME NEW t \in Tables, t # tb PROVE Memory(t)' /\ File(t)'
  <2>1. mem'[t] = mem[t] /\ file'[t] = file[t]
    BY <1>4, <1>5, <1>14
  <2>2. File(t)'
    BY <1>4, <1>11, <2>1 DEF File, Serving, Sound, Closed
  <2>3. Memory(t)'
    BY <1>4, <1>11, <1>12, <1>13, <2>1 DEF Memory, Serving, Sound, Closed, Reaches
  <2> QED
    BY <2>2, <2>3
<1>15. File(tb)'
  <2>1. file'[tb] = F
    BY <1>4, <1>5, <1>6
  <2>2. \A v \in F : {v.id, v.xmax} \cap (open \cup undone) = {}
    BY <1>6, <1>9, <1>10, <1>11
  <2> QED
    BY <1>4, <1>9, <2>1, <2>2 DEF File, Serving, Sound, Closed
<1>16. Memory(tb)'
  <2>1. mem'[tb] = K /\ file'[tb] = F
    BY <1>4, <1>5, <1>6
  <2>2. \A v \in K : /\ v.id < next_id /\ v.xmax < next_id /\ v.id \notin undone /\ v.xmax \notin undone
    BY <1>6, <1>10, <1>11 DEF Memory
  <2>3. \A u \in Sessions : InOpen(u)' =>
             IF job[u].table = tb
             THEN /\ [id |-> job[u].id, xmax |-> 0] \in K
                  /\ [id |-> job[u].ended, xmax |-> job[u].id] \in K
                  /\ \A x \in K : x.xmax = job[u].id => x.id = job[u].ended
             ELSE \A x \in K : x.id # job[u].id /\ x.xmax # job[u].id
    <3> TAKE u \in Sessions
    <3> HAVE InOpen(u)'
    <3>1. IF job[u].table = tb
             THEN /\ [id |-> job[u].id, xmax |-> 0] \in mem[tb]
                  /\ [id |-> job[u].ended, xmax |-> job[u].id] \in mem[tb]
                  /\ \A x \in mem[tb] : x.xmax = job[u].id => x.id = job[u].ended
             ELSE \A x \in mem[tb] : x.id # job[u].id /\ x.xmax # job[u].id
      BY <1>6, <1>11, <1>12 DEF Memory
    <3> QED
      BY <1>8, <1>10, <1>12, <3>1
  <2>4. \A u \in Sessions : pc'[u] # "idle" /\ ~InOpen(u)' /\ job[u].table = tb => Reaches(K, open, job[u].id)
    BY <1>6, <1>8, <1>11, <1>13 DEF Memory
  <2> QED
    BY <1>4, <1>8, <1>9, <2>1, <2>2, <2>3, <2>4 DEF Memory, Serving, Sound, Closed, Reaches
<1> QED
  BY <1>4, <1>7, <1>14, <1>15, <1>16 DEF Rows

\* Outside of its service the program has nobody open.
LEMMA NobodyOpen ==
    ASSUME Control, ~Serving
    PROVE  open = {} /\ \A s \in Sessions : pc[s] = "idle" /\ ~InOpen(s)
<1>1. \A s \in Sessions : pc[s] = "idle"
  BY DEF Control, Placed
<1>2. \A s \in Sessions : ~InOpen(s)
  BY <1>1 DEF InOpen
<1> QED
  BY <1>1, <1>2 DEF Control

LEMMA FlushRows ==
    ASSUME IInv, NEW tb \in Tables, FlushTable(tb)
    PROVE  Rows'
<1>0. Types /\ Control /\ Rows
  BY DEF IInv
<1>1. PICK F : F = save_committed(mem[tb])
  OBVIOUS
<1>2. /\ tb \in pending /\ file' = [file EXCEPT ![tb] = F] /\ pending' = pending \ {tb}
      /\ UNCHANGED <<mode, mem, log, job, pc, open, undone, next_id>>
  BY <1>1 DEF FlushTable, logVars, sessVars, history
<1>3. mode \in {"checkpoint", "recovering"}
  BY <1>0, <1>2 DEF Control, Types
<1>4. /\ mem \in [Tables -> SUBSET Versions] /\ file \in [Tables -> SUBSET Versions] /\ 0 \notin undone
  BY <1>0, BoundsAssumption DEF Types
<1>5. \A t \in Tables : Memory(t) /\ File(t)
  BY <1>0, <1>3 DEF Rows
<1>6. Sound(mem[tb]) /\ Closed(mem[tb], open)
  BY <1>5 DEF Memory
<1>7. /\ Sound(F) /\ Closed(F, {}) /\ \A v \in F : Reaches(mem[tb], open, v.id)
      /\ \A N : 0 \notin N /\ (\A w \in mem[tb] : w.id \notin N /\ w.xmax \notin N) =>
                   \A v \in F : {v.id, v.xmax} \cap (open \cup N) = {}
  BY <1>0, <1>1, <1>4, <1>6, SavedFile
<1>8. \A u \in Sessions : InOpen(u)' <=> InOpen(u)
  BY <1>2 DEF InOpen
<1>9. ASSUME NEW t \in Tables, t # tb PROVE Memory(t)' /\ File(t)'
  <2>1. file'[t] = file[t] /\ (t \in pending' <=> t \in pending)
    BY <1>2, <1>4, <1>9
  <2>2. File(t)'
    BY <1>2, <1>5, <2>1 DEF File, Serving, Sound, Closed, Written
  <2>3. Memory(t)'
    BY <1>2, <1>5, <1>8, <2>1 DEF Memory, Serving, Sound, Closed, Reaches
  <2> QED
    BY <2>2, <2>3
<1>10. file'[tb] = F
  BY <1>2, <1>4
<1>11. Memory(tb)'
  BY <1>2, <1>5, <1>7, <1>8, <1>10 DEF Memory, Serving, Sound, Closed, Reaches
<1>12. File(tb)'
  <2>1. CASE mode = "checkpoint"
    <3>1. \A v \in F : {v.id, v.xmax} \cap (open \cup undone) = {}
      BY <1>4, <1>5, <1>7, <2>1 DEF Memory, Serving
    <3> QED
      BY <1>2, <1>7, <1>10, <2>1, <3>1 DEF File, Serving, Sound, Closed
  <2>2. CASE mode = "recovering"
    <3>1. open = {}
      BY <1>0, <2>2, NobodyOpen DEF Serving
    <3>2. F = mem[tb]
      BY <1>1, <1>4, <3>1, SaveAll
    <3>3. \A v \in mem[tb] : {v.id, v.xmax} \cap undone \subseteq Written
      BY <1>5, <2>2 DEF File
    <3>4. Written' = Written
      BY <1>2 DEF Written
    <3> QED
      BY <1>2, <1>7, <1>10, <2>2, <3>2, <3>3, <3>4 DEF File, Serving, Sound, Closed
  <2> QED
    BY <1>3, <2>1, <2>2
<1> QED
  BY <1>9, <1>11, <1>12 DEF Rows

LEMMA CrashRows ==
    ASSUME IInv, Crash
    PROVE  Rows'
<1>0. Types /\ Control /\ Rows
  BY DEF IInv
<1>1. mode' = "down" /\ open' = {} /\ UNCHANGED <<file, undone>>
  BY DEF Crash, history
<1>2. PICK k \in stable .. Len(log) : log' = SubSeq(log, 1, k)
  BY DEF Crash
<1> SUFFICES ASSUME NEW tb \in Tables PROVE File(tb)'
  BY <1>1 DEF Rows
<1>3. File(tb)
  BY <1>0 DEF Rows
<1>4. \A v \in file[tb] : {v.id, v.xmax} \cap undone \subseteq Written'
  <2>1. CASE Serving
    BY <1>3, <2>1 DEF File
  <2>2. CASE ~Serving
    <3>1. stable = Len(log) /\ log \in Seq(Entries)
      BY <1>0, <2>2 DEF Control, Types
    <3>2. k = Len(log)
      BY <1>2, <3>1
    <3>3. log' = log
      BY <1>2, <3>1, <3>2
    <3> QED
      BY <1>3, <2>2, <3>3 DEF File, Written
  <2> QED
    BY <2>1, <2>2
<1> QED
  BY <1>1, <1>3, <1>4 DEF File, Serving, Sound, Closed

\* What is recovered from the log l is a table a program can have.
LEMMA RecoveredSound ==
    ASSUME Types, Logged, NEW tb \in Tables, Sound(file[tb]), Closed(file[tb], {}), NEW l, Begins(l, log),
           NEW R, R = Recovered(tb, l)
    PROVE  /\ R \in SUBSET Versions /\ Sound(R) /\ Closed(R, {})
           /\ \A i \in Nat : Reaches(file[tb], {}, i) => Reaches(R, {}, i)
           /\ \A i \in Replayed(tb, l) : Reaches(R, {}, log[i].id)
           /\ \A w \in R : /\ \/ \E v \in file[tb] : w.id = v.id
                              \/ \E i \in Replayed(tb, l) : w.id = log[i].id
                           /\ \/ w.xmax = 0
                              \/ \E v \in file[tb] : w.xmax = v.xmax
                              \/ \E i \in Replayed(tb, l) : w.xmax = log[i].id
<1>1. /\ Replayed(tb, l) \subseteq At(tb)
      /\ \A i \in Replayed(tb, l) : log[i].id # 0
      /\ Replays(R, file[tb], log, Replayed(tb, l))
  BY RecoveredIs
<1>2. R \in SUBSET Versions
  BY <1>1 DEF Replays
<1>3. \A i \in Replayed(tb, l) : log[i].id \in Nat /\ log[i].ended < log[i].id
  <2> TAKE i \in Replayed(tb, l)
  <2>1. i \in 1 .. Len(log) /\ log[i].kind = "batch"
    BY <1>1 DEF At
  <2>2. Entry(log[i])
    BY <2>1 DEF Logged
  <2> QED
    BY <2>1, <2>2, BoundsAssumption DEF Entry
<1>4. Sound(R)
  <2>1. \A v, w \in R : v.id = w.id => v = w
    BY <1>1 DEF Replays, Sound
  <2>2. ASSUME NEW w \in R PROVE w.xmax = 0 \/ w.id < w.xmax
    <3>1. w \in file[tb] \/ w.xmax = 0 \/ \E i \in Replayed(tb, l) : log[i].ended = w.id /\ log[i].id = w.xmax
      BY <1>1 DEF Replays
    <3> QED
      BY <1>3, <3>1 DEF Sound
  <2> QED
    BY <2>1, <2>2 DEF Sound
<1>5. \A i \in Nat : Reaches(file[tb], {}, i) => Reaches(R, {}, i)
  <2> TAKE i \in Nat
  <2> HAVE Reaches(file[tb], {}, i)
  <2>1. PICK v \in file[tb] : i <= v.id
    BY DEF Reaches
  <2>2. PICK w \in R : w.id = v.id
    BY <1>1 DEF Replays
  <2> QED
    BY <2>1, <2>2 DEF Reaches
<1>6. \A i \in Replayed(tb, l) : Reaches(R, {}, log[i].id)
  <2> TAKE i \in Replayed(tb, l)
  <2>1. PICK w \in R : w.id = log[i].id
    BY <1>1 DEF Replays
  <2> QED
    BY <1>3, <2>1 DEF Reaches
<1>7. Closed(R, {})
  <2>1. \E v \in R : v.id \notin {}
    <3>1. PICK v \in file[tb] : TRUE
      BY DEF Closed
    <3> QED
      BY <1>1, <3>1 DEF Replays
  <2>2. ASSUME NEW w \in R, w.xmax # 0 PROVE Reaches(R, {}, w.xmax)
    <3>1. CASE w \in file[tb]
      <4>1. Reaches(file[tb], {}, w.xmax)
        BY <2>2, <3>1 DEF Closed, Reaches
      <4>2. w.xmax \in Nat
        BY <1>2, BoundsAssumption DEF Versions, Ids
      <4> QED
        BY <1>5, <4>1, <4>2
    <3>2. CASE w \notin file[tb]
      <4>1. PICK i \in Replayed(tb, l) : log[i].id = w.xmax
        BY <1>1, <2>2, <3>2 DEF Replays
      <4> QED
        BY <1>6, <4>1
    <3> QED
      BY <3>1, <3>2
  <2> QED
    BY <2>1, <2>2 DEF Closed, Reaches
<1>8. \A w \in R : /\ \/ \E v \in file[tb] : w.id = v.id
                      \/ \E i \in Replayed(tb, l) : w.id = log[i].id
                   /\ \/ w.xmax = 0
                      \/ \E v \in file[tb] : w.xmax = v.xmax
                      \/ \E i \in Replayed(tb, l) : w.xmax = log[i].id
  BY <1>1 DEF Replays
<1> QED
  BY <1>2, <1>4, <1>5, <1>6, <1>7, <1>8

LEMMA RecoverRows ==
    ASSUME IInv, Recover
    PROVE  Rows'
<1>0. Types /\ Control /\ Rows /\ Logged
  BY DEF IInv
<1>1. /\ mode = "down" /\ mode' = "recovering" /\ mem' = [tb \in Tables |-> Recovered(tb, log)]
      /\ pending' = {tb \in Tables : mem'[tb] # file[tb]} /\ UNCHANGED <<file, log, open, undone>>
  BY DEF Recover, logVars, sessVars, history
<1> SUFFICES ASSUME NEW tb \in Tables PROVE Memory(tb)' /\ File(tb)'
  BY DEF Rows
<1>2. File(tb) /\ open = {} /\ Begins(log, log)
  BY <1>0, <1>1, NobodyOpen DEF Rows, Serving, Begins, Types
<1>3. PICK R : R = Recovered(tb, log)
  OBVIOUS
<1>4. mem'[tb] = R
  BY <1>1, <1>3
<1>5. /\ Sound(R) /\ Closed(R, {})
      /\ \A i \in Nat : Reaches(file[tb], {}, i) => Reaches(R, {}, i)
      /\ \A w \in R : /\ \/ \E v \in file[tb] : w.id = v.id
                         \/ \E i \in Replayed(tb, log) : w.id = log[i].id
                      /\ \/ w.xmax = 0
                         \/ \E v \in file[tb] : w.xmax = v.xmax
                         \/ \E i \in Replayed(tb, log) : w.xmax = log[i].id
  BY <1>0, <1>2, <1>3, RecoveredSound DEF File
<1>6. \A i \in Replayed(tb, log) : log[i].id \in Written
  <2>1. Replayed(tb, log) \subseteq At(tb)
    BY <1>0, <1>2, RecoveredIs
  <2> QED
    BY <2>1 DEF At, Written
<1>7. \A v \in R : {v.id, v.xmax} \cap undone \subseteq Written
  <2>1. 0 \notin undone
    BY <1>0, BoundsAssumption DEF Types
  <2>2. \A v \in file[tb] : {v.id, v.xmax} \cap undone \subseteq Written
    BY <1>1, <1>2 DEF File, Serving
  <2> QED
    BY <1>5, <1>6, <2>1, <2>2
<1>8. Written' = Written
  BY <1>1 DEF Written
<1>9. File(tb)'
  BY <1>1, <1>2, <1>4, <1>7, <1>8 DEF File, Serving, Sound, Closed
<1>10. \A v \in file[tb] : Reaches(R, {}, v.id)
  <2> TAKE v \in file[tb]
  <2>1. v.id \in Nat
    BY <1>0, BoundsAssumption DEF Types, Versions, Ids
  <2> QED
    BY <1>5, <2>1 DEF Reaches
<1>11. Memory(tb)'
  BY <1>1, <1>2, <1>4, <1>5, <1>10 DEF Memory, Serving, Sound, Closed, Reaches
<1> QED
  BY <1>9, <1>11

LEMMA RecoverDoneRows ==
    ASSUME IInv, RecoverDone
    PROVE  Rows'
<1>0. Types /\ Control /\ Rows
  BY DEF IInv
<1>1. /\ mode = "recovering" /\ mode' = "up" /\ undone' = {} /\ pending = {}
      /\ next_id' = 1 + Max(UNION {{v.id, v.xmax} : v \in UNION {mem[tb] : tb \in Tables}})
      /\ UNCHANGED <<mem, file, pc, job, open>>
  BY DEF RecoverDone, AllFlushed
<1> DEFINE S == UNION {{v.id, v.xmax} : v \in UNION {mem[tb] : tb \in Tables}}
<1>2. \A s \in Sessions : pc'[s] = "idle" /\ ~InOpen(s)'
  BY <1>0, <1>1, NobodyOpen DEF Serving, InOpen
<1>3. open = {}
  BY <1>0, <1>1, NobodyOpen DEF Serving
<1> SUFFICES ASSUME NEW tb \in Tables PROVE Memory(tb)' /\ File(tb)'
  BY DEF Rows
<1>4. Memory(tb) /\ File(tb)
  BY <1>0, <1>1 DEF Rows
<1>5. \A v \in mem[tb] : v.id < next_id' /\ v.xmax < next_id'
  <2> TAKE v \in mem[tb]
  <2>1. S \in SUBSET (0 .. MaxId)
    BY <1>0 DEF Types, Versions, Ids
  <2>2. v.id \in S /\ v.xmax \in S
    OBVIOUS
  <2>3. Max(S) \in S /\ \A y \in S : y <= Max(S)
    BY <2>1, <2>2, MaxIs, BoundsAssumption
  <2>4. next_id' = 1 + Max(S)
    BY <1>1
  <2>5. Max(S) \in Int /\ v.id \in Int /\ v.xmax \in Int
    BY <2>1, <2>2, <2>3
  <2> HIDE DEF S
  <2> QED
    BY <2>2, <2>3, <2>4, <2>5
<1>6. Memory(tb)'
  BY <1>1, <1>2, <1>4, <1>5 DEF Memory, Serving, Sound, Closed, Reaches
<1>7. File(tb)'
  BY <1>1, <1>3, <1>4 DEF File, Serving, Sound, Closed
<1> QED
  BY <1>6, <1>7

\* Every step keeps what the rows are.
LEMMA RowsStep ==
    ASSUME IInv, [Next]_vars
    PROVE  Rows'
<1>0. Types /\ Control /\ Rows
  BY DEF IInv
<1>1. ASSUME NEW s \in Sessions, Session(s) PROVE Rows'
  <2>1. ASSUME \/ Commit(s) \/ Reply(s) \/ NothingToLog(s) \/ WriteBatch(s) \/ WriteBatchFails(s)
               \/ SyncReturns(s) \/ SyncStart(s) \/ SyncEnd(s) \/ SyncFailed(s) \/ redo_mark_flushed(s)
        PROVE  Rows'
    <3>1. UNCHANGED <<mode, mem, file, next_id, undone, open>> /\ mode = "up" /\ \A u \in Sessions : Keeps(u)
      BY <2>1, SessionKeeps
    <3> QED
      BY <1>0, <3>1, RowsStay DEF Serving
  <2> QED
    BY <1>1, <2>1, ChangeRows, RollbackRows, FinishRows, VacuumRows DEF Session
<1>2. ASSUME Checkpoint \/ CheckpointDone PROVE Rows'
  <2>1. /\ mode \in {"up", "checkpoint"} /\ mode' \in {"up", "checkpoint"}
        /\ UNCHANGED <<mem, file, next_id, undone, open, pc, job>>
    BY <1>2 DEF Checkpoint, CheckpointDone, sessVars, history
  <2>2. \A u \in Sessions : Keeps(u)
    BY <2>1 DEF Keeps, InOpen
  <2> QED
    BY <1>0, <2>1, <2>2, RowsStay DEF Serving
<1>3. CASE UNCHANGED vars
  <2>1. UNCHANGED <<mode, mem, file, log, pending, pc, job, open, next_id, undone>>
    BY <1>3 DEF vars, logVars, sessVars, history
  <2> QED
    BY <1>0, <2>1 DEF Rows, Memory, File, Serving, Sound, Closed, Reaches, InOpen, Written
<1> QED
  BY <1>1, <1>2, <1>3, FlushRows, CrashRows, RecoverRows, RecoverDoneRows DEF Next

\* Nothing has happened yet.
LEMMA InitHolds == Init => IInv
<1> SUFFICES ASSUME Init PROVE IInv
  OBVIOUS
<1>1. Types
  BY InitTypes
<1>2. \A s \in Sessions : pc[s] = "idle" /\ job[s] = NoJob /\ ~InOpen(s)
  BY DEF Init, InOpen
<1>3. Control
  <2>1. NoJob.kind = "none"
    BY DEF NoJob
  <2>2. \A s \in Sessions : Placed(s)
    BY <1>2, <2>1 DEF Init, Placed, Serving, InCall
  <2> QED
    BY <1>2, <2>2 DEF Init, Control, Apart, Serving, Sync
<1>4. Logged
  BY DEF Init, Logged
<1>5. Rows
  <2> SUFFICES ASSUME NEW tb \in Tables PROVE Memory(tb) /\ File(tb)
    BY DEF Rows
  <2>1. /\ mem[tb] = {[id |-> 0, xmax |-> 0]} /\ file[tb] = {[id |-> 0, xmax |-> 0]}
        /\ open = {} /\ undone = {} /\ mode = "up" /\ next_id = 1
    BY DEF Init
  <2>2. Memory(tb)
    BY <1>2, <2>1 DEF Memory, Sound, Closed, Reaches
  <2>3. File(tb)
    BY <2>1 DEF File, Sound, Closed, Serving
  <2> QED
    BY <2>2, <2>3
<1> QED
  BY <1>1, <1>3, <1>4, <1>5 DEF IInv

\* Every step of the program keeps the parts together.
LEMMA StepHolds ==
    ASSUME IInv, [Next]_vars
    PROVE  IInv'
<1>0. Types /\ Control
  BY DEF IInv
<1>1. CASE UNCHANGED vars
  <2>1. /\ UNCHANGED <<mode, mem, file, log, stable, fp, appended, synced, redo_dirty, syncing, pending>>
        /\ UNCHANGED <<pc, job, seq, open, next_id, crashes, acked, undone, failed, overtaken>>
    BY <1>1 DEF vars, logVars, sessVars, history
  <2>2. Types' /\ Control'
    BY <1>0, <2>1 DEF Types, Control, Placed, Apart, InOpen, Serving, Sync
  <2> QED
    BY <2>2, RowsStep, LoggedStep DEF IInv
<1>2. ASSUME NEW s \in Sessions, Session(s) PROVE IInv'
  <2>1. Types'
    BY <1>2, SessionTypes
  <2>2. Control'
    BY <1>2, <2>1, SessionControl
  <2> QED
    BY <2>1, <2>2, RowsStep, LoggedStep DEF IInv
<1>3. ASSUME Checkpoint \/ CheckpointDone \/ (\E tb \in Tables : FlushTable(tb)) \/ Crash \/ Recover \/ RecoverDone
      PROVE  IInv'
  <2>1. Types'
    BY <1>3, SystemTypes
  <2>2. Control'
    BY <1>3, <2>1, SystemControl
  <2> QED
    BY <2>1, <2>2, RowsStep, LoggedStep DEF IInv
<1> QED
  BY <1>1, <1>2, <1>3 DEF Next

\* The sessions, the rows in memory and in the files and the entries of the log fit together in every
\* state: at every step of a statement, a COMMIT, a vacuum, a checkpoint, a crash and a recovery.
THEOREM RowsHold == Spec => []IInv
<1>1. Init => IInv
  BY InitHolds
<1>2. IInv /\ [Next]_vars => IInv'
  BY StepHolds
<1> QED
  BY <1>1, <1>2, PTL DEF Spec

\* A log that a crash could leave is a beginning of the log.
LEMMA LeavingsBegin ==
    ASSUME Types, NEW l \in Leavings
    PROVE  /\ Begins(l, log) /\ l \in Seq(Entries) /\ Len(l) \in stable .. Len(log)
           /\ stable = Len(log) => l = log
<1>1. log \in Seq(Entries) /\ stable \in 0 .. Len(log)
  BY DEF Types
<1>2. PICK k \in stable .. Len(log) : l = SubSeq(log, 1, k)
  BY DEF Leavings
<1>3. k \in 0 .. Len(log)
  BY <1>1, <1>2
<1>4. Begins(l, log) /\ Len(l) = k
  BY <1>1, <1>2, <1>3, PrefixBegins
<1>5. stable = Len(log) => l = log
  <2>1. stable = Len(log) => k = Len(log)
    BY <1>1, <1>2
  <2> QED
    BY <1>1, <1>2, <2>1
<1> QED
  BY <1>2, <1>4, <1>5 DEF Begins

LEMMA OnlyCommitted ==
    ASSUME IInv
    PROVE  OnlyCommittedRecovered
<1>0. Types /\ Control /\ Rows /\ Logged
  BY DEF IInv
<1> DEFINE unwanted == undone \cup {job[s].id : s \in {s \in Sessions : pc[s] = "open"}}
           written(l) == {l[i].id : i \in {i \in 1 .. Len(l) : l[i].kind = "batch"}}
<1> SUFFICES ASSUME NEW l \in Leavings, NEW tb \in Tables, NEW v \in Recovered(tb, l)
             PROVE  {v.id, v.xmax} \cap unwanted \subseteq written(l)
  BY DEF OnlyCommittedRecovered
<1>1. Begins(l, log) /\ (stable = Len(log) => l = log)
  BY <1>0, LeavingsBegin
<1>2. File(tb) /\ Sound(file[tb]) /\ Closed(file[tb], {})
  BY <1>0 DEF Rows, File
<1>3. /\ \/ \E w \in file[tb] : v.id = w.id
         \/ \E i \in Replayed(tb, l) : v.id = log[i].id
      /\ \/ v.xmax = 0
         \/ \E w \in file[tb] : v.xmax = w.xmax
         \/ \E i \in Replayed(tb, l) : v.xmax = log[i].id
  BY <1>0, <1>1, <1>2, RecoveredSound
<1>4. \A i \in Replayed(tb, l) : log[i].id \in written(l)
  <2> TAKE i \in Replayed(tb, l)
  <2>1. i \in At(tb) /\ i <= Len(l)
    BY <1>0, <1>1, RecoveredIs
  <2>2. i \in 1 .. Len(l) /\ l[i] = log[i] /\ log[i].kind = "batch"
    BY <1>0, <1>1, <2>1 DEF At, Begins, Types
  <2> QED
    BY <2>2
<1>5. unwanted \subseteq open \cup undone
  <2>1. ASSUME NEW s \in Sessions, pc[s] = "open" PROVE job[s].id \in open
    <3>1. InOpen(s)
      BY <1>0, <2>1, JobIs DEF InOpen, Placed, InCall
    <3> QED
      BY <1>0, <3>1 DEF Control
  <2> QED
    BY <2>1
<1>6. \A w \in file[tb] : {w.id, w.xmax} \cap unwanted \subseteq written(l)
  <2>1. CASE Serving
    BY <1>2, <1>5, <2>1 DEF File
  <2>2. CASE ~Serving
    <3>1. l = log /\ open = {}
      BY <1>0, <1>1, <2>2, NobodyOpen DEF Control
    <3>2. \A w \in file[tb] : {w.id, w.xmax} \cap undone \subseteq Written
      BY <1>2, <2>2 DEF File
    <3> QED
      BY <1>5, <3>1, <3>2 DEF Written
  <2> QED
    BY <2>1, <2>2
<1>7. 0 \notin unwanted
  BY <1>0, <1>5, BoundsAssumption DEF Types
<1> HIDE DEF unwanted, written
<1> QED
  BY <1>3, <1>4, <1>6, <1>7

\* Wherever the program stops, a restart brings back nothing of a transaction that is open or was rolled
\* back, unless its COMMIT had written the batch and failed in the fsync (save_committed, recover_from_redo).
THEOREM OnlyCommittedComesBack == Spec => []OnlyCommittedRecovered
<1>1. IInv => OnlyCommittedRecovered
  BY OnlyCommitted
<1> QED
  BY <1>1, RowsHold, PTL

-----------------------------------------------------------------------------
(* What is promised stays in the log or in the files.                        *)

\* What counts in memory, and what is in a file, is replaced only by something as late.
Gains(t) ==
    /\ \A i \in Nat : Reaches(mem[t], open, i) => Reaches(mem'[t], open', i)
    /\ \A i \in Nat : Reaches(file[t], {}, i) => Reaches(file'[t], {}, i)

\* A file holds nothing later than the memory; saving the memory loses nothing of it.
LEMMA FileGains ==
    ASSUME Types, NEW tb \in Tables, Memory(tb), NEW R \in SUBSET Versions, Sound(R), Closed(R, open),
           \A i \in Nat : Reaches(mem[tb], open, i) => Reaches(R, open, i), NEW F, F = save_committed(R)
    PROVE  /\ \A i \in Nat : Reaches(mem[tb], open, i) => Reaches(F, {}, i)
           /\ \A i \in Nat : Reaches(file[tb], {}, i) => Reaches(F, {}, i)
<1>1. \A i \in Nat : Reaches(R, open, i) => Reaches(F, {}, i)
  BY SavedFile
<1>2. ASSUME NEW i \in Nat, Reaches(file[tb], {}, i) PROVE Reaches(mem[tb], open, i)
  <2>1. PICK v \in file[tb] : i <= v.id
    BY <1>2 DEF Reaches
  <2>2. PICK w \in mem[tb] : w.id \notin open /\ v.id <= w.id
    BY DEF Memory, Reaches
  <2>3. v.id \in Nat /\ w.id \in Nat
    BY BoundsAssumption DEF Types, Versions, Ids
  <2>4. i <= w.id
    BY <2>1, <2>2, <2>3
  <2> QED
    BY <2>2, <2>4 DEF Reaches
<1> QED
  BY <1>1, <1>2

LEMMA VacuumGains ==
    ASSUME IInv, NEW s \in Sessions, Vacuum(s)
    PROVE  /\ \A t \in Tables : Gains(t)
           /\ \A i \in Nat : Reaches(mem[job[s].table], open, i) => Reaches(file'[job[s].table], {}, i)
<1>0. Types /\ Control /\ Rows
  BY DEF IInv
<1>1. PICK tb : tb = job[s].table
  OBVIOUS
<1>2. PICK K : K = mem[tb] \ Vacuumable(tb)
  OBVIOUS
<1>3. PICK F : F = save_committed(K)
  OBVIOUS
<1>4. /\ mode = "up" /\ mem' = [mem EXCEPT ![tb] = K] /\ file' = [file EXCEPT ![tb] = F] /\ open' = open /\ pc[s] # "idle"
  BY <1>1, <1>2, <1>3 DEF Vacuum
<1>5. mem \in [Tables -> SUBSET Versions] /\ file \in [Tables -> SUBSET Versions] /\ tb \in Tables
  BY <1>0, <1>1, <1>4, JobIs DEF Types
<1>6. /\ K \in SUBSET Versions /\ Sound(K) /\ Closed(K, open)
      /\ \A i \in Nat : Reaches(mem[tb], open, i) => Reaches(K, open, i)
  BY <1>2, <1>4, <1>5, KeptIs
<1>7. Memory(tb)
  BY <1>0, <1>4, <1>5 DEF Rows
<1>8. /\ \A i \in Nat : Reaches(mem[tb], open, i) => Reaches(F, {}, i)
      /\ \A i \in Nat : Reaches(file[tb], {}, i) => Reaches(F, {}, i)
  BY <1>0, <1>3, <1>5, <1>6, <1>7, FileGains
<1>9. mem'[tb] = K /\ file'[tb] = F
  BY <1>4, <1>5
<1>10. \A t \in Tables : t # tb => mem'[t] = mem[t] /\ file'[t] = file[t]
  BY <1>4, <1>5
<1>11. Gains(tb)
  BY <1>4, <1>6, <1>8, <1>9 DEF Gains
<1>12. \A t \in Tables : t # tb => Gains(t)
  BY <1>4, <1>10 DEF Gains
<1> QED
  BY <1>1, <1>8, <1>9, <1>11, <1>12

LEMMA FlushGains ==
    ASSUME IInv, NEW tb \in Tables, FlushTable(tb)
    PROVE  /\ \A t \in Tables : Gains(t)
           /\ \A i \in Nat : Reaches(mem[tb], open, i) => Reaches(file'[tb], {}, i)
<1>0. Types /\ Control /\ Rows
  BY DEF IInv
<1>1. PICK F : F = save_committed(mem[tb])
  OBVIOUS
<1>2. tb \in pending /\ file' = [file EXCEPT ![tb] = F] /\ mem' = mem /\ open' = open
  BY <1>1 DEF FlushTable, sessVars
<1>3. mode # "down"
  BY <1>0, <1>2 DEF Control
<1>4. Memory(tb) /\ mem[tb] \in SUBSET Versions /\ file \in [Tables -> SUBSET Versions]
  BY <1>0, <1>3 DEF Rows, Types
<1>5. Sound(mem[tb]) /\ Closed(mem[tb], open)
  BY <1>4 DEF Memory
<1>6. /\ \A i \in Nat : Reaches(mem[tb], open, i) => Reaches(F, {}, i)
      /\ \A i \in Nat : Reaches(file[tb], {}, i) => Reaches(F, {}, i)
  BY <1>0, <1>1, <1>4, <1>5, FileGains
<1>7. file'[tb] = F /\ \A t \in Tables : t # tb => file'[t] = file[t]
  BY <1>2, <1>4
<1> QED
  BY <1>2, <1>6, <1>7 DEF Gains

LEMMA ChangeGains ==
    ASSUME IInv, NEW s \in Sessions, NEW kind \in Kinds, NEW tb \in Tables, Change(s, kind, tb)
    PROVE  \A t \in Tables : Gains(t)
<1>0. Types
  BY DEF IInv
<1>1. /\ mode = "up" /\ file' = file
      /\ open' = (IF kind = "commit" THEN open \cup {next_id} ELSE open)
  BY DEF Change
<1>2. PICK v \in Live(mem[tb]) :
          mem' = [mem EXCEPT ![tb] = (@ \ {v}) \cup {[v EXCEPT !.xmax = next_id], [id |-> next_id, xmax |-> 0]}]
  BY DEF Change
<1>3. mem \in [Tables -> SUBSET Versions] /\ v \in Versions
  BY <1>0 DEF Types, Live
<1>4. \A t \in Tables : \A x \in mem[t] : \E y \in mem'[t] : y.id = x.id
  <2>1. \A x \in mem[tb] : \E y \in mem'[tb] : y.id = x.id
    <3> TAKE x \in mem[tb]
    <3>1. mem'[tb] = (mem[tb] \ {v}) \cup {[v EXCEPT !.xmax = next_id], [id |-> next_id, xmax |-> 0]}
      BY <1>2, <1>3
    <3>2. [v EXCEPT !.xmax = next_id].id = v.id
      BY <1>3 DEF Versions
    <3> QED
      BY <3>1, <3>2
  <2>2. \A t \in Tables : t # tb => mem'[t] = mem[t]
    BY <1>2, <1>3
  <2> QED
    BY <2>1, <2>2
<1>5. \A t \in Tables : \A x \in mem[t] : x.id \notin open => x.id \notin open'
  <2>1. \A t \in Tables : \A x \in mem[t] : x.id < next_id /\ x.id \in Nat /\ next_id \in Nat
    BY <1>1, ServingFacts
  <2> QED
    BY <1>1, <2>1
<1> QED
  BY <1>1, <1>4, <1>5 DEF Gains, Reaches

LEMMA RollbackGains ==
    ASSUME IInv, NEW s \in Sessions, Rollback(s)
    PROVE  \A t \in Tables : Gains(t)
<1>0. Types /\ Control
  BY DEF IInv
<1>a. PICK n, home : n = job[s].id /\ home = job[s].table
  OBVIOUS
<1>1. /\ mode = "up" /\ pc[s] \in {"open", "failed"} /\ open' = open \ {n} /\ file' = file
      /\ mem' = [mem EXCEPT ![home] =
                    {IF v.xmax = n THEN [v EXCEPT !.xmax = 0] ELSE v : v \in {v \in @ : v.id # n}}]
  BY <1>a DEF Rollback, TakesTable
<1>2. mem \in [Tables -> SUBSET Versions]
  BY <1>0 DEF Types
<1>3. home \in Tables /\ Placed(s) /\ job[s].kind \in {"auto", "commit"}
  BY <1>0, <1>1, <1>a, JobIs
<1>4. n \in open
  <2>1. InOpen(s)
    BY <1>1, <1>3 DEF Placed, InOpen, InCall
  <2> QED
    BY <1>0, <1>a, <2>1 DEF Control
<1>5. \A t \in Tables : \A x \in mem[t] : x.id \notin open => \E y \in mem'[t] : y.id = x.id
  <2>1. \A x \in mem[home] : x.id \notin open => \E y \in mem'[home] : y.id = x.id
    <3> TAKE x \in mem[home]
    <3> HAVE x.id \notin open
    <3>1. x.id # n /\ x \in Versions
      BY <1>2, <1>3, <1>4
    <3>2. (IF x.xmax = n THEN [x EXCEPT !.xmax = 0] ELSE x) \in mem'[home]
      BY <1>1, <1>2, <1>3, <3>1
    <3>3. (IF x.xmax = n THEN [x EXCEPT !.xmax = 0] ELSE x).id = x.id
      BY <3>1 DEF Versions
    <3> QED
      BY <3>2, <3>3
  <2>2. \A t \in Tables : t # home => mem'[t] = mem[t]
    BY <1>1, <1>2
  <2> QED
    BY <2>1, <2>2
<1> QED
  BY <1>1, <1>5 DEF Gains, Reaches

\* No step of a session loses anything.
LEMMA SessionGains ==
    ASSUME IInv, NEW s \in Sessions, Session(s)
    PROVE  \A t \in Tables : Gains(t)
<1>1. ASSUME \/ Commit(s) \/ Reply(s) \/ NothingToLog(s) \/ WriteBatch(s) \/ WriteBatchFails(s)
             \/ SyncReturns(s) \/ SyncStart(s) \/ SyncEnd(s) \/ SyncFailed(s) \/ redo_mark_flushed(s)
      PROVE  \A t \in Tables : Gains(t)
  BY <1>1, SessionKeeps DEF Gains
<1>2. CASE Finish(s)
  BY <1>2 DEF Finish, Gains, Reaches
<1> QED
  BY <1>1, <1>2, ChangeGains, RollbackGains, VacuumGains DEF Session

LEMMA PositionsSame ==
    ASSUME Types, Control, Positions, UNCHANGED <<log, stable, fp, appended, synced, syncing, seq>>, Serving,
           \A u \in Sessions : pc'[u] \in {"appended", "marked"} => pc'[u] = pc[u] /\ job'[u] = job[u],
           \A u \in Sessions : job'[u].logged <=> IsLogged(u)'
    PROVE  Positions'
BY DEF Positions, Offset, Batch

\* The numbers that append_batch hands out are places in the log; what is synced is stable.
LEMMA SessionPositions ==
    ASSUME IInv, Positions, NEW s \in Sessions, Session(s), ~failed'
    PROVE  Positions'
<1>0. Types /\ Control /\ Logged
  BY DEF IInv
<1>1. /\ pc \in [Sessions -> Steps] /\ job \in [Sessions -> Jobs] /\ seq \in [Sessions -> Nat]
      /\ log \in Seq(Entries) /\ appended \in Nat /\ synced \in Nat /\ stable \in 0 .. Len(log) /\ Len(log) \in Nat
  BY <1>0 DEF Types
<1>2. /\ job[s] \in Jobs /\ Placed(s) /\ job[s].logged \in BOOLEAN /\ job[s].committing \in BOOLEAN
      /\ pc[s] # "idle" => job[s].kind \in {"auto", "commit"} /\ job[s].table \in Tables
      /\ pc[s] # "idle" => job[s].id \in 1 .. MaxId /\ job[s].ended \in 0 .. MaxId
  BY <1>0, JobIs
<1>3. \A u \in Sessions : job[u].logged <=> IsLogged(u)
  BY DEF Positions
<1>4. ASSUME \A u \in Sessions : u # s => pc'[u] = pc[u] /\ job'[u] = job[u],
             job'[s].logged <=> IsLogged(s)'
      PROVE  \A u \in Sessions : job'[u].logged <=> IsLogged(u)'
  <2> TAKE u \in Sessions
  <2>1. CASE u = s
    BY <1>4, <2>1
  <2>2. CASE u # s
    BY <1>3, <1>4, <2>2 DEF IsLogged
  <2> QED
    BY <2>1, <2>2
<1>5. ASSUME UNCHANGED <<log, stable, fp, appended, synced, syncing, seq>>, mode = "up",
             \A u \in Sessions : u # s => pc'[u] = pc[u] /\ job'[u] = job[u],
             pc'[s] \notin {"appended", "marked"}, job'[s].logged <=> IsLogged(s)'
      PROVE  Positions'
  <2>1. \A u \in Sessions : pc'[u] \in {"appended", "marked"} => pc'[u] = pc[u] /\ job'[u] = job[u]
    BY <1>5
  <2> QED
    BY <1>0, <1>4, <1>5, <2>1, PositionsSame DEF Serving
<1>6. ASSUME NEW kind \in Kinds, NEW tb \in Tables, Change(s, kind, tb) PROVE Positions'
  <2>1. PICK v \in Live(mem[tb]) :
          job' = [job EXCEPT ![s] = [NoJob EXCEPT !.kind = kind, !.table = tb, !.id = next_id, !.ended = v.id]]
    BY <1>6 DEF Change
  <2>2. /\ UNCHANGED <<log, stable, fp, appended, synced, syncing, seq>> /\ mode = "up"
        /\ pc' = [pc EXCEPT ![s] = IF kind = "commit" THEN "open" ELSE "changed"]
    BY <1>6 DEF Change, logVars
  <2>3. /\ pc'[s] \in {"open", "changed"} /\ ~job'[s].logged
        /\ \A u \in Sessions : u # s => pc'[u] = pc[u] /\ job'[u] = job[u]
    BY <1>1, <2>1, <2>2 DEF NoJob
  <2> QED
    BY <1>5, <2>2, <2>3 DEF IsLogged
<1>7. CASE Commit(s)
  <2>1. /\ UNCHANGED <<log, stable, fp, appended, synced, syncing, seq>> /\ mode = "up"
        /\ pc[s] \in {"open", "failed"} /\ pc' = [pc EXCEPT ![s] = "changed"] /\ job' = [job EXCEPT ![s].committing = TRUE]
    BY <1>7 DEF Commit, TakesTable, logVars
  <2>2. /\ pc'[s] = "changed" /\ job'[s] = [job[s] EXCEPT !.committing = TRUE]
        /\ \A u \in Sessions : u # s => pc'[u] = pc[u] /\ job'[u] = job[u]
    BY <1>1, <2>1
  <2>3. job'[s].logged = job[s].logged
    BY <1>2, <2>2 DEF Jobs
  <2> QED
    BY <1>3, <1>5, <2>1, <2>2, <2>3 DEF IsLogged
<1>8. CASE Rollback(s) \/ Reply(s)
  <2>1. /\ UNCHANGED <<log, stable, fp, appended, synced, syncing, seq>> /\ mode = "up"
        /\ pc' = [pc EXCEPT ![s] = "idle"] /\ job' = [job EXCEPT ![s] = NoJob]
    BY <1>8 DEF Rollback, TakesTable, Reply, logVars
  <2>2. /\ pc'[s] = "idle" /\ ~job'[s].logged
        /\ \A u \in Sessions : u # s => pc'[u] = pc[u] /\ job'[u] = job[u]
    BY <1>1, <2>1 DEF NoJob
  <2> QED
    BY <1>5, <2>1, <2>2 DEF IsLogged
<1>9. CASE Finish(s)
  <2>1. /\ UNCHANGED <<log, stable, fp, appended, synced, syncing, seq, job>> /\ mode = "up" /\ pc[s] = "durable"
        /\ pc' = [pc EXCEPT ![s] = "finished"]
    BY <1>9 DEF Finish, logVars
  <2> QED
    BY <1>1, <1>3, <1>5, <2>1 DEF IsLogged
<1>10. ~NothingToLog(s)
  BY <1>3 DEF NothingToLog, IsLogged
<1>11. ~WriteBatchFails(s) /\ ~SyncFailed(s)
  BY DEF WriteBatchFails, SyncFailed
<1>12. ASSUME NEW e \in Entries, log' = Append(log, e), fp' = TRUE, appended' = appended + 1, mode = "up",
              seq' = [seq EXCEPT ![s] = appended + 1], UNCHANGED <<stable, synced, syncing>>,
              \A u \in Sessions : u # s => pc'[u] = pc[u] /\ job'[u] = job[u],
              e.kind # "torn", pc[s] \notin {"appended", "marked"},
              \/ pc'[s] = "appended" /\ e = Batch(job'[s])
              \/ pc'[s] = "marked",
              job'[s].logged <=> IsLogged(s)'
       PROVE  Positions'
  <2>1. /\ Len(log') = Len(log) + 1 /\ log'[Len(log) + 1] = e /\ \A i \in 1 .. Len(log) : log'[i] = log[i]
    BY <1>0, <1>12, Appends
  <2>2. PICK o \in Int : o = Offset
    <3>1. Offset \in Int
      BY <1>1 DEF Offset
    <3> QED
      BY <3>1
  <2>3. Offset' = o
    BY <1>1, <1>12, <2>1, <2>2 DEF Offset
  <2>4. /\ seq'[s] = appended + 1 /\ \A u \in Sessions : u # s => seq'[u] = seq[u]
    BY <1>1, <1>12
  <2>5. appended = o + Len(log)
    BY <1>1, <2>2 DEF Offset
  <2>6. seq'[s] - o = Len(log) + 1
    BY <1>1, <2>4, <2>5
  <2>7. \A i \in 1 .. Len(log') : log'[i].kind # "torn"
    BY <1>1, <1>12, <2>1 DEF Positions
  <2>8. /\ o >= 0 /\ synced - o <= stable
        /\ syncing # NoSync => syncing.target - o = syncing.covers /\ seq[syncing.session] <= syncing.target
        /\ \A u \in Sessions : pc[u] = "appended" => seq[u] - o \in 1 .. Len(log) /\ log[seq[u] - o] = Batch(job[u])
        /\ \A u \in Sessions : pc[u] = "marked" => seq[u] - o \in 1 .. Len(log)
    BY <1>12, <2>2 DEF Positions, Serving
  <2>9. syncing # NoSync => seq'[syncing.session] <= syncing.target
    <3> HAVE syncing # NoSync
    <3>1. syncing.session \in Sessions /\ pc[syncing.session] \in {"appended", "marked"}
      BY <1>0 DEF Control, Sync
    <3> QED
      BY <1>12, <2>4, <2>8, <3>1
  <2>10. ASSUME NEW u \in Sessions, pc'[u] \in {"appended", "marked"}
         PROVE  /\ seq'[u] - o \in 1 .. Len(log')
                /\ pc'[u] = "appended" => log'[seq'[u] - o] = Batch(job'[u])
    <3>1. CASE u = s
      BY <1>1, <1>12, <2>1, <2>6, <2>10, <3>1
    <3>2. CASE u # s
      <4>1. seq[u] - o \in 1 .. Len(log) /\ seq'[u] = seq[u] /\ pc'[u] = pc[u] /\ job'[u] = job[u]
        BY <1>12, <2>4, <2>8, <2>10, <3>2
      <4>2. pc'[u] = "appended" => log[seq[u] - o] = Batch(job[u])
        BY <2>8, <4>1
      <4>3. seq[u] - o \in 1 .. Len(log')
        BY <1>1, <2>1, <4>1
      <4> QED
        BY <2>1, <4>1, <4>2, <4>3
    <3> QED
      BY <3>1, <3>2
  <2>11. \A u \in Sessions : job'[u].logged <=> IsLogged(u)'
    BY <1>4, <1>12
  <2> QED
    <3>1. \A u \in Sessions : pc'[u] = "appended" => seq'[u] - o \in 1 .. Len(log') /\ log'[seq'[u] - o] = Batch(job'[u])
      BY <2>10
    <3>2. \A u \in Sessions : pc'[u] = "marked" => seq'[u] - o \in 1 .. Len(log')
      BY <2>10
    <3> QED
      BY <1>12, <2>3, <2>7, <2>8, <2>9, <2>11, <3>1, <3>2 DEF Positions, Batch
<1>13. CASE WriteBatch(s)
  <2>1. /\ mode = "up" /\ pc[s] = "changed" /\ log' = Append(log, Batch(job[s])) /\ fp' = TRUE /\ appended' = appended + 1
        /\ seq' = [seq EXCEPT ![s] = appended + 1] /\ UNCHANGED <<stable, synced, syncing>>
        /\ pc' = [pc EXCEPT ![s] = "appended"] /\ job' = [job EXCEPT ![s].logged = TRUE]
    BY <1>13 DEF WriteBatch, append_batch
  <2>2. /\ pc'[s] = "appended" /\ job'[s] = [job[s] EXCEPT !.logged = TRUE]
        /\ \A u \in Sessions : u # s => pc'[u] = pc[u] /\ job'[u] = job[u]
    BY <1>1, <2>1
  <2>3. Batch(job'[s]) = Batch(job[s]) /\ job'[s].logged
    BY <1>2, <2>2 DEF Batch, Jobs
  <2>4. Batch(job[s]) \in Entries /\ Batch(job[s]).kind # "torn"
    BY <1>2, <2>1, BoundsAssumption DEF Batch, Entries, Ids
  <2> QED
    BY <1>12, <2>1, <2>2, <2>3, <2>4 DEF IsLogged
<1>14. CASE redo_mark_flushed(s)
  <2>1. /\ mode = "up" /\ pc[s] = "vacuumed" /\ log' = Append(log, Flushed(job[s].table)) /\ fp' = TRUE
        /\ appended' = appended + 1 /\ seq' = [seq EXCEPT ![s] = appended + 1] /\ UNCHANGED <<stable, synced, syncing, job>>
        /\ pc' = [pc EXCEPT ![s] = "marked"]
    BY <1>14 DEF redo_mark_flushed, append_batch
  <2>2. Flushed(job[s].table) \in Entries /\ Flushed(job[s].table).kind # "torn"
    BY <1>2, <2>1, BoundsAssumption DEF Flushed, Entries, Ids
  <2>3. job'[s].logged <=> IsLogged(s)'
    BY <1>1, <1>3, <2>1 DEF IsLogged
  <2> QED
    BY <1>1, <1>12, <2>1, <2>2, <2>3
<1>15. ASSUME pc[s] \in {"appended", "marked"}, pc' = [pc EXCEPT ![s] = Synced(s)], job' = job
       PROVE  /\ pc'[s] \notin {"appended", "marked"} /\ (job'[s].logged <=> IsLogged(s)')
              /\ \A u \in Sessions : u # s => pc'[u] = pc[u] /\ job'[u] = job[u]
  BY <1>1, <1>2, <1>3, <1>15 DEF Synced, IsLogged, Placed
<1>16. CASE SyncReturns(s)
  BY <1>5, <1>15, <1>16 DEF SyncReturns, Waits, logVars
<1>17. CASE SyncStart(s)
  <2>1. /\ mode = "up" /\ pc[s] \in {"appended", "marked"}
        /\ syncing' = [session |-> s, target |-> appended, covers |-> Len(log)]
        /\ UNCHANGED <<mode, log, stable, fp, appended, synced, pc, job, seq>>
    BY <1>17 DEF SyncStart, Waits, sessVars
  <2>2. seq[s] - Offset \in 1 .. Len(log)
    BY <2>1 DEF Positions, Serving
  <2>3. seq[s] <= appended /\ appended - Offset = Len(log)
    BY <1>1, <2>2 DEF Offset
  <2>4. Offset' = Offset
    BY <2>1 DEF Offset
  <2> QED
    BY <1>3, <2>1, <2>3, <2>4 DEF Positions, Serving, IsLogged, Batch
<1>18. CASE SyncEnd(s)
  <2>1. syncing # NoSync
    BY <1>18, NamesAssumption DEF SyncEnd, NoSync
  <2>2. mode = "up" /\ pc[s] \in {"appended", "marked"} /\ syncing.covers \in 0 .. Len(log) /\ syncing.target \in Nat
    BY <1>0, <1>18, <2>1 DEF Control, Sync, SyncEnd
  <2>3. /\ stable' = Max({stable, syncing.covers}) /\ synced' = syncing.target /\ syncing' = NoSync
        /\ pc' = [pc EXCEPT ![s] = Synced(s)] /\ UNCHANGED <<mode, log, fp, appended, job, seq>>
    BY <1>18 DEF SyncEnd
  <2>4. stable' >= syncing.covers
    <3>1. stable \in Nat /\ syncing.covers \in Nat
      BY <1>1, <2>2
    <3>2. Max({stable, syncing.covers}) = IF stable >= syncing.covers THEN stable ELSE syncing.covers
      BY <3>1, MaxOfTwo
    <3> QED
      BY <2>3, <3>1, <3>2
  <2>5. syncing.target - Offset = syncing.covers
    BY <2>1, <2>2 DEF Positions, Serving
  <2>6. Offset' = Offset
    BY <2>3 DEF Offset
  <2>7. synced' - Offset' <= stable'
    BY <2>3, <2>4, <2>5, <2>6
  <2>8. /\ pc'[s] \notin {"appended", "marked"} /\ (job'[s].logged <=> IsLogged(s)')
        /\ \A u \in Sessions : u # s => pc'[u] = pc[u] /\ job'[u] = job[u]
    BY <1>15, <2>2, <2>3
  <2>9. \A u \in Sessions : job'[u].logged <=> IsLogged(u)'
    BY <1>4, <2>8
  <2>10. \A u \in Sessions : pc'[u] \in {"appended", "marked"} => pc'[u] = pc[u] /\ job'[u] = job[u]
    BY <2>8
  <2> QED
    BY <2>2, <2>3, <2>6, <2>7, <2>9, <2>10 DEF Positions, Serving, Batch
<1>19. CASE Vacuum(s)
  <2>1. /\ mode = "up" /\ UNCHANGED <<log, stable, fp, appended, synced, syncing, seq, job>>
        /\ \/ job[s].kind = "auto" /\ pc[s] = "changed"
           \/ job[s].kind = "commit" /\ pc[s] \in {"open", "finished"}
        /\ pc' \in {pc, [pc EXCEPT ![s] = "vacuumed"]}
    BY <1>19 DEF Vacuum, logVars
  <2>2. job'[s].logged <=> IsLogged(s)'
    BY <1>1, <1>2, <1>3, <2>1 DEF IsLogged, Placed
  <2> QED
    BY <1>1, <1>5, <2>1, <2>2
<1> QED
  BY <1>6, <1>7, <1>8, <1>9, <1>10, <1>11, <1>13, <1>14, <1>16, <1>17, <1>18, <1>19 DEF Session

LEMMA SystemPositions ==
    ASSUME IInv, Positions,
           Checkpoint \/ CheckpointDone \/ (\E tb \in Tables : FlushTable(tb)) \/ Crash \/ Recover \/ RecoverDone
    PROVE  Positions'
<1>0. Types /\ Control
  BY DEF IInv
<1>1. log \in Seq(Entries) /\ appended \in Nat /\ synced \in Nat /\ stable \in 0 .. Len(log)
  BY <1>0 DEF Types
<1>2. ASSUME UNCHANGED <<log, stable, fp, appended, synced, syncing, seq, pc, job>>, Serving' => Serving
      PROVE  Positions'
  BY <1>2 DEF Positions, Offset, IsLogged, Batch
<1>3. CASE Checkpoint
  BY <1>2, <1>3 DEF Checkpoint, logVars, sessVars, Serving
<1>4. ASSUME NEW tb \in Tables, FlushTable(tb) PROVE Positions'
  BY <1>2, <1>4 DEF FlushTable, logVars, sessVars, Serving
<1>5. CASE Recover
  BY <1>2, <1>5 DEF Recover, logVars, sessVars, Serving
<1>6. CASE CheckpointDone \/ RecoverDone
  <2>1. /\ mode # "up" /\ log' = <<>> /\ stable' = 0 /\ fp' = FALSE /\ synced' = appended
        /\ UNCHANGED <<appended, syncing, pc, job, seq>>
    BY <1>6 DEF CheckpointDone, RecoverDone, clear, sessVars
  <2>2. syncing = NoSync /\ \A u \in Sessions : pc[u] \notin InCall
    BY <1>0, <2>1 DEF Control, Sync, Placed
  <2>3. Offset' = appended /\ synced' - Offset' <= stable' /\ Offset' >= 0
    BY <1>1, <2>1 DEF Offset
  <2>4. \A u \in Sessions : pc'[u] \notin {"appended", "marked"}
    BY <2>1, <2>2 DEF InCall
  <2>5. \A u \in Sessions : job'[u].logged <=> IsLogged(u)'
    BY <2>1 DEF Positions, IsLogged
  <2> QED
    BY <2>1, <2>2, <2>3, <2>4, <2>5 DEF Positions
<1>7. CASE Crash
  <2>1. PICK k \in stable .. Len(log) : log' = SubSeq(log, 1, k)
    BY <1>7 DEF Crash
  <2>2. k \in 0 .. Len(log)
    BY <1>1, <2>1
  <2>3. Begins(log', log)
    BY <1>1, <2>1, <2>2, PrefixBegins
  <2>4. \A i \in 1 .. Len(log') : log'[i].kind # "torn"
    BY <1>1, <2>3 DEF Begins, Positions
  <2>5. mode' = "down" /\ \A u \in Sessions : pc'[u] = "idle" /\ job'[u] = NoJob
    BY <1>7 DEF Crash
  <2>6. \A u \in Sessions : job'[u].logged <=> IsLogged(u)'
    BY <2>5 DEF IsLogged, NoJob
  <2> QED
    BY <2>4, <2>5, <2>6 DEF Positions, Serving
<1> QED
  BY <1>3, <1>4, <1>5, <1>6, <1>7

\* The places of the batches of a table hold ids of changes.
LEMMA AtIs ==
    ASSUME Types, Logged, NEW tb \in Tables, NEW i \in At(tb)
    PROVE  /\ i \in 1 .. Len(log) /\ i \in Nat /\ log[i].id \in Nat /\ log[i].id # 0 /\ log[i].ended \in Nat
           /\ log[i].ended < log[i].id /\ log[i].kind = "batch" /\ log[i] # Flushed(tb)
<1>1. i \in 1 .. Len(log) /\ log[i].kind = "batch" /\ log \in Seq(Entries)
  BY DEF At, Types
<1>2. Entry(log[i]) /\ log[i] \in Entries
  BY <1>1 DEF Logged
<1>3. log[i].ended \in Nat
  BY <1>2, BoundsAssumption DEF Entries, Ids
<1>4. Flushed(tb).kind = "flushed"
  BY DEF Flushed
<1> QED
  BY <1>1, <1>2, <1>3, <1>4, BoundsAssumption DEF Entry

\* What the batches of a table stay behind, after a step that leaves the log alone.
LEMMA CoveredSame ==
    ASSUME IInv, LogOk, NEW tb \in Tables, Gains(tb), log' = log, mode = "up", mode' = "up", redo_dirty \subseteq redo_dirty',
           \A u \in Sessions : InOpen(u) /\ job[u].logged =>
              \/ InOpen(u)' /\ job'[u].logged /\ job'[u].id = job[u].id /\ job'[u].table = job[u].table
              \/ Reaches(mem'[job[u].table], open', job[u].id),
           \A u \in Sessions : pc'[u] = "vacuumed" /\ job'[u].table = tb =>
              /\ \A i \in At(tb) : Reaches(file'[tb], {}, log[i].id)
              /\ \A w \in Sessions : job'[w].kind = "auto" /\ job'[w].table = tb => Reaches(file'[tb], {}, job'[w].id)
    PROVE  Covered(tb)'
<1>0. Types /\ Control /\ Logged /\ Covered(tb)
  BY DEF IInv, LogOk
<1>1. At(tb)' = At(tb)
  BY DEF At
<1>2. \A i \in At(tb) : log[i].id \in Nat
  BY <1>0, AtIs
<1>3. \A i \in At(tb) : Serving' =>
          /\ tb \in redo_dirty'
          /\ \/ Reaches(mem'[tb], open', log[i].id)
             \/ \E s \in Sessions : InOpen(s)' /\ job'[s].logged /\ job'[s].id = log[i].id /\ job'[s].table = tb
  <2> TAKE i \in At(tb)
  <2>1. /\ tb \in redo_dirty
        /\ \/ Reaches(mem[tb], open, log[i].id)
           \/ \E s \in Sessions : InOpen(s) /\ job[s].logged /\ job[s].id = log[i].id /\ job[s].table = tb
    BY <1>0 DEF Covered, Serving
  <2>2. Reaches(mem[tb], open, log[i].id) => Reaches(mem'[tb], open', log[i].id)
    BY <1>2 DEF Gains
  <2> QED
    BY <2>1, <2>2
<1>4. \A i \in At(tb), k \in 1 .. Len(log) : i < k /\ log[k] = Flushed(tb) => Reaches(file'[tb], {}, log[i].id)
  BY <1>0, <1>2 DEF Covered, Gains
<1> QED
  BY <1>1, <1>3, <1>4 DEF Covered, Flushed, Reaches

LEMMA SessionCovered ==
    ASSUME IInv, IInv', LogOk, NEW s \in Sessions, Session(s), ~failed', NEW tb \in Tables
    PROVE  Covered(tb)'
<1>0. Types /\ Control /\ Logged /\ Covered(tb) /\ Positions /\ Rows
  BY DEF IInv, LogOk
<1>1. /\ pc \in [Sessions -> Steps] /\ job \in [Sessions -> Jobs]
      /\ log \in Seq(Entries) /\ Len(log) \in Nat
  BY <1>0 DEF Types
<1>2. /\ job[s] \in Jobs /\ Placed(s) /\ job[s].logged \in BOOLEAN /\ job[s].committing \in BOOLEAN
      /\ pc[s] # "idle" => job[s].kind \in {"auto", "commit"} /\ job[s].table \in Tables
      /\ pc[s] # "idle" => job[s].id \in 1 .. MaxId /\ job[s].ended \in 0 .. MaxId /\ job[s].id \in Nat
  BY <1>0, JobIs
<1>3. \A u \in Sessions : job[u].logged <=> IsLogged(u)
  BY <1>0 DEF Positions
<1>4. \A u \in Sessions : InOpen(u) /\ job[u].logged => pc[u] \in {"appended", "durable"} /\ job[u].committing /\ job[u].kind = "commit"
  BY <1>0, <1>3 DEF InOpen, IsLogged, Control, Placed
<1>5. Gains(tb)
  BY SessionGains
<1>6. \A u \in Sessions : pc[u] = "vacuumed" /\ job[u].table = tb =>
          /\ \A i \in At(tb) : Reaches(file[tb], {}, log[i].id)
          /\ \A w \in Sessions : job[w].kind = "auto" /\ job[w].table = tb => Reaches(file[tb], {}, job[w].id)
  BY <1>0 DEF Covered
<1>7. \A i \in At(tb) : log[i].id \in Nat
  BY <1>0, AtIs
<1>8. \A u \in Sessions : job[u].id \in Nat
  BY <1>0, JobIs
<1>9. ASSUME log' = log, mode = "up", mode' = "up", redo_dirty' = redo_dirty,
             \A u \in Sessions : u # s => pc'[u] = pc[u] /\ job'[u] = job[u],
             pc'[s] # "vacuumed", job'[s].kind = "auto" => job[s].kind = "auto" /\ job'[s].id = job[s].id /\ job'[s].table = job[s].table,
             InOpen(s) /\ job[s].logged =>
                \/ InOpen(s)' /\ job'[s].logged /\ job'[s].id = job[s].id /\ job'[s].table = job[s].table
                \/ Reaches(mem'[job[s].table], open', job[s].id)
      PROVE  Covered(tb)'
  <2>1. \A u \in Sessions : InOpen(u) /\ job[u].logged =>
              \/ InOpen(u)' /\ job'[u].logged /\ job'[u].id = job[u].id /\ job'[u].table = job[u].table
              \/ Reaches(mem'[job[u].table], open', job[u].id)
    BY <1>9 DEF InOpen
  <2>2. ASSUME NEW u \in Sessions, pc'[u] = "vacuumed", job'[u].table = tb
        PROVE  /\ \A i \in At(tb) : Reaches(file'[tb], {}, log[i].id)
               /\ \A w \in Sessions : job'[w].kind = "auto" /\ job'[w].table = tb => Reaches(file'[tb], {}, job'[w].id)
    <3>1. pc[u] = "vacuumed" /\ job[u].table = tb
      BY <1>9, <2>2
    <3>2. \A i \in At(tb) : Reaches(file'[tb], {}, log[i].id)
      BY <1>5, <1>6, <1>7, <3>1 DEF Gains
    <3>3. \A w \in Sessions : job[w].kind = "auto" /\ job[w].table = tb => Reaches(file'[tb], {}, job[w].id)
      BY <1>5, <1>6, <1>8, <3>1 DEF Gains
    <3> QED
      BY <1>9, <3>2, <3>3
  <2> QED
    BY <1>5, <1>9, <2>1, <2>2, CoveredSame
<1>10. ASSUME NEW kind \in Kinds, NEW t \in Tables, Change(s, kind, t) PROVE Covered(tb)'
  <2>1. PICK v \in Live(mem[t]) :
          job' = [job EXCEPT ![s] = [NoJob EXCEPT !.kind = kind, !.table = t, !.id = next_id, !.ended = v.id]]
    BY <1>10 DEF Change
  <2>2. /\ UNCHANGED <<log, redo_dirty>> /\ mode = "up" /\ mode' = "up" /\ pc[s] = "idle"
        /\ pc' = [pc EXCEPT ![s] = IF kind = "commit" THEN "open" ELSE "changed"]
        /\ \A u \in Sessions : ~Flushing(u, t)
    BY <1>10 DEF Change, logVars
  <2>3. /\ pc'[s] \in {"open", "changed"} /\ job'[s].table = t
        /\ \A u \in Sessions : u # s => pc'[u] = pc[u] /\ job'[u] = job[u]
    BY <1>1, <2>1, <2>2 DEF NoJob
  <2>4. ~InOpen(s)
    BY <2>2 DEF InOpen
  <2>5. \A u \in Sessions : InOpen(u) /\ job[u].logged =>
              InOpen(u)' /\ job'[u].logged /\ job'[u].id = job[u].id /\ job'[u].table = job[u].table
    BY <2>3, <2>4 DEF InOpen
  <2>6. ASSUME NEW u \in Sessions, pc'[u] = "vacuumed", job'[u].table = tb
        PROVE  /\ \A i \in At(tb) : Reaches(file'[tb], {}, log[i].id)
               /\ \A w \in Sessions : job'[w].kind = "auto" /\ job'[w].table = tb => Reaches(file'[tb], {}, job'[w].id)
    <3>1. pc[u] = "vacuumed" /\ job[u].table = tb
      BY <2>3, <2>6
    <3>2. t # tb
      BY <2>2, <3>1 DEF Flushing
    <3>3. \A i \in At(tb) : Reaches(file'[tb], {}, log[i].id)
      BY <1>5, <1>6, <1>7, <3>1 DEF Gains
    <3>4. \A w \in Sessions : job[w].kind = "auto" /\ job[w].table = tb => Reaches(file'[tb], {}, job[w].id)
      BY <1>5, <1>6, <1>8, <3>1 DEF Gains
    <3> QED
      BY <2>3, <3>2, <3>3, <3>4
  <2> QED
    BY <1>5, <2>2, <2>5, <2>6, CoveredSame
<1>11. CASE Commit(s)
  <2>1. /\ UNCHANGED <<log, redo_dirty>> /\ mode = "up" /\ mode' = "up" /\ pc[s] \in {"open", "failed"}
        /\ pc' = [pc EXCEPT ![s] = "changed"] /\ job' = [job EXCEPT ![s].committing = TRUE]
    BY <1>11 DEF Commit, TakesTable, logVars
  <2>2. /\ pc'[s] = "changed" /\ job'[s] = [job[s] EXCEPT !.committing = TRUE]
        /\ \A u \in Sessions : u # s => pc'[u] = pc[u] /\ job'[u] = job[u]
    BY <1>1, <2>1
  <2>3. job'[s].kind = job[s].kind /\ job'[s].id = job[s].id /\ job'[s].table = job[s].table
    BY <1>2, <2>2 DEF Jobs
  <2>4. ~(InOpen(s) /\ job[s].logged)
    BY <1>4, <2>1
  <2> QED
    BY <1>9, <2>1, <2>2, <2>3, <2>4
<1>12. CASE Rollback(s) \/ Reply(s)
  <2>1. /\ UNCHANGED <<log, redo_dirty>> /\ mode = "up" /\ mode' = "up" /\ pc[s] \in {"open", "failed", "finished"}
        /\ pc' = [pc EXCEPT ![s] = "idle"] /\ job' = [job EXCEPT ![s] = NoJob]
    BY <1>12 DEF Rollback, TakesTable, Reply, logVars
  <2>2. /\ pc'[s] = "idle" /\ job'[s].kind = "none"
        /\ \A u \in Sessions : u # s => pc'[u] = pc[u] /\ job'[u] = job[u]
    BY <1>1, <2>1 DEF NoJob
  <2>3. ~(InOpen(s) /\ job[s].logged)
    BY <1>4, <2>1
  <2> QED
    BY <1>9, <2>1, <2>2, <2>3
<1>13. CASE Finish(s)
  <2>1. /\ UNCHANGED <<log, redo_dirty, job>> /\ mode = "up" /\ mode' = "up" /\ pc[s] = "durable"
        /\ pc' = [pc EXCEPT ![s] = "finished"]
    BY <1>13 DEF Finish, logVars
  <2>2. /\ pc'[s] = "finished" /\ ~InOpen(s)' /\ job[s].table \in Tables
        /\ \A u \in Sessions : u # s => pc'[u] = pc[u] /\ job'[u] = job[u]
    BY <1>1, <1>2, <2>1 DEF InOpen
  <2>3. PICK t \in Tables : t = job[s].table
    BY <2>2
  <2>4. Memory(t)'
    BY <2>1 DEF IInv, Rows
  <2>5. Reaches(mem'[job[s].table], open', job[s].id)
    BY <2>1, <2>2, <2>3, <2>4 DEF Memory, Serving, Reaches
  <2> QED
    BY <1>9, <2>1, <2>2, <2>5
<1>14. ~NothingToLog(s) /\ ~WriteBatchFails(s) /\ ~SyncFailed(s)
  BY <1>3 DEF NothingToLog, IsLogged, WriteBatchFails, SyncFailed
<1>15. ASSUME pc[s] \in {"appended", "marked"}, pc' = [pc EXCEPT ![s] = Synced(s)], job' = job, UNCHANGED <<log, redo_dirty>>,
              mode = "up", mode' = "up"
       PROVE  Covered(tb)'
  <2>1. /\ \A u \in Sessions : u # s => pc'[u] = pc[u] /\ job'[u] = job[u]
        /\ pc'[s] # "vacuumed" /\ (InOpen(s) /\ job[s].logged => InOpen(s)')
    BY <1>1, <1>4, <1>15 DEF Synced, InOpen
  <2> QED
    BY <1>9, <1>15, <2>1
<1>16. CASE SyncReturns(s)
  BY <1>15, <1>16 DEF SyncReturns, Waits, logVars
<1>17. CASE SyncStart(s)
  <2>1. UNCHANGED <<log, redo_dirty, pc, job>> /\ mode = "up" /\ mode' = "up" /\ pc[s] # "vacuumed"
    BY <1>17 DEF SyncStart, Waits, sessVars
  <2> QED
    BY <1>9, <2>1 DEF InOpen
<1>18. CASE SyncEnd(s)
  <2>1. mode = "up" /\ pc[s] \in {"appended", "marked"}
    BY <1>0, <1>18, NamesAssumption DEF Control, Sync, SyncEnd, NoSync
  <2> QED
    BY <1>15, <1>18, <2>1 DEF SyncEnd
<1>19. CASE Vacuum(s)
  <2>1. /\ UNCHANGED <<log, redo_dirty, job, open>> /\ mode = "up" /\ mode' = "up"
        /\ \/ job[s].kind = "auto" /\ pc[s] = "changed"
           \/ job[s].kind = "commit" /\ pc[s] \in {"open", "finished"}
        /\ pc' \in {pc, [pc EXCEPT ![s] = "vacuumed"]}
        /\ \A u \in Sessions \ {s} : ~Exclusive(u, job[s].table) /\ ~Flushing(u, job[s].table)
    BY <1>19 DEF Vacuum, logVars
  <2>2. \A u \in Sessions : u # s => pc'[u] = pc[u]
    BY <1>1, <2>1
  <2>3. ~(InOpen(s) /\ job[s].logged)
    BY <1>4, <2>1
  <2>4. \A u \in Sessions : InOpen(u) /\ job[u].logged =>
              InOpen(u)' /\ job'[u].logged /\ job'[u].id = job[u].id /\ job'[u].table = job[u].table
    BY <2>1, <2>2, <2>3 DEF InOpen
  <2>5. ASSUME NEW u \in Sessions, pc'[u] = "vacuumed", job'[u].table = tb
        PROVE  /\ \A i \in At(tb) : Reaches(file'[tb], {}, log[i].id)
               /\ \A w \in Sessions : job'[w].kind = "auto" /\ job'[w].table = tb => Reaches(file'[tb], {}, job'[w].id)
    <3>1. CASE u # s
      <4>1. pc[u] = "vacuumed" /\ job[u].table = tb
        BY <2>1, <2>2, <2>5, <3>1
      <4>2. \A i \in At(tb) : Reaches(file'[tb], {}, log[i].id)
        BY <1>5, <1>6, <1>7, <4>1 DEF Gains
      <4>3. \A w \in Sessions : job[w].kind = "auto" /\ job[w].table = tb => Reaches(file'[tb], {}, job[w].id)
        BY <1>5, <1>6, <1>8, <4>1 DEF Gains
      <4> QED
        BY <2>1, <4>2, <4>3
    <3>2. CASE u = s
      <4>1. job[s].table = tb
        BY <2>1, <2>5, <3>2
      <4>2. \A i \in Nat : Reaches(mem[tb], open, i) => Reaches(file'[tb], {}, i)
        BY <1>19, <4>1, VacuumGains
      <4>3. ASSUME NEW w \in Sessions, InOpen(w), job[w].logged, job[w].table = tb PROVE FALSE
        <5>1. pc[w] \in {"appended", "durable"} /\ job[w].committing /\ job[w].kind = "commit"
          BY <1>4, <4>3
        <5>2. w # s
          BY <2>3, <4>3
        <5>3. Exclusive(w, tb)
          BY <4>3, <5>1 DEF Exclusive, Busy, InCall
        <5> QED
          BY <2>1, <4>1, <5>2, <5>3
      <4>4. \A i \in At(tb) : Reaches(mem[tb], open, log[i].id)
        BY <1>0, <2>1, <4>3 DEF Covered, Serving
      <4>5. \A w \in Sessions : job[w].kind = "auto" /\ job[w].table = tb => Reaches(mem[tb], open, job[w].id)
        <5> TAKE w \in Sessions
        <5> HAVE job[w].kind = "auto" /\ job[w].table = tb
        <5>1. pc[w] # "idle" /\ ~InOpen(w)
          BY <1>0 DEF Control, Placed, InOpen, InCall
        <5>2. Memory(tb)
          BY <1>0, <2>1 DEF Rows
        <5> QED
          BY <2>1, <5>1, <5>2 DEF Memory, Serving
      <4> QED
        BY <1>7, <1>8, <2>1, <4>2, <4>4, <4>5
    <3> QED
      BY <3>1, <3>2
  <2> QED
    BY <1>5, <2>1, <2>4, <2>5, CoveredSame
<1>20. CASE WriteBatch(s)
  <2>1. /\ mode = "up" /\ mode' = "up" /\ pc[s] = "changed" /\ log' = Append(log, Batch(job[s])) /\ redo_dirty' = redo_dirty \cup {job[s].table}
        /\ pc' = [pc EXCEPT ![s] = "appended"] /\ job' = [job EXCEPT ![s].logged = TRUE] /\ UNCHANGED <<mem, file, open>>
    BY <1>20 DEF WriteBatch, append_batch
  <2>2. /\ pc'[s] = "appended" /\ job'[s] = [job[s] EXCEPT !.logged = TRUE]
        /\ \A u \in Sessions : u # s => pc'[u] = pc[u] /\ job'[u] = job[u]
    BY <1>1, <2>1
  <2>3. job'[s].logged /\ job'[s].kind = job[s].kind /\ job'[s].id = job[s].id /\ job'[s].table = job[s].table
    BY <1>2, <2>2 DEF Jobs
  <2>4. Batch(job[s]) \in Entries /\ Batch(job[s]).kind = "batch" /\ Batch(job[s]).id = job[s].id /\ Batch(job[s]).table = job[s].table
    BY <1>2, <2>1, BoundsAssumption DEF Batch, Entries, Ids
  <2>5. /\ Len(log') = Len(log) + 1 /\ log'[Len(log) + 1] = Batch(job[s]) /\ \A i \in 1 .. Len(log) : log'[i] = log[i]
    BY <1>0, <2>1, <2>4, Appends
  <2>6. \A u \in Sessions : InOpen(u) => InOpen(u)'
    BY <2>1, <2>2, <2>3 DEF InOpen
  <2>7. \A i \in At(tb)' : \/ i \in At(tb) /\ log'[i] = log[i]
                           \/ i = Len(log) + 1 /\ log'[i] = Batch(job[s]) /\ job[s].table = tb
    BY <1>1, <2>4, <2>5 DEF At
  <2>8. job[s].table = tb => Reaches(mem[tb], open, job[s].id) \/ InOpen(s)
    <3> HAVE job[s].table = tb
    <3>1. Memory(tb)
      BY <1>0, <2>1 DEF Rows
    <3> QED
      BY <2>1, <3>1 DEF Memory, Serving
  <2>9. ASSUME NEW i \in At(tb)', Serving'
        PROVE  /\ tb \in redo_dirty'
               /\ \/ Reaches(mem'[tb], open', log'[i].id)
                  \/ \E u \in Sessions : InOpen(u)' /\ job'[u].logged /\ job'[u].id = log'[i].id /\ job'[u].table = tb
    <3>1. CASE i \in At(tb) /\ log'[i] = log[i]
      <4>1. /\ tb \in redo_dirty
            /\ \/ Reaches(mem[tb], open, log[i].id)
               \/ \E u \in Sessions : InOpen(u) /\ job[u].logged /\ job[u].id = log[i].id /\ job[u].table = tb
        BY <1>0, <2>1, <3>1 DEF Covered, Serving
      <4> QED
        BY <2>1, <2>2, <2>3, <2>6, <3>1, <4>1
    <3>2. CASE i = Len(log) + 1 /\ log'[i] = Batch(job[s]) /\ job[s].table = tb
      BY <2>1, <2>3, <2>4, <2>6, <2>8, <3>2
    <3> QED
      BY <2>7, <3>1, <3>2
  <2>10. ASSUME NEW i \in At(tb)', NEW k \in 1 .. Len(log'), i < k, log'[k] = Flushed(tb) PROVE Reaches(file'[tb], {}, log'[i].id)
    <3>1. k \in 1 .. Len(log)
      <4>1. Flushed(tb).kind = "flushed"
        BY DEF Flushed
      <4> QED
        BY <1>1, <2>4, <2>5, <2>10, <4>1
    <3>2. i \in At(tb) /\ log'[i] = log[i] /\ log[k] = Flushed(tb)
      BY <1>1, <2>5, <2>7, <2>10, <3>1
    <3> QED
      BY <1>0, <2>1, <2>10, <3>1, <3>2 DEF Covered
  <2>11. ASSUME NEW u \in Sessions, pc'[u] = "vacuumed", job'[u].table = tb
         PROVE  /\ \A i \in At(tb)' : Reaches(file'[tb], {}, log'[i].id)
                /\ \A w \in Sessions : job'[w].kind = "auto" /\ job'[w].table = tb => Reaches(file'[tb], {}, job'[w].id)
    <3>1. u # s /\ pc[u] = "vacuumed" /\ job[u].table = tb
      BY <2>2, <2>11
    <3>2. job[s].table = tb => job[s].kind = "auto"
      <4>1. Apart(s, u) /\ pc[s] # "idle" /\ pc[u] # "idle"
        BY <1>0, <2>1, <3>1 DEF Control
      <4>2. job[s].kind = "commit" => job[s].committing
        BY <1>2, <2>1 DEF Placed
      <4> QED
        BY <1>2, <3>1, <4>1, <4>2 DEF Apart
    <3>3. \A i \in At(tb) : Reaches(file[tb], {}, log[i].id)
      BY <1>6, <3>1
    <3>4. \A w \in Sessions : job[w].kind = "auto" /\ job[w].table = tb => Reaches(file[tb], {}, job[w].id)
      BY <1>6, <3>1
    <3>5. \A i \in At(tb)' : Reaches(file'[tb], {}, log'[i].id)
      BY <2>1, <2>4, <2>7, <3>2, <3>3, <3>4
    <3>6. \A w \in Sessions : job'[w].kind = job[w].kind /\ job'[w].id = job[w].id /\ job'[w].table = job[w].table
      BY <2>2, <2>3
    <3> QED
      BY <2>1, <3>4, <3>5, <3>6
  <2> QED
    BY <2>1, <2>9, <2>10, <2>11 DEF Covered, Flushed, Reaches
<1>21. CASE redo_mark_flushed(s)
  <2>1. /\ mode = "up" /\ mode' = "up" /\ pc[s] = "vacuumed" /\ log' = Append(log, Flushed(job[s].table))
        /\ pc' = [pc EXCEPT ![s] = "marked"] /\ UNCHANGED <<mem, file, open, job, redo_dirty>>
    BY <1>21 DEF redo_mark_flushed, append_batch
  <2>2. Flushed(job[s].table) \in Entries /\ Flushed(job[s].table).kind = "flushed" /\ Flushed(job[s].table).table = job[s].table
    BY <1>2, <2>1, BoundsAssumption DEF Flushed, Entries, Ids
  <2>3. /\ Len(log') = Len(log) + 1 /\ log'[Len(log) + 1] = Flushed(job[s].table) /\ \A i \in 1 .. Len(log) : log'[i] = log[i]
    BY <1>0, <2>1, <2>2, Appends
  <2>4. \A u \in Sessions : InOpen(u) => InOpen(u)'
    BY <1>1, <2>1 DEF InOpen
  <2>5. \A i \in At(tb)' : i \in At(tb) /\ log'[i] = log[i]
    BY <1>1, <2>2, <2>3 DEF At
  <2>6. \A i \in At(tb)' : Serving' =>
          /\ tb \in redo_dirty'
          /\ \/ Reaches(mem'[tb], open', log'[i].id)
             \/ \E u \in Sessions : InOpen(u)' /\ job'[u].logged /\ job'[u].id = log'[i].id /\ job'[u].table = tb
    <3> TAKE i \in At(tb)'
    <3>1. /\ tb \in redo_dirty
          /\ \/ Reaches(mem[tb], open, log[i].id)
             \/ \E u \in Sessions : InOpen(u) /\ job[u].logged /\ job[u].id = log[i].id /\ job[u].table = tb
      BY <1>0, <2>1, <2>5 DEF Covered, Serving
    <3> QED
      BY <2>1, <2>4, <2>5, <3>1
  <2>7. ASSUME NEW i \in At(tb)', NEW k \in 1 .. Len(log'), i < k, log'[k] = Flushed(tb) PROVE Reaches(file'[tb], {}, log'[i].id)
    <3>1. CASE k \in 1 .. Len(log)
      BY <1>0, <2>1, <2>3, <2>5, <2>7, <3>1 DEF Covered
    <3>2. CASE k = Len(log) + 1
      <4>1. Flushed(tb).table = tb
        BY DEF Flushed
      <4>2. job[s].table = tb
        BY <2>2, <2>3, <2>7, <3>2, <4>1
      <4> QED
        BY <1>6, <2>1, <2>5, <4>2
    <3> QED
      BY <1>1, <2>3, <3>1, <3>2
  <2>8. ASSUME NEW u \in Sessions, pc'[u] = "vacuumed", job'[u].table = tb
        PROVE  /\ \A i \in At(tb)' : Reaches(file'[tb], {}, log'[i].id)
               /\ \A w \in Sessions : job'[w].kind = "auto" /\ job'[w].table = tb => Reaches(file'[tb], {}, job'[w].id)
    <3>1. pc[u] = "vacuumed" /\ job[u].table = tb
      BY <1>1, <2>1, <2>8
    <3> QED
      BY <1>6, <2>1, <2>5, <3>1
  <2> QED
    BY <2>1, <2>6, <2>7, <2>8 DEF Covered, Flushed, Reaches
<1> QED
  BY <1>10, <1>11, <1>12, <1>13, <1>14, <1>16, <1>17, <1>18, <1>19, <1>20, <1>21 DEF Session

\* What is not replayed is older than a marker.
LEMMA NotReplayed ==
    ASSUME Types, Logged, \A i \in 1 .. Len(log) : log[i].kind # "torn", NEW l, Begins(l, log),
           NEW tb \in Tables, NEW i \in At(tb), i <= Len(l), i \notin Replayed(tb, l)
    PROVE  \E k \in 1 .. Len(log) : i < k /\ k <= Len(l) /\ log[k] = Flushed(tb)
<1>1. log \in Seq(Entries) /\ l \in Seq(Entries) /\ Len(l) <= Len(log) /\ \A k \in 1 .. Len(l) : l[k] = log[k]
  BY DEF Types, Begins
<1>2. \A k \in 1 .. Len(l) : l[k].kind # "torn"
  BY <1>1
<1>3. Intact(l) = l
  BY <1>1, <1>2, IntactBegins
<1>4. i \in 1 .. Len(log) /\ log[i].kind = "batch" /\ log[i].table = tb /\ log[i] # Flushed(tb)
  BY AtIs DEF At
<1>5. i \in 1 .. Len(l) /\ l[i] = log[i]
  BY <1>1, <1>4
<1>6. PICK k \in i .. Len(l) : l[k] = Flushed(tb)
  BY <1>3, <1>4, <1>5 DEF Replayed, Relevant
<1>7. k \in 1 .. Len(l) /\ k \in 1 .. Len(log) /\ i # k
  BY <1>1, <1>4, <1>5, <1>6
<1> QED
  BY <1>1, <1>4, <1>6, <1>7

LEMMA SystemCovered ==
    ASSUME IInv, LogOk, NEW tb \in Tables,
           Checkpoint \/ CheckpointDone \/ (\E t \in Tables : FlushTable(t)) \/ Crash \/ Recover \/ RecoverDone
    PROVE  Covered(tb)'
<1>0. Types /\ Control /\ Logged /\ Covered(tb) /\ Positions /\ Rows
  BY DEF IInv, LogOk
<1>1. log \in Seq(Entries) /\ Len(log) \in Nat /\ stable \in 0 .. Len(log)
  BY <1>0 DEF Types
<1>2. \A i \in At(tb) : log[i].id \in Nat
  BY <1>0, AtIs
<1>3. CASE Checkpoint
  <2>1. /\ mode = "up" /\ mode' = "checkpoint" /\ pending' = redo_dirty /\ \A u \in Sessions : pc[u] \notin InCall
        /\ UNCHANGED <<mem, file, log, redo_dirty, pc, job, open>>
    BY <1>3 DEF Checkpoint, logVars, sessVars
  <2>2. At(tb)' = At(tb)
    BY <2>1 DEF At
  <2>3. \A u \in Sessions : pc'[u] # "vacuumed"
    BY <2>1 DEF InCall
  <2>4. \A i \in At(tb) : /\ tb \in redo_dirty
                          /\ \/ Reaches(mem[tb], open, log[i].id)
                             \/ \E u \in Sessions : InOpen(u) /\ job[u].logged /\ job[u].id = log[i].id /\ job[u].table = tb
    BY <1>0, <2>1 DEF Covered, Serving
  <2>5. \A u \in Sessions : InOpen(u)' <=> InOpen(u)
    BY <2>1 DEF InOpen
  <2> QED
    BY <1>0, <2>1, <2>2, <2>3, <2>4, <2>5 DEF Covered, Flushed, Reaches
<1>4. CASE CheckpointDone \/ RecoverDone
  <2>1. mode # "up" /\ mode' = "up" /\ log' = <<>> /\ UNCHANGED pc
    BY <1>4 DEF CheckpointDone, RecoverDone, clear, sessVars
  <2>2. \A u \in Sessions : pc'[u] # "vacuumed"
    BY <1>0, <2>1 DEF Control, Placed, InCall
  <2>3. At(tb)' = {}
    BY <2>1 DEF At
  <2> QED
    BY <2>1, <2>2, <2>3 DEF Covered
<1>5. ASSUME NEW t \in Tables, FlushTable(t) PROVE Covered(tb)'
  <2>1. /\ t \in pending /\ pending' = pending \ {t} /\ UNCHANGED <<mode, mem, log, redo_dirty, pc, job, open>>
    BY <1>5 DEF FlushTable, logVars, sessVars
  <2>2. mode \in {"checkpoint", "recovering"}
    BY <1>0, <2>1 DEF Control, Types
  <2>3. At(tb)' = At(tb) /\ \A u \in Sessions : InOpen(u)' <=> InOpen(u)
    BY <2>1 DEF At, InOpen
  <2>4. \A u \in Sessions : pc[u] \notin InCall
    BY <1>0, <2>2 DEF Control, Placed
  <2>5. Gains(tb) /\ (tb = t => \A i \in Nat : Reaches(mem[tb], open, i) => Reaches(file'[tb], {}, i))
    BY <1>5, FlushGains
  <2>6. mode = "checkpoint" => \A i \in At(tb) : tb \in redo_dirty /\ Reaches(mem[tb], open, log[i].id)
    <3> HAVE mode = "checkpoint"
    <3> TAKE i \in At(tb)
    <3>1. /\ tb \in redo_dirty
          /\ \/ Reaches(mem[tb], open, log[i].id)
             \/ \E u \in Sessions : InOpen(u) /\ job[u].logged /\ job[u].id = log[i].id /\ job[u].table = tb
      BY <1>0 DEF Covered, Serving
    <3>2. \A u \in Sessions : ~job[u].logged
      BY <1>0, <2>4 DEF Positions, IsLogged, InCall
    <3> QED
      BY <3>1, <3>2
  <2>7. mode = "checkpoint" /\ tb \notin pending' => \A i \in At(tb) : Reaches(file'[tb], {}, log[i].id)
    <3> HAVE mode = "checkpoint" /\ tb \notin pending'
    <3>1. CASE tb = t
      BY <1>2, <2>5, <2>6, <3>1
    <3>2. CASE tb # t
      <4>1. \A i \in At(tb) : Reaches(file[tb], {}, log[i].id)
        BY <1>0, <2>1, <3>2 DEF Covered
      <4> QED
        BY <1>2, <2>5, <4>1 DEF Gains
    <3> QED
      BY <3>1, <3>2
  <2>8. \A i \in At(tb), k \in 1 .. Len(log) : i < k /\ log[k] = Flushed(tb) => Reaches(file'[tb], {}, log[i].id)
    BY <1>0, <1>2, <2>5 DEF Covered, Gains
  <2>9. \A u \in Sessions : pc'[u] # "vacuumed"
    BY <2>1, <2>4 DEF InCall
  <2>10. mode = "recovering" => \A i \in At(tb) : Reaches(mem[tb], {}, log[i].id)
    BY <1>0 DEF Covered
  <2> QED
    BY <2>1, <2>2, <2>3, <2>6, <2>7, <2>8, <2>9, <2>10 DEF Covered, Flushed, Reaches, Serving
<1>6. CASE Crash
  <2>1. PICK k \in stable .. Len(log) : log' = SubSeq(log, 1, k)
    BY <1>6 DEF Crash
  <2>2. k \in 0 .. Len(log)
    BY <1>1, <2>1
  <2>3. Begins(log', log)
    BY <1>1, <2>1, <2>2, PrefixBegins
  <2>4. mode' = "down" /\ file' = file /\ \A u \in Sessions : pc'[u] = "idle"
    BY <1>6 DEF Crash
  <2>5. \A i \in 1 .. Len(log') : i \in 1 .. Len(log) /\ log'[i] = log[i]
    BY <1>1, <2>3 DEF Begins
  <2>6. \A i \in At(tb)' : i \in At(tb)
    BY <2>5 DEF At
  <2>7. \A i \in At(tb)', j \in 1 .. Len(log') : i < j /\ log'[j] = Flushed(tb) => Reaches(file'[tb], {}, log'[i].id)
    <3>1. \A i \in At(tb), j \in 1 .. Len(log) : i < j /\ log[j] = Flushed(tb) => Reaches(file[tb], {}, log[i].id)
      BY <1>0 DEF Covered
    <3>2. \A i \in At(tb)' : i \in 1 .. Len(log')
      BY DEF At
    <3> QED
      BY <2>4, <2>5, <2>6, <3>1, <3>2
  <2> QED
    BY <2>4, <2>7 DEF Covered, Serving, Flushed, Reaches
<1>7. CASE Recover
  <2>1. /\ mode = "down" /\ mode' = "recovering" /\ mem' = [t \in Tables |-> Recovered(t, log)] /\ UNCHANGED <<file, log, pc, job>>
    BY <1>7 DEF Recover, logVars, sessVars
  <2>2. At(tb)' = At(tb) /\ Begins(log, log)
    BY <1>1, <2>1 DEF At, Begins
  <2>3. \A u \in Sessions : pc'[u] # "vacuumed"
    BY <1>0, <2>1 DEF Control, Placed, InCall
  <2>4. PICK R : R = Recovered(tb, log)
    OBVIOUS
  <2>5. /\ \A i \in Nat : Reaches(file[tb], {}, i) => Reaches(R, {}, i)
        /\ \A i \in Replayed(tb, log) : Reaches(R, {}, log[i].id)
    BY <1>0, <2>2, <2>4, RecoveredSound DEF Rows, File
  <2>6. \A i \in At(tb), k \in 1 .. Len(log) : i < k /\ log[k] = Flushed(tb) => Reaches(file[tb], {}, log[i].id)
    BY <1>0 DEF Covered
  <2>7. ASSUME NEW i \in At(tb) PROVE Reaches(R, {}, log[i].id)
    <3>1. CASE i \in Replayed(tb, log)
      BY <2>5, <3>1
    <3>2. CASE i \notin Replayed(tb, log)
      <4>1. i <= Len(log)
        BY <1>1 DEF At
      <4>2. \E k \in 1 .. Len(log) : i < k /\ k <= Len(log) /\ log[k] = Flushed(tb)
        BY <1>0, <2>2, <3>2, <4>1, NotReplayed DEF Positions
      <4> QED
        BY <1>2, <2>5, <2>6, <4>2
    <3> QED
      BY <3>1, <3>2
  <2>8. mem'[tb] = R
    BY <2>1, <2>4
  <2> QED
    BY <2>1, <2>2, <2>3, <2>6, <2>7, <2>8 DEF Covered, Serving, Flushed, Reaches
<1> QED
  BY <1>3, <1>4, <1>5, <1>6, <1>7

\* What is durable stays so while the log only grows.
LEMMA DurableStays ==
    ASSUME Types, NEW tb \in Tables, Gains(tb), NEW id \in Nat, Durable(tb, id), Len(log) <= Len(log'), Len(log') \in Nat,
           \A i \in 1 .. Len(log) : log'[i] = log[i], stable <= stable', stable' \in Nat
    PROVE  Durable(tb, id)'
<1>0. Len(log) \in Nat /\ stable \in Nat
  BY DEF Types
<1>1. CASE Reaches(file[tb], {}, id)
  <2>1. Reaches(file'[tb], {}, id)
    BY <1>1 DEF Gains
  <2> QED
    BY <2>1 DEF Durable, Reaches
<1>2. CASE \E i \in At(tb) : i <= stable /\ id <= log[i].id
  <2>1. PICK i \in At(tb) : i <= stable /\ id <= log[i].id
    BY <1>2
  <2>2. i \in At(tb)' /\ i <= stable' /\ id <= log'[i].id
    BY <1>0, <2>1 DEF At
  <2> QED
    BY <2>2 DEF Durable
<1> QED
  BY <1>1, <1>2 DEF Durable

\* What is promised after a step, told by the names that the step gives to it.
LEMMA PromisedIs ==
    ASSUME \A a \in acked' : \E t \in Tables, id \in Nat : t = a.table /\ id = a.id /\ Durable(t, id)',
           \A u \in Sessions : Due(u)' => \E t \in Tables, id \in Nat : t = job'[u].table /\ id = job'[u].id /\ Durable(t, id)'
    PROVE  Promised'
<1>1. \A a \in acked' : Durable(a.table, a.id)'
  <2> TAKE a \in acked'
  <2>1. PICK t \in Tables, id \in Nat : t = a.table /\ id = a.id /\ Durable(t, id)'
    OBVIOUS
  <2> QED
    BY <2>1
<1>2. \A u \in Sessions : Due(u)' => Durable(job[u].table, job[u].id)'
  <2> TAKE u \in Sessions
  <2> HAVE Due(u)'
  <2>1. PICK t \in Tables, id \in Nat : t = job'[u].table /\ id = job'[u].id /\ Durable(t, id)'
    OBVIOUS
  <2> QED
    BY <2>1 DEF Durable, Reaches, At
<1> QED
  BY <1>1, <1>2 DEF Promised, Due

\* What is promised has a table and an id.
LEMMA DueIs ==
    ASSUME Types, Control, Promised
    PROVE  /\ \A a \in acked : a.table \in Tables /\ a.id \in Nat /\ Durable(a.table, a.id)
           /\ \A u \in Sessions : Due(u) => job[u].table \in Tables /\ job[u].id \in Nat /\ Durable(job[u].table, job[u].id)
<1>1. \A a \in acked : a.table \in Tables /\ a.id \in Nat
  BY BoundsAssumption DEF Types
<1>2. \A u \in Sessions : Due(u) => pc[u] # "idle"
  BY DEF Due
<1>3. \A u \in Sessions : Due(u) => job[u].table \in Tables /\ job[u].id \in Nat
  BY <1>2, JobIs
<1> QED
  BY <1>1, <1>3 DEF Promised, Due

LEMMA SessionPromised ==
    ASSUME IInv, LogOk, NEW s \in Sessions, Session(s), ~failed'
    PROVE  Promised'
<1>0. Types /\ Control /\ Logged /\ Positions /\ Rows /\ Promised
  BY DEF IInv, LogOk
<1>1. /\ pc \in [Sessions -> Steps] /\ job \in [Sessions -> Jobs] /\ seq \in [Sessions -> Nat] /\ synced \in Nat /\ appended \in Nat
      /\ log \in Seq(Entries) /\ Len(log) \in Nat /\ stable \in 0 .. Len(log) /\ stable \in Nat
  BY <1>0 DEF Types
<1>2. /\ job[s] \in Jobs /\ Placed(s) /\ job[s].logged \in BOOLEAN /\ job[s].committing \in BOOLEAN
      /\ pc[s] # "idle" => job[s].kind \in {"auto", "commit"} /\ job[s].table \in Tables
      /\ pc[s] # "idle" => job[s].id \in 1 .. MaxId /\ job[s].ended \in 0 .. MaxId /\ job[s].id \in Nat
  BY <1>0, JobIs
<1>3. \A u \in Sessions : job[u].logged <=> IsLogged(u)
  BY <1>0 DEF Positions
<1>4. \A t \in Tables : Gains(t)
  BY SessionGains
<1>5. /\ \A a \in acked : a.table \in Tables /\ a.id \in Nat /\ Durable(a.table, a.id)
      /\ \A u \in Sessions : Due(u) => job[u].table \in Tables /\ job[u].id \in Nat /\ Durable(job[u].table, job[u].id)
  BY <1>0, DueIs
<1>6. ASSUME Len(log) <= Len(log'), Len(log') \in Nat, \A i \in 1 .. Len(log) : log'[i] = log[i], stable <= stable', stable' \in Nat,
             \A a \in acked' : a \in acked \/ (Due(s) /\ a.table = job[s].table /\ a.id = job[s].id),
             \A u \in Sessions : u # s => pc'[u] = pc[u] /\ job'[u] = job[u],
             Due(s)' => /\ job'[s].table = job[s].table /\ job'[s].id = job[s].id
                        /\ \/ Due(s)
                           \/ \E t \in Tables, id \in Nat : t = job[s].table /\ id = job[s].id /\ Durable(t, id)'
      PROVE  Promised'
  <2>1. ASSUME NEW t \in Tables, NEW id \in Nat, Durable(t, id) PROVE Durable(t, id)'
    BY <1>0, <1>4, <1>6, <2>1, DurableStays
  <2>2. \A u \in Sessions : Due(u) => \E t \in Tables, id \in Nat : t = job[u].table /\ id = job[u].id /\ Durable(t, id)'
    <3> TAKE u \in Sessions
    <3> HAVE Due(u)
    <3>1. PICK t \in Tables, id \in Nat : t = job[u].table /\ id = job[u].id
      BY <1>5
    <3>2. Durable(t, id)
      BY <1>5, <3>1
    <3>3. Durable(t, id)'
      BY <2>1, <3>2
    <3> QED
      BY <3>1, <3>3
  <2>3. \A a \in acked : \E t \in Tables, id \in Nat : t = a.table /\ id = a.id /\ Durable(t, id)'
    <3> TAKE a \in acked
    <3>1. Durable(a.table, a.id)'
      BY <1>5, <2>1
    <3> QED
      BY <1>5, <3>1
  <2>4. \A a \in acked' : \E t \in Tables, id \in Nat : t = a.table /\ id = a.id /\ Durable(t, id)'
    <3> TAKE a \in acked'
    <3>1. CASE a \in acked
      BY <2>3, <3>1
    <3>2. CASE Due(s) /\ a.table = job[s].table /\ a.id = job[s].id
      <4>1. PICK t \in Tables, id \in Nat : t = job[s].table /\ id = job[s].id /\ Durable(t, id)'
        BY <2>2, <3>2
      <4> QED
        BY <3>2, <4>1
    <3> QED
      BY <1>6, <3>1, <3>2
  <2>5. \A u \in Sessions : Due(u)' => \E t \in Tables, id \in Nat : t = job'[u].table /\ id = job'[u].id /\ Durable(t, id)'
    <3> TAKE u \in Sessions
    <3> HAVE Due(u)'
    <3>1. job'[u].table = job[u].table /\ job'[u].id = job[u].id
      BY <1>6
    <3>2. \E t \in Tables, id \in Nat : t = job[u].table /\ id = job[u].id /\ Durable(t, id)'
      <4>1. CASE Due(u)
        BY <2>2, <4>1
      <4>2. CASE ~Due(u)
        <5>1. u = s
          BY <1>6, <4>2 DEF Due
        <5> QED
          BY <1>6, <4>2, <5>1
      <4> QED
        BY <4>1, <4>2
    <3> QED
      BY <3>1, <3>2
  <2> QED
    BY <2>4, <2>5, PromisedIs
<1>7. ASSUME log' = log, stable' = stable, acked' = acked,
             \A u \in Sessions : u # s => pc'[u] = pc[u] /\ job'[u] = job[u],
             Due(s)' => Due(s) /\ job'[s] = job[s]
      PROVE  Promised'
  <2>1. Len(log) <= Len(log') /\ Len(log') \in Nat /\ (\A i \in 1 .. Len(log) : log'[i] = log[i]) /\ stable <= stable' /\ stable' \in Nat
    BY <1>1, <1>7
  <2> QED
    BY <1>6, <1>7, <2>1
<1>8. ASSUME NEW kind \in Kinds, NEW tb \in Tables, Change(s, kind, tb) PROVE Promised'
  <2>1. PICK v \in Live(mem[tb]) :
          job' = [job EXCEPT ![s] = [NoJob EXCEPT !.kind = kind, !.table = tb, !.id = next_id, !.ended = v.id]]
    BY <1>8 DEF Change
  <2>2. /\ log' = log /\ stable' = stable /\ acked' = acked
        /\ pc' = [pc EXCEPT ![s] = IF kind = "commit" THEN "open" ELSE "changed"]
    BY <1>8 DEF Change, logVars, history
  <2>3. /\ pc'[s] \in {"open", "changed"}
        /\ \A u \in Sessions : u # s => pc'[u] = pc[u] /\ job'[u] = job[u]
    BY <1>1, <2>1, <2>2
  <2> QED
    BY <1>7, <2>2, <2>3 DEF Due
<1>9. CASE Commit(s) \/ Rollback(s)
  <2>1. /\ log' = log /\ stable' = stable /\ acked' = acked
        /\ \E p \in {"changed", "idle"} : pc' = [pc EXCEPT ![s] = p]
        /\ \E j : job' = [job EXCEPT ![s] = j]
    <3>1. CASE Commit(s)
      <4>1. job' = [job EXCEPT ![s] = [@ EXCEPT !.committing = TRUE]]
        BY <3>1 DEF Commit
      <4> QED
        BY <3>1, <4>1 DEF Commit, logVars, history
    <3>2. CASE Rollback(s)
      BY <3>2 DEF Rollback, logVars
    <3> QED
      BY <1>9, <3>1, <3>2
  <2>2. /\ pc'[s] \in {"changed", "idle"}
        /\ \A u \in Sessions : u # s => pc'[u] = pc[u] /\ job'[u] = job[u]
    BY <1>1, <2>1
  <2> QED
    BY <1>7, <2>1, <2>2 DEF Due
<1>10. CASE Finish(s) \/ SyncStart(s)
  <2>1. /\ log' = log /\ stable' = stable /\ acked' = acked /\ job' = job
        /\ (pc[s] = "durable" /\ pc' = [pc EXCEPT ![s] = "finished"]) \/ pc' = pc
    BY <1>10 DEF Finish, SyncStart, logVars, sessVars, history
  <2> QED
    BY <1>1, <1>7, <2>1 DEF Due
<1>11. CASE Reply(s)
  <2>1. /\ log' = log /\ stable' = stable /\ acked' = acked \cup {[table |-> job[s].table, id |-> job[s].id]}
        /\ pc[s] = "finished" /\ pc' = [pc EXCEPT ![s] = "idle"] /\ job' = [job EXCEPT ![s] = NoJob]
    BY <1>11 DEF Reply, logVars
  <2>2. /\ pc'[s] = "idle" /\ ~Due(s)' /\ Due(s)
        /\ \A u \in Sessions : u # s => pc'[u] = pc[u] /\ job'[u] = job[u]
    BY <1>1, <2>1 DEF Due
  <2>3. Len(log) <= Len(log') /\ Len(log') \in Nat /\ (\A i \in 1 .. Len(log) : log'[i] = log[i]) /\ stable <= stable' /\ stable' \in Nat
    BY <1>1, <2>1
  <2>4. \A a \in acked' : a \in acked \/ (Due(s) /\ a.table = job[s].table /\ a.id = job[s].id)
    BY <2>1, <2>2
  <2> QED
    BY <1>6, <2>2, <2>3, <2>4
<1>12. CASE NothingToLog(s)
  <2>1. pc[s] = "changed" /\ job[s].logged
    BY <1>12 DEF NothingToLog
  <2> QED
    BY <1>3, <2>1 DEF IsLogged
<1>13. CASE WriteBatchFails(s) \/ SyncFailed(s)
  BY <1>13 DEF WriteBatchFails, SyncFailed
<1>14. CASE WriteBatch(s) \/ redo_mark_flushed(s)
  <2>1. \E e \in Entries : log' = Append(log, e)
    <3>1. pc[s] # "idle"
      BY <1>14 DEF WriteBatch, redo_mark_flushed
    <3>2. Batch(job[s]) \in Entries /\ Flushed(job[s].table) \in Entries
      BY <1>2, <3>1, BoundsAssumption DEF Batch, Flushed, Entries, Ids
    <3> QED
      BY <1>14, <3>2 DEF WriteBatch, redo_mark_flushed, append_batch
  <2>2. PICK e \in Entries : log' = Append(log, e)
    BY <2>1
  <2>3. Len(log') = Len(log) + 1 /\ \A i \in 1 .. Len(log) : log'[i] = log[i]
    BY <1>0, <2>2, Appends
  <2>4. /\ stable' = stable /\ acked' = acked
        /\ \E p \in {"appended", "marked"} : pc' = [pc EXCEPT ![s] = p]
        /\ \E j : job' = [job EXCEPT ![s] = j]
    <3>1. CASE WriteBatch(s)
      <4>1. job' = [job EXCEPT ![s] = [@ EXCEPT !.logged = TRUE]]
        BY <3>1 DEF WriteBatch
      <4> QED
        BY <3>1, <4>1 DEF WriteBatch
    <3>2. CASE redo_mark_flushed(s)
      <4>1. job' = [job EXCEPT ![s] = job[s]]
        BY <1>1, <3>2 DEF redo_mark_flushed
      <4> QED
        BY <3>2, <4>1 DEF redo_mark_flushed, history
    <3> QED
      BY <1>14, <3>1, <3>2
  <2>5. \A u \in Sessions : u # s => pc'[u] = pc[u] /\ job'[u] = job[u]
    BY <1>1, <2>4
  <2>6. Due(s)' => Due(s) /\ job'[s] = job[s]
    <3>1. CASE WriteBatch(s)
      BY <1>1, <3>1 DEF WriteBatch, Due
    <3>2. CASE redo_mark_flushed(s)
      BY <1>1, <3>2 DEF redo_mark_flushed, Due
    <3> QED
      BY <1>14, <3>1, <3>2
  <2> QED
    BY <1>1, <1>6, <2>3, <2>4, <2>5, <2>6
<1>15. CASE Vacuum(s)
  <2>1. /\ log' = log /\ stable' = stable /\ acked' = acked /\ job' = job
        /\ (job[s].kind = "auto" /\ pc[s] = "changed") \/ (job[s].kind = "commit" /\ pc[s] \in {"open", "finished"})
        /\ pc' = (IF log = <<>> THEN pc ELSE [pc EXCEPT ![s] = "vacuumed"])
    BY <1>15 DEF Vacuum, logVars
  <2>2. Due(s)' => Due(s)
    BY <1>1, <1>2, <2>1 DEF Due, Placed
  <2> QED
    BY <1>1, <1>7, <2>1, <2>2
\* a batch that lies before what is synced
<1>16. ASSUME Waits(s), NEW k \in Nat, k <= Len(log), seq[s] - Offset <= k, pc[s] = "appended", log' = log, stable' \in Nat, k <= stable'
       PROVE  \E t \in Tables, id \in Nat : t = job[s].table /\ id = job[s].id /\ Durable(t, id)'
  <2>1. PICK n : n = seq[s] - Offset
    OBVIOUS
  <2>2. n \in 1 .. Len(log) /\ log[n] = Batch(job[s])
    BY <1>0, <1>16, <2>1 DEF Positions, Serving, Waits
  <2>3. PICK t \in Tables, id \in Nat : t = job[s].table /\ id = job[s].id
    BY <1>2, <1>16
  <2>4. log[n].kind = "batch" /\ log[n].table = t /\ log[n].id = id
    BY <2>2, <2>3 DEF Batch
  <2>5. n \in At(t)' /\ n <= stable' /\ id <= log'[n].id
    BY <1>1, <1>16, <2>1, <2>2, <2>4 DEF At
  <2>6. Durable(t, id)'
    BY <2>5 DEF Durable
  <2> QED
    BY <2>3, <2>6
<1>17. ASSUME Waits(s), log' = log, acked' = acked, job' = job, pc' = [pc EXCEPT ![s] = Synced(s)], stable' \in Nat, stable <= stable',
              pc[s] = "appended" => \E k \in Nat : k <= Len(log) /\ seq[s] - Offset <= k /\ k <= stable'
       PROVE  Promised'
  <2>1. \A u \in Sessions : u # s => pc'[u] = pc[u] /\ job'[u] = job[u]
    BY <1>1, <1>17
  <2>2. CASE pc[s] = "appended"
    <3>1. PICK k \in Nat : k <= Len(log) /\ seq[s] - Offset <= k /\ k <= stable'
      BY <1>17, <2>2
    <3>2. \E t \in Tables, id \in Nat : t = job[s].table /\ id = job[s].id /\ Durable(t, id)'
      BY <1>16, <1>17, <2>2, <3>1
    <3> QED
      BY <1>1, <1>6, <1>17, <2>1, <3>2
  <2>3. CASE pc[s] # "appended"
    <3>1. pc[s] = "marked" /\ pc'[s] \in {"changed", "finished", "open"} /\ (pc'[s] = "finished" => job[s].committing)
      BY <1>1, <1>17, <2>3 DEF Waits, Synced
    <3>2. Due(s)' => Due(s)
      BY <3>1 DEF Due
    <3> QED
      BY <1>1, <1>6, <1>17, <2>1, <3>2
  <2> QED
    BY <2>2, <2>3
<1>18. CASE SyncReturns(s)
  <2>1. /\ Waits(s) /\ (synced >= seq[s] \/ ~fp) /\ log' = log /\ stable' = stable /\ acked' = acked /\ job' = job
        /\ pc' = [pc EXCEPT ![s] = Synced(s)]
    BY <1>18 DEF SyncReturns, logVars, history
  <2>2. ASSUME pc[s] = "appended" PROVE seq[s] - Offset <= stable
    <3>1. seq[s] - Offset \in 1 .. Len(log) /\ synced - Offset <= stable /\ (log # <<>> => fp)
      BY <1>0, <2>1, <2>2 DEF Positions, Serving, Waits
    <3>2. log # <<>>
      BY <1>1, <3>1
    <3>3. synced >= seq[s] /\ seq[s] \in Nat /\ Offset \in Int
      BY <1>1, <2>1, <3>1, <3>2 DEF Offset
    <3> HIDE DEF Offset
    <3> QED
      BY <1>1, <3>1, <3>3
  <2>3. pc[s] = "appended" => \E k \in Nat : k <= Len(log) /\ seq[s] - Offset <= k /\ k <= stable'
    BY <1>1, <2>1, <2>2
  <2>4. stable' \in Nat /\ stable <= stable'
    BY <1>1, <2>1
  <2> QED
    BY <1>17, <2>1, <2>3, <2>4
<1>19. CASE SyncEnd(s)
  <2>1. /\ syncing.session = s /\ log' = log /\ stable' = Max({stable, syncing.covers}) /\ acked' = acked /\ job' = job
        /\ pc' = [pc EXCEPT ![s] = Synced(s)]
    BY <1>19 DEF SyncEnd, history
  <2>2. syncing # NoSync
    BY <2>1, NamesAssumption DEF NoSync
  <2>3. /\ syncing.target \in Nat /\ syncing.covers \in 0 .. Len(log) /\ Waits(s) /\ mode = "up"
    BY <1>0, <2>1, <2>2 DEF Control, Sync, Waits
  <2>4. syncing.target - Offset = syncing.covers /\ seq[s] <= syncing.target
    BY <1>0, <2>1, <2>2, <2>3 DEF Positions, Serving
  <2>5. syncing.covers \in Nat /\ syncing.covers <= Len(log)
    BY <1>1, <2>3
  <2>6. stable' \in Nat /\ stable <= stable' /\ syncing.covers <= stable'
    BY <1>1, <2>1, <2>5, MaxOfTwo
  <2>7. seq[s] - Offset <= syncing.covers
    <3>1. Offset \in Int /\ seq[s] \in Nat
      BY <1>1 DEF Offset
    <3> QED
      BY <2>3, <2>4, <3>1
  <2> QED
    BY <1>17, <2>1, <2>3, <2>5, <2>6, <2>7
<1> QED
  BY <1>8, <1>9, <1>10, <1>11, <1>12, <1>13, <1>14, <1>15, <1>18, <1>19 DEF Session
LEMMA SystemPromised ==
    ASSUME IInv, LogOk,
           Checkpoint \/ CheckpointDone \/ (\E t \in Tables : FlushTable(t)) \/ Crash \/ Recover \/ RecoverDone
    PROVE  Promised'
<1>0. Types /\ Control /\ Logged /\ Positions /\ Rows /\ Promised /\ \A t \in Tables : Covered(t)
  BY DEF IInv, LogOk
<1>1. log \in Seq(Entries) /\ Len(log) \in Nat /\ stable \in 0 .. Len(log) /\ stable \in Nat
  BY <1>0 DEF Types
<1>2. /\ \A a \in acked : a.table \in Tables /\ a.id \in Nat /\ Durable(a.table, a.id)
      /\ \A u \in Sessions : Due(u) => job[u].table \in Tables /\ job[u].id \in Nat /\ Durable(job[u].table, job[u].id)
  BY <1>0, DueIs
<1>3. ASSUME acked' = acked, \A u \in Sessions : ~Due(u)' \/ (Due(u) /\ job'[u] = job[u]),
             \A t \in Tables, id \in Nat : Durable(t, id) => Durable(t, id)'
      PROVE  Promised'
  <2>1. \A a \in acked' : \E t \in Tables, id \in Nat : t = a.table /\ id = a.id /\ Durable(t, id)'
    BY <1>2, <1>3
  <2>2. \A u \in Sessions : Due(u)' => \E t \in Tables, id \in Nat : t = job'[u].table /\ id = job'[u].id /\ Durable(t, id)'
    <3> TAKE u \in Sessions
    <3> HAVE Due(u)'
    <3>1. PICK t \in Tables, id \in Nat : t = job[u].table /\ id = job[u].id
      BY <1>2, <1>3
    <3>2. Durable(t, id)
      BY <1>2, <1>3, <3>1
    <3>3. Durable(t, id)'
      BY <1>3, <3>2
    <3> QED
      BY <1>3, <3>1, <3>3
  <2> QED
    BY <2>1, <2>2, PromisedIs
<1>4. ASSUME UNCHANGED <<file, log, stable>>, NEW t \in Tables, NEW id \in Nat, Durable(t, id) PROVE Durable(t, id)'
  BY <1>4 DEF Durable, Reaches, At
<1>5. CASE Checkpoint \/ Recover
  <2>1. UNCHANGED <<file, log, stable, pc, job, acked>>
    BY <1>5 DEF Checkpoint, Recover, logVars, sessVars, history
  <2>2. \A u \in Sessions : ~Due(u)' \/ (Due(u) /\ job'[u] = job[u])
    BY <2>1 DEF Due
  <2> QED
    BY <1>3, <1>4, <2>1, <2>2
<1>6. ASSUME NEW tb \in Tables, FlushTable(tb) PROVE Promised'
  <2>1. UNCHANGED <<log, stable, pc, job, acked>>
    BY <1>6 DEF FlushTable, logVars, sessVars, history
  <2>2. \A u \in Sessions : ~Due(u)' \/ (Due(u) /\ job'[u] = job[u])
    BY <2>1 DEF Due
  <2>3. \A t \in Tables : Gains(t)
    BY <1>6, FlushGains
  <2>4. Len(log) <= Len(log') /\ Len(log') \in Nat /\ (\A i \in 1 .. Len(log) : log'[i] = log[i]) /\ stable <= stable' /\ stable' \in Nat
    BY <1>1, <2>1
  <2>5. \A t \in Tables, id \in Nat : Durable(t, id) => Durable(t, id)'
    BY <1>0, <2>3, <2>4, DurableStays
  <2> QED
    BY <1>3, <2>1, <2>2, <2>5
<1>7. CASE CheckpointDone \/ RecoverDone
  <2>1. mode \in {"checkpoint", "recovering"} /\ pending = {} /\ UNCHANGED <<file, pc, job, acked>>
    BY <1>7 DEF CheckpointDone, RecoverDone, AllFlushed, sessVars, history
  <2>2. \A u \in Sessions : ~Due(u)'
    BY <1>0, <2>1 DEF Control, Placed, InCall, Due
  <2>3. ASSUME NEW t \in Tables, NEW i \in At(t) PROVE Reaches(file[t], {}, log[i].id)
    <3>1. CASE mode = "checkpoint"
      BY <1>0, <2>1, <3>1 DEF Covered
    <3>2. CASE mode = "recovering"
      <4>1. Reaches(mem[t], {}, log[i].id) /\ file[t] = mem[t]
        BY <1>0, <2>1, <3>2 DEF Covered, Rows, File
      <4> QED
        BY <4>1
    <3> QED
      BY <2>1, <3>1, <3>2
  <2>4. ASSUME NEW t \in Tables, NEW id \in Nat, Durable(t, id) PROVE Durable(t, id)'
    <3>1. Reaches(file[t], {}, id)
      <4>1. CASE \E i \in At(t) : i <= stable /\ id <= log[i].id
        <5>1. PICK i \in At(t) : id <= log[i].id
          BY <4>1
        <5>2. PICK v \in file[t] : log[i].id <= v.id
          BY <2>3 DEF Reaches
        <5>3. log[i].id \in Nat /\ v.id \in Nat
          BY <1>0, AtIs, BoundsAssumption DEF Types, Versions, Ids
        <5>4. id <= v.id
          BY <5>1, <5>2, <5>3
        <5> QED
          BY <5>4 DEF Reaches
      <4> QED
        BY <2>4, <4>1 DEF Durable
    <3> QED
      BY <2>1, <3>1 DEF Durable, Reaches
  <2> QED
    BY <1>3, <2>1, <2>2, <2>4
<1>8. CASE Crash
  <2>1. PICK k \in stable .. Len(log) : log' = SubSeq(log, 1, k)
    BY <1>8 DEF Crash
  <2>2. k \in 0 .. Len(log) /\ stable <= k
    BY <1>1, <2>1
  <2>3. Begins(log', log) /\ Len(log') = k
    BY <1>1, <2>1, <2>2, PrefixBegins
  <2>4. stable' = k /\ file' = file /\ acked' = acked /\ \A u \in Sessions : pc'[u] = "idle"
    BY <1>8, <2>3 DEF Crash, history
  <2>5. \A u \in Sessions : ~Due(u)'
    BY <2>4 DEF Due
  <2>6. ASSUME NEW t \in Tables, NEW id \in Nat, Durable(t, id) PROVE Durable(t, id)'
    <3>1. CASE Reaches(file[t], {}, id)
      BY <2>4, <3>1 DEF Durable, Reaches
    <3>2. CASE \E i \in At(t) : i <= stable /\ id <= log[i].id
      <4>1. PICK i \in At(t) : i <= stable /\ id <= log[i].id
        BY <3>2
      <4>2. i \in 1 .. Len(log') /\ log'[i] = log[i] /\ i <= stable'
        BY <1>1, <2>2, <2>3, <2>4, <4>1 DEF At, Begins
      <4>3. i \in At(t)' /\ id <= log'[i].id
        BY <4>1, <4>2 DEF At
      <4> QED
        BY <4>2, <4>3 DEF Durable
    <3> QED
      BY <2>6, <3>1, <3>2 DEF Durable
  <2> QED
    BY <1>3, <2>4, <2>5, <2>6
<1> QED
  BY <1>5, <1>6, <1>7, <1>8

LEMMA InitLogged == Init => LogInv
<1> SUFFICES ASSUME Init PROVE LogOk
  BY DEF LogInv
<1>1. /\ mode = "up" /\ log = <<>> /\ stable = 0 /\ appended = 0 /\ synced = 0 /\ syncing = NoSync /\ acked = {}
      /\ \A u \in Sessions : pc[u] = "idle" /\ job[u] = NoJob
  BY DEF Init
<1>2. Positions
  <2>1. Offset = 0
    <3>1. Offset = appended - Len(log)
      BY DEF Offset
    <3>2. Len(log) = 0 /\ appended = 0
      BY <1>1
    <3> QED
      BY <3>1, <3>2
  <2> QED
    BY <1>1, <2>1 DEF Positions, IsLogged, NoJob
<1>3. \A tb \in Tables : Covered(tb)
  <2>1. \A tb \in Tables : At(tb) = {}
    BY <1>1 DEF At
  <2> QED
    BY <1>1, <2>1 DEF Covered
<1>4. Promised
  BY <1>1 DEF Promised, Due
<1> QED
  BY <1>2, <1>3, <1>4 DEF LogOk

\* A failure is not forgotten.
LEMMA FailureStays ==
    ASSUME Next, ~failed'
    PROVE  ~failed
<1>1. ASSUME NEW s \in Sessions, Session(s) PROVE ~failed
  BY <1>1 DEF Session, Change, Commit, Rollback, Finish, Reply, NothingToLog, WriteBatch, WriteBatchFails, SyncReturns,
              SyncStart, SyncEnd, SyncFailed, Vacuum, redo_mark_flushed, history
<1> QED
  BY <1>1 DEF Next, Checkpoint, CheckpointDone, FlushTable, Crash, Recover, RecoverDone, history

LEMMA LogStep ==
    ASSUME IInv, IInv', LogInv, [Next]_vars
    PROVE  LogInv'
<1> SUFFICES ASSUME ~failed' PROVE LogOk'
  BY DEF LogInv
<1>1. CASE UNCHANGED vars
  <2>1. UNCHANGED <<mode, mem, file, log, stable, fp, appended, synced, redo_dirty, syncing, pending, open, pc, job, seq, acked, failed>>
    BY <1>1 DEF vars, logVars, sessVars, history
  <2>2. LogOk
    BY <2>1 DEF LogInv
  <2>3. Positions'
    BY <2>1, <2>2 DEF LogOk, Positions, Offset, IsLogged, Serving, Batch
  <2>4. \A tb \in Tables : Covered(tb)'
    BY <2>1, <2>2 DEF LogOk, Covered, At, Serving, Reaches, InOpen, Flushed
  <2>5. Promised'
    BY <2>1, <2>2 DEF LogOk, Promised, Due, Durable, At, Reaches
  <2> QED
    BY <2>3, <2>4, <2>5 DEF LogOk
<1>2. CASE Next
  <2>1. LogOk
    BY <1>2, FailureStays DEF LogInv
  <2>2. Positions
    BY <2>1 DEF LogOk
  <2>3. ASSUME NEW s \in Sessions, Session(s) PROVE LogOk'
    BY <2>1, <2>2, <2>3, SessionPositions, SessionCovered, SessionPromised DEF LogOk
  <2>4. ASSUME Checkpoint \/ CheckpointDone \/ (\E t \in Tables : FlushTable(t)) \/ Crash \/ Recover \/ RecoverDone
        PROVE  LogOk'
    BY <2>1, <2>2, <2>4, SystemPositions, SystemCovered, SystemPromised DEF LogOk
  <2> QED
    BY <1>2, <2>3, <2>4 DEF Next
<1> QED
  BY <1>1, <1>2

\* As long as every append and fsync succeeds, the numbers that append_batch hands out are places in the
\* log, every batch is in memory or, behind a marker, in the file, and every change that was reported is
\* durable in the log or in the file.
THEOREM LogHolds == Spec => []LogInv
<1>1. Init => LogInv
  BY InitLogged
<1>2. IInv /\ IInv' /\ LogInv /\ [Next]_vars => LogInv'
  BY LogStep
<1> QED
  BY <1>1, <1>2, RowsHold, PTL DEF Spec

LEMMA AckedIsThere ==
    ASSUME IInv, LogInv
    PROVE  AckedRecoverable
<1> SUFFICES ASSUME ~failed, NEW l \in Leavings, NEW a \in acked
             PROVE  \E v \in Live(Recovered(a.table, l)) : v.id >= a.id
  BY DEF AckedRecoverable
<1>0. Types /\ Control /\ Logged /\ Rows /\ Positions /\ Promised /\ \A t \in Tables : Covered(t)
  BY DEF IInv, LogInv, LogOk
<1>1. PICK t \in Tables, id \in Nat : t = a.table /\ id = a.id /\ Durable(t, id)
  BY <1>0, DueIs
<1>2. Begins(l, log) /\ Len(l) \in stable .. Len(log)
  BY <1>0, LeavingsBegin
<1>3. PICK R : R = Recovered(t, l)
  OBVIOUS
<1>4. /\ R \in SUBSET Versions /\ Sound(R) /\ Closed(R, {})
      /\ \A i \in Nat : Reaches(file[t], {}, i) => Reaches(R, {}, i)
      /\ \A i \in Replayed(t, l) : Reaches(R, {}, log[i].id)
  BY <1>0, <1>2, <1>3, RecoveredSound DEF Rows, File
<1>5. PICK v \in R : id <= v.id
  <2>1. CASE Reaches(file[t], {}, id)
    BY <1>4, <2>1 DEF Reaches
  <2>2. CASE \E i \in At(t) : i <= stable /\ id <= log[i].id
    <3>1. PICK i \in At(t) : i <= stable /\ id <= log[i].id
      BY <2>2
    <3>2. i \in Nat /\ log[i].id \in Nat /\ stable \in Nat /\ i <= Len(l)
      BY <1>0, <1>2, <3>1, AtIs DEF Types
    <3>3. Reaches(R, {}, log[i].id)
      <4>1. CASE i \in Replayed(t, l)
        BY <1>4, <4>1
      <4>2. CASE i \notin Replayed(t, l)
        <5>1. \E k \in 1 .. Len(log) : i < k /\ k <= Len(l) /\ log[k] = Flushed(t)
          BY <1>0, <1>2, <3>2, <4>2, NotReplayed DEF Positions
        <5>2. Reaches(file[t], {}, log[i].id)
          BY <1>0, <5>1 DEF Covered
        <5> QED
          BY <1>4, <3>2, <5>2
      <4> QED
        BY <4>1, <4>2
    <3>4. PICK v \in R : log[i].id <= v.id
      BY <3>3 DEF Reaches
    <3>5. v.id \in Nat
      BY <1>4, BoundsAssumption DEF Versions, Ids
    <3>6. id <= v.id
      BY <3>1, <3>2, <3>4, <3>5
    <3> QED
      BY <3>6
  <2> QED
    BY <1>1, <2>1, <2>2 DEF Durable
<1>6. PICK w \in R : \A x \in R : x.id <= w.id
  BY <1>4, <1>5, LatestOf
<1>7. w.id \in Nat /\ w.xmax \in Nat /\ v.id \in Nat /\ \A x \in R : x.id \in Nat
  BY <1>4, BoundsAssumption DEF Versions, Ids
<1>8. w.xmax = 0
  <2> SUFFICES ASSUME w.xmax # 0 PROVE FALSE
    OBVIOUS
  <2>1. w.id < w.xmax
    BY <1>4 DEF Sound
  <2>2. PICK x \in R : w.xmax <= x.id
    BY <1>4 DEF Closed
  <2> QED
    BY <1>6, <1>7, <2>1, <2>2
<1>9. w \in Live(Recovered(a.table, l)) /\ w.id >= a.id
  BY <1>1, <1>3, <1>5, <1>6, <1>7, <1>8 DEF Live
<1> QED
  BY <1>9

\* Wherever the program stops, a change whose client was told OK is there after the restart, or a later one
\* of its row is, as long as every append and fsync has succeeded: for any number of sessions, tables,
\* shared fsyncs, vacuums, checkpoints, crashes and recoveries in any order.
THEOREM AckedComesBack == Spec => []AckedRecoverable
<1>1. IInv /\ LogInv => AckedRecoverable
  BY AckedIsThere
<1> QED
  BY <1>1, RowsHold, LogHolds, PTL

-----------------------------------------------------------------------------
(* The line of versions of a row: what the replay of the log joins together. *)

\* The versions of R but the latest are ended.
OneLive(R) == \A v, w \in R : v.id < w.id => v.xmax # 0

\* n is the latest of the ids K.
Tip(K, n) == n \in K /\ \A k \in K : k <= n

\* The batches of l at the places A form a line, each ending one before it, and the latest version of the
\* file F is on it, durably, or before it.
Line(F, l, A, st) ==
    /\ \A i, j \in A : i < j => /\ l[i].id <= l[j].ended
                                /\ \E m \in A : i < m /\ m <= j /\ l[m].ended = l[i].id
    /\ OneLive(F)
    /\ \A f \in F, j \in A : (\A v \in F : v.id <= f.id) =>
          IF l[j].id <= f.id THEN \E i \in A : i <= st /\ l[i].id = f.id
          ELSE \E m \in A : m <= j /\ l[m].ended = f.id

\* The ids that a file and the batches at the places A hold.
Held(F, l, A) == {v.id : v \in F} \cup {l[i].id : i \in A}

\* The changes of U, which have no batch yet, continue the line of the ids K, and the versions M in memory
\* are those of both; an open transaction made the latest one.
Continues(M, K, U) ==
    /\ \A v \in M : (\E j \in U : j.id = v.id) \/ \E k \in K : v.id <= k
    /\ \A v \in M : v.xmax = 0 => (\E j \in U : j.id = v.id) \/ Tip(K, v.id)
    /\ \A j \in U :
          /\ \A k \in K : k < j.id
          /\ (\E u \in U : u.id = j.ended) \/ Tip(K, j.ended)
          /\ \A u \in U : u.id < j.id => u.id <= j.ended /\ u.kind = "auto"
          /\ j.kind = "commit" => \A w \in M : w.id <= j.ended \/ w.id = j.id

\* The ids that the file or the log hold of tb, and the changes of it that have no batch yet.
Known(tb) == Held(file[tb], log, At(tb))
Pends(s, tb) == pc[s] # "idle" /\ job[s].table = tb /\ ~job[s].logged
Task(s) == [id |-> job[s].id, ended |-> job[s].ended, kind |-> job[s].kind]
Todo(tb) == {Task(s) : s \in {s \in Sessions : Pends(s, tb)}}

\* What is not durable yet somebody waits for.
Awaited(tb) ==
    \A i \in At(tb) : stable < i => \E s \in Sessions : pc[s] = "appended" /\ job[s].table = tb /\ job[s].id = log[i].id

Queue(tb) ==
    /\ mode # "down" => OneLive(mem[tb])
    /\ mode = "recovering" => \A v \in mem[tb] : \E k \in Known(tb) : v.id <= k
    /\ Serving => Continues(mem[tb], Known(tb), Todo(tb)) /\ Awaited(tb)

OnLine(tb) == Line(file[tb], log, At(tb), stable) /\ Queue(tb)
LineOk ==
    /\ \A tb \in Tables : OnLine(tb)
    /\ \A s \in Sessions : job[s].kind = "auto" => pc[s] \notin {"vacuumed", "marked"}
LineInv == ~failed /\ ~overtaken => LineOk

\* Records of Todo.
Tasks == [id : Nat, ended : Nat, kind : {"auto", "commit"}]

-----------------------------------------------------------------------------
(* What the changes of a row make of its line.                               *)

\* Only the latest of the known ids matters to the changes that continue them.
LEMMA SameTip ==
    ASSUME NEW M \in SUBSET Versions, NEW N \in SUBSET M, NEW K \in SUBSET Nat, NEW L \in SUBSET Nat, NEW U,
           U \subseteq Tasks, \A k \in K : \E n \in L : k <= n, \A n \in L : \E k \in K : n <= k, Continues(M, K, U)
    PROVE  Continues(N, L, U)
<1>0. /\ \A v \in M : v.id \in Nat
      /\ \A j \in U : j.id \in Nat /\ j.ended \in Nat
  BY BoundsAssumption DEF Versions, Ids, Tasks
<1>1. ASSUME NEW n \in Nat, Tip(K, n) PROVE Tip(L, n)
  <2>1. n \in K /\ \A k \in K : k <= n
    BY <1>1 DEF Tip
  <2>2. \A x \in L : x <= n
    <3> TAKE x \in L
    <3>1. PICK k \in K : x <= k
      OBVIOUS
    <3> QED
      BY <2>1, <3>1
  <2>3. PICK x \in L : n <= x
    BY <2>1
  <2>4. x = n
    BY <2>2, <2>3
  <2> QED
    BY <2>2, <2>4 DEF Tip
<1>2. \A v \in N : (\E j \in U : j.id = v.id) \/ \E n \in L : v.id <= n
  <2> TAKE v \in N
  <2>1. CASE \E j \in U : j.id = v.id
    BY <2>1
  <2>2. CASE \E k \in K : v.id <= k
    <3>1. PICK k \in K : v.id <= k
      BY <2>2
    <3>2. PICK n \in L : k <= n
      OBVIOUS
    <3>3. v.id <= n
      BY <1>0, <3>1, <3>2
    <3> QED
      BY <3>3
  <2> QED
    BY <2>1, <2>2 DEF Continues
<1>3. \A v \in N : v.xmax = 0 => (\E j \in U : j.id = v.id) \/ Tip(L, v.id)
  BY <1>0, <1>1 DEF Continues
<1>4. ASSUME NEW j \in U PROVE \A n \in L : n < j.id
  <2> TAKE n \in L
  <2>1. PICK k \in K : n <= k
    OBVIOUS
  <2>2. k < j.id
    BY DEF Continues
  <2> QED
    BY <1>0, <2>1, <2>2
<1>5. \A j \in U : (\E u \in U : u.id = j.ended) \/ Tip(L, j.ended)
  BY <1>0, <1>1 DEF Continues
<1>6. \A j \in U : /\ \A u \in U : u.id < j.id => u.id <= j.ended /\ u.kind = "auto"
                   /\ j.kind = "commit" => \A w \in N : w.id <= j.ended \/ w.id = j.id
  BY DEF Continues
<1> QED
  BY <1>2, <1>3, <1>4, <1>5, <1>6 DEF Continues

\* A version nobody has ended is the latest one.
LEMMA LiveIsLatest ==
    ASSUME NEW R \in SUBSET Versions, OneLive(R), Sound(R), NEW v \in R, v.xmax = 0
    PROVE  /\ \A w \in R : w.id <= v.id
           /\ \A w \in R : w.xmax = 0 => w = v
<1>1. \A w \in R : w.id \in Nat
  BY BoundsAssumption DEF Versions, Ids
<1>2. \A w \in R : ~(v.id < w.id)
  BY DEF OneLive
<1>3. \A w \in R : w.id <= v.id
  BY <1>1, <1>2
<1>4. ASSUME NEW w \in R, w.xmax = 0 PROVE w = v
  <2>1. ~(w.id < v.id)
    BY <1>4 DEF OneLive
  <2>2. w.id = v.id
    BY <1>1, <1>3, <2>1
  <2> QED
    BY <2>2 DEF Sound
<1> QED
  BY <1>3, <1>4

\* An UPDATE ends the latest version and continues the line.
LEMMA UpdateContinues ==
    ASSUME NEW M \in SUBSET Versions, OneLive(M), Sound(M), NEW K \in SUBSET Nat, NEW U, U \subseteq Tasks,
           Continues(M, K, U), NEW v \in M, v.xmax = 0, NEW n \in Nat, n # 0, NEW kind,
           \A w \in M : w.id < n, \A k \in K : k < n,
           \A u \in U : u.kind = "auto" /\ u.id < n /\ \E w \in M : u.id <= w.id,
           NEW r, r = [id |-> n, ended |-> v.id, kind |-> kind],
           NEW N, N = (M \ {v}) \cup {[v EXCEPT !.xmax = n], [id |-> n, xmax |-> 0]}
    PROVE  OneLive(N) /\ Continues(N, K, U \cup {r})
<1>0. /\ \A w \in M : w.id \in Nat
      /\ \A j \in U : j.id \in Nat /\ j.ended \in Nat
      /\ [v EXCEPT !.xmax = n].id = v.id /\ [v EXCEPT !.xmax = n].xmax = n
      /\ [id |-> n, xmax |-> 0].id = n
      /\ r.id = n /\ r.ended = v.id /\ r.kind = kind
  BY BoundsAssumption DEF Versions, Ids, Tasks
<1>1. \A w \in M : w.id <= v.id /\ (w.xmax = 0 => w = v)
  BY LiveIsLatest
<1>2. ASSUME NEW x \in N
      PROVE  /\ x.id \in Nat /\ (x.id = n \/ x.id <= v.id)
             /\ x.xmax = 0 => x.id = n
             /\ x.id = n \/ \E w \in M : w.id = x.id
  BY <1>0, <1>1
<1>3. OneLive(N)
  <2> SUFFICES ASSUME NEW x \in N, NEW y \in N, x.id < y.id, x.xmax = 0 PROVE FALSE
    BY DEF OneLive
  <2>1. x.id = n /\ y.id \in Nat /\ (y.id = n \/ y.id <= v.id)
    BY <1>2
  <2> QED
    BY <1>0, <2>1
<1>4. \A x \in N : (\E j \in U \cup {r} : j.id = x.id) \/ \E k \in K : x.id <= k
  BY <1>0, <1>2 DEF Continues
<1>5. \A x \in N : x.xmax = 0 => (\E j \in U \cup {r} : j.id = x.id) \/ Tip(K, x.id)
  BY <1>0, <1>2
<1>6. ASSUME NEW j \in U \cup {r}
      PROVE  /\ \A k \in K : k < j.id
             /\ (\E u \in U \cup {r} : u.id = j.ended) \/ Tip(K, j.ended)
             /\ \A u \in U \cup {r} : u.id < j.id => u.id <= j.ended /\ u.kind = "auto"
             /\ j.kind = "commit" => \A w \in N : w.id <= j.ended \/ w.id = j.id
  <2>1. CASE j = r
    <3>1. \A u \in U : u.id <= v.id
      <4> TAKE u \in U
      <4>1. PICK w \in M : u.id <= w.id
        OBVIOUS
      <4>2. w.id <= v.id
        BY <1>1
      <4> QED
        BY <1>0, <4>1, <4>2
    <3>2. (\E u \in U : u.id = v.id) \/ Tip(K, v.id)
      BY DEF Continues
    <3>3. \A u \in U \cup {r} : u.id < n => u \in U
      BY <1>0
    <3>4. \A w \in N : w.id <= v.id \/ w.id = n
      BY <1>2
    <3> QED
      BY <1>0, <2>1, <3>1, <3>2, <3>3, <3>4
  <2>2. CASE j \in U
    <3>1. /\ \A k \in K : k < j.id
          /\ (\E u \in U : u.id = j.ended) \/ Tip(K, j.ended)
          /\ \A u \in U : u.id < j.id => u.id <= j.ended /\ u.kind = "auto"
      BY <2>2 DEF Continues
    <3>2. j.kind = "auto" /\ j.id < n
      BY <2>2
    <3>3. \A u \in U \cup {r} : u.id < j.id => u \in U
      BY <1>0, <2>2, <3>2
    <3> QED
      BY <3>1, <3>2, <3>3
  <2> QED
    BY <2>1, <2>2
<1> QED
  BY <1>3, <1>4, <1>5, <1>6 DEF Continues

\* A ROLLBACK gives the line back to the version that the transaction had ended.
LEMMA RollbackContinues ==
    ASSUME NEW M \in SUBSET Versions, OneLive(M), NEW K \in SUBSET Nat, NEW U, U \subseteq Tasks,
           Continues(M, K, U), NEW r \in U, r.kind = "commit", r.ended < r.id,
           \A j \in U : j.ended < j.id, \A j \in U : j.id = r.id => j = r,
           \A v \in M : v.xmax = r.id => v.id = r.ended,
           NEW N, \A x \in N : \E v \in M : v.id # r.id /\ x = IF v.xmax = r.id THEN [v EXCEPT !.xmax = 0] ELSE v
    PROVE  OneLive(N) /\ Continues(N, K, U \ {r})
<1>0. /\ \A w \in M : w.id \in Nat
      /\ \A j \in U : j.id \in Nat /\ j.ended \in Nat
  BY BoundsAssumption DEF Versions, Ids, Tasks
<1>1. ASSUME NEW x \in N
      PROVE  \E v \in M : /\ v.id = x.id /\ x.id # r.id /\ x.id <= r.ended
                          /\ x.xmax = v.xmax \/ (v.xmax = r.id /\ x.id = r.ended)
  <2>1. PICK v \in M : v.id # r.id /\ x = IF v.xmax = r.id THEN [v EXCEPT !.xmax = 0] ELSE v
    OBVIOUS
  <2>2. x.id = v.id
    BY <2>1 DEF Versions
  <2>3. v.id <= r.ended
    BY <2>1 DEF Continues
  <2> QED
    BY <2>1, <2>2, <2>3
<1>2. OneLive(N)
  <2> SUFFICES ASSUME NEW x \in N, NEW y \in N, x.id < y.id PROVE x.xmax # 0
    BY DEF OneLive
  <2>1. PICK v \in M : v.id = x.id /\ (x.xmax = v.xmax \/ x.id = r.ended)
    BY <1>1
  <2>2. PICK w \in M : w.id = y.id /\ y.id <= r.ended
    BY <1>1
  <2>3. x.id # r.ended
    BY <1>0, <2>1, <2>2
  <2>4. v.xmax # 0
    BY <2>1, <2>2 DEF OneLive
  <2> QED
    BY <2>1, <2>3, <2>4
<1>3. \A x \in N : (\E j \in U \ {r} : j.id = x.id) \/ \E k \in K : x.id <= k
  <2> TAKE x \in N
  <2>1. PICK v \in M : v.id = x.id /\ x.id # r.id
    BY <1>1
  <2>2. (\E j \in U : j.id = v.id) \/ \E k \in K : v.id <= k
    BY DEF Continues
  <2> QED
    BY <2>1, <2>2
<1>4. (\E j \in U \ {r} : j.id = r.ended) \/ Tip(K, r.ended)
  <2>1. (\E j \in U : j.id = r.ended) \/ Tip(K, r.ended)
    BY DEF Continues
  <2>2. r.ended # r.id
    BY <1>0
  <2> QED
    BY <2>1, <2>2
<1>5. \A x \in N : x.xmax = 0 => (\E j \in U \ {r} : j.id = x.id) \/ Tip(K, x.id)
  <2> TAKE x \in N
  <2> HAVE x.xmax = 0
  <2>1. PICK v \in M : v.id = x.id /\ x.id # r.id /\ (x.xmax = v.xmax \/ x.id = r.ended)
    BY <1>1
  <2>2. CASE x.id = r.ended
    BY <1>4, <2>2
  <2>3. CASE x.xmax = v.xmax
    <3>1. (\E j \in U : j.id = v.id) \/ Tip(K, v.id)
      BY <2>3 DEF Continues
    <3> QED
      BY <2>1, <3>1
  <2> QED
    BY <2>1, <2>2, <2>3
<1>6. ASSUME NEW j \in U \ {r}
      PROVE  /\ \A k \in K : k < j.id
             /\ (\E u \in U \ {r} : u.id = j.ended) \/ Tip(K, j.ended)
             /\ \A u \in U \ {r} : u.id < j.id => u.id <= j.ended /\ u.kind = "auto"
             /\ j.kind = "commit" => \A w \in N : w.id <= j.ended \/ w.id = j.id
  <2>1. /\ \A k \in K : k < j.id
        /\ (\E u \in U : u.id = j.ended) \/ Tip(K, j.ended)
        /\ \A u \in U : u.id < j.id => u.id <= j.ended /\ u.kind = "auto"
        /\ j.kind = "commit" => \A w \in M : w.id <= j.ended \/ w.id = j.id
    BY DEF Continues
  <2>2. ~(r.id < j.id)
    BY <2>1
  <2>3. r.id # j.ended
    BY <1>0, <2>2
  <2>4. j.kind = "commit" => \A w \in N : w.id <= j.ended \/ w.id = j.id
    BY <1>1, <2>1
  <2> QED
    BY <2>1, <2>3, <2>4
<1> QED
  BY <1>2, <1>3, <1>5, <1>6 DEF Continues

\* The first of the changes goes to the log: the others continue from it.
LEMMA FirstContinues ==
    ASSUME NEW M \in SUBSET Versions, OneLive(M), NEW K \in SUBSET Nat, NEW U, U \subseteq Tasks,
           Continues(M, K, U), NEW r \in U, r.ended < r.id,
           \A j \in U \ {r} : r.id < j.id, \E w \in M : r.id <= w.id
    PROVE  Continues(M, K \cup {r.id}, U \ {r}) /\ Tip(K, r.ended)
<1>0. /\ \A w \in M : w.id \in Nat
      /\ \A j \in U : j.id \in Nat /\ j.ended \in Nat
  BY BoundsAssumption DEF Versions, Ids, Tasks
<1> DEFINE L == K \cup {r.id}
<1>1. \A k \in K : k < r.id
  BY DEF Continues
<1>2. Tip(L, r.id)
  BY <1>0, <1>1 DEF Tip
<1>3. Tip(K, r.ended)
  <2>1. (\E j \in U : j.id = r.ended) \/ Tip(K, r.ended)
    BY DEF Continues
  <2>2. \A j \in U : j.id # r.ended
    BY <1>0
  <2> QED
    BY <2>1, <2>2
<1>4. \A v \in M : (\E j \in U \ {r} : j.id = v.id) \/ \E k \in L : v.id <= k
  <2> TAKE v \in M
  <2>1. (\E j \in U : j.id = v.id) \/ \E k \in K : v.id <= k
    BY DEF Continues
  <2>2. r.id <= r.id
    BY <1>0
  <2> QED
    BY <2>1, <2>2
<1>5. \A v \in M : v.xmax = 0 => (\E j \in U \ {r} : j.id = v.id) \/ Tip(L, v.id)
  <2> TAKE v \in M
  <2> HAVE v.xmax = 0
  <2>1. (\E j \in U : j.id = v.id) \/ Tip(K, v.id)
    BY DEF Continues
  <2>2. ~Tip(K, v.id)
    <3> SUFFICES ASSUME Tip(K, v.id) PROVE FALSE
      OBVIOUS
    <3>1. v.id < r.id
      BY <1>1 DEF Tip
    <3>2. PICK w \in M : r.id <= w.id
      OBVIOUS
    <3>3. v.id < w.id
      BY <1>0, <3>1, <3>2
    <3> QED
      BY <3>3 DEF OneLive
  <2> QED
    BY <1>2, <2>1, <2>2
<1>6. ASSUME NEW j \in U \ {r}
      PROVE  /\ \A k \in L : k < j.id
             /\ (\E u \in U \ {r} : u.id = j.ended) \/ Tip(L, j.ended)
             /\ \A u \in U \ {r} : u.id < j.id => u.id <= j.ended /\ u.kind = "auto"
             /\ j.kind = "commit" => \A w \in M : w.id <= j.ended \/ w.id = j.id
  <2>1. /\ \A k \in K : k < j.id
        /\ (\E u \in U : u.id = j.ended) \/ Tip(K, j.ended)
        /\ \A u \in U : u.id < j.id => u.id <= j.ended /\ u.kind = "auto"
        /\ j.kind = "commit" => \A w \in M : w.id <= j.ended \/ w.id = j.id
    BY DEF Continues
  <2>2. r.id < j.id /\ r.id <= j.ended
    BY <2>1
  <2>3. ~Tip(K, j.ended)
    <3> SUFFICES ASSUME Tip(K, j.ended) PROVE FALSE
      OBVIOUS
    <3>1. j.ended < r.id
      BY <1>1 DEF Tip
    <3> QED
      BY <1>0, <2>2, <3>1
  <2>4. (\E u \in U \ {r} : u.id = j.ended) \/ Tip(L, j.ended)
    BY <1>2, <2>1, <2>3
  <2> QED
    BY <2>1, <2>2, <2>4
<1> HIDE DEF L
<1>7. Continues(M, L, U \ {r})
  BY <1>4, <1>5, <1>6 DEF Continues
<1> QED
  BY <1>3, <1>7 DEF L

-----------------------------------------------------------------------------
(* The line in the log.                                                      *)

\* l is a log whose batches at the places A are well formed.
Batches(l, A) == A \subseteq Nat /\ \A i \in A : l[i].id \in Nat /\ l[i].ended \in Nat /\ l[i].ended < l[i].id

LEMMA HeldIs ==
    ASSUME NEW F \in SUBSET Versions, NEW l, NEW A, Batches(l, A)
    PROVE  Held(F, l, A) \in SUBSET Nat /\ \A v \in F : v.id \in Nat
<1>1. \A v \in F : v.id \in Nat
  BY BoundsAssumption DEF Versions, Ids
<1>2. \A i \in A : l[i].id \in Nat
  BY DEF Batches
<1> QED
  BY <1>1, <1>2 DEF Held

\* The ids grow along the log.
LEMMA LineGrows ==
    ASSUME NEW F, NEW l, NEW A, NEW st, Batches(l, A), Line(F, l, A, st), NEW i \in A, NEW j \in A
    PROVE  /\ i < j => l[i].id < l[j].id
           /\ l[i].id < l[j].id => i < j
           /\ l[i].id = l[j].id => i = j
<1>1. i \in Nat /\ j \in Nat /\ l[i].id \in Nat /\ l[j].id \in Nat /\ l[i].ended \in Nat /\ l[j].ended \in Nat
      /\ l[i].ended < l[i].id /\ l[j].ended < l[j].id
  BY DEF Batches
<1>2. (i < j => l[i].id <= l[j].ended) /\ (j < i => l[j].id <= l[i].ended)
  BY DEF Line
<1> QED
  BY <1>1, <1>2

\* The latest of the ids is in the log, or there is nothing of the row in it but what is older than the file.
LEMMA TipIsLogged ==
    ASSUME NEW F \in SUBSET Versions, NEW l, NEW A, NEW st, Batches(l, A), Line(F, l, A, st),
           NEW n \in Nat, Tip(Held(F, l, A), n), NEW j \in A
    PROVE  \E i \in A : l[i].id = n
<1>0. \A v \in F : v.id \in Nat
  BY HeldIs
<1>1. n \in Held(F, l, A) /\ (\A v \in F : v.id <= n) /\ l[j].id <= n
  BY DEF Tip, Held
<1>2. CASE \E i \in A : l[i].id = n
  BY <1>2
<1>3. CASE \E f \in F : f.id = n
  BY <1>1, <1>3 DEF Line
<1> QED
  BY <1>1, <1>2, <1>3 DEF Held

\* A batch that ends the latest of the ids goes on the line.
LEMMA BatchJoinsLine ==
    ASSUME NEW F \in SUBSET Versions, NEW l, NEW A, NEW st, Batches(l, A), Line(F, l, A, st),
           NEW k, NEW n \in Nat, \A i \in A : i < n /\ k[i] = l[i],
           k[n].id \in Nat, k[n].ended \in Nat, k[n].ended < k[n].id, Tip(Held(F, l, A), k[n].ended)
    PROVE  Line(F, k, A \cup {n}, st)
<1> DEFINE e == k[n].ended
           B == A \cup {n}
<1>0. /\ \A v \in F : v.id \in Nat
      /\ \A i \in A : i \in Nat /\ l[i].id \in Nat /\ l[i].ended \in Nat
  BY HeldIs DEF Batches
<1>1. /\ e \in Held(F, l, A) /\ \A v \in F : v.id <= e
      /\ \A i \in A : l[i].id <= e
  BY DEF Tip, Held
<1>2. ASSUME NEW i \in A PROVE \E m \in B : i < m /\ m <= n /\ k[m].ended = l[i].id
  <2>1. PICK t \in A : l[t].id = e
    BY TipIsLogged
  <2>2. CASE t = i
    BY <2>1, <2>2, <1>0
  <2>3. CASE t # i
    <3>1. l[i].id < l[t].id
      <4>1. l[i].id # l[t].id
        BY <2>3, LineGrows
      <4> QED
        BY <1>0, <1>1, <2>1, <4>1
    <3>2. i < t
      BY <3>1, LineGrows
    <3>3. PICK m \in A : i < m /\ m <= t /\ l[m].ended = l[i].id
      BY <3>2 DEF Line
    <3>4. m <= n
      BY <1>0
    <3> QED
      BY <3>3, <3>4
  <2> QED
    BY <2>2, <2>3
<1>3. \A i, j \in B : i < j => /\ k[i].id <= k[j].ended
                               /\ \E m \in B : i < m /\ m <= j /\ k[m].ended = k[i].id
  <2> SUFFICES ASSUME NEW i \in B, NEW j \in B, i < j
               PROVE  /\ k[i].id <= k[j].ended
                      /\ \E m \in B : i < m /\ m <= j /\ k[m].ended = k[i].id
    OBVIOUS
  <2>1. i \in A
    BY <1>0
  <2>2. CASE j \in A
    <3>1. l[i].id <= l[j].ended /\ \E m \in A : i < m /\ m <= j /\ l[m].ended = l[i].id
      BY <2>1, <2>2 DEF Line
    <3> QED
      BY <2>1, <2>2, <3>1
  <2>3. CASE j = n
    BY <1>1, <1>2, <2>1, <2>3
  <2> QED
    BY <2>2, <2>3
<1>4. ASSUME NEW f \in F, NEW j \in B, \A v \in F : v.id <= f.id
      PROVE  IF k[j].id <= f.id THEN \E i \in B : i <= st /\ k[i].id = f.id
             ELSE \E m \in B : m <= j /\ k[m].ended = f.id
  <2>1. CASE j \in A
    <3>1. IF l[j].id <= f.id THEN \E i \in A : i <= st /\ l[i].id = f.id
          ELSE \E m \in A : m <= j /\ l[m].ended = f.id
      BY <1>4, <2>1 DEF Line
    <3> QED
      BY <2>1, <3>1
  <2>2. CASE j = n
    <3>1. f.id <= e /\ ~(k[n].id <= f.id)
      BY <1>0, <1>1
    <3>2. CASE f.id = e
      BY <2>2, <3>1, <3>2
    <3>3. CASE f.id # e
      <4>1. PICK t \in A : l[t].id = e
        <5>1. \A v \in F : v.id # e
          BY <1>0, <1>4, <3>1, <3>3
        <5> QED
          BY <1>1, <5>1 DEF Held
      <4>2. ~(l[t].id <= f.id)
        BY <1>0, <3>1, <3>3, <4>1
      <4>3. PICK m \in A : m <= t /\ l[m].ended = f.id
        BY <1>4, <4>2 DEF Line
      <4>4. m <= n
        BY <1>0
      <4> QED
        BY <2>2, <3>1, <4>3, <4>4
    <3> QED
      BY <3>2, <3>3
  <2> QED
    BY <2>1, <2>2
<1> HIDE DEF B
<1>5. OneLive(F)
  BY DEF Line
<1>6. Line(F, k, B, st)
  BY <1>3, <1>4, <1>5 DEF Line
<1> QED
  BY <1>6 DEF B

\* A file whose latest version is the latest of all may take the place of the file, once the log is durable.
LEMMA FileJoinsLine ==
    ASSUME NEW F \in SUBSET Versions, NEW l, NEW A, NEW st, Batches(l, A), Line(F, l, A, st), \A i \in A : i <= st,
           NEW G \in SUBSET Versions, OneLive(G), NEW f \in G, \A v \in G : v.id <= f.id, Tip(Held(F, l, A), f.id)
    PROVE  /\ Line(G, l, A, st)
           /\ \A k \in Held(F, l, A) : \E n \in Held(G, l, A) : k <= n
           /\ \A n \in Held(G, l, A) : \E k \in Held(F, l, A) : n <= k
<1>0. /\ \A v \in G : v.id \in Nat
      /\ \A i \in A : l[i].id \in Nat
  BY HeldIs DEF Batches
<1>1. /\ f.id \in Held(F, l, A) /\ f.id \in Held(G, l, A)
      /\ \A k \in Held(F, l, A) : k <= f.id
  BY DEF Tip, Held
<1>2. \A n \in Held(G, l, A) : n <= f.id
  BY <1>1 DEF Held
<1>3. ASSUME NEW g \in G, NEW j \in A, \A v \in G : v.id <= g.id
      PROVE  l[j].id <= g.id /\ \E i \in A : i <= st /\ l[i].id = g.id
  <2>1. g.id = f.id
    <3>1. g.id <= f.id /\ f.id <= g.id
      BY <1>3
    <3> QED
      BY <1>0, <3>1
  <2>2. \E i \in A : l[i].id = f.id
    BY <1>0, TipIsLogged
  <2>3. l[j].id <= f.id
    BY <1>1 DEF Held
  <2> QED
    BY <2>1, <2>2, <2>3
<1>4. Line(G, l, A, st)
  BY <1>3 DEF Line
<1> QED
  BY <1>1, <1>2, <1>4

-----------------------------------------------------------------------------
(* What is recovered of a line.                                              *)

\* The ids and the places of a table.
LEMMA KnownIs ==
    ASSUME Types, Logged, NEW tb \in Tables
    PROVE  /\ Batches(log, At(tb)) /\ Known(tb) \in SUBSET Nat /\ file[tb] \in SUBSET Versions
           /\ \A v \in file[tb] : v.id \in Nat
           /\ stable \in Nat /\ Len(log) \in Nat /\ stable <= Len(log)
<1>1. Batches(log, At(tb))
  BY AtIs DEF Batches
<1>2. file[tb] \in SUBSET Versions /\ stable \in Nat /\ Len(log) \in Nat /\ stable <= Len(log)
  BY DEF Types
<1> QED
  BY <1>1, <1>2, HeldIs DEF Known

\* What follows a batch that is replayed is replayed.
LEMMA ReplayedOn ==
    ASSUME Types, Logged, \A i \in 1 .. Len(log) : log[i].kind # "torn", NEW l, Begins(l, log),
           NEW tb \in Tables, NEW i \in Replayed(tb, l), NEW m \in At(tb), i < m, m <= Len(l)
    PROVE  m \in Replayed(tb, l)
<1> SUFFICES ASSUME m \notin Replayed(tb, l) PROVE FALSE
  OBVIOUS
<1>1. PICK k \in 1 .. Len(log) : m < k /\ k <= Len(l) /\ log[k] = Flushed(tb)
  BY NotReplayed
<1>2. log \in Seq(Entries) /\ l \in Seq(Entries) /\ Len(l) <= Len(log) /\ \A x \in 1 .. Len(l) : l[x] = log[x]
  BY DEF Types, Begins
<1>3. \A x \in 1 .. Len(l) : l[x].kind # "torn"
  BY <1>2
<1>4. Intact(l) = l
  BY <1>2, <1>3, IntactBegins
<1>5. i \in 1 .. Len(l) /\ \A x \in i .. Len(l) : l[x] # Flushed(tb)
  BY <1>4 DEF Replayed, Relevant
<1>6. m \in Nat
  BY AtIs
<1>7. k \in i .. Len(l) /\ l[k] = log[k]
  BY <1>1, <1>2, <1>5, <1>6
<1> QED
  BY <1>1, <1>5, <1>7

\* Every batch on the line ends the one before it, so that the replay leaves the latest alive, and none else.
LEMMA RecoveredOne ==
    ASSUME IInv, LogOk, NEW tb \in Tables, Line(file[tb], log, At(tb), stable), NEW l, Begins(l, log), stable <= Len(l),
           NEW R, R = Recovered(tb, l)
    PROVE  OneLive(R)
<1>0. Types /\ Logged /\ Covered(tb) /\ File(tb) /\ \A i \in 1 .. Len(log) : log[i].kind # "torn"
  BY DEF IInv, LogOk, Rows, Positions
<1>1. Sound(file[tb]) /\ Closed(file[tb], {})
  BY <1>0 DEF File
<1> DEFINE at == Replayed(tb, l)
<1>2. /\ at \subseteq At(tb) /\ (\A i \in at : i <= Len(l))
      /\ Replays(R, file[tb], log, at)
  BY <1>0, RecoveredIs
<1>3. /\ R \in SUBSET Versions
      /\ \A w \in R : (\E v \in file[tb] : w.id = v.id) \/ \E i \in at : w.id = log[i].id
  BY <1>0, <1>1, RecoveredSound
<1>4. /\ Batches(log, At(tb)) /\ file[tb] \in SUBSET Versions /\ stable \in Nat
      /\ \A v \in file[tb] : v.id \in Nat
  BY <1>0, KnownIs
<1>5. /\ \A i \in At(tb) : i \in Nat /\ log[i].id \in Nat /\ log[i].ended \in Nat /\ log[i].ended < log[i].id
      /\ \A w \in R : w.id \in Nat
      /\ Len(l) \in Nat
  BY <1>3, <1>4, BoundsAssumption DEF Batches, Versions, Ids, Begins
<1>6. OneLive(file[tb])
  BY DEF Line
<1> SUFFICES ASSUME NEW w \in R, NEW x \in R, w.id < x.id, w.xmax = 0 PROVE FALSE
  BY DEF OneLive
<1> HIDE DEF at
<1>7. \A i \in at : log[i].ended # w.id
  BY <1>2 DEF Replays
<1>8. \/ w \in file[tb]
      \/ \E i \in at : log[i].id = w.id
  BY <1>2, <1>7 DEF Replays
<1>9. CASE w \in file[tb]
  <2>1. \A v \in file[tb] : v.id <= w.id
    <3>1. \A v \in file[tb] : ~(w.id < v.id)
      BY <1>6, <1>9 DEF OneLive
    <3> QED
      BY <1>4, <1>9, <3>1
  <2>2. PICK j \in at : x.id = log[j].id
    BY <1>3, <1>5, <2>1
  <2>3. j \in At(tb) /\ ~(log[j].id <= w.id)
    BY <1>2, <1>5, <2>2
  <2>4. PICK m \in At(tb) : m <= j /\ log[m].ended = w.id
    BY <1>9, <2>1, <2>3 DEF Line
  <2>5. m \in at
    <3> SUFFICES ASSUME m \notin at PROVE FALSE
      OBVIOUS
    <3>1. m <= Len(l)
      BY <1>2, <1>5, <2>3, <2>4
    <3>2. PICK k \in 1 .. Len(log) : m < k /\ k <= Len(l) /\ log[k] = Flushed(tb)
      BY <1>0, <3>1, NotReplayed DEF at
    <3>3. Reaches(file[tb], {}, log[m].id)
      BY <1>0, <3>2 DEF Covered
    <3>4. PICK v \in file[tb] : log[m].id <= v.id
      BY <3>3 DEF Reaches
    <3> QED
      BY <1>4, <1>5, <2>1, <2>4, <3>4
  <2> QED
    BY <1>7, <2>4, <2>5
<1>10. ASSUME NEW i \in at, log[i].id = w.id, NEW t \in At(tb), w.id < log[t].id, t <= Len(l) PROVE FALSE
  <2>1. i \in At(tb)
    BY <1>2
  <2>2. i < t
    BY <1>4, <1>10, <2>1, LineGrows
  <2>3. PICK m \in At(tb) : i < m /\ m <= t /\ log[m].ended = log[i].id
    BY <2>1, <2>2 DEF Line
  <2>4. m <= Len(l)
    BY <1>5, <1>10, <2>3
  <2>5. m \in at
    BY <1>0, <1>10, <2>3, <2>4, ReplayedOn DEF at
  <2> QED
    BY <1>7, <1>10, <2>3, <2>5
<1>11. CASE w \notin file[tb]
  <2>1. PICK i \in at : log[i].id = w.id
    BY <1>8, <1>11
  <2>2. CASE \E j \in at : x.id = log[j].id
    BY <1>2, <1>10, <2>1, <2>2
  <2>3. CASE \E v \in file[tb] : x.id = v.id
    <3>1. PICK v \in file[tb] : x.id = v.id
      BY <2>3
    <3>2. PICK f \in file[tb] : \A y \in file[tb] : y.id <= f.id
      BY <1>4, <3>1, LatestOf
    <3>3. v.id <= f.id
      BY <3>2
    <3>4. i \in At(tb) /\ log[i].id <= f.id /\ w.id < f.id
      BY <1>2, <1>4, <1>5, <2>1, <3>1, <3>3
    <3>5. PICK t \in At(tb) : t <= stable /\ log[t].id = f.id
      BY <3>2, <3>4 DEF Line
    <3>6. t <= Len(l)
      BY <1>4, <1>5, <3>5
    <3> QED
      BY <1>10, <2>1, <3>4, <3>5, <3>6
  <2> QED
    BY <1>3, <2>2, <2>3
<1> QED
  BY <1>9, <1>11

\* One version is alive of a set that has a latest one and no other alive.
LEMMA OneOfThem ==
    ASSUME NEW R \in SUBSET Versions, Sound(R), Closed(R, {}), OneLive(R)
    PROVE  Cardinality(Live(R)) = 1
<1>1. PICK w \in R : \A x \in R : x.id <= w.id
  BY LatestOf DEF Closed
<1>2. w.id \in Nat /\ w.xmax \in Nat /\ \A x \in R : x.id \in Nat
  BY BoundsAssumption DEF Versions, Ids
<1>3. w.xmax = 0
  <2> SUFFICES ASSUME w.xmax # 0 PROVE FALSE
    OBVIOUS
  <2>1. w.id < w.xmax
    BY DEF Sound
  <2>2. PICK x \in R : w.xmax <= x.id
    BY DEF Closed
  <2> QED
    BY <1>1, <1>2, <2>1, <2>2
<1>4. Live(R) = {w}
  BY <1>3, LiveIsLatest DEF Live
<1> QED
  BY <1>4, FS_Singleton

LEMMA RecoversOne ==
    ASSUME IInv, LogInv, LineInv
    PROVE  RecoversOneVersion
<1> SUFFICES ASSUME ~failed, ~overtaken, NEW l \in Leavings, NEW tb \in Tables
             PROVE  Cardinality(Live(Recovered(tb, l))) = 1
  BY DEF RecoversOneVersion
<1>0. Types /\ Logged /\ Rows /\ LogOk /\ Line(file[tb], log, At(tb), stable)
  BY DEF IInv, LogInv, LineInv, LineOk, OnLine
<1>1. Begins(l, log) /\ Len(l) \in stable .. Len(log) /\ stable \in Nat
  BY <1>0, LeavingsBegin DEF Types
<1>2. stable <= Len(l)
  BY <1>1
<1>3. PICK R : R = Recovered(tb, l)
  OBVIOUS
<1>4. OneLive(R)
  BY <1>0, <1>1, <1>2, <1>3, RecoveredOne
<1>5. R \in SUBSET Versions /\ Sound(R) /\ Closed(R, {})
  BY <1>0, <1>1, <1>3, RecoveredSound DEF Rows, File
<1> QED
  BY <1>3, <1>4, <1>5, OneOfThem

-----------------------------------------------------------------------------
(* Steps that leave the line of a table alone.                               *)

LEMMA LineOn ==
    ASSUME NEW F, NEW l, NEW k, NEW A, A \subseteq Nat, NEW st \in Nat, NEW up \in Nat, st <= up,
           Line(F, l, A, st), \A i \in A : k[i] = l[i]
    PROVE  Line(F, k, A, up) /\ Held(F, k, A) = Held(F, l, A)
<1>1. Held(F, k, A) = Held(F, l, A)
  BY DEF Held
<1>2. \A i, j \in A : i < j => /\ k[i].id <= k[j].ended
                               /\ \E m \in A : i < m /\ m <= j /\ k[m].ended = k[i].id
  <2> SUFFICES ASSUME NEW i \in A, NEW j \in A, i < j
               PROVE  k[i].id <= k[j].ended /\ \E m \in A : i < m /\ m <= j /\ k[m].ended = k[i].id
    OBVIOUS
  <2>1. l[i].id <= l[j].ended /\ \E m \in A : i < m /\ m <= j /\ l[m].ended = l[i].id
    BY DEF Line
  <2>2. k[i] = l[i] /\ k[j] = l[j]
    OBVIOUS
  <2> QED
    BY <2>1, <2>2
<1>3. \A i \in A : i <= st => i <= up
  OBVIOUS
<1>4. \A f \in F, j \in A : (\A v \in F : v.id <= f.id) =>
          IF k[j].id <= f.id THEN \E i \in A : i <= up /\ k[i].id = f.id
          ELSE \E m \in A : m <= j /\ k[m].ended = f.id
  <2> SUFFICES ASSUME NEW f \in F, NEW j \in A, \A v \in F : v.id <= f.id
               PROVE  IF k[j].id <= f.id THEN \E i \in A : i <= up /\ k[i].id = f.id
                      ELSE \E m \in A : m <= j /\ k[m].ended = f.id
    OBVIOUS
  <2>1. IF l[j].id <= f.id THEN \E i \in A : i <= st /\ l[i].id = f.id
        ELSE \E m \in A : m <= j /\ l[m].ended = f.id
    BY DEF Line
  <2> QED
    BY <1>3, <2>1
<1>5. OneLive(F)
  BY DEF Line
<1> QED
  BY <1>1, <1>2, <1>4, <1>5 DEF Line

LEMMA TodoSame ==
    ASSUME NEW tb, \A u \in Sessions : (Pends(u, tb)' <=> Pends(u, tb)) /\ (Pends(u, tb) => Task(u)' = Task(u))
    PROVE  Todo(tb)' = Todo(tb)
BY DEF Todo

LEMMA AwaitedSame ==
    ASSUME Types, Logged, NEW tb \in Tables, Line(file[tb], log, At(tb), stable), Awaited(tb), At(tb)' = At(tb),
           \A i \in At(tb) : log'[i] = log[i], stable' \in Nat, stable <= stable',
           \A u \in Sessions : pc[u] = "appended" /\ job[u].table = tb =>
              \/ pc'[u] = "appended" /\ job'[u].table = tb /\ job'[u].id = job[u].id
              \/ \E p \in At(tb) : p <= stable' /\ log[p].id = job[u].id
    PROVE  Awaited(tb)'
<1>1. Batches(log, At(tb)) /\ stable \in Nat
  BY KnownIs
<1>2. \A i \in At(tb) : i \in Nat
  BY <1>1 DEF Batches
<1> SUFFICES ASSUME NEW i \in At(tb), stable' < i
             PROVE  \E u \in Sessions : pc'[u] = "appended" /\ job'[u].table = tb /\ job'[u].id = log[i].id
  BY DEF Awaited
<1>3. stable < i
  BY <1>1, <1>2
<1>4. PICK u \in Sessions : pc[u] = "appended" /\ job[u].table = tb /\ job[u].id = log[i].id
  BY <1>3 DEF Awaited
<1>5. ASSUME NEW p \in At(tb), p <= stable', log[p].id = job[u].id PROVE FALSE
  <2>1. p = i
    BY <1>1, <1>4, <1>5, LineGrows
  <2> QED
    BY <1>2, <1>5, <2>1
<1> QED
  BY <1>4, <1>5

\* A table of which a step changes neither the versions, the batches nor the changes to come.
LEMMA LineSame ==
    ASSUME Types, Logged, NEW tb \in Tables, OnLine(tb), Serving, mode' \in {"up", "checkpoint"},
           mem'[tb] = mem[tb], file'[tb] = file[tb], At(tb)' = At(tb), \A i \in At(tb) : log'[i] = log[i],
           stable' \in Nat, stable <= stable', Todo(tb)' = Todo(tb), Awaited(tb)'
    PROVE  OnLine(tb)'
<1>1. At(tb) \subseteq Nat /\ stable \in Nat
  BY KnownIs DEF Batches
<1>2. Line(file[tb], log, At(tb), stable) /\ Queue(tb)
  BY DEF OnLine
<1>a. PICK F, A, l, st : F = file[tb] /\ A = At(tb) /\ l = log /\ st = stable
  OBVIOUS
<1>b. PICK k, up : k = log' /\ up = stable'
  OBVIOUS
<1>3. Line(file[tb], log', At(tb), stable') /\ Held(file[tb], log', At(tb)) = Held(file[tb], log, At(tb))
  <2>1. A \subseteq Nat /\ st \in Nat /\ up \in Nat /\ st <= up /\ Line(F, l, A, st) /\ \A i \in A : k[i] = l[i]
    BY <1>1, <1>2, <1>a, <1>b
  <2>2. Line(F, k, A, up) /\ Held(F, k, A) = Held(F, l, A)
    BY <2>1, LineOn
  <2> QED
    BY <2>2, <1>a, <1>b
<1>4. Line(file[tb], log, At(tb), stable)' /\ Known(tb)' = Known(tb)
  BY <1>3 DEF Known
<1>5. OneLive(mem[tb])' /\ Continues(mem[tb], Known(tb), Todo(tb))'
  <2>1. OneLive(mem[tb]) /\ Continues(mem[tb], Known(tb), Todo(tb))
    BY <1>2 DEF Queue, Serving
  <2> QED
    BY <1>4, <2>1
<1>6. mode' # "recovering"
  OBVIOUS
<1> QED
  BY <1>4, <1>5, <1>6 DEF OnLine, Queue

\* What a change has that has no batch yet.
LEMMA PendsIs ==
    ASSUME IInv, LogOk, NEW tb \in Tables, NEW s \in Sessions, Pends(s, tb)
    PROVE  /\ Task(s) \in Tasks /\ Task(s).ended < Task(s).id
           /\ Task(s).id = job[s].id /\ Task(s).ended = job[s].ended /\ Task(s).kind = job[s].kind
           /\ job[s].kind = "commit" => InOpen(s) /\ pc[s] \notin {"appended", "durable"}
           /\ job[s].kind = "auto" => pc[s] \in {"changed", "vacuumed", "marked"}
           /\ Serving /\ job[s].id < next_id
           /\ \E w \in mem[tb] : job[s].id <= w.id
<1>0. Types /\ Control /\ Rows /\ Positions
  BY DEF IInv, LogOk
<1>1. /\ pc[s] # "idle" /\ job[s].table = tb /\ ~job[s].logged
  BY DEF Pends
<1>2. /\ Placed(s) /\ pc[s] \in Steps /\ job[s].kind \in {"auto", "commit"} /\ job[s].id \in Nat /\ job[s].ended \in Nat
      /\ job[s].committing \in BOOLEAN /\ job[s].id < next_id
  BY <1>0, <1>1, JobIs
<1>3. job[s].ended < job[s].id /\ Serving
  BY <1>1, <1>2 DEF Placed
<1>4. /\ Task(s).id = job[s].id /\ Task(s).ended = job[s].ended /\ Task(s).kind = job[s].kind /\ Task(s) \in Tasks
  BY <1>2 DEF Task, Tasks
<1>5. pc[s] \notin {"appended", "durable", "finished"} /\ ~(pc[s] \in {"vacuumed", "marked"} /\ job[s].committing)
  BY <1>0, <1>1 DEF Positions, IsLogged
<1>6. job[s].kind = "commit" => InOpen(s)
  BY <1>1, <1>2, <1>5 DEF InOpen, Steps, InCall
<1>7. job[s].kind = "auto" => pc[s] \in {"changed", "vacuumed", "marked"}
  BY <1>2, <1>5 DEF Placed, InCall
<1>8. \E w \in mem[tb] : job[s].id <= w.id
  <2>1. Memory(tb)
    BY <1>0, <1>3 DEF Rows, Serving
  <2>2. CASE InOpen(s)
    <3>1. [id |-> job[s].id, xmax |-> 0] \in mem[tb]
      BY <1>1, <1>3, <2>1, <2>2 DEF Memory
    <3>2. job[s].id <= [id |-> job[s].id, xmax |-> 0].id
      BY <1>2
    <3> QED
      BY <3>1, <3>2
  <2>3. CASE ~InOpen(s)
    <3>1. Reaches(mem[tb], open, job[s].id)
      BY <1>1, <1>3, <2>1, <2>3 DEF Memory
    <3> QED
      BY <3>1 DEF Reaches
  <2> QED
    BY <2>2, <2>3
<1> QED
  BY <1>2, <1>3, <1>4, <1>5, <1>6, <1>7, <1>8

LEMMA TodoIs ==
    ASSUME IInv, LogOk, NEW tb \in Tables
    PROVE  /\ Todo(tb) \subseteq Tasks
           /\ \A r \in Todo(tb) : r.ended < r.id /\ \E s \in Sessions : Pends(s, tb) /\ r = Task(s)
           /\ \A s, u \in Sessions : Pends(s, tb) /\ Pends(u, tb) /\ Task(s).id = Task(u).id => s = u
<1>1. \A s \in Sessions : Pends(s, tb) => Task(s) \in Tasks /\ Task(s).ended < Task(s).id /\ Task(s).id = job[s].id
  BY PendsIs
<1>2. \A s, u \in Sessions : Pends(s, tb) /\ Pends(u, tb) /\ Task(s).id = Task(u).id => s = u
  BY <1>1 DEF IInv, Control, Apart, Pends
<1> QED
  BY <1>1, <1>2 DEF Todo

\* What a batch or a marker adds to the places of a table.
LEMMA AtAppend ==
    ASSUME Types, NEW e \in Entries, log' = Append(log, e), NEW tb \in Tables
    PROVE  /\ \A i \in At(tb) : log'[i] = log[i] /\ i < Len(log) + 1
           /\ log'[Len(log) + 1] = e
           /\ e.kind = "batch" /\ e.table = tb => At(tb)' = At(tb) \cup {Len(log) + 1}
           /\ ~(e.kind = "batch" /\ e.table = tb) => At(tb)' = At(tb)
<1>1. /\ log' \in Seq(Entries) /\ Len(log') = Len(log) + 1 /\ log'[Len(log) + 1] = e
      /\ \A i \in 1 .. Len(log) : log'[i] = log[i]
  BY Appends
<1>2. Len(log) \in Nat
  BY DEF Types
<1>3. 1 .. Len(log') = (1 .. Len(log)) \cup {Len(log) + 1}
  BY <1>1, <1>2
<1>4. At(tb)' = {i \in (1 .. Len(log)) \cup {Len(log) + 1} : log'[i].kind = "batch" /\ log'[i].table = tb}
  BY <1>3 DEF At
<1>5. \A i \in At(tb) : i \in 1 .. Len(log)
  BY DEF At
<1>6. \A i : i \in At(tb)' <=> \/ i \in At(tb)
                               \/ i = Len(log) + 1 /\ e.kind = "batch" /\ e.table = tb
  BY <1>1, <1>2, <1>4 DEF At
<1>7. \A i \in At(tb) : log'[i] = log[i] /\ i < Len(log) + 1
  BY <1>1, <1>2, <1>5
<1>8. e.kind = "batch" /\ e.table = tb => At(tb)' = At(tb) \cup {Len(log) + 1}
  BY <1>6
<1>9. ~(e.kind = "batch" /\ e.table = tb) => At(tb)' = At(tb)
  BY <1>6
<1> QED
  BY <1>1, <1>7, <1>8, <1>9

\* Where a batch is when the fsync that covers it is over.
LEMMA SyncedPlace ==
    ASSUME IInv, IInv', LogOk, NEW s \in Sessions, SyncReturns(s) \/ SyncEnd(s), pc[s] = "appended"
    PROVE  \E p \in At(job[s].table) : p <= stable' /\ log[p].id = job[s].id
<1>0. Types /\ Control /\ Positions
  BY DEF IInv, LogOk
<1>1. mode = "up"
  <2>1. SyncReturns(s) => mode = "up"
    BY DEF SyncReturns, Waits
  <2>2. SyncEnd(s) => syncing # NoSync
    BY NamesAssumption DEF SyncEnd, NoSync
  <2> QED
    BY <1>0, <2>1, <2>2 DEF Control, Sync
<1>2. Serving
  BY <1>1 DEF Serving
<1>3. PICK p : p = seq[s] - Offset
  OBVIOUS
<1>4. p \in 1 .. Len(log) /\ log[p] = Batch(job[s])
  BY <1>0, <1>2, <1>3 DEF Positions
<1>5. p \in At(job[s].table) /\ log[p].id = job[s].id
  BY <1>4 DEF At, Batch
<1>6. /\ Len(log) \in Nat /\ appended \in Nat /\ synced \in Nat /\ stable \in Nat /\ seq[s] \in Nat /\ stable <= Len(log)
      /\ Offset = appended - Len(log)
  BY <1>0 DEF Types, Offset
<1>7. CASE SyncReturns(s)
  <2>1. log # <<>>
    BY <1>4
  <2>2. fp /\ synced - Offset <= stable
    BY <1>0, <1>2, <2>1 DEF Positions
  <2>3. synced >= seq[s] /\ stable' = stable
    BY <1>7, <2>2 DEF SyncReturns, logVars
  <2>4. p <= stable'
    BY <1>3, <1>6, <2>2, <2>3
  <2> QED
    BY <1>5, <2>4
<1>8. CASE SyncEnd(s)
  <2>1. syncing # NoSync /\ syncing.session = s /\ stable' = Max({stable, syncing.covers})
    BY <1>8, NamesAssumption DEF SyncEnd, NoSync
  <2>2. syncing.covers \in Nat /\ syncing.target \in Nat
    <3>1. syncing \in [session : Sessions, target : Nat, covers : 0 .. Len(log)]
      BY <1>0, <2>1 DEF Control, Sync
    <3> QED
      BY <1>6, <3>1
  <2>3. syncing.target - Offset = syncing.covers /\ seq[s] <= syncing.target
    BY <1>0, <1>2, <2>1 DEF Positions
  <2>a. stable' = IF stable >= syncing.covers THEN stable ELSE syncing.covers
    BY <1>6, <2>1, <2>2, MaxOfTwo
  <2>4. syncing.covers <= stable'
    BY <1>6, <2>2, <2>a
  <2>5. stable' \in Nat
    BY <1>6, <2>2, <2>a
  <2>6. p <= stable'
    BY <1>3, <1>6, <2>2, <2>3, <2>4, <2>5
  <2> QED
    BY <1>5, <2>6
<1> QED
  BY <1>7, <1>8

\* The steps of a session that change neither a version, a batch nor what is to come.
LEMMA SessionQuiet ==
    ASSUME IInv, IInv', LogOk, LineOk, NEW s \in Sessions,
           \/ Commit(s) \/ Finish(s) \/ Reply(s) \/ NothingToLog(s)
           \/ SyncReturns(s) \/ SyncStart(s) \/ SyncEnd(s) \/ redo_mark_flushed(s)
    PROVE  LineOk'
<1>0. Types /\ Control /\ Logged /\ Positions /\ Types'
  BY DEF IInv, LogOk
<1>1. /\ pc \in [Sessions -> Steps] /\ job \in [Sessions -> Jobs] /\ job[s] \in Jobs /\ pc[s] \in Steps
      /\ stable \in Nat /\ stable' \in Nat /\ Len(log) \in Nat
  BY <1>0 DEF Types
<1>2. \A u \in Sessions : job[u].logged <=> IsLogged(u)
  BY <1>0 DEF Positions
<1>3. ~NothingToLog(s)
  BY <1>2 DEF NothingToLog, IsLogged
<1>4. /\ mem' = mem /\ file' = file /\ mode = "up" /\ mode' = "up"
  <2>1. CASE Finish(s)
    BY <2>1 DEF Finish
  <2> QED
    BY <1>3, <2>1, SessionKeeps
<1>5. stable <= stable'
  <2>1. CASE SyncEnd(s)
    <3>1. syncing # NoSync /\ stable' = Max({stable, syncing.covers})
      BY <2>1, NamesAssumption DEF SyncEnd, NoSync
    <3>2. syncing.covers \in Nat
      BY <1>0, <3>1 DEF Control, Sync
    <3> QED
      BY <1>1, <3>1, <3>2, MaxOfTwo
  <2>2. CASE ~SyncEnd(s)
    <3>1. stable' = stable
      BY <1>3, <2>2 DEF Commit, Finish, Reply, SyncReturns, SyncStart, redo_mark_flushed, append_batch, logVars
    <3> QED
      BY <1>1, <3>1
  <2> QED
    BY <2>1, <2>2
<1>6. ASSUME NEW tb \in Tables PROVE At(tb)' = At(tb) /\ \A i \in At(tb) : log'[i] = log[i]
  <2>1. CASE redo_mark_flushed(s)
    <3>1. PICK e : e = Flushed(job[s].table)
      OBVIOUS
    <3>2. e \in Entries /\ e.kind # "batch"
      <4>1. job[s].table \in Tables \cup {NoTable}
        BY <1>1 DEF Jobs
      <4> QED
        BY <3>1, <4>1, BoundsAssumption DEF Flushed, Entries, Ids
    <3>3. log' = Append(log, e)
      BY <2>1, <3>1 DEF redo_mark_flushed, append_batch
    <3> QED
      BY <1>0, <3>2, <3>3, AtAppend
  <2>2. CASE ~redo_mark_flushed(s)
    <3>1. log' = log
      BY <1>3, <2>2 DEF Commit, Finish, Reply, SyncReturns, SyncStart, SyncEnd, logVars
    <3> QED
      BY <3>1 DEF At
  <2> QED
    BY <2>1, <2>2
<1>7. /\ \A u \in Sessions : u # s => pc'[u] = pc[u] /\ job'[u] = job[u]
      /\ \/ pc'[s] = "idle" /\ job[s].logged
         \/ /\ pc[s] # "idle" /\ pc'[s] # "idle" /\ job'[s].logged = job[s].logged /\ job'[s].table = job[s].table
            /\ job'[s].id = job[s].id /\ job'[s].ended = job[s].ended /\ job'[s].kind = job[s].kind
  <2>1. CASE Commit(s)
    <3>1. pc' = [pc EXCEPT ![s] = "changed"] /\ job' = [job EXCEPT ![s] = [job[s] EXCEPT !.committing = TRUE]] /\ pc[s] # "idle"
      BY <1>1, <2>1 DEF Commit, TakesTable
    <3>2. \A u \in Sessions : u # s => pc'[u] = pc[u] /\ job'[u] = job[u]
      BY <1>1, <3>1
    <3>3. pc'[s] = "changed" /\ job'[s] = [job[s] EXCEPT !.committing = TRUE]
      BY <1>1, <3>1
    <3>4. /\ job'[s].logged = job[s].logged /\ job'[s].table = job[s].table
          /\ job'[s].id = job[s].id /\ job'[s].ended = job[s].ended /\ job'[s].kind = job[s].kind
      BY <1>1, <3>3 DEF Jobs
    <3> QED
      BY <3>1, <3>2, <3>3, <3>4
  <2>2. CASE Reply(s)
    <3>1. pc' = [pc EXCEPT ![s] = "idle"] /\ job' = [job EXCEPT ![s] = NoJob] /\ pc[s] = "finished"
      BY <2>2 DEF Reply
    <3>2. job[s].logged
      BY <1>2, <3>1 DEF IsLogged
    <3> QED
      BY <1>1, <3>1, <3>2
  <2>3. CASE Finish(s) \/ SyncReturns(s) \/ SyncStart(s) \/ SyncEnd(s) \/ redo_mark_flushed(s)
    <3>1. job' = job /\ pc[s] # "idle"
      <4>1. SyncEnd(s) => syncing # NoSync /\ syncing.session = s
        BY NamesAssumption DEF SyncEnd, NoSync
      <4>2. SyncEnd(s) => pc[s] # "idle"
        BY <1>0, <4>1 DEF Control, Sync
      <4> QED
        BY <2>3, <4>2 DEF Finish, SyncReturns, SyncStart, SyncEnd, redo_mark_flushed, Waits, sessVars
    <3>2. \E x \in Steps \ {"idle"} : pc' = [pc EXCEPT ![s] = x]
      <4>1. CASE SyncStart(s)
        <5>1. pc' = [pc EXCEPT ![s] = pc[s]]
          BY <1>1, <4>1 DEF SyncStart, sessVars
        <5> QED
          BY <1>1, <3>1, <5>1
      <4>2. CASE SyncReturns(s) \/ SyncEnd(s)
        <5>1. pc' = [pc EXCEPT ![s] = Synced(s)]
          BY <4>2 DEF SyncReturns, SyncEnd
        <5>2. Synced(s) \in Steps \ {"idle"}
          BY DEF Synced, Steps, InCall
        <5> QED
          BY <5>1, <5>2
      <4> QED
        BY <2>3, <4>1, <4>2 DEF Finish, redo_mark_flushed, Steps, InCall
    <3> QED
      BY <1>1, <3>1, <3>2
  <2> QED
    BY <1>3, <2>1, <2>2, <2>3
<1>8. ASSUME NEW tb \in Tables PROVE Todo(tb)' = Todo(tb)
  <2>1. \A u \in Sessions : (Pends(u, tb)' <=> Pends(u, tb)) /\ (Pends(u, tb) => Task(u)' = Task(u))
    BY <1>7 DEF Pends, Task
  <2> QED
    BY <2>1, TodoSame
<1>9. ASSUME NEW tb \in Tables, NEW u \in Sessions, pc[u] = "appended", job[u].table = tb
      PROVE  \/ pc'[u] = "appended" /\ job'[u].table = tb /\ job'[u].id = job[u].id
             \/ \E p \in At(tb) : p <= stable' /\ log[p].id = job[u].id
  <2>1. CASE u # s
    BY <1>7, <1>9, <2>1
  <2>2. CASE u = s
    <3>1. CASE SyncReturns(s) \/ SyncEnd(s)
      BY <1>9, <2>2, <3>1, SyncedPlace
    <3>2. CASE SyncStart(s)
      BY <1>9, <2>2, <3>2 DEF SyncStart, sessVars
    <3> QED
      BY <1>3, <1>9, <2>2, <3>1, <3>2 DEF Commit, TakesTable, Finish, Reply, redo_mark_flushed
  <2> QED
    BY <2>1, <2>2
<1>10. ASSUME NEW tb \in Tables PROVE OnLine(tb)'
  <2>1. OnLine(tb)
    BY DEF LineOk
  <2>2. Line(file[tb], log, At(tb), stable) /\ Awaited(tb) /\ Serving
    BY <1>4, <2>1 DEF OnLine, Queue, Serving
  <2>3. Awaited(tb)'
    BY <1>0, <1>1, <1>5, <1>6, <1>9, <2>2, AwaitedSame
  <2> QED
    BY <1>0, <1>1, <1>4, <1>5, <1>6, <1>8, <2>1, <2>2, <2>3, LineSame
<1>11. \A u \in Sessions : job'[u].kind = "auto" => pc'[u] \notin {"vacuumed", "marked"}
  <2>1. \A u \in Sessions : job[u].kind = "auto" => pc[u] \notin {"vacuumed", "marked"}
    BY DEF LineOk
  <2>2. pc'[s] \in {"vacuumed", "marked"} => pc[s] \in {"vacuumed", "marked"} /\ job'[s].kind = job[s].kind
    BY <1>1, <1>3 DEF Commit, Finish, Reply, SyncReturns, SyncStart, SyncEnd, redo_mark_flushed, Synced, sessVars
  <2> QED
    BY <1>7, <2>1, <2>2
<1> QED
  BY <1>10, <1>11 DEF LineOk

-----------------------------------------------------------------------------
(* Steps that change the line.                                               *)

\* No id that a file or the log holds is still to be given.
LEMMA KnownBelow ==
    ASSUME IInv, LogOk, mode = "up", NEW tb \in Tables
    PROVE  \A k \in Known(tb) : k < next_id
<1>0. Types /\ Control /\ Logged /\ Covered(tb)
  BY DEF IInv, LogOk
<1>1. /\ Memory(tb) /\ Serving /\ next_id \in Nat /\ file[tb] \in SUBSET Versions
      /\ \A v \in mem[tb] : v.id \in Nat /\ v.id < next_id
  BY ServingFacts
<1>2. ASSUME NEW i \in Nat, Reaches(mem[tb], open, i) PROVE i < next_id
  <2>1. PICK w \in mem[tb] : i <= w.id
    BY <1>2 DEF Reaches
  <2> QED
    BY <1>1, <2>1
<1>3. \A v \in file[tb] : v.id < next_id
  <2>1. \A v \in file[tb] : v.id \in Nat /\ Reaches(mem[tb], open, v.id)
    BY <1>0, <1>1, KnownIs DEF Memory
  <2> QED
    BY <1>2, <2>1
<1>4. ASSUME NEW i \in At(tb) PROVE log[i].id < next_id
  <2>1. log[i].id \in Nat
    BY <1>0, AtIs
  <2>2. \/ Reaches(mem[tb], open, log[i].id)
        \/ \E s \in Sessions : InOpen(s) /\ job[s].id = log[i].id
    BY <1>0, <1>1 DEF Covered
  <2>3. ASSUME NEW s \in Sessions, InOpen(s) PROVE job[s].id < next_id
    BY <1>0, <2>3, JobIs DEF InOpen
  <2> QED
    BY <1>2, <2>1, <2>2, <2>3
<1> QED
  BY <1>3, <1>4 DEF Known, Held

LEMMA ChangeLine ==
    ASSUME IInv, LogOk, LineOk, NEW s \in Sessions, NEW kind \in Kinds, NEW tb \in Tables, Change(s, kind, tb)
    PROVE  LineOk'
<1>0. Types /\ Control /\ Logged
  BY DEF IInv
<1>1. /\ mode = "up" /\ mode' = "up" /\ pc[s] = "idle" /\ next_id <= MaxId
      /\ \A u \in Sessions : ~Claims(u, tb)
      /\ UNCHANGED <<file, log, stable>>
      /\ pc' = [pc EXCEPT ![s] = IF kind = "commit" THEN "open" ELSE "changed"]
  BY DEF Change, logVars
<1>2. PICK v \in Live(mem[tb]) :
          /\ mem' = [mem EXCEPT ![tb] = (@ \ {v}) \cup {[v EXCEPT !.xmax = next_id], [id |-> next_id, xmax |-> 0]}]
          /\ job' = [job EXCEPT ![s] = [NoJob EXCEPT !.kind = kind, !.table = tb, !.id = next_id, !.ended = v.id]]
  BY DEF Change
<1>3. /\ mem \in [Tables -> SUBSET Versions] /\ pc \in [Sessions -> Steps] /\ job \in [Sessions -> Jobs]
      /\ stable \in Nat
  BY <1>0 DEF Types
<1>4. v \in mem[tb] /\ v.xmax = 0
  BY DEF Live
<1>5. /\ \A u \in Sessions : u # s => pc'[u] = pc[u] /\ job'[u] = job[u]
      /\ pc'[s] \in {"open", "changed"}
      /\ job'[s].table = tb /\ ~job'[s].logged /\ job'[s].id = next_id /\ job'[s].ended = v.id /\ job'[s].kind = kind
  BY <1>1, <1>2, <1>3 DEF NoJob
<1>6. Serving /\ Serving'
  BY <1>1 DEF Serving
<1>7. ASSUME NEW t \in Tables PROVE At(t)' = At(t) /\ Known(t)' = Known(t)
  BY <1>1 DEF At, Known
<1>8. ASSUME NEW t \in Tables PROVE Line(file[t], log, At(t), stable) /\ Queue(t) /\ Awaited(t)'
  <2>1. Line(file[t], log, At(t), stable) /\ Queue(t) /\ Awaited(t)
    BY <1>6 DEF LineOk, OnLine, Queue
  <2>2. \A u \in Sessions : pc[u] = "appended" /\ job[u].table = t =>
            pc'[u] = "appended" /\ job'[u].table = t /\ job'[u].id = job[u].id
    BY <1>1, <1>5
  <2>3. Awaited(t)'
    BY <1>1, <1>7, <2>1, <2>2 DEF Awaited
  <2> QED
    BY <2>1, <2>3
<1>9. ASSUME NEW t \in Tables, t # tb PROVE OnLine(t)'
  <2>1. Todo(t)' = Todo(t)
    <3>1. \A u \in Sessions : (Pends(u, t)' <=> Pends(u, t)) /\ (Pends(u, t) => Task(u)' = Task(u))
      BY <1>1, <1>5, <1>9 DEF Pends, Task
    <3> QED
      BY <3>1, TodoSame
  <2>2. mem'[t] = mem[t] /\ file'[t] = file[t]
    BY <1>1, <1>2, <1>3, <1>9
  <2>3. OnLine(t)
    BY DEF LineOk
  <2>4. stable' \in Nat /\ stable <= stable' /\ \A i \in At(t) : log'[i] = log[i]
    BY <1>1, <1>3
  <2> QED
    BY <1>0, <1>1, <1>6, <1>7, <1>8, <2>1, <2>2, <2>3, <2>4, LineSame
<1>10. OnLine(tb)'
  <2>1. PICK M, K, U : M = mem[tb] /\ K = Known(tb) /\ U = Todo(tb)
    OBVIOUS
  <2>2. PICK n, r, N : n = next_id /\ r = Task(s)' /\ N = mem'[tb]
    OBVIOUS
  <2>3. r = [id |-> n, ended |-> v.id, kind |-> kind]
    BY <1>5, <2>2 DEF Task
  <2>4. N = (M \ {v}) \cup {[v EXCEPT !.xmax = n], [id |-> n, xmax |-> 0]}
    BY <1>2, <1>3, <2>1, <2>2
  <2>5. Todo(tb)' = U \cup {r}
    <3>1. Pends(s, tb)' /\ ~Pends(s, tb)
      BY <1>1, <1>5 DEF Pends
    <3>2. \A u \in Sessions : u # s => (Pends(u, tb)' <=> Pends(u, tb)) /\ Task(u)' = Task(u)
      BY <1>5 DEF Pends, Task
    <3> QED
      BY <2>1, <2>2, <3>1, <3>2 DEF Todo
  <2>6. /\ M \in SUBSET Versions /\ Sound(M) /\ n \in Nat /\ n # 0 /\ \A w \in M : w.id < n
    BY <1>1, <2>1, <2>2, ServingFacts DEF Memory
  <2>7. OneLive(M) /\ Continues(M, K, U)
    BY <1>1, <1>6, <1>8, <2>1 DEF Queue
  <2>8. K \in SUBSET Nat /\ \A k \in K : k < n
    BY <1>0, <1>1, <2>1, <2>2, KnownIs, KnownBelow
  <2>9. U \subseteq Tasks /\ \A u \in U : u.kind = "auto" /\ u.id < n /\ \E w \in M : u.id <= w.id
    <3>1. U \subseteq Tasks /\ \A u \in U : \E x \in Sessions : Pends(x, tb) /\ u = Task(x)
      BY <2>1, TodoIs
    <3>2. ASSUME NEW x \in Sessions, Pends(x, tb)
          PROVE  Task(x).kind = "auto" /\ Task(x).id < n /\ \E w \in M : Task(x).id <= w.id
      <4>1. /\ Task(x).id = job[x].id /\ Task(x).kind = job[x].kind /\ job[x].id < next_id
            /\ \E w \in mem[tb] : job[x].id <= w.id
        BY <3>2, PendsIs
      <4>2. job[x].kind \in {"auto", "commit"} /\ job[x].kind # "commit"
        BY <1>0, <1>1, <3>2, JobIs DEF Pends, Claims
      <4> QED
        BY <2>1, <2>2, <4>1, <4>2
    <3> QED
      BY <3>1, <3>2
  <2>10. OneLive(N) /\ Continues(N, K, U \cup {r})
    BY <1>4, <2>1, <2>3, <2>4, <2>6, <2>7, <2>8, <2>9, UpdateContinues
  <2>11. OneLive(mem[tb])' /\ Continues(mem[tb], Known(tb), Todo(tb))'
    BY <1>7, <2>1, <2>2, <2>5, <2>10
  <2>12. Line(file[tb], log, At(tb), stable)'
    BY <1>1, <1>7, <1>8
  <2> QED
    BY <1>1, <1>8, <2>11, <2>12 DEF OnLine, Queue
<1>11. \A u \in Sessions : job'[u].kind = "auto" => pc'[u] \notin {"vacuumed", "marked"}
  BY <1>5 DEF LineOk
<1> QED
  BY <1>9, <1>10, <1>11 DEF LineOk

LEMMA RollbackLine ==
    ASSUME IInv, LogOk, LineOk, NEW s \in Sessions, Rollback(s)
    PROVE  LineOk'
<1>0. Types /\ Control /\ Logged /\ Rows /\ Positions
  BY DEF IInv, LogOk
<1>a. PICK n, tb : n = job[s].id /\ tb = job[s].table
  OBVIOUS
<1>1. /\ mode = "up" /\ mode' = "up" /\ pc[s] \in {"open", "failed"}
      /\ UNCHANGED <<file, log, stable>>
      /\ pc' = [pc EXCEPT ![s] = "idle"] /\ job' = [job EXCEPT ![s] = NoJob]
      /\ mem' = [mem EXCEPT ![tb] =
                    {IF v.xmax = n THEN [v EXCEPT !.xmax = 0] ELSE v : v \in {v \in @ : v.id # n}}]
  BY <1>a DEF Rollback, TakesTable, logVars
<1>2. /\ mem \in [Tables -> SUBSET Versions] /\ pc \in [Sessions -> Steps] /\ job \in [Sessions -> Jobs]
      /\ stable \in Nat
  BY <1>0 DEF Types
<1>3. tb \in Tables /\ job[s].kind = "commit" /\ ~job[s].logged /\ Pends(s, tb)
  <2>1. tb \in Tables /\ job[s].kind \in {"auto", "commit"} /\ Placed(s)
    BY <1>0, <1>1, <1>a, JobIs
  <2>2. ~job[s].logged
    BY <1>0, <1>1 DEF Positions, IsLogged
  <2> QED
    BY <1>1, <1>a, <2>1, <2>2 DEF Placed, InCall, Pends
<1>4. /\ \A u \in Sessions : u # s => pc'[u] = pc[u] /\ job'[u] = job[u]
      /\ pc'[s] = "idle" /\ job'[s].kind = "none"
  BY <1>1, <1>2 DEF NoJob
<1>5. Serving /\ Serving'
  BY <1>1 DEF Serving
<1>6. ASSUME NEW t \in Tables PROVE At(t)' = At(t) /\ Known(t)' = Known(t)
  BY <1>1 DEF At, Known
<1>7. ASSUME NEW t \in Tables PROVE Line(file[t], log, At(t), stable) /\ Queue(t) /\ Awaited(t)'
  <2>1. Line(file[t], log, At(t), stable) /\ Queue(t) /\ Awaited(t)
    BY <1>5 DEF LineOk, OnLine, Queue
  <2>2. \A u \in Sessions : pc[u] = "appended" /\ job[u].table = t =>
            pc'[u] = "appended" /\ job'[u].table = t /\ job'[u].id = job[u].id
    BY <1>1, <1>4
  <2>3. Awaited(t)'
    BY <1>1, <1>6, <2>1, <2>2 DEF Awaited
  <2> QED
    BY <2>1, <2>3
<1>8. ASSUME NEW t \in Tables, t # tb PROVE OnLine(t)'
  <2>1. Todo(t)' = Todo(t)
    <3>1. \A u \in Sessions : (Pends(u, t)' <=> Pends(u, t)) /\ (Pends(u, t) => Task(u)' = Task(u))
      BY <1>4, <1>8, <1>a DEF Pends, Task
    <3> QED
      BY <3>1, TodoSame
  <2>2. mem'[t] = mem[t] /\ file'[t] = file[t]
    BY <1>1, <1>2, <1>8
  <2>3. OnLine(t)
    BY DEF LineOk
  <2>4. stable' \in Nat /\ stable <= stable' /\ \A i \in At(t) : log'[i] = log[i]
    BY <1>1, <1>2
  <2> QED
    BY <1>0, <1>1, <1>5, <1>6, <1>7, <2>1, <2>2, <2>3, <2>4, LineSame
<1>9. OnLine(tb)'
  <2>1. PICK M, K, U, r : M = mem[tb] /\ K = Known(tb) /\ U = Todo(tb) /\ r = Task(s)
    OBVIOUS
  <2>2. PICK N : N = mem'[tb]
    OBVIOUS
  <2>3. r \in U /\ r.id = n /\ r.ended = job[s].ended /\ r.kind = "commit" /\ r.ended < r.id /\ InOpen(s)
    BY <1>3, <1>a, <2>1, PendsIs DEF Todo
  <2>4. N = {IF v.xmax = r.id THEN [v EXCEPT !.xmax = 0] ELSE v : v \in {v \in M : v.id # r.id}}
    BY <1>1, <1>2, <1>3, <2>1, <2>2, <2>3
  <2>5. U \subseteq Tasks /\ \A j \in U : j.ended < j.id /\ \E u \in Sessions : Pends(u, tb) /\ j = Task(u)
    BY <1>3, <2>1, TodoIs
  <2>6. \A u \in Sessions : Pends(u, tb) /\ Task(u).id = r.id => u = s
    BY <1>3, <2>1, TodoIs
  <2>7. \A j \in U : j.id = r.id => j = r
    BY <2>1, <2>5, <2>6
  <2>8. Todo(tb)' = U \ {r}
    <3>1. ~Pends(s, tb)'
      BY <1>4 DEF Pends
    <3>2. \A u \in Sessions : u # s => (Pends(u, tb)' <=> Pends(u, tb)) /\ Task(u)' = Task(u)
      BY <1>4 DEF Pends, Task
    <3>3. \A u \in Sessions : Pends(u, tb) /\ Task(u) = r => u = s
      BY <2>6
    <3> QED
      BY <2>1, <3>1, <3>2, <3>3 DEF Todo
  <2>9. M \in SUBSET Versions /\ Memory(tb)
    BY <1>1, <1>3, <2>1, ServingFacts
  <2>10. \A v \in M : v.xmax = r.id => v.id = r.ended
    BY <1>5, <1>a, <2>1, <2>3, <2>9 DEF Memory
  <2>11. OneLive(M) /\ Continues(M, K, U)
    BY <1>1, <1>3, <1>5, <1>7, <2>1 DEF Queue
  <2>12. K \in SUBSET Nat
    BY <1>0, <1>3, <2>1, KnownIs
  <2>a. \A x \in N : \E v \in M : v.id # r.id /\ x = IF v.xmax = r.id THEN [v EXCEPT !.xmax = 0] ELSE v
    BY <2>4
  <2>b. \A j \in U : j.ended < j.id
    BY <2>5
  <2>13. OneLive(N) /\ Continues(N, K, U \ {r})
    BY <2>3, <2>5, <2>7, <2>a, <2>b, <2>9, <2>10, <2>11, <2>12, RollbackContinues
  <2>14. OneLive(mem[tb])' /\ Continues(mem[tb], Known(tb), Todo(tb))'
    BY <1>3, <1>6, <2>1, <2>2, <2>8, <2>13
  <2>15. Line(file[tb], log, At(tb), stable)'
    BY <1>1, <1>3, <1>6, <1>7
  <2> QED
    BY <1>1, <1>3, <1>7, <2>14, <2>15 DEF OnLine, Queue
<1>10. \A u \in Sessions : job'[u].kind = "auto" => pc'[u] \notin {"vacuumed", "marked"}
  BY <1>4 DEF LineOk
<1> QED
  BY <1>8, <1>9, <1>10 DEF LineOk

\* Nothing overtakes a batch: it is the first of those to come, and continues the line in the log.
LEMMA WriteLine ==
    ASSUME IInv, LogOk, LineOk, NEW s \in Sessions, WriteBatch(s), ~overtaken'
    PROVE  LineOk'
<1>0. Types /\ Control /\ Logged /\ Rows /\ Positions
  BY DEF IInv, LogOk
<1>a. PICK tb, r, e : tb = job[s].table /\ r = Task(s) /\ e = Batch(job[s])
  OBVIOUS
<1>1. /\ mode = "up" /\ mode' = "up" /\ pc[s] = "changed" /\ ~job[s].logged
      /\ UNCHANGED <<mem, file, stable>>
      /\ pc' = [pc EXCEPT ![s] = "appended"] /\ job' = [job EXCEPT ![s] = [job[s] EXCEPT !.logged = TRUE]]
      /\ log' = Append(log, e)
      /\ \A u \in Unlogged(tb) : ~(job[u].id < job[s].id)
  BY <1>0, <1>a DEF WriteBatch, append_batch, Types
<1>2. /\ pc \in [Sessions -> Steps] /\ job \in [Sessions -> Jobs] /\ stable \in Nat /\ job[s] \in Jobs
  BY <1>0 DEF Types
<1>3. tb \in Tables /\ Pends(s, tb) /\ job[s].kind \in {"auto", "commit"}
  BY <1>0, <1>1, <1>a, JobIs DEF Pends
<1>4. /\ \A u \in Sessions : u # s => pc'[u] = pc[u] /\ job'[u] = job[u]
      /\ pc'[s] = "appended" /\ job'[s].kind = job[s].kind /\ job'[s].logged
      /\ job'[s].table = job[s].table /\ job'[s].id = job[s].id
  BY <1>1, <1>2 DEF Jobs
<1>5. Serving /\ Serving'
  BY <1>1 DEF Serving
<1>6. e \in Entries /\ e.kind = "batch" /\ e.table = tb /\ e.id = job[s].id /\ e.ended = job[s].ended
  <2>1. job[s].table \in Tables \cup {NoTable} /\ job[s].id \in Ids /\ job[s].ended \in Ids
    BY <1>2 DEF Jobs
  <2> QED
    BY <1>a, <2>1 DEF Batch, Entries
<1>7. ASSUME NEW t \in Tables
      PROVE  OnLine(t) /\ Line(file[t], log, At(t), stable) /\ Queue(t) /\ Awaited(t)
  BY <1>5 DEF LineOk, OnLine, Queue
<1>8. ASSUME NEW t \in Tables, t # tb PROVE OnLine(t)'
  <2>1. Todo(t)' = Todo(t)
    <3>1. \A u \in Sessions : (Pends(u, t)' <=> Pends(u, t)) /\ (Pends(u, t) => Task(u)' = Task(u))
      BY <1>4, <1>8, <1>a DEF Pends, Task
    <3> QED
      BY <3>1, TodoSame
  <2>2. mem'[t] = mem[t] /\ file'[t] = file[t]
    BY <1>1
  <2>3. At(t)' = At(t) /\ \A i \in At(t) : log'[i] = log[i]
    BY <1>0, <1>1, <1>6, <1>8, AtAppend
  <2>4. stable' \in Nat /\ stable <= stable'
    BY <1>1, <1>2
  <2>5. \A u \in Sessions : pc[u] = "appended" /\ job[u].table = t =>
            pc'[u] = "appended" /\ job'[u].table = t /\ job'[u].id = job[u].id
    BY <1>1, <1>4
  <2>6. Awaited(t)'
    BY <1>0, <1>7, <2>3, <2>4, <2>5, AwaitedSame
  <2> QED
    BY <1>0, <1>1, <1>5, <1>7, <2>1, <2>2, <2>3, <2>4, <2>6, LineSame
<1>9. OnLine(tb)'
  <2>1. PICK M, K, U, F, A, l, st : M = mem[tb] /\ K = Known(tb) /\ U = Todo(tb) /\ F = file[tb] /\ A = At(tb) /\ l = log /\ st = stable
    OBVIOUS
  <2>2. PICK k, n : k = log' /\ n = Len(log) + 1
    OBVIOUS
  <2>3. /\ n \in Nat /\ At(tb)' = A \cup {n} /\ k[n] = e /\ \A i \in A : i < n /\ k[i] = l[i]
    <3>1. Len(log) \in Nat
      BY <1>0 DEF Types
    <3>2. /\ \A i \in At(tb) : log'[i] = log[i] /\ i < Len(log) + 1
          /\ log'[Len(log) + 1] = e /\ At(tb)' = At(tb) \cup {Len(log) + 1}
      BY <1>0, <1>1, <1>3, <1>6, AtAppend
    <3>3. n \in Nat
      BY <2>2, <3>1
    <3> QED
      BY <2>1, <2>2, <3>2, <3>3
  <2>4. /\ r \in U /\ r \in Tasks /\ r.id = job[s].id /\ r.ended = job[s].ended /\ r.kind = job[s].kind /\ r.ended < r.id
        /\ \E w \in M : r.id <= w.id
    BY <1>3, <1>a, <2>1, PendsIs DEF Todo
  <2>5. U \subseteq Tasks /\ \A j \in U : \E u \in Sessions : Pends(u, tb) /\ j = Task(u)
    BY <1>3, <2>1, TodoIs
  <2>6. \A u \in Sessions : Pends(u, tb) /\ Task(u).id = r.id => u = s
    BY <1>3, <1>a, TodoIs
  <2>7. OneLive(M) /\ Continues(M, K, U)
    BY <1>1, <1>3, <1>5, <1>7, <2>1 DEF Queue
  <2>8. ASSUME NEW j \in U \ {r} PROVE r.id < j.id
    <3>1. PICK u \in Sessions : Pends(u, tb) /\ j = Task(u)
      BY <2>5
    <3>2. j.id \in Nat /\ r.id \in Nat /\ j.id # r.id
      BY <1>a, <2>4, <2>5, <2>6, <3>1 DEF Tasks
    <3> SUFFICES ASSUME j.id < r.id PROVE FALSE
      BY <3>2
    <3>3. j.kind = "auto"
      BY <2>4, <2>7 DEF Continues
    <3>4. job[u].kind = "auto" /\ job[u].id = j.id /\ pc[u] \in {"changed", "vacuumed", "marked"}
      BY <1>3, <3>1, <3>3, PendsIs
    <3>5. u \in Unlogged(tb)
      BY <3>1, <3>4 DEF Unlogged, Busy, Pends, InCall
    <3> QED
      BY <1>1, <2>4, <3>4, <3>5
  <2>9. /\ M \in SUBSET Versions /\ F \in SUBSET Versions /\ K \in SUBSET Nat /\ Batches(l, A) /\ K = Held(F, l, A)
        /\ Line(F, l, A, st)
    BY <1>0, <1>1, <1>3, <1>7, <2>1, ServingFacts, KnownIs DEF Known
  <2>10. Continues(M, K \cup {r.id}, U \ {r}) /\ Tip(K, r.ended)
    BY <2>4, <2>5, <2>7, <2>8, <2>9, FirstContinues
  <2>11. Line(F, k, A \cup {n}, st)
    <3>1. k[n].id \in Nat /\ k[n].ended \in Nat /\ k[n].ended < k[n].id /\ k[n].ended = r.ended /\ k[n].id = r.id
      BY <1>6, <2>3, <2>4 DEF Tasks
    <3> QED
      BY <2>3, <2>9, <2>10, <3>1, BatchJoinsLine
  <2>12. Known(tb)' = K \cup {r.id}
    <3>1. Held(F, k, A \cup {n}) = Held(F, l, A) \cup {r.id}
      BY <1>6, <2>3, <2>4 DEF Held
    <3>2. Known(tb)' = Held(F, k, A \cup {n})
      BY <1>1, <2>1, <2>2, <2>3 DEF Known
    <3> QED
      BY <2>9, <3>1, <3>2
  <2>13. Todo(tb)' = U \ {r}
    <3>1. ~Pends(s, tb)'
      BY <1>4 DEF Pends
    <3>2. \A u \in Sessions : u # s => (Pends(u, tb)' <=> Pends(u, tb)) /\ Task(u)' = Task(u)
      BY <1>4 DEF Pends, Task
    <3>3. \A u \in Sessions : Pends(u, tb) /\ Task(u) = r => u = s
      BY <2>6
    <3> QED
      BY <1>a, <2>1, <3>1, <3>2, <3>3 DEF Todo
  <2>14. Awaited(tb)'
    <3> SUFFICES ASSUME NEW i \in At(tb)', stable' < i
                 PROVE  \E u \in Sessions : pc'[u] = "appended" /\ job'[u].table = tb /\ job'[u].id = log'[i].id
      BY DEF Awaited
    <3>1. CASE i = n
      BY <1>4, <1>6, <1>a, <2>2, <2>3, <3>1
    <3>2. CASE i \in A
      <4>1. PICK u \in Sessions : pc[u] = "appended" /\ job[u].table = tb /\ job[u].id = log[i].id
        BY <1>1, <1>3, <1>7, <2>1, <3>2 DEF Awaited
      <4>2. u # s
        BY <1>1, <4>1
      <4> QED
        BY <1>4, <2>1, <2>2, <2>3, <3>2, <4>1, <4>2
    <3> QED
      BY <2>3, <3>1, <3>2
  <2>15. Line(file[tb], log, At(tb), stable)'
    BY <1>1, <2>1, <2>2, <2>3, <2>11
  <2>16. OneLive(mem[tb])' /\ Continues(mem[tb], Known(tb), Todo(tb))'
    BY <1>1, <2>1, <2>7, <2>10, <2>12, <2>13
  <2> QED
    BY <1>1, <2>14, <2>15, <2>16 DEF OnLine, Queue
<1>10. \A u \in Sessions : job'[u].kind = "auto" => pc'[u] \notin {"vacuumed", "marked"}
  BY <1>4 DEF LineOk
<1> QED
  BY <1>8, <1>9, <1>10 DEF LineOk

\* What save_committed writes while nobody but an open transaction has a change to come: it ends with the
\* latest of the ids known, or with the version that the transaction has ended.
LEMMA SavedTop ==
    ASSUME IInv, LogOk, LineOk, Serving, NEW tb \in Tables, NEW R \in SUBSET mem[tb], Sound(R), Closed(R, open),
           \A v \in mem[tb] : v.xmax = 0 \/ v.xmax \in open => v \in R,
           \A u \in Sessions : Pends(u, tb) => job[u].kind = "commit",
           \A u \in Sessions : InOpen(u) /\ job[u].table = tb => Pends(u, tb),
           NEW F, F = save_committed(R)
    PROVE  OneLive(F) /\ F \in SUBSET Versions /\ \E f \in F : (\A v \in F : v.id <= f.id) /\ Tip(Known(tb), f.id)
<1>0. Types /\ Control /\ Rows
  BY DEF IInv
<1>1. mem[tb] \in SUBSET Versions /\ open \subseteq 1 .. MaxId /\ Memory(tb)
  BY <1>0 DEF Types, Rows, Serving
<1>2. /\ F \in SUBSET Versions /\ Sound(F) /\ Closed(F, {})
      /\ \A v \in F :
            /\ v.id \notin open /\ v.xmax \notin open
            /\ \E w \in R : w.id = v.id /\ (v.xmax = w.xmax \/ (v.xmax = 0 /\ w.xmax \in open))
      /\ \A w \in R : w.id \notin open => \E v \in F : v.id = w.id
  <2>1. R \in SUBSET Versions
    BY <1>1
  <2> QED
    BY <1>1, <2>1, SaveIs
<1>3. /\ \A v \in mem[tb] : v.id \in Nat /\ v.xmax \in Nat
      /\ \A v \in F : v.id \in Nat /\ v.xmax \in Nat
  BY <1>1, <1>2, BoundsAssumption DEF Versions, Ids
<1>4. ASSUME NEW v \in mem[tb], NEW i \in {v.id, v.xmax}, i \in open
      PROVE  \E u \in Sessions : Pends(u, tb) /\ i = job[u].id
  <2>1. PICK u \in Sessions : InOpen(u) /\ i = job[u].id
    BY <1>0, <1>4 DEF Control
  <2>2. job[u].table = tb
    BY <1>1, <1>4, <2>1 DEF Memory
  <2> QED
    BY <2>1, <2>2
<1>5. OneLive(mem[tb]) /\ Continues(mem[tb], Known(tb), Todo(tb))
  BY DEF LineOk, OnLine, Queue, Serving
<1>6. CASE \A u \in Sessions : ~Pends(u, tb)
  <2>1. \A v \in F : \E w \in mem[tb] : w.id = v.id /\ w.xmax = v.xmax
    BY <1>2, <1>4, <1>6
  <2>2. OneLive(F)
    <3> SUFFICES ASSUME NEW v \in F, NEW w \in F, v.id < w.id PROVE v.xmax # 0
      BY DEF OneLive
    <3>1. PICK x \in mem[tb] : x.id = v.id /\ x.xmax = v.xmax
      BY <2>1
    <3>2. PICK y \in mem[tb] : y.id = w.id
      BY <2>1
    <3> QED
      BY <1>5, <3>1, <3>2 DEF OneLive
  <2>3. PICK f \in F : \A v \in F : v.id <= f.id
    BY <1>2, LatestOf DEF Closed
  <2>4. f.xmax = 0
    <3> SUFFICES ASSUME f.xmax # 0 PROVE FALSE
      OBVIOUS
    <3>1. f.id < f.xmax
      BY <1>2 DEF Sound
    <3>2. PICK x \in F : f.xmax <= x.id
      BY <1>2 DEF Closed
    <3> QED
      BY <1>3, <2>3, <3>1, <3>2
  <2>5. PICK w \in mem[tb] : w.id = f.id /\ w.xmax = 0
    BY <2>1, <2>4
  <2>6. Todo(tb) = {}
    BY <1>6 DEF Todo
  <2>7. Tip(Known(tb), f.id)
    BY <1>5, <2>5, <2>6 DEF Continues
  <2> QED
    BY <1>2, <2>2, <2>3, <2>7
<1>7. CASE \E u \in Sessions : Pends(u, tb)
  <2>1. PICK u \in Sessions : Pends(u, tb)
    BY <1>7
  <2>2. /\ Task(u) \in Todo(tb) /\ Task(u).id = job[u].id /\ Task(u).ended = job[u].ended /\ Task(u).kind = "commit"
        /\ job[u].ended < job[u].id /\ InOpen(u) /\ job[u].table = tb /\ pc[u] # "idle"
    BY <2>1, PendsIs DEF Todo, Pends
  <2>3. \A x \in Sessions : Pends(x, tb) => x = u
    BY <1>0, <2>1, <2>2 DEF Control, Apart, Pends
  <2>4. PICK n, m : n = job[u].id /\ m = job[u].ended
    OBVIOUS
  <2>5. /\ [id |-> m, xmax |-> n] \in mem[tb]
        /\ \A v \in mem[tb] : v.xmax = n => v.id = m
        /\ n \in Nat /\ m \in Nat /\ m < n
    BY <1>0, <1>1, <2>2, <2>4, JobIs DEF Memory
  <2>6. n \in open /\ m \notin open
    <3>1. n \in open
      BY <1>0, <2>2, <2>4 DEF Control
    <3>2. m \in open => m = n
      <4>1. [id |-> m, xmax |-> n].id = m
        OBVIOUS
      <4> QED
        BY <1>4, <2>3, <2>4, <2>5, <4>1
    <3> QED
      BY <2>5, <3>1, <3>2
  <2>7. PICK f \in F : f.id = m
    <3>1. [id |-> m, xmax |-> n] \in R
      BY <2>5, <2>6
    <3> QED
      BY <1>2, <2>6, <3>1
  <2>8. \A v \in F : v.id <= m
    <3> TAKE v \in F
    <3>1. PICK w \in mem[tb] : w.id = v.id /\ w.id \notin open
      BY <1>2
    <3>2. w.id <= m \/ w.id = n
      BY <1>5, <2>2, <2>4 DEF Continues
    <3> QED
      BY <2>6, <3>1, <3>2
  <2>9. OneLive(F)
    <3> SUFFICES ASSUME NEW v \in F, NEW w \in F, v.id < w.id PROVE v.xmax # 0
      BY DEF OneLive
    <3>1. PICK x \in R : x.id = v.id /\ (v.xmax = x.xmax \/ (v.xmax = 0 /\ x.xmax \in open))
      BY <1>2
    <3>2. PICK y \in R : y.id = w.id
      BY <1>2
    <3>3. x.xmax # 0
      BY <1>5, <3>1, <3>2 DEF OneLive
    <3>4. x.xmax \notin open
      <4>1. x.xmax \in open => x.xmax = n
        BY <1>4, <2>3, <2>4
      <4>2. v.id # m
        BY <1>3, <2>5, <2>8
      <4> QED
        BY <2>5, <3>1, <4>1, <4>2
    <3> QED
      BY <3>1, <3>3, <3>4
  <2>10. Tip(Known(tb), m)
    <3>1. (\E x \in Todo(tb) : x.id = m) \/ Tip(Known(tb), m)
      BY <1>5, <2>2, <2>4 DEF Continues
    <3>2. \A x \in Todo(tb) : x.id = n
      BY <2>2, <2>3, <2>4 DEF Todo
    <3> QED
      BY <2>5, <3>1, <3>2
  <2> QED
    BY <1>2, <2>7, <2>8, <2>9, <2>10
<1> QED
  BY <1>6, <1>7

\* The file of a table is written while nobody but an open transaction has a change to come and every batch
\* of the table is durable.
LEMMA RewrittenLine ==
    ASSUME IInv, LogOk, LineOk, Serving, NEW tb \in Tables, NEW R \in SUBSET mem[tb], Sound(R), Closed(R, open),
           \A v \in mem[tb] : v.xmax = 0 \/ v.xmax \in open => v \in R,
           \A u \in Sessions : Pends(u, tb) => job[u].kind = "commit",
           \A u \in Sessions : InOpen(u) /\ job[u].table = tb => Pends(u, tb),
           \A u \in Sessions : job[u].table = tb => pc[u] # "appended",
           mem'[tb] = R, file'[tb] = save_committed(R), log' = log, stable' = stable, Todo(tb)' = Todo(tb),
           mode' \in {"up", "checkpoint"}
    PROVE  OnLine(tb)'
<1>0. Types /\ Control /\ Rows /\ Logged
  BY DEF IInv
<1>1. PICK M, K, U, F, G, A, l, st :
          /\ M = mem[tb] /\ K = Known(tb) /\ U = Todo(tb) /\ F = file[tb] /\ G = save_committed(R)
          /\ A = At(tb) /\ l = log /\ st = stable
  OBVIOUS
<1>2. OneLive(M) /\ Continues(M, K, U) /\ Line(F, l, A, st) /\ Awaited(tb)
  BY <1>1 DEF LineOk, OnLine, Queue, Serving
<1>3. /\ F \in SUBSET Versions /\ K \in SUBSET Nat /\ Batches(l, A) /\ K = Held(F, l, A) /\ st \in Nat
      /\ M \in SUBSET Versions /\ R \in SUBSET M
  BY <1>0, <1>1, KnownIs DEF Known, Types
<1>4. \A i \in A : i <= st
  <2>1. \A i \in A : ~(st < i)
    BY <1>1, <1>2 DEF Awaited
  <2>2. \A i \in A : i \in Nat
    BY <1>3 DEF Batches
  <2> QED
    BY <1>3, <2>1, <2>2
<1>5. OneLive(G) /\ G \in SUBSET Versions /\ \E f \in G : (\A v \in G : v.id <= f.id) /\ Tip(Known(tb), f.id)
  BY <1>1, SavedTop
<1>6. PICK f \in G : (\A v \in G : v.id <= f.id) /\ Tip(K, f.id)
  BY <1>1, <1>5
<1>7. PICK L : L = Held(G, l, A)
  OBVIOUS
<1>8. /\ Line(G, l, A, st)
      /\ \A k \in K : \E n \in L : k <= n
      /\ \A n \in L : \E k \in K : n <= k
  BY <1>2, <1>3, <1>4, <1>5, <1>6, <1>7, FileJoinsLine
<1>9. L \in SUBSET Nat
  BY <1>3, <1>5, <1>7, HeldIs
<1>10. U \subseteq Tasks
  BY <1>1, TodoIs
<1>11. Continues(R, L, U)
  BY <1>2, <1>3, <1>8, <1>9, <1>10, SameTip
<1>12. OneLive(R)
  BY <1>2, <1>3 DEF OneLive
<1>13. At(tb)' = A /\ Known(tb)' = L
  BY <1>1, <1>7 DEF At, Known
<1>14. Line(file[tb], log, At(tb), stable)'
  BY <1>1, <1>8, <1>13
<1>15. OneLive(mem[tb])' /\ Continues(mem[tb], Known(tb), Todo(tb))'
  BY <1>1, <1>11, <1>12, <1>13
<1>16. Awaited(tb)'
  <2>1. \A i \in At(tb)' : ~(stable' < i)
    BY <1>1, <1>2, <1>13 DEF Awaited
  <2> QED
    BY <2>1 DEF Awaited
<1> QED
  BY <1>14, <1>15, <1>16 DEF OnLine, Queue

\* No file overtakes a batch: a vacuum runs when no autocommit statement has a batch to write or to sync, and
\* no COMMIT is under way.
LEMMA VacuumLine ==
    ASSUME IInv, LogOk, LineOk, NEW s \in Sessions, Vacuum(s), ~overtaken'
    PROVE  LineOk'
<1>0. Types /\ Control /\ Logged /\ Rows /\ Positions
  BY DEF IInv, LogOk
<1>a. PICK tb, R : tb = job[s].table /\ R = mem[tb] \ Vacuumable(tb)
  OBVIOUS
<1>1. /\ mode = "up" /\ mode' = "up"
      /\ \/ job[s].kind = "auto" /\ pc[s] = "changed"
         \/ job[s].kind = "commit" /\ pc[s] \in {"open", "finished"}
      /\ \A u \in Sessions \ {s} : ~Exclusive(u, tb)
      /\ mem' = [mem EXCEPT ![tb] = R] /\ file' = [file EXCEPT ![tb] = save_committed(R)]
      /\ pc' = IF log = <<>> THEN pc ELSE [pc EXCEPT ![s] = "vacuumed"]
      /\ UNCHANGED <<log, stable, job>>
      /\ \A u \in Sessions : ~(Busy(u, tb) /\ job[u].kind = "auto" /\ pc[u] \in {"changed", "appended"})
  BY <1>0, <1>a DEF Vacuum, logVars, Types
<1>2. /\ mem \in [Tables -> SUBSET Versions] /\ file \in [Tables -> SUBSET Versions]
      /\ pc \in [Sessions -> Steps] /\ job \in [Sessions -> Jobs] /\ stable \in Nat
  BY <1>0 DEF Types
<1>3. tb \in Tables /\ Placed(s) /\ Serving
  BY <1>0, <1>1, <1>a, JobIs DEF Serving
<1>4. job[s].kind = "commit" /\ pc[s] \in {"open", "finished"}
  BY <1>1, <1>a DEF Busy, InCall
<1>5. /\ \A u \in Sessions : u # s => pc'[u] = pc[u]
      /\ pc'[s] \in {pc[s], "vacuumed"}
  BY <1>1, <1>2
<1>6. ASSUME NEW t \in Tables PROVE Todo(t)' = Todo(t) /\ OnLine(t)
  <2>1. \A u \in Sessions : (Pends(u, t)' <=> Pends(u, t)) /\ (Pends(u, t) => Task(u)' = Task(u))
    BY <1>1, <1>4, <1>5 DEF Pends, Task
  <2> QED
    BY <2>1, TodoSame DEF LineOk
<1>7. ASSUME NEW u \in Sessions, Pends(u, tb) PROVE job[u].kind = "commit"
  <2>1. /\ job[u].kind = "auto" => pc[u] \in {"changed", "vacuumed", "marked"}
        /\ pc[u] # "idle" /\ job[u].table = tb
    BY <1>3, <1>7, PendsIs DEF Pends
  <2>2. job[u].kind \in {"auto", "commit"}
    BY <1>0, <2>1, JobIs
  <2>3. job[u].kind = "auto" => pc[u] = "changed"
    BY <2>1 DEF LineOk
  <2> QED
    BY <1>1, <2>1, <2>2, <2>3 DEF Busy, InCall
<1>8. ASSUME NEW u \in Sessions, job[u].table = tb, job[u].kind = "commit" PROVE pc[u] \notin {"appended", "durable"}
  <2> SUFFICES ASSUME pc[u] \in {"appended", "durable"} PROVE FALSE
    OBVIOUS
  <2>1. Placed(u)
    BY <1>0 DEF Control
  <2>2. job[u].committing
    BY <1>8, <2>1 DEF Placed
  <2>3. Exclusive(u, tb)
    BY <1>8, <2>2 DEF Exclusive, Busy, InCall
  <2> QED
    BY <1>1, <1>4, <2>3
<1>9. ASSUME NEW u \in Sessions, InOpen(u), job[u].table = tb PROVE Pends(u, tb)
  <2>1. job[u].kind = "commit" /\ pc[u] # "idle"
    BY <1>9 DEF InOpen
  <2>2. ~IsLogged(u)
    BY <1>8, <1>9, <2>1 DEF IsLogged, InOpen
  <2>3. ~job[u].logged
    BY <1>0, <2>2 DEF Positions
  <2> QED
    BY <1>9, <2>1, <2>3 DEF Pends
<1>10. ASSUME NEW u \in Sessions, job[u].table = tb PROVE pc[u] # "appended"
  <2> SUFFICES ASSUME pc[u] = "appended" PROVE FALSE
    OBVIOUS
  <2>1. job[u].kind \in {"auto", "commit"}
    BY <1>0, JobIs
  <2> QED
    BY <1>1, <1>8, <1>10, <2>1 DEF Busy, InCall
<1>11. OnLine(tb)'
  <2>1. /\ R \in SUBSET mem[tb] /\ Sound(R) /\ Closed(R, open)
        /\ \A v \in mem[tb] : v.xmax = 0 \/ v.xmax \in open => v \in R
    BY <1>1, <1>3, <1>a, KeptIs
  <2>2. mem'[tb] = R /\ file'[tb] = save_committed(R)
    BY <1>1, <1>2, <1>3
  <2> QED
    BY <1>1, <1>3, <1>6, <1>7, <1>9, <1>10, <2>1, <2>2, RewrittenLine
<1>12. ASSUME NEW t \in Tables, t # tb PROVE OnLine(t)'
  <2>1. mem'[t] = mem[t] /\ file'[t] = file[t]
    BY <1>1, <1>2, <1>12
  <2>2. At(t)' = At(t) /\ (\A i \in At(t) : log'[i] = log[i]) /\ stable' \in Nat /\ stable <= stable'
    BY <1>1, <1>2 DEF At
  <2>3. \A u \in Sessions : pc[u] = "appended" /\ job[u].table = t =>
            pc'[u] = "appended" /\ job'[u].table = t /\ job'[u].id = job[u].id
    BY <1>1, <1>4, <1>5
  <2>4. Line(file[t], log, At(t), stable) /\ Awaited(t)
    BY <1>3, <1>6 DEF OnLine, Queue
  <2>5. Awaited(t)'
    BY <1>0, <2>2, <2>3, <2>4, AwaitedSame
  <2> QED
    BY <1>0, <1>1, <1>3, <1>6, <2>1, <2>2, <2>5, LineSame
<1>13. \A u \in Sessions : job'[u].kind = "auto" => pc'[u] \notin {"vacuumed", "marked"}
  BY <1>1, <1>4, <1>5 DEF LineOk
<1> QED
  BY <1>11, <1>12, <1>13 DEF LineOk

\* A table of a checkpoint, or of the recovery, is written.
LEMMA FlushLine ==
    ASSUME IInv, LogOk, LineOk, NEW tb \in Tables, FlushTable(tb)
    PROVE  LineOk'
<1>0. Types /\ Control /\ Logged /\ Rows /\ Positions /\ Covered(tb)
  BY DEF IInv, LogOk
<1>1. /\ tb \in pending /\ file' = [file EXCEPT ![tb] = save_committed(mem[tb])]
      /\ UNCHANGED <<mode, mem, log, stable, job, pc, open>>
  BY DEF FlushTable, logVars, sessVars
<1>2. mode \in {"checkpoint", "recovering"}
  BY <1>0, <1>1 DEF Control, Types
<1>3. /\ mem \in [Tables -> SUBSET Versions] /\ file \in [Tables -> SUBSET Versions] /\ stable \in Nat
  BY <1>0 DEF Types
<1>4. ASSUME NEW t \in Tables PROVE At(t)' = At(t) /\ Todo(t)' = Todo(t) /\ (Awaited(t) => Awaited(t)') /\ OnLine(t)
  <2>1. Todo(t)' = Todo(t)
    BY <1>1 DEF Todo, Pends, Task
  <2>2. At(t)' = At(t)
    BY <1>1 DEF At
  <2>3. Awaited(t) => Awaited(t)'
    BY <1>1, <2>2 DEF Awaited
  <2> QED
    BY <2>1, <2>2, <2>3 DEF LineOk
<1>5. ASSUME NEW t \in Tables, t # tb PROVE OnLine(t)'
  <2>1. file'[t] = file[t] /\ mem'[t] = mem[t]
    BY <1>1, <1>3, <1>5
  <2>2. Known(t)' = Known(t)
    BY <1>1, <1>4, <2>1 DEF Known
  <2>3. Line(file[t], log, At(t), stable) /\ Queue(t)
    BY <1>4 DEF OnLine
  <2>4. Line(file[t], log, At(t), stable)'
    BY <1>1, <1>4, <2>1, <2>3
  <2>a. (mode' # "down" => OneLive(mem'[t])) /\ (mode' = "recovering" => \A v \in mem'[t] : \E k \in Known(t)' : v.id <= k)
    <3>1. mode' = mode
      BY <1>1
    <3> QED
      BY <2>1, <2>2, <2>3, <3>1 DEF Queue
  <2>b. Serving' => Continues(mem[t], Known(t), Todo(t))' /\ Awaited(t)'
    <3>1. Serving' => Serving
      BY <1>1 DEF Serving
    <3>2. Serving => Continues(mem[t], Known(t), Todo(t)) /\ Awaited(t)
      BY <2>3 DEF Queue
    <3> QED
      BY <1>4, <2>1, <2>2, <3>1, <3>2
  <2>5. Queue(t)'
    BY <2>a, <2>b DEF Queue
  <2> QED
    BY <2>4, <2>5 DEF OnLine
<1>6. Memory(tb)
  BY <1>0, <1>2 DEF Rows
<1>7. file'[tb] = save_committed(mem[tb]) /\ mem'[tb] = mem[tb]
  BY <1>1, <1>3
<1>8. Sound(mem[tb]) /\ Closed(mem[tb], open)
  BY <1>6 DEF Memory
<1>9. ASSUME mode = "checkpoint" PROVE OnLine(tb)'
  <2>1. \A u \in Sessions : pc[u] \notin InCall /\ Placed(u)
    BY <1>0, <1>9 DEF Control, Placed
  <2>2. ASSUME NEW u \in Sessions, Pends(u, tb) PROVE job[u].kind = "commit"
    <3>1. job[u].kind \in {"auto", "commit"}
      BY <1>0, <2>2, JobIs DEF Pends
    <3> QED
      BY <2>1, <3>1 DEF Placed
  <2>3. ASSUME NEW u \in Sessions, InOpen(u), job[u].table = tb PROVE Pends(u, tb)
    <3>1. pc[u] \in {"open", "failed"}
      BY <2>1, <2>3 DEF InOpen, InCall
    <3>2. ~job[u].logged
      BY <1>0, <3>1 DEF Positions, IsLogged
    <3> QED
      BY <2>3, <3>1, <3>2 DEF Pends
  <2>4. \A u \in Sessions : job[u].table = tb => pc[u] # "appended"
    BY <2>1 DEF InCall
  <2>5. Serving /\ mode' \in {"up", "checkpoint"}
    BY <1>1, <1>9 DEF Serving
  <2>6. PICK R : R = mem[tb]
    OBVIOUS
  <2>7. R \in SUBSET mem[tb] /\ Sound(R) /\ Closed(R, open) /\ \A v \in mem[tb] : v.xmax = 0 \/ v.xmax \in open => v \in R
    BY <1>8, <2>6
  <2>8. mem'[tb] = R /\ file'[tb] = save_committed(R) /\ log' = log /\ stable' = stable /\ Todo(tb)' = Todo(tb)
    BY <1>1, <1>4, <1>7, <2>6
  <2> QED
    BY <2>2, <2>3, <2>4, <2>5, <2>7, <2>8, RewrittenLine
<1>10. ASSUME mode = "recovering" PROVE OnLine(tb)'
  <2>1. PICK M, K, F, A, l, st :
            /\ M = mem[tb] /\ K = Known(tb) /\ F = file[tb] /\ A = At(tb) /\ l = log /\ st = stable
    OBVIOUS
  <2>2. ~Serving /\ open = {}
    BY <1>0, <1>10, NobodyOpen DEF Serving
  <2>3. file'[tb] = M
    BY <1>3, <1>7, <2>1, <2>2, SaveAll
  <2>4. OneLive(M) /\ Line(F, l, A, st) /\ \A v \in M : \E k \in K : v.id <= k
    BY <1>4, <1>10, <2>1 DEF OnLine, Queue
  <2>5. /\ F \in SUBSET Versions /\ K \in SUBSET Nat /\ Batches(l, A) /\ K = Held(F, l, A) /\ M \in SUBSET Versions
    BY <1>0, <1>3, <2>1, KnownIs DEF Known
  <2>6. \A i \in A : i <= st
    <3>1. stable = Len(log)
      BY <1>0, <2>2 DEF Control
    <3>2. \A i \in A : i \in 1 .. Len(log)
      BY <2>1 DEF At
    <3> QED
      BY <2>1, <3>1, <3>2
  <2>7. PICK f \in M : \A v \in M : v.id <= f.id
    BY <1>8, <2>1, <2>5, LatestOf DEF Closed
  <2>8. \A v \in M : v.id \in Nat
    BY <2>5, BoundsAssumption DEF Versions, Ids
  <2>9. \A k \in K : k <= f.id
    <3> TAKE k \in K
    <3>1. \A v \in file[tb] : Reaches(mem[tb], open, v.id)
      BY <1>6 DEF Memory
    <3>2. \A i \in At(tb) : Reaches(mem[tb], {}, log[i].id)
      BY <1>0, <1>10 DEF Covered
    <3>3. PICK v \in M : k <= v.id
      BY <2>1, <2>5, <3>1, <3>2 DEF Reaches, Held
    <3>4. v.id <= f.id
      BY <2>7
    <3> QED
      BY <2>5, <2>8, <3>3, <3>4
  <2>10. Tip(K, f.id)
    <3>1. PICK k \in K : f.id <= k
      BY <2>4
    <3>2. f.id = k
      BY <2>5, <2>8, <2>9, <3>1
    <3> QED
      BY <2>9, <3>2 DEF Tip
  <2>11. /\ Line(M, l, A, st)
         /\ \A k \in K : \E n \in Held(M, l, A) : k <= n
    BY <2>4, <2>5, <2>6, <2>7, <2>10, FileJoinsLine
  <2>12. Line(file[tb], log, At(tb), stable)'
    BY <1>1, <1>4, <2>1, <2>3, <2>11
  <2>13. Known(tb)' = Held(M, l, A)
    BY <1>1, <1>4, <2>1, <2>3 DEF Known
  <2>14. \A v \in M : \E k \in Held(M, l, A) : v.id <= k
    <3>1. f.id \in Held(M, l, A)
      BY DEF Held
    <3> QED
      BY <2>7, <3>1
  <2>a. ~Serving' /\ OneLive(mem[tb])'
    BY <1>1, <1>7, <1>10, <2>1, <2>4 DEF Serving
  <2>15. Queue(tb)'
    BY <1>7, <2>1, <2>13, <2>14, <2>a DEF Queue
  <2>16. OnLine(tb)'
    BY <2>12, <2>15 DEF OnLine
  <2> QED
    BY <2>16
<1>11. \A u \in Sessions : job'[u].kind = "auto" => pc'[u] \notin {"vacuumed", "marked"}
  BY <1>1 DEF LineOk
<1> QED
  BY <1>2, <1>5, <1>9, <1>10, <1>11 DEF LineOk

\* What a crash leaves of the log is a line.
LEMMA LineCut ==
    ASSUME NEW F, NEW l, NEW A, Batches(l, A), NEW st \in Nat, Line(F, l, A, st), NEW n \in Nat, st <= n,
           NEW B, B = {i \in A : i <= n}, NEW k, \A i \in B : k[i] = l[i]
    PROVE  Line(F, k, B, n)
<1>0. \A i \in A : i \in Nat
  BY DEF Batches
<1>1. ASSUME NEW i \in B, NEW j \in B, i < j
      PROVE  k[i].id <= k[j].ended /\ \E m \in B : i < m /\ m <= j /\ k[m].ended = k[i].id
  <2>1. i \in A /\ j \in A /\ j <= n /\ k[i] = l[i] /\ k[j] = l[j]
    OBVIOUS
  <2>2. l[i].id <= l[j].ended
    BY <1>1, <2>1 DEF Line
  <2>3. PICK m \in A : i < m /\ m <= j /\ l[m].ended = l[i].id
    BY <1>1, <2>1 DEF Line
  <2>4. m <= n
    BY <1>0, <2>1, <2>3
  <2>5. m \in B
    BY <2>4
  <2> QED
    BY <2>1, <2>2, <2>3, <2>5
<1>2. ASSUME NEW f \in F, NEW j \in B, \A v \in F : v.id <= f.id
      PROVE  IF k[j].id <= f.id THEN \E i \in B : i <= n /\ k[i].id = f.id
             ELSE \E m \in B : m <= j /\ k[m].ended = f.id
  <2>1. j \in A /\ j <= n /\ k[j] = l[j]
    OBVIOUS
  <2>2. CASE l[j].id <= f.id
    <3>1. PICK i \in A : i <= st /\ l[i].id = f.id
      BY <1>2, <2>1, <2>2 DEF Line
    <3>2. i <= n
      BY <1>0, <3>1
    <3>3. i \in B
      BY <3>2
    <3> QED
      BY <2>1, <2>2, <3>1, <3>2, <3>3
  <2>3. CASE ~(l[j].id <= f.id)
    <3>1. PICK m \in A : m <= j /\ l[m].ended = f.id
      BY <1>2, <2>1, <2>3 DEF Line
    <3>2. m <= n
      BY <1>0, <2>1, <3>1
    <3>3. m \in B
      BY <3>2
    <3> QED
      BY <2>1, <2>3, <3>1, <3>3
  <2> QED
    BY <2>2, <2>3
<1>3. OneLive(F)
  BY DEF Line
<1> QED
  BY <1>1, <1>2, <1>3 DEF Line

\* Without a log the file alone is the line.
LEMMA NoBatches ==
    ASSUME NEW F, OneLive(F), NEW l, NEW st
    PROVE  Line(F, l, {}, st) /\ Held(F, l, {}) = {v.id : v \in F}
BY DEF Line, Held

LEMMA CheckpointLine ==
    ASSUME IInv, LogOk, LineOk, Checkpoint
    PROVE  LineOk'
<1>0. Types /\ Control /\ Logged
  BY DEF IInv
<1>1. mode = "up" /\ mode' = "checkpoint" /\ UNCHANGED <<mem, file, log, stable, pc, job>>
  BY DEF Checkpoint, logVars, sessVars
<1>2. stable \in Nat
  BY <1>0 DEF Types
<1>3. ASSUME NEW tb \in Tables PROVE OnLine(tb)'
  <2>1. OnLine(tb) /\ Serving /\ mode' \in {"up", "checkpoint"}
    BY <1>1 DEF LineOk, Serving
  <2>2. At(tb)' = At(tb) /\ Todo(tb)' = Todo(tb)
    BY <1>1 DEF At, Todo, Pends, Task
  <2>3. Awaited(tb)
    BY <2>1 DEF OnLine, Queue
  <2>4. Awaited(tb)'
    BY <1>1, <2>2, <2>3 DEF Awaited
  <2>5. /\ mem'[tb] = mem[tb] /\ file'[tb] = file[tb] /\ stable' \in Nat /\ stable <= stable'
        /\ \A i \in At(tb) : log'[i] = log[i]
    BY <1>1, <1>2
  <2> QED
    BY <1>0, <2>1, <2>2, <2>4, <2>5, LineSame
<1>4. \A u \in Sessions : job'[u].kind = "auto" => pc'[u] \notin {"vacuumed", "marked"}
  BY <1>1 DEF LineOk
<1> QED
  BY <1>3, <1>4 DEF LineOk

\* When the files of a checkpoint are written they hold the latest of all that the log holds.
LEMMA CheckpointDoneLine ==
    ASSUME IInv, LogOk, LineOk, CheckpointDone
    PROVE  LineOk'
<1>0. Types /\ Control /\ Logged
  BY DEF IInv
<1>1. /\ mode = "checkpoint" /\ mode' = "up" /\ pending = {} /\ log' = <<>> /\ stable' = 0
      /\ UNCHANGED <<mem, file, pc, job>>
  BY DEF CheckpointDone, AllFlushed, clear, sessVars
<1>2. ASSUME NEW tb \in Tables PROVE OnLine(tb)'
  <2>1. PICK M, K, U, F, A, l : M = mem[tb] /\ K = Known(tb) /\ U = Todo(tb) /\ F = file[tb] /\ A = At(tb) /\ l = log
    OBVIOUS
  <2>2. OneLive(M) /\ Continues(M, K, U) /\ OneLive(F)
    BY <1>1, <2>1 DEF LineOk, OnLine, Queue, Serving, Line
  <2>3. /\ M \in SUBSET Versions /\ F \in SUBSET Versions /\ K \in SUBSET Nat /\ Batches(l, A) /\ K = Held(F, l, A)
        /\ \A v \in F : v.id \in Nat
    BY <1>0, <2>1, KnownIs DEF Known, Types
  <2>4. PICK L : L = {v.id : v \in F}
    OBVIOUS
  <2>5. At(tb)' = {}
    BY <1>1 DEF At
  <2>6. Line(file[tb], log, At(tb), stable)' /\ Known(tb)' = L
    <3>1. PICK k, st : k = log' /\ st = stable'
      OBVIOUS
    <3>2. Line(F, k, {}, st) /\ Held(F, k, {}) = L
      BY <2>2, <2>4, NoBatches
    <3>3. file'[tb] = F
      BY <1>1, <2>1
    <3> QED
      BY <2>5, <3>1, <3>2, <3>3 DEF Known
  <2>7. Todo(tb)' = U
    BY <1>1, <2>1 DEF Todo, Pends, Task
  <2>8. L \in SUBSET Nat /\ \A n \in L : \E k \in K : n <= k
    BY <2>3, <2>4 DEF Held
  <2>9. \A k \in K : \E n \in L : k <= n
    <3>1. \A i \in A : Reaches(F, {}, l[i].id)
      BY <1>1, <2>1 DEF LogOk, Covered
    <3>2. \A i \in A : \E v \in F : l[i].id <= v.id
      BY <3>1 DEF Reaches
    <3> QED
      BY <2>3, <2>4, <3>2 DEF Held
  <2>10. U \subseteq Tasks
    BY <2>1, TodoIs
  <2>11. M \in SUBSET M
    OBVIOUS
  <2>12. Continues(M, L, U)
    BY <2>2, <2>3, <2>8, <2>9, <2>10, <2>11, SameTip
  <2>13. OneLive(mem[tb])' /\ Continues(mem[tb], Known(tb), Todo(tb))' /\ Awaited(tb)'
    BY <1>1, <2>1, <2>2, <2>5, <2>6, <2>7, <2>12 DEF Awaited
  <2> QED
    BY <1>1, <2>6, <2>13 DEF OnLine, Queue
<1>3. \A u \in Sessions : job'[u].kind = "auto" => pc'[u] \notin {"vacuumed", "marked"}
  BY <1>1 DEF LineOk
<1> QED
  BY <1>2, <1>3 DEF LineOk

LEMMA CrashLine ==
    ASSUME IInv, LogOk, LineOk, Crash
    PROVE  LineOk'
<1>0. Types /\ Control /\ Logged
  BY DEF IInv
<1>1. /\ mode' = "down" /\ file' = file /\ \A u \in Sessions : job'[u] = NoJob
  BY DEF Crash
<1>2. PICK n \in stable .. Len(log) : log' = SubSeq(log, 1, n)
  BY DEF Crash
<1>3. log \in Seq(Entries) /\ stable \in Nat /\ Len(log) \in Nat /\ n \in 0 .. Len(log) /\ n \in Nat /\ stable <= n
  BY <1>0, <1>2 DEF Types
<1>4. Len(log') = n /\ (\A i \in 1 .. n : log'[i] = log[i]) /\ stable' = n
  <2>1. Begins(log', log) /\ Len(log') = n
    BY <1>2, <1>3, PrefixBegins
  <2> QED
    BY <2>1 DEF Begins, Crash
<1>5. ASSUME NEW tb \in Tables PROVE OnLine(tb)'
  <2>1. PICK F, A, l, st, k : F = file[tb] /\ A = At(tb) /\ l = log /\ st = stable /\ k = log'
    OBVIOUS
  <2>2. Line(F, l, A, st) /\ Batches(l, A)
    BY <1>0, <2>1, KnownIs DEF LineOk, OnLine
  <2>3. At(tb)' = {i \in A : i <= n}
    <3>1. \A i : i \in At(tb)' <=> i \in A /\ i <= n
      BY <1>3, <1>4, <2>1 DEF At
    <3> QED
      BY <3>1
  <2>4. PICK B : B = {i \in A : i <= n}
    OBVIOUS
  <2>5. \A i \in B : k[i] = l[i]
    BY <1>3, <1>4, <2>1, <2>4 DEF At
  <2>6. Line(F, k, B, n)
    BY <1>3, <2>1, <2>2, <2>4, <2>5, LineCut
  <2>7. Line(file[tb], log, At(tb), stable)'
    BY <1>1, <1>4, <2>1, <2>3, <2>4, <2>6
  <2>8. Queue(tb)'
    BY <1>1 DEF Queue, Serving
  <2> QED
    BY <2>7, <2>8 DEF OnLine
<1>6. \A u \in Sessions : job'[u].kind # "auto"
  BY <1>1 DEF NoJob
<1> QED
  BY <1>5, <1>6 DEF LineOk

LEMMA RecoverLine ==
    ASSUME IInv, LogOk, LineOk, Recover
    PROVE  LineOk'
<1>0. Types /\ Control /\ Logged /\ Rows
  BY DEF IInv
<1>1. /\ mode = "down" /\ mode' = "recovering" /\ UNCHANGED <<file, log, stable, pc, job>>
      /\ mem' = [tb \in Tables |-> Recovered(tb, log)]
  BY DEF Recover, logVars, sessVars
<1>2. log \in Seq(Entries) /\ stable <= Len(log) /\ Begins(log, log)
  BY <1>0 DEF Types, Begins
<1>3. ASSUME NEW tb \in Tables PROVE OnLine(tb)'
  <2>1. PICK R : R = Recovered(tb, log)
    OBVIOUS
  <2>2. Line(file[tb], log, At(tb), stable)
    BY DEF LineOk, OnLine
  <2>3. OneLive(R)
    BY <1>2, <2>1, <2>2, RecoveredOne
  <2>4. \A w \in R : (\E v \in file[tb] : w.id = v.id) \/ \E i \in Replayed(tb, log) : w.id = log[i].id
    BY <1>0, <1>2, <2>1, RecoveredSound DEF Rows, File
  <2>5. Replayed(tb, log) \subseteq At(tb)
    BY <1>0, <1>2, RecoveredIs
  <2>6. \A w \in R : w.id \in Known(tb) /\ w.id \in Nat
    <3>1. \A w \in R : w.id \in Known(tb)
      BY <2>4, <2>5 DEF Known, Held
    <3> QED
      BY <1>0, <3>1, KnownIs
  <2>7. At(tb)' = At(tb) /\ Known(tb)' = Known(tb)
    BY <1>1 DEF At, Known
  <2>8. Line(file[tb], log, At(tb), stable)'
    BY <1>1, <2>2, <2>7
  <2>9. mem'[tb] = R
    BY <1>1, <2>1
  <2>10. \A w \in R : \E k \in Known(tb) : w.id <= k
    BY <2>6
  <2>11. Queue(tb)'
    BY <1>1, <2>3, <2>7, <2>9, <2>10 DEF Queue, Serving
  <2> QED
    BY <2>8, <2>11 DEF OnLine
<1>4. \A u \in Sessions : job'[u].kind = "auto" => pc'[u] \notin {"vacuumed", "marked"}
  BY <1>1 DEF LineOk
<1> QED
  BY <1>3, <1>4 DEF LineOk

\* A table as it is in its file continues it.
LEMMA FreshContinues ==
    ASSUME NEW M \in SUBSET Versions, OneLive(M), Sound(M), NEW K, K = {v.id : v \in M}
    PROVE  Continues(M, K, {})
<1>1. \A v \in M : v.id \in Nat
  BY BoundsAssumption DEF Versions, Ids
<1>2. \A v \in M : \E k \in K : v.id <= k
  <2>1. \A v \in M : v.id \in K /\ v.id <= v.id
    BY <1>1
  <2> QED
    BY <2>1
<1>3. \A v \in M : v.xmax = 0 => Tip(K, v.id)
  <2> SUFFICES ASSUME NEW v \in M, v.xmax = 0 PROVE Tip(K, v.id)
    OBVIOUS
  <2>1. \A w \in M : w.id <= v.id
    BY LiveIsLatest
  <2> QED
    BY <2>1 DEF Tip
<1> QED
  BY <1>2, <1>3 DEF Continues

LEMMA InitLine == Init => LineInv
<1> SUFFICES ASSUME Init PROVE LineOk
  BY DEF LineInv
<1>1. /\ mode = "up" /\ log = <<>> /\ file = mem /\ mem = [tb \in Tables |-> {[id |-> 0, xmax |-> 0]}]
      /\ \A u \in Sessions : pc[u] = "idle"
  BY DEF Init
<1>2. ASSUME NEW tb \in Tables PROVE OnLine(tb)
  <2>1. mem[tb] = {[id |-> 0, xmax |-> 0]}
    BY <1>1
  <2>2. mem[tb] \in SUBSET Versions /\ Sound(mem[tb])
    BY <2>1, BoundsAssumption DEF Versions, Ids, Sound
  <2>3. OneLive(mem[tb])
    BY <2>1 DEF OneLive
  <2>4. PICK M, K : M = mem[tb] /\ K = {v.id : v \in M}
    OBVIOUS
  <2>5. At(tb) = {} /\ Todo(tb) = {}
    BY <1>1 DEF At, Todo, Pends
  <2>6. M \in SUBSET Versions /\ OneLive(M) /\ Sound(M) /\ file[tb] = M
    BY <1>1, <2>1, <2>2, <2>3, <2>4
  <2>7. Line(file[tb], log, At(tb), stable) /\ Known(tb) = K
    <3>1. PICK k, st : k = log /\ st = stable
      OBVIOUS
    <3>2. Line(M, k, {}, st) /\ Held(M, k, {}) = K
      BY <2>4, <2>6, NoBatches
    <3> QED
      BY <2>5, <2>6, <3>1, <3>2 DEF Known
  <2>8. Continues(M, K, {})
    BY <2>4, <2>6, FreshContinues
  <2>9. Awaited(tb)
    BY <2>5 DEF Awaited
  <2> QED
    BY <1>1, <2>4, <2>5, <2>6, <2>7, <2>8, <2>9 DEF OnLine, Queue
<1> QED
  BY <1>1, <1>2 DEF LineOk

LEMMA RecoverDoneLine ==
    ASSUME IInv, IInv', LogOk, LineOk, RecoverDone
    PROVE  LineOk'
<1>0. Types /\ Control /\ Logged /\ Rows
  BY DEF IInv
<1>1. /\ mode = "recovering" /\ mode' = "up" /\ pending = {} /\ log' = <<>>
      /\ UNCHANGED <<mem, file, pc, job>>
  BY DEF RecoverDone, AllFlushed, clear
<1>2. \A u \in Sessions : pc[u] = "idle"
  BY <1>0, <1>1, NobodyOpen DEF Serving
<1>3. ASSUME NEW tb \in Tables PROVE OnLine(tb)'
  <2>1. file[tb] = mem[tb] /\ Sound(mem[tb])
    BY <1>0, <1>1 DEF Rows, File, Memory
  <2>2. OneLive(mem[tb])
    BY <1>1 DEF LineOk, OnLine, Queue
  <2>3. mem[tb] \in SUBSET Versions
    BY <1>0 DEF Types
  <2>4. PICK M, K : M = mem'[tb] /\ K = {v.id : v \in M}
    OBVIOUS
  <2>5. At(tb)' = {} /\ Todo(tb)' = {}
    BY <1>1, <1>2 DEF At, Todo, Pends
  <2>6. M \in SUBSET Versions /\ OneLive(M) /\ Sound(M) /\ file'[tb] = M
    BY <1>1, <2>1, <2>2, <2>3, <2>4
  <2>7. Line(file[tb], log, At(tb), stable)' /\ Known(tb)' = K
    <3>1. PICK k, st : k = log' /\ st = stable'
      OBVIOUS
    <3>2. Line(M, k, {}, st) /\ Held(M, k, {}) = K
      BY <2>4, <2>6, NoBatches
    <3> QED
      BY <2>5, <2>6, <3>1, <3>2 DEF Known
  <2>8. Continues(M, K, {})
    BY <2>4, <2>6, FreshContinues
  <2>9. Awaited(tb)'
    BY <2>5 DEF Awaited
  <2> QED
    BY <1>1, <2>4, <2>5, <2>6, <2>7, <2>8, <2>9 DEF OnLine, Queue
<1>4. \A u \in Sessions : job'[u].kind = "auto" => pc'[u] \notin {"vacuumed", "marked"}
  BY <1>1 DEF LineOk
<1> QED
  BY <1>3, <1>4 DEF LineOk

\* What overtook a batch is not forgotten.
LEMMA OvertakenStays ==
    ASSUME Next, ~overtaken'
    PROVE  ~overtaken
<1>1. ASSUME NEW s \in Sessions, Session(s) PROVE ~overtaken
  BY <1>1 DEF Session, Change, Commit, Rollback, Finish, Reply, NothingToLog, WriteBatch, WriteBatchFails, SyncReturns,
              SyncStart, SyncEnd, SyncFailed, Vacuum, redo_mark_flushed, history
<1> QED
  BY <1>1 DEF Next, Checkpoint, CheckpointDone, FlushTable, Crash, Recover, RecoverDone, history

LEMMA LineStep ==
    ASSUME IInv, IInv', LogInv, LineInv, [Next]_vars
    PROVE  LineInv'
<1> SUFFICES ASSUME ~failed', ~overtaken' PROVE LineOk'
  BY DEF LineInv
<1>1. CASE UNCHANGED vars
  <2>1. UNCHANGED <<mode, mem, file, log, stable, pc, job, failed, overtaken>>
    BY <1>1 DEF vars, logVars, sessVars, history
  <2>2. LineOk
    BY <2>1 DEF LineInv
  <2>3. ASSUME NEW tb \in Tables PROVE OnLine(tb)'
    <3>1. At(tb)' = At(tb) /\ Todo(tb)' = Todo(tb)
      BY <2>1 DEF At, Todo, Pends, Task
    <3>2. Known(tb)' = Known(tb)
      BY <2>1, <3>1 DEF Known
    <3>3. Line(file[tb], log, At(tb), stable)
      BY <2>2 DEF LineOk, OnLine
    <3>4. Line(file[tb], log, At(tb), stable)'
      BY <2>1, <3>1, <3>3
    <3>5. Queue(tb)
      BY <2>2 DEF LineOk, OnLine
    <3>6. Awaited(tb) => Awaited(tb)'
      BY <2>1, <3>1 DEF Awaited
    <3>7. Continues(mem[tb], Known(tb), Todo(tb)) => Continues(mem[tb], Known(tb), Todo(tb))'
      BY <2>1, <3>1, <3>2
    <3>8. (OneLive(mem[tb]) => OneLive(mem[tb])') /\ (Serving' <=> Serving)
      BY <2>1 DEF Serving
    <3>9. Queue(tb)'
      BY <2>1, <3>2, <3>5, <3>6, <3>7, <3>8 DEF Queue
    <3> QED
      BY <3>4, <3>9 DEF OnLine
  <2> QED
    BY <2>1, <2>2, <2>3 DEF LineOk
<1>2. CASE Next
  <2>1. LogOk /\ LineOk
    BY <1>2, FailureStays, OvertakenStays DEF LogInv, LineInv
  <2>2. ASSUME NEW s \in Sessions, Session(s) PROVE LineOk'
    <3>1. ~WriteBatchFails(s) /\ ~SyncFailed(s)
      BY DEF WriteBatchFails, SyncFailed
    <3>2. ASSUME \/ Commit(s) \/ Finish(s) \/ Reply(s) \/ NothingToLog(s)
                 \/ SyncReturns(s) \/ SyncStart(s) \/ SyncEnd(s) \/ redo_mark_flushed(s)
          PROVE  LineOk'
      BY <2>1, <3>2, SessionQuiet
    <3>3. ASSUME NEW kind \in Kinds, NEW tb \in Tables, Change(s, kind, tb) PROVE LineOk'
      BY <2>1, <3>3, ChangeLine
    <3>4. Rollback(s) => LineOk'
      BY <2>1, RollbackLine
    <3>5. WriteBatch(s) => LineOk'
      BY <2>1, WriteLine
    <3>6. Vacuum(s) => LineOk'
      BY <2>1, VacuumLine
    <3> QED
      BY <2>2, <3>1, <3>2, <3>3, <3>4, <3>5, <3>6 DEF Session
  <2>3. ASSUME NEW tb \in Tables, FlushTable(tb) PROVE LineOk'
    BY <2>1, <2>3, FlushLine
  <2>4. ASSUME Checkpoint \/ CheckpointDone \/ Crash \/ Recover \/ RecoverDone PROVE LineOk'
    BY <2>1, <2>4, CheckpointLine, CheckpointDoneLine, CrashLine, RecoverLine, RecoverDoneLine
  <2> QED
    BY <1>2, <2>2, <2>3, <2>4 DEF Next
<1> QED
  BY <1>1, <1>2

\* As long as nothing fails and nothing overtakes a batch, the batches of a row form a line in the log, its
\* file lies on that line, and the changes that have no batch yet continue it.
THEOREM LineHolds == Spec => []LineInv
<1>1. Init => LineInv
  BY InitLine
<1>2. IInv /\ IInv' /\ LogInv /\ LineInv /\ [Next]_vars => LineInv'
  BY LineStep
<1> QED
  BY <1>1, <1>2, RowsHold, LogHolds, PTL DEF Spec

\* Wherever the program stops, a row has one live version after the restart, as long as every append and
\* fsync has succeeded and nothing has overtaken a batch: for any number of sessions, tables, vacuums,
\* checkpoints, crashes and recoveries in any order.
THEOREM OneVersionComesBack == Spec => []RecoversOneVersion
<1>1. IInv /\ LogInv /\ LineInv => RecoversOneVersion
  BY RecoversOne
<1> QED
  BY <1>1, RowsHold, LogHolds, LineHolds, PTL

================================================================================
