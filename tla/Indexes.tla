------------------------------ MODULE Indexes ------------------------------
(***************************************************************************)
(* The indexes of a table beside its row versions.  Every index keeps its  *)
(* own copy of a row: the primary key tree one per key, the secondary      *)
(* B+tree and the hash index a bucket of copies per value, the composite   *)
(* index (here on the value and the key) one per composite key; row_pk_pos *)
(* remembers at which position of the table a key was last seen.           *)
(*                                                                         *)
(* A statement changes the table under the table's data lock, but UPDATE   *)
(* gives that lock back before it goes on to the indexes, where only each  *)
(* single operation on a tree is atomic: a bucket is read, changed and     *)
(* written back.  INSERT and DELETE hold the data lock throughout, which   *)
(* keeps readers out and does not keep an UPDATE's second half out.        *)
(*                                                                         *)
(* Rows are [pk, val, xmin, xmax]; ids grow, those in active are open      *)
(* transactions, every other one has committed (a statement outside a      *)
(* transaction takes an id that was never active).  Reads are at READ      *)
(* COMMITTED or outside a transaction; a frozen snapshot uses no index.    *)
(***************************************************************************)
EXTENDS Integers, SequencesExt, FiniteSets

CONSTANTS Sessions, Pks, Vals,
          MaxWrites \* bound: statements that write

VARIABLES rows,    \* the versions, in the order they lie in the table
          pktree,  \* pk -> copy, None when there is no entry
          buckets, \* secondary B+tree: value -> sequence of copies
          hash,    \* hash index: value -> sequence of copies
          comp,    \* composite index: set of copies, one per <<val, pk>>
          pos,     \* row_pk_pos: pk -> position, 0 when there is none
          active,  \* ids of the open transactions
          txn,     \* session -> its open transaction, 0 outside one
          work,    \* session -> the statement it is in the middle of
          xlock,   \* the session that holds the data lock exclusively, or None
          claims,  \* pk -> the session that has claimed the row, or None
          writes,  \* ids given out
          lost     \* history: a bucket was written over somebody else's change of it

vars == <<rows, pktree, buckets, hash, comp, pos, active, txn, work, xlock, claims, writes, lost>>

None == [pk |-> 0]
Nobody == 0
Copy(k, v, x) == [pk |-> k, val |-> v, xmin |-> x, xmax |-> 0]
Idle == [kind |-> "idle"]

Live(r) == r.xmax = 0 \* Executor::is_visible
\* is_visible_for_read for a reader whose own id is self (0: it has none).
Visible(r, self) == /\ r.xmin = self \/ r.xmin \notin active
                    /\ r.xmax = 0 \/ (r.xmax # self /\ r.xmax \in active)

Init == /\ rows = <<>> /\ pktree = [k \in Pks |-> None]
        /\ buckets = [v \in Vals |-> <<>>] /\ hash = [v \in Vals |-> <<>>]
        /\ comp = {} /\ pos = [k \in Pks |-> 0]
        /\ active = {} /\ txn = [s \in Sessions |-> 0]
        /\ work = [s \in Sessions |-> Idle] /\ xlock = Nobody
        /\ claims = [k \in Pks |-> Nobody] /\ writes = 0 /\ lost = FALSE

----------------------------------------------------------------------------
\* The composite key of a copy is <<val, pk>>: an insert replaces what has the same key.
CompWithout(c, r) == {x \in c : <<x.val, x.pk>> # <<r.val, r.pk>>}
CompInsert(c, r) == CompWithout(c, r) \cup {r}

\* Removing from a bucket takes every copy with the row's primary key.
WithoutPk(b, k) == SelectSeq(b, LAMBDA r : r.pk # k)

HashIndexRemove(h, old) == IF old = None THEN h ELSE [h EXCEPT ![old.val] = WithoutPk(@, old.pk)]
HashIndexInsert(h, new) == IF new = None THEN h ELSE [h EXCEPT ![new.val] = Append(@, new)]

\* build_pk_tree: the dead versions go in first, then the live ones overwrite them.
BuildPkTree(rs) ==
  [k \in Pks |-> LET own == SelectSeq(rs, LAMBDA r : r.pk = k)
                     live == SelectSeq(own, Live)
                 IN  IF own = <<>> THEN None ELSE IF live # <<>> THEN Last(live) ELSE Last(own)]

\* rebuild_secondary_indexes, CompositeIndex::rebuild: every version there is.
BuildBuckets(rs) == [v \in Vals |-> SelectSeq(rs, LAMBDA r : r.val = v)]
BuildComposite(rs) == FoldLeft(CompInsert, {}, rs)

----------------------------------------------------------------------------
\* The buckets a statement touches: where its old row is and where its new one goes.
Touched(old, new) == {r.val : r \in {old, new} \ {None}}
Statement(kind, old, new) ==
  [kind |-> kind, old |-> old, new |-> new, todo |-> Touched(old, new), at |-> 0, got |-> <<>>]

Own(s) == IF txn[s] # 0 THEN txn[s] ELSE writes + 1
Free(s, k) == claims[k] \in {Nobody, s}
Claim(s, K) == claims' = [k \in Pks |-> IF k \in K THEN s ELSE claims[k]]
MayWrite(s) == work[s] = Idle /\ xlock = Nobody /\ writes < MaxWrites
Target(k) == {i \in DOMAIN rows : rows[i].pk = k /\ Live(rows[i])}

\* exec_insert_inner's last part, under the data lock to its end: the key tree and the composite
\* index, then the buckets, then the row itself with its position.
Insert(s, k, v) ==
  /\ MayWrite(s) /\ Free(s, k) /\ Target(k) = {}
  /\ Claim(s, {k}) /\ xlock' = s /\ writes' = writes + 1
  /\ LET new == Copy(k, v, Own(s))
     IN  /\ pktree' = [pktree EXCEPT ![k] = new]
         /\ comp' = CompInsert(comp, new)
         /\ work' = [work EXCEPT ![s] = Statement("insert", None, new)]
  /\ UNCHANGED <<rows, buckets, hash, pos, active, txn, lost>>

\* exec_update_inner: the versions change under the data lock, which is given back at once.
Update(s, k, k2, v) ==
  /\ MayWrite(s) /\ Free(s, k) /\ Free(s, k2)
  /\ k2 # k => Target(k2) = {}
  /\ Claim(s, {k, k2}) /\ writes' = writes + 1
  /\ \E i \in Target(k) :
       LET new == Copy(k2, v, Own(s))
       IN  /\ rows' = Append([rows EXCEPT ![i].xmax = Own(s)], new)
           /\ pos' = [p \in Pks |-> IF p = k2 THEN Len(rows) + 1 ELSE IF p = k THEN 0 ELSE pos[p]]
           /\ work' = [work EXCEPT ![s] = Statement("update", rows[i], new)]
  /\ UNCHANGED <<pktree, buckets, hash, comp, active, txn, xlock, lost>>

\* Then the key tree and the composite index: in place when the key stays, otherwise the old
\* entries go now and the new ones come after the buckets.
UpdateKeys(s) ==
  /\ work[s].kind = "update"
  /\ LET old == work[s].old
         new == work[s].new
     IN  /\ pktree' = IF new.pk = old.pk THEN [pktree EXCEPT ![new.pk] = new] ELSE [pktree EXCEPT ![old.pk] = None]
         /\ comp' = IF new.pk = old.pk
                    THEN CompInsert(IF new.val = old.val THEN comp ELSE CompWithout(comp, old), new)
                    ELSE CompWithout(comp, old)
  /\ work' = [work EXCEPT ![s].kind = "update_buckets"]
  /\ UNCHANGED <<rows, buckets, hash, pos, active, txn, xlock, claims, writes, lost>>

\* A DELETE that ends rows in place (in a transaction, or when another one is open).
SoftDelete(s, k) ==
  /\ MayWrite(s) /\ Free(s, k) /\ active # {}
  /\ Claim(s, {k}) /\ xlock' = s /\ writes' = writes + 1
  /\ \E i \in Target(k) :
       LET new == [rows[i] EXCEPT !.xmax = Own(s)]
       IN  /\ rows' = [rows EXCEPT ![i] = new]
           /\ pktree' = [pktree EXCEPT ![k] = new]
           /\ comp' = CompInsert(CompWithout(comp, rows[i]), new)
           /\ work' = [work EXCEPT ![s] = Statement("delete", rows[i], new)]
  /\ UNCHANGED <<buckets, hash, pos, active, txn, lost>>

\* A DELETE with nobody in a transaction erases.  By the position of the key, and the last row
\* moves there; otherwise a pass over the table, after which no position is known.
HardDelete(s, k) ==
  /\ MayWrite(s) /\ Free(s, k) /\ active = {}
  /\ Claim(s, {k}) /\ xlock' = s /\ writes' = writes + 1
  /\ \E i \in Target(k) :
       /\ IF pos[k] = i
          THEN LET last == rows[Len(rows)]
               IN  /\ rows' = Front([rows EXCEPT ![i] = last])
                   /\ pos' = [p \in Pks |-> IF p = k THEN 0 ELSE IF i < Len(rows) /\ p = last.pk THEN i ELSE pos[p]]
          ELSE /\ rows' = RemoveAt(rows, i)
               /\ pos' = [p \in Pks |-> 0]
       /\ work' = [work EXCEPT ![s] = Statement("erase", rows[i], None)]
  /\ UNCHANGED <<pktree, buckets, hash, comp, active, txn, lost>>

----------------------------------------------------------------------------
\* index_replace_rows, one bucket: it is read ...
ReadBucket(s, v) ==
  /\ work[s].kind \in {"insert", "update_buckets", "delete", "erase"}
  /\ work[s].at = 0 /\ v \in work[s].todo
  /\ work' = [work EXCEPT ![s].at = v, ![s].got = buckets[v]]
  /\ UNCHANGED <<rows, pktree, buckets, hash, comp, pos, active, txn, xlock, claims, writes, lost>>

\* Mutant: the rows that leave the bucket are not taken out of it.
BugReplaced(w) ==
  IF w.new # None /\ w.new.val = w.at THEN Append(w.got, w.new) ELSE w.got

\* The bucket without the rows that leave it and with those that enter.
Replaced(w) ==
  LET stay == IF w.old # None /\ w.old.val = w.at THEN WithoutPk(w.got, w.old.pk) ELSE w.got
  IN  IF w.new # None /\ w.new.val = w.at THEN Append(stay, w.new) ELSE stay

\* ... and written back as it was read, changed.
WriteBucket(s) ==
  /\ work[s] # Idle /\ work[s].at # 0
  /\ buckets' = [buckets EXCEPT ![work[s].at] = Replaced(work[s])]
  /\ lost' = (lost \/ buckets[work[s].at] # work[s].got)
  /\ work' = [work EXCEPT ![s].at = 0, ![s].got = <<>>, ![s].todo = @ \ {work[s].at}]
  /\ UNCHANGED <<rows, pktree, hash, comp, pos, active, txn, xlock, claims, writes>>

\* The hash index, what is left of the statement, and its claims if it is on its own.
Finish(s) ==
  /\ work[s] # Idle /\ work[s].kind # "update" /\ work[s].at = 0 /\ work[s].todo = {}
  /\ LET w == work[s]
         late == w.kind = "update_buckets" /\ w.new.pk # w.old.pk
     IN  /\ hash' = HashIndexInsert(HashIndexRemove(hash, w.old), w.new)
         /\ rows' = IF w.kind = "insert" THEN Append(rows, w.new) ELSE rows
         /\ pos' = IF w.kind = "insert" /\ txn[s] = 0 THEN [pos EXCEPT ![w.new.pk] = Len(rows) + 1] ELSE pos
         /\ pktree' = CASE w.kind = "erase" -> [pktree EXCEPT ![w.old.pk] = None]
                        [] late -> [pktree EXCEPT ![w.new.pk] = w.new]
                        [] OTHER -> pktree
         /\ comp' = CASE w.kind = "erase" -> CompWithout(comp, w.old)
                      [] late -> CompInsert(comp, w.new)
                      [] OTHER -> comp
  /\ work' = [work EXCEPT ![s] = Idle]
  /\ xlock' = IF xlock = s THEN Nobody ELSE xlock
  /\ claims' = IF txn[s] # 0 THEN claims ELSE [k \in Pks |-> IF claims[k] = s THEN Nobody ELSE claims[k]]
  /\ UNCHANGED <<buckets, active, txn, writes, lost>>

----------------------------------------------------------------------------
\* BEGIN, COMMIT, ROLLBACK and VACUUM have the table to themselves.
Quiet == \A s \in Sessions : work[s] = Idle
EndTxn(s) == /\ active' = active \ {txn[s]}
             /\ txn' = [txn EXCEPT ![s] = 0]
             /\ claims' = [k \in Pks |-> IF claims[k] = s THEN Nobody ELSE claims[k]]

Begin(s) == /\ work[s] = Idle /\ txn[s] = 0 /\ writes < MaxWrites
            /\ writes' = writes + 1 /\ txn' = [txn EXCEPT ![s] = writes + 1]
            /\ active' = active \cup {writes + 1}
            /\ UNCHANGED <<rows, pktree, buckets, hash, comp, pos, work, xlock, claims, lost>>

Commit(s) == /\ Quiet /\ txn[s] # 0 /\ EndTxn(s)
             /\ UNCHANGED <<rows, pktree, buckets, hash, comp, pos, work, xlock, writes, lost>>

\* apply_rollback: what the transaction made goes, what it ended comes back, every index is built anew.
Undone(rs, id) ==
  LET kept == SelectSeq(rs, LAMBDA r : r.xmin # id)
  IN  [i \in DOMAIN kept |-> IF kept[i].xmax = id THEN [kept[i] EXCEPT !.xmax = 0] ELSE kept[i]]

Rollback(s) ==
  /\ Quiet /\ txn[s] # 0 /\ EndTxn(s)
  /\ rows' = Undone(rows, txn[s])
  /\ pktree' = BuildPkTree(rows') /\ comp' = BuildComposite(rows')
  /\ buckets' = BuildBuckets(rows') /\ hash' = BuildBuckets(rows')
  /\ UNCHANGED <<pos, work, xlock, writes, lost>>

\* exec_vacuum: versions that ended before every open transaction; the secondary and hash indexes
\* keep the copies they have of them, row_pk_pos the positions.
Vacuumable(r) == r.xmax # 0 /\ r.xmax \notin active /\ \A id \in active : r.xmax < id
Vacuum ==
  /\ Quiet /\ \E i \in DOMAIN rows : Vacuumable(rows[i])
  /\ rows' = SelectSeq(rows, LAMBDA r : ~Vacuumable(r))
  /\ pktree' = BuildPkTree(rows') /\ comp' = BuildComposite(rows')
  /\ UNCHANGED <<buckets, hash, pos, active, txn, work, xlock, claims, writes, lost>>

Next == \/ \E s \in Sessions, k \in Pks, v \in Vals : Insert(s, k, v)
        \/ \E s \in Sessions, k, k2 \in Pks, v \in Vals : Update(s, k, k2, v)
        \/ \E s \in Sessions, k \in Pks : SoftDelete(s, k) \/ HardDelete(s, k)
        \/ \E s \in Sessions, v \in Vals : ReadBucket(s, v)
        \/ \E s \in Sessions : UpdateKeys(s) \/ WriteBucket(s) \/ Finish(s) \/ Begin(s) \/ Commit(s) \/ Rollback(s)
        \/ Vacuum

Spec == Init /\ [][Next]_vars

----------------------------------------------------------------------------
(***************************************************************************)
(* Reading.  A condition is [pk, val], each 0 where it says nothing, and   *)
(* which of the two is written first; have is the set of indexes the table *)
(* has besides its primary key.                                            *)
(***************************************************************************)
Conditions == {c \in [pk : Pks \cup {0}, val : Vals \cup {0}, first : {"pk", "val"}] : c.pk # 0 \/ c.val # 0}
Meets(r, c) == c.pk \in {0, r.pk} /\ c.val \in {0, r.val}

\* Planner::choose_access: a single comparison uses the index of its column, several the composite
\* index, which fixes its leading column.
ChooseAccess(c, have) ==
  CASE c.val = 0 -> "pk"
    [] c.pk = 0 /\ "hash" \in have -> "hash"
    [] c.pk = 0 /\ "secondary" \in have -> "secondary"
    [] "composite" \in have -> "composite"
    [] OTHER -> "scan"

\* Planner::plan, pick_access: an AND that would be a scan is answered by the first of its parts
\* that has an index, and the rest of the condition is checked on what it finds.
Plan(c, have) ==
  LET whole == ChooseAccess(c, have)
      part == ChooseAccess([c EXCEPT !.pk = 0], have)
  IN  CASE whole # "scan" \/ c.pk = 0 -> whole
        [] c.first = "val" /\ part # "scan" -> part
        [] OTHER -> "pk"

Scan(c, self) == {<<r.pk, r.val>> : r \in {r \in ToSet(rows) : Visible(r, self) /\ Meets(r, c)}}

\* The copies an access path offers.
Offered(access, c) ==
  CASE access = "pk" -> IF pktree[c.pk] = None THEN <<>> ELSE <<pktree[c.pk]>>
    [] access = "hash" -> hash[c.val]
    [] access = "secondary" -> buckets[c.val]
    [] access = "composite" -> SetToSeq({r \in comp : r.val = c.val /\ c.pk \in {0, r.pk}})

\* The index part of exec_select: with another transaction open only a lookup of the key is
\* answered from an index, and only if it is the one entry there is.
Answer(c, self, have) ==
  LET access == Plan(c, have)
      found == SelectSeq(Offered(access, c), LAMBDA r : Visible(r, self) /\ Meets(r, c))
      alone == active \subseteq {self}
  IN  IF access # "scan" /\ (alone \/ (access = "pk" /\ Len(found) = 1))
      THEN [i \in DOMAIN found |-> <<found[i].pk, found[i].val>>]
      ELSE SetToSeq(Scan(c, self))

\* A query that selects nothing but the indexed column takes the values of the live copies.
CoveringAnswer(v) == SelectSeq(buckets[v], Live)

\* dml_index_positions: each copy is traced to the real row through row_pk_pos; whatever does not
\* add up makes the attempt unusable ({0}), and the statement scans.
Resolve(k) == IF pos[k] \in DOMAIN rows /\ rows[pos[k]].pk = k THEN pos[k] ELSE 0
DmlIndexPositions(c, self, have) ==
  LET access == Plan(c, have)
      cands == ToSet(Offered(access, c))
      doubtful(r) == IF ~Live(r) THEN access = "pk" /\ (Resolve(r.pk) = 0 \/ Live(rows[Resolve(r.pk)]))
                     ELSE \/ Resolve(r.pk) = 0
                          \/ rows[Resolve(r.pk)].xmin # r.xmin
                          \/ ~Live(rows[Resolve(r.pk)])
  IN  IF access \in {"scan", "composite"} \/ ~(active \subseteq {self}) \/ (\E r \in cands : doubtful(r)) THEN {0}
      ELSE {i \in {Resolve(r.pk) : r \in {r \in cands : Live(r)}} : Meets(rows[i], c)}

----------------------------------------------------------------------------
Readers == {0} \cup active
Settled == Quiet /\ ~lost

\* Between statements, and as long as no bucket was written over, a query answered from an index
\* returns each row a scan of the table would return, once: for every reader, every condition
\* and every set of indexes.  UPDATE and DELETE find through an index exactly the positions a
\* scan finds, or do not use it.
IndexAnswersAsScan ==
  Settled => \A c \in Conditions, self \in Readers, have \in SUBSET {"secondary", "hash", "composite"} :
    /\ LET a == Answer(c, self, have) IN ToSet(a) = Scan(c, self) /\ Len(a) = Cardinality(Scan(c, self))
    /\ Plan(c, have) = "secondary" /\ c.pk = 0 /\ active \subseteq {self} =>
         Len(CoveringAnswer(c.val)) = Cardinality(Scan(c, self))
    /\ LET p == DmlIndexPositions(c, self, have)
       IN  p # {0} => p = {i \in DOMAIN rows : Live(rows[i]) /\ Meets(rows[i], c)}

=============================================================================
