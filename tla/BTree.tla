------------------------------- MODULE BTree -------------------------------
(***************************************************************************)
(* The B+tree of storage/btree.cpp: the primary key index of every table   *)
(* and the secondary indexes.  A leaf is a sequence of keys with their     *)
(* values, an internal node a sequence of separators with one child more.  *)
(* A node that reaches ORDER keys is split, one that falls below MIN_KEYS  *)
(* takes a key from a sibling or is merged with it.                        *)
(*                                                                         *)
(* Keys are integers in the order of cmp_keys.  A value is the number of   *)
(* the operation that wrote it.  ORDER is even and at least 6.  The tree   *)
(* starts from Prefill ascending inserts, of which some may have been      *)
(* removed again from either end, so that a few more operations reach      *)
(* every case of rebalancing on both levels above the leaves.              *)
(***************************************************************************)
EXTENDS Integers, SequencesExt, FiniteSets

CONSTANTS ORDER,    \* keys at which a node is split
          Keys,     \* the keys the operations use
          Prefill,  \* keys 1..Prefill are inserted before the first operation
          MaxOps    \* bound: operations after that

VARIABLES root,  \* the tree, <<>> when empty
          map,   \* history: what the operations mean
          ops    \* operations so far

vars == <<root, map, ops>>

MIN_KEYS == ORDER \div 2 - 1
Empty == <<>>
Leaf(ks, vs) == [leaf |-> TRUE, keys |-> ks, values |-> vs, children |-> <<>>]
Internal(ks, cs) == [leaf |-> FALSE, keys |-> ks, values |-> <<>>, children |-> cs]

(***************************************************************************)
(* Positions count from 1: the child to take for a key is one past the     *)
(* separators not greater than it.                                         *)
(***************************************************************************)
FirstGreater(ks, key) == Cardinality({i \in DOMAIN ks : ks[i] <= key}) + 1
FirstGeq(ks, key) == Cardinality({i \in DOMAIN ks : ks[i] < key}) + 1

\* A finite set of integers as a sequence.
Ascending(S) == [n \in 1..Cardinality(S) |-> CHOOSE k \in S : Cardinality({j \in S : j < k}) = n - 1]

RECURSIVE Search(_, _)
\* search_node; 0 when the key is not there.
Search(node, key) ==
  IF node.leaf
  THEN LET at == {i \in DOMAIN node.keys : node.keys[i] = key}
       IN  IF at = {} THEN 0 ELSE node.values[CHOOSE i \in at : TRUE]
  ELSE Search(node.children[FirstGreater(node.keys, key)], key)

----------------------------------------------------------------------------
\* insert_node: the node, and if it was split the key that goes up with the node right of it.
Whole(node) == [node |-> node, up |-> 0, right |-> Empty]

SplitLeaf(node) ==
  IF Len(node.keys) < ORDER THEN Whole(node)
  ELSE LET mid == Len(node.keys) \div 2
       IN  [node |-> Leaf(SubSeq(node.keys, 1, mid), SubSeq(node.values, 1, mid)),
            up |-> node.keys[mid + 1],
            right |-> Leaf(SubSeq(node.keys, mid + 1, Len(node.keys)),
                           SubSeq(node.values, mid + 1, Len(node.values)))]

SplitInternal(node) ==
  IF Len(node.keys) < ORDER THEN Whole(node)
  ELSE LET mid == Len(node.keys) \div 2
       IN  [node |-> Internal(SubSeq(node.keys, 1, mid), SubSeq(node.children, 1, mid + 1)),
            up |-> node.keys[mid + 1],
            right |-> Internal(SubSeq(node.keys, mid + 2, Len(node.keys)),
                               SubSeq(node.children, mid + 2, Len(node.children)))]

InsertLeaf(node, key, value) ==
  LET pos == FirstGeq(node.keys, key)
  IN  IF pos <= Len(node.keys) /\ node.keys[pos] = key
      THEN Whole([node EXCEPT !.values[pos] = value])
      ELSE SplitLeaf(Leaf(InsertAt(node.keys, pos, key), InsertAt(node.values, pos, value)))

RECURSIVE InsertNode(_, _, _)
InsertNode(node, key, value) ==
  IF node.leaf THEN InsertLeaf(node, key, value)
  ELSE LET idx == FirstGreater(node.keys, key)
           down == InsertNode(node.children[idx], key, value)
           kept == [node EXCEPT !.children[idx] = down.node]
           pos == FirstGeq(node.keys, down.up)
       IN  IF down.right = Empty THEN Whole(kept)
           ELSE SplitInternal(Internal(InsertAt(kept.keys, pos, down.up),
                                       InsertAt(kept.children, pos + 1, down.right)))

\* BPlusTree::insert
Inserted(tree, key, value) ==
  IF tree = Empty THEN Leaf(<<key>>, <<value>>)
  ELSE LET res == InsertNode(tree, key, value)
       IN  IF res.right = Empty THEN res.node
           ELSE Internal(<<res.up>>, <<res.node, res.right>>)

----------------------------------------------------------------------------
\* borrow_from_left, for child i of a node; the separator is the least key right of it.
BorrowFromLeft(p, i) ==
  LET left == p.children[i - 1]
      at == p.children[i]
      newAt == IF at.leaf THEN Leaf(<<Last(left.keys)>> \o at.keys, <<Last(left.values)>> \o at.values)
               ELSE Internal(<<p.keys[i - 1]>> \o at.keys, <<Last(left.children)>> \o at.children)
      newLeft == IF at.leaf THEN Leaf(Front(left.keys), Front(left.values))
                 ELSE Internal(Front(left.keys), Front(left.children))
  IN  [p EXCEPT !.children[i - 1] = newLeft, !.children[i] = newAt, !.keys[i - 1] = Last(left.keys)]

BorrowFromRight(p, i) ==
  LET right == p.children[i + 1]
      at == p.children[i]
      newAt == IF at.leaf THEN Leaf(Append(at.keys, Head(right.keys)), Append(at.values, Head(right.values)))
               ELSE Internal(Append(at.keys, p.keys[i]), Append(at.children, Head(right.children)))
      newRight == IF at.leaf THEN Leaf(Tail(right.keys), Tail(right.values))
                  ELSE Internal(Tail(right.keys), Tail(right.children))
  IN  [p EXCEPT !.children[i] = newAt, !.children[i + 1] = newRight,
                !.keys[i] = IF at.leaf THEN newRight.keys[1] ELSE Head(right.keys)]

\* Mutant: the separator of two merged internal nodes is lost with its slot.
BugMerge(p, i) ==
  LET left == p.children[i]
      right == p.children[i + 1]
      both == IF left.leaf THEN Leaf(left.keys \o right.keys, left.values \o right.values)
              ELSE Internal(left.keys \o right.keys, left.children \o right.children)
  IN  Internal(RemoveAt(p.keys, i), RemoveAt([p.children EXCEPT ![i] = both], i + 1))

\* merge_with_left and merge_with_right: child i + 1 into child i, the separator between the
\* two drops down when they are internal.
Merge(p, i) ==
  LET left == p.children[i]
      right == p.children[i + 1]
      both == IF left.leaf THEN Leaf(left.keys \o right.keys, left.values \o right.values)
              ELSE Internal(Append(left.keys, p.keys[i]) \o right.keys, left.children \o right.children)
  IN  Internal(RemoveAt(p.keys, i), RemoveAt([p.children EXCEPT ![i] = both], i + 1))

Spare(p, i) == i \in DOMAIN p.children /\ Len(p.children[i].keys) > MIN_KEYS

RebalanceChild(p, i) ==
  CASE Spare(p, i - 1) -> BorrowFromLeft(p, i)
    [] ~Spare(p, i - 1) /\ Spare(p, i + 1) -> BorrowFromRight(p, i)
    [] ~Spare(p, i - 1) /\ ~Spare(p, i + 1) /\ i > 1 -> Merge(p, i - 1)
    [] ~Spare(p, i + 1) /\ i = 1 /\ Len(p.children) > 1 -> Merge(p, i)
    [] OTHER -> p

\* An internal node with one child is that child.
Collapsed(node) == IF Len(node.children) = 1 THEN node.children[1] ELSE node

RemoveLeaf(node, key) ==
  LET at == {i \in DOMAIN node.keys : node.keys[i] = key}
      i == CHOOSE j \in at : TRUE
      left == IF at = {} THEN node ELSE Leaf(RemoveAt(node.keys, i), RemoveAt(node.values, i))
  IN  IF left.keys = <<>> THEN Empty ELSE left

\* A child that became empty goes with the separator left of it (right of it for the first).
DropChild(node, idx) ==
  LET sep == IF idx = 1 THEN 1 ELSE idx - 1
      rest == Internal(IF sep <= Len(node.keys) THEN RemoveAt(node.keys, sep) ELSE node.keys,
                       RemoveAt(node.children, idx))
  IN  IF rest.children = <<>> THEN Empty ELSE Collapsed(rest)

RECURSIVE RemoveNode(_, _)
\* remove_node; Empty when nothing is left.
RemoveNode(node, key) ==
  IF node.leaf THEN RemoveLeaf(node, key)
  ELSE LET idx == FirstGreater(node.keys, key)
           child == RemoveNode(node.children[idx], key)
           kept == [node EXCEPT !.children[idx] = child]
       IN  IF child = Empty THEN DropChild(node, idx)
           ELSE Collapsed(IF Len(child.keys) < MIN_KEYS THEN RebalanceChild(kept, idx) ELSE kept)

\* BPlusTree::remove
Removed(tree, key) == IF tree = Empty THEN Empty ELSE RemoveNode(tree, key)

----------------------------------------------------------------------------
\* The children a search from lo on has to enter, and those a search up to hi has.
From(node, lo) == {i \in DOMAIN node.children : ~(i <= Len(node.keys) /\ node.keys[i] <= lo)}
UpTo(node, hi, incl) == {i \in DOMAIN node.children :
                           \A j \in 2..i : ~(IF incl THEN node.keys[j - 1] > hi ELSE node.keys[j - 1] >= hi)}

RECURSIVE RangeCollect(_, _, _)
\* range_collect and range_collect_keys: the values of the keys from lo to hi.
RangeCollect(node, lo, hi) ==
  IF node.leaf
  THEN LET hit == {i \in DOMAIN node.keys : node.keys[i] >= lo /\ \A j \in 1..i : node.keys[j] <= hi}
       IN  [n \in 1..Cardinality(hit) |-> node.values[Ascending(hit)[n]]]
  ELSE LET in == Ascending(From(node, lo) \cap UpTo(node, hi, TRUE))
       IN  FoldLeft(LAMBDA acc, i : acc \o RangeCollect(node.children[i], lo, hi), <<>>, in)

RECURSIVE ScanFrom(_, _, _)
\* scan_from_node
ScanFrom(node, lo, incl) ==
  IF node.leaf
  THEN SelectSeq(node.keys, LAMBDA k : IF incl THEN k >= lo ELSE k > lo)
  ELSE FoldLeft(LAMBDA acc, i : acc \o ScanFrom(node.children[i], lo, incl), <<>>,
                Ascending(From(node, lo)))

RECURSIVE ScanTo(_, _, _)
\* scan_to_node
ScanTo(node, hi, incl) ==
  IF node.leaf
  THEN SelectSeq(node.keys, LAMBDA k : IF incl THEN k <= hi ELSE k < hi)
  ELSE FoldLeft(LAMBDA acc, i : acc \o ScanTo(node.children[i], hi, incl), <<>>,
                Ascending(UpTo(node, hi, incl)))

RECURSIVE CollectAll(_)
\* collect_all and collect_kv_node
CollectAll(node) ==
  IF node.leaf THEN [i \in DOMAIN node.keys |-> <<node.keys[i], node.values[i]>>]
  ELSE FoldLeft(LAMBDA acc, c : acc \o CollectAll(c), <<>>, node.children)

----------------------------------------------------------------------------
Filled == FoldLeft(LAMBDA t, k : Inserted(t, k, k), Empty, [k \in 1..Prefill |-> k])

Init ==
  /\ \E n \in 0..Prefill : \E gone \in {[i \in 1..n |-> i], [i \in 1..n |-> Prefill + 1 - i]} :
       /\ root = FoldLeft(LAMBDA t, k : Removed(t, k), Filled, gone)
       /\ map = [k \in 1..Prefill \ ToSet(gone) |-> k]
  /\ ops = 0

\* BPlusTree::insert of a new key, or of a key that is there with another value.
Insert(key) ==
  /\ ops < MaxOps
  /\ ops' = ops + 1
  /\ root' = Inserted(root, key, Prefill + ops')
  /\ map' = [k \in DOMAIN map \cup {key} |-> IF k = key THEN Prefill + ops' ELSE map[k]]

Delete(key) ==
  /\ ops < MaxOps
  /\ ops' = ops + 1
  /\ root' = Removed(root, key)
  /\ map' = [k \in DOMAIN map \ {key} |-> map[k]]

Next == \E key \in Keys : Insert(key) \/ Delete(key)

Spec == Init /\ [][Next]_vars

----------------------------------------------------------------------------
Bounds == {0} \cup Keys

(***************************************************************************)
(* The tree answers as the map would: point searches find the value of     *)
(* every key and nothing else, ranges and one-sided scans give the keys    *)
(* between their bounds in order, none twice (search, range_search,        *)
(* scan_from, scan_to, collect_all_kv).                                    *)
(***************************************************************************)
AnswersAsAMap ==
  IF root = Empty THEN map = <<>>
  ELSE /\ \A k \in Keys : Search(root, k) = (IF k \in DOMAIN map THEN map[k] ELSE 0)
       /\ CollectAll(root) = [n \in 1..Cardinality(DOMAIN map) |->
                                 <<Ascending(DOMAIN map)[n], map[Ascending(DOMAIN map)[n]]>>]
       /\ \A a \in Bounds :
            /\ \A incl \in BOOLEAN :
                 /\ ScanFrom(root, a, incl) = Ascending({k \in DOMAIN map : IF incl THEN k >= a ELSE k > a})
                 /\ ScanTo(root, a, incl) = Ascending({k \in DOMAIN map : IF incl THEN k <= a ELSE k < a})
            /\ LET b == a + 4
                   hit == Ascending({k \in DOMAIN map : a <= k /\ k <= b})
               IN  RangeCollect(root, a, b) = [n \in DOMAIN hit |-> map[hit[n]]]
=============================================================================
