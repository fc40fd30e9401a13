------------------------------- MODULE BTree --------------------------------
(***************************************************************************)
(* The B+ tree behind the bt* commands (btree.c): every key and value is   *)
(* in a leaf, the leaves are linked both ways in key order, and the inner  *)
(* nodes hold separator keys.  A node is a cell of a heap, so that links   *)
(* to a freed or a moved node show.                                        *)
(*                                                                         *)
(* C arrays count from 0, sequences from 1: child i of the code is         *)
(* kids[i + 1].  A key is a number or a string; numbers compare exactly,   *)
(* which in the code holds of integers among each other and of every       *)
(* number below 2^53.  Allocation never fails.                             *)
(***************************************************************************)
EXTENDS Integers, SequencesExt, FiniteSetsExt

CONSTANTS BT_MAX, Keys, Vals, Absent

ASSUME BTreeAssumption ==
    /\ BT_MAX \in Nat /\ BT_MAX >= 2
    /\ Keys \subseteq [s : BOOLEAN, v : Int]

VARIABLES
    nodes,    \* the heap of nodes: id -> node
    root,     \* NULL or an id
    count,
    stored    \* history: the map that the commands so far ask for

treeVars == <<nodes, root, count, stored>>

BT_MIN == BT_MAX \div 2
NULL   == 0

Leaf(ks, vs, nxt, prv) ==
    [leaf |-> TRUE, keys |-> ks, vals |-> vs, kids |-> <<>>, next |-> nxt, prev |-> prv]

Inner(ks, kids) ==
    [leaf |-> FALSE, keys |-> ks, vals |-> <<>>, kids |-> kids, next |-> NULL, prev |-> NULL]

N(node) == Len(node.keys)

\* Numbers come before strings.
ussr_btree_key_compare(a, b) ==
    IF a.s # b.s THEN IF a.s THEN 1 ELSE -1
    ELSE IF a.v < b.v THEN -1 ELSE IF a.v > b.v THEN 1 ELSE 0

(***************************************************************************)
(* The two binary searches: how many keys are <= key, and how many are <.  *)
(***************************************************************************)
RECURSIVE UpperIn(_, _, _, _)
UpperIn(keys, key, lo, hi) ==
    LET mid == (lo + hi) \div 2
    IN  IF lo >= hi THEN lo
        ELSE IF ussr_btree_key_compare(keys[mid + 1], key) <= 0
             THEN UpperIn(keys, key, mid + 1, hi) ELSE UpperIn(keys, key, lo, mid)

bt_upper(node, key) == UpperIn(node.keys, key, 0, N(node))

RECURSIVE LowerIn(_, _, _, _)
LowerIn(keys, key, lo, hi) ==
    LET mid == (lo + hi) \div 2
    IN  IF lo >= hi THEN lo
        ELSE IF ussr_btree_key_compare(keys[mid + 1], key) < 0
             THEN LowerIn(keys, key, mid + 1, hi) ELSE LowerIn(keys, key, lo, mid)

bt_lower(node, key) == LowerIn(node.keys, key, 0, N(node))

Found(node, key) ==
    LET i == bt_lower(node, key)
    IN  i < N(node) /\ ussr_btree_key_compare(node.keys[i + 1], key) = 0

RECURSIVE LeafFrom(_, _)
LeafFrom(id, key) ==
    IF id = NULL \/ nodes[id].leaf THEN id
    ELSE LeafFrom(nodes[id].kids[bt_upper(nodes[id], key) + 1], key)

bt_leaf_for(key) == LeafFrom(root, key)

ussr_btree_get(key) ==
    LET leaf == bt_leaf_for(key)
    IN  IF leaf # NULL /\ Found(nodes[leaf], key)
        THEN nodes[leaf].vals[bt_lower(nodes[leaf], key) + 1] ELSE Absent

(***************************************************************************)
(* Insertion.  What one level hands to the level above it: the heap and,   *)
(* when the node split, the new right half and the key that separates it.  *)
(***************************************************************************)
NewNode(ns) == CHOOSE id \in 1..(Cardinality(DOMAIN ns) + 1) : id \notin DOMAIN ns

Alloc(ns, id, node) == [i \in DOMAIN ns \cup {id} |-> IF i = id THEN node ELSE ns[i]]
FreeNode(ns, id)    == [i \in DOMAIN ns \ {id} |-> ns[i]]

Unsplit(ns)          == [ns |-> ns, right |-> NULL, sep |-> Absent]
Halves(ns, r, sep) == [ns |-> ns, right |-> r, sep |-> sep]

SplitLeaf(ns, id) ==
    LET node == ns[id]
        half == N(node) \div 2
        r    == NewNode(ns)
        new  == Leaf(SubSeq(node.keys, half + 1, N(node)), SubSeq(node.vals, half + 1, N(node)),
                     node.next, id)
        cut  == Alloc([ns EXCEPT ![id] = Leaf(SubSeq(@.keys, 1, half), SubSeq(@.vals, 1, half),
                                              r, @.prev)], r, new)
    IN  Halves(IF node.next = NULL THEN cut ELSE [cut EXCEPT ![node.next].prev = r],
               r, new.keys[1])

LeafInsert(ns, id, key, val) ==
    LET node == ns[id]
        i    == bt_lower(node, key)
        put  == [ns EXCEPT ![id].keys = InsertAt(@, i + 1, key),
                           ![id].vals = InsertAt(@, i + 1, val)]
    IN  IF Found(node, key) THEN Unsplit([ns EXCEPT ![id].vals[i + 1] = val])
        ELSE IF N(put[id]) <= BT_MAX THEN Unsplit(put) ELSE SplitLeaf(put, id)

\* The middle key moves up; the halves keep the keys on either side.
SplitInner(ns, id) ==
    LET node == ns[id]
        half == N(node) \div 2
        r    == NewNode(ns)
    IN  Halves(Alloc([ns EXCEPT ![id] = Inner(SubSeq(node.keys, 1, half),
                                              SubSeq(node.kids, 1, half + 1))],
                     r, Inner(SubSeq(node.keys, half + 2, N(node)),
                              SubSeq(node.kids, half + 2, N(node) + 1))),
               r, node.keys[half + 1])

\* An inner node takes in the right half of its child, if the child split.
TakeHalf(below, id, key) ==
    LET ns  == below.ns
        i   == bt_upper(ns[id], key)
        put == [ns EXCEPT ![id].keys = InsertAt(@, i + 1, below.sep),
                          ![id].kids = InsertAt(@, i + 2, below.right)]
    IN  IF below.right = NULL THEN below
        ELSE IF N(put[id]) <= BT_MAX THEN Unsplit(put) ELSE SplitInner(put, id)

RECURSIVE bt_insert(_, _, _, _)
bt_insert(ns, id, key, val) ==
    IF ns[id].leaf THEN LeafInsert(ns, id, key, val)
    ELSE TakeHalf(bt_insert(ns, ns[id].kids[bt_upper(ns[id], key) + 1], key, val), id, key)

ussr_btree_put(key, val) ==
    LET old   == IF root = NULL THEN NewNode(nodes) ELSE root
        start == IF root = NULL THEN Alloc(nodes, old, Leaf(<<>>, <<>>, NULL, NULL)) ELSE nodes
        top   == bt_insert(start, old, key, val)
        new   == NewNode(top.ns)
    IN  /\ count' = IF ussr_btree_get(key) = Absent THEN count + 1 ELSE count
        /\ IF top.right = NULL
           THEN nodes' = top.ns /\ root' = old
           ELSE /\ nodes' = Alloc(top.ns, new, Inner(<<top.sep>>, <<old, top.right>>))
                /\ root' = new

(***************************************************************************)
(* Deletion.  Child number i (from 0) of node id has too few keys: borrow  *)
(* from the left, else from the right, else merge.                         *)
(***************************************************************************)
BorrowLeft(ns, id, i) ==
    LET c == ns[id].kids[i + 1]
        l == ns[id].kids[i]
    IN  IF ns[c].leaf
        THEN [ns EXCEPT ![c].keys = <<Last(ns[l].keys)>> \o @, ![c].vals = <<Last(ns[l].vals)>> \o @,
                        ![l].keys = Front(@), ![l].vals = Front(@),
                        ![id].keys[i] = Last(ns[l].keys)]
        ELSE [ns EXCEPT ![c].keys = <<ns[id].keys[i]>> \o @, ![c].kids = <<Last(ns[l].kids)>> \o @,
                        ![l].keys = Front(@), ![l].kids = Front(@),
                        ![id].keys[i] = Last(ns[l].keys)]

\* Mutant: the separator is read before the right leaf's keys move down.
BorrowRightStale(ns, id, i) ==
    LET c == ns[id].kids[i + 1]
        r == ns[id].kids[i + 2]
    IN  IF ns[c].leaf
        THEN [ns EXCEPT ![c].keys = Append(@, Head(ns[r].keys)), ![c].vals = Append(@, Head(ns[r].vals)),
                        ![r].keys = Tail(@), ![r].vals = Tail(@),
                        ![id].keys[i + 1] = ns[r].keys[1]]
        ELSE [ns EXCEPT ![c].keys = Append(@, ns[id].keys[i + 1]), ![c].kids = Append(@, Head(ns[r].kids)),
                        ![r].keys = Tail(@), ![r].kids = Tail(@),
                        ![id].keys[i + 1] = Head(ns[r].keys)]

BorrowRight(ns, id, i) ==
    LET c == ns[id].kids[i + 1]
        r == ns[id].kids[i + 2]
    IN  IF ns[c].leaf
        THEN [ns EXCEPT ![c].keys = Append(@, Head(ns[r].keys)), ![c].vals = Append(@, Head(ns[r].vals)),
                        ![r].keys = Tail(@), ![r].vals = Tail(@),
                        ![id].keys[i + 1] = ns[r].keys[2]]
        ELSE [ns EXCEPT ![c].keys = Append(@, ns[id].keys[i + 1]), ![c].kids = Append(@, Head(ns[r].kids)),
                        ![r].keys = Tail(@), ![r].kids = Tail(@),
                        ![id].keys[i + 1] = Head(ns[r].keys)]

\* Children j and j + 1 become one; the right one is freed.
Merge(ns, id, j) ==
    LET a == ns[id].kids[j + 1]
        b == ns[id].kids[j + 2]
        joined == IF ns[a].leaf
                  THEN [ns EXCEPT ![a].keys = @ \o ns[b].keys, ![a].vals = @ \o ns[b].vals,
                                  ![a].next = ns[b].next]
                  ELSE [ns EXCEPT ![a].keys = Append(@, ns[id].keys[j + 1]) \o ns[b].keys,
                                  ![a].kids = @ \o ns[b].kids]
        linked == IF ns[a].leaf /\ ns[b].next # NULL
                  THEN [joined EXCEPT ![ns[b].next].prev = a] ELSE joined
    IN  FreeNode([linked EXCEPT ![id].keys = RemoveAt(@, j + 1), ![id].kids = RemoveAt(@, j + 2)], b)

\* Mutant: merges with a sibling that could have spared a key.
FixByMerge(ns, id, i) == Merge(ns, id, IF i > 0 THEN i - 1 ELSE i)

bt_fix(ns, id, i) ==
    LET Spare(j) == j \in 0..N(ns[id]) /\ N(ns[ns[id].kids[j + 1]]) > BT_MIN
    IN  IF Spare(i - 1) THEN BorrowLeft(ns, id, i)
        ELSE IF Spare(i + 1) THEN BorrowRight(ns, id, i)
        ELSE Merge(ns, id, IF i > 0 THEN i - 1 ELSE i)

LeafDelete(ns, id, key) ==
    LET i == bt_lower(ns[id], key)
    IN  [ns EXCEPT ![id].keys = RemoveAt(@, i + 1), ![id].vals = RemoveAt(@, i + 1)]

RECURSIVE bt_delete(_, _, _)
bt_delete(ns, id, key) ==
    LET i   == bt_upper(ns[id], key)
        kid == ns[id].kids[i + 1]
        below == bt_delete(ns, kid, key)
    IN  IF ns[id].leaf THEN LeafDelete(ns, id, key)
        ELSE IF N(below[kid]) < BT_MIN THEN bt_fix(below, id, i) ELSE below

\* Nothing happens when the key is not there.
ussr_btree_delete(key) ==
    /\ ussr_btree_get(key) # Absent
    /\ LET ns  == bt_delete(nodes, root, key)
           top == ns[root]
       IN  /\ count' = count - 1
           /\ IF N(top) > 0 THEN nodes' = ns /\ root' = root
              ELSE /\ nodes' = FreeNode(ns, root)
                   /\ root' = IF top.leaf THEN NULL ELSE top.kids[1]

(***************************************************************************)
(* Positions: a leaf and an index into it (from 0), leaf NULL past an end. *)
(***************************************************************************)
Nowhere == [leaf |-> NULL, i |-> 0]

RECURSIVE Forward(_)
Forward(p) ==
    IF p.leaf # NULL /\ p.i >= N(nodes[p.leaf])
    THEN Forward([leaf |-> nodes[p.leaf].next, i |-> 0]) ELSE p

bt_seek(key, strict) ==
    LET leaf == bt_leaf_for(key)
    IN  IF leaf = NULL THEN Nowhere
        ELSE Forward([leaf |-> leaf, i |-> IF strict THEN bt_upper(nodes[leaf], key)
                                           ELSE bt_lower(nodes[leaf], key)])

RECURSIVE Backward(_)
Backward(p) ==
    LET before == nodes[p.leaf].prev
    IN  IF p.leaf = NULL \/ p.i >= 0 THEN p
        ELSE Backward([leaf |-> before, i |-> IF before = NULL THEN p.i ELSE N(nodes[before]) - 1])

bt_seek_back(key, strict) ==
    LET leaf == bt_leaf_for(key)
    IN  IF leaf = NULL THEN Nowhere
        ELSE Backward([leaf |-> leaf, i |-> (IF strict THEN bt_lower(nodes[leaf], key)
                                             ELSE bt_upper(nodes[leaf], key)) - 1])

\* The leaf at one edge of the tree.
RECURSIVE EdgeOf(_, _)
EdgeOf(id, left) ==
    IF id = NULL \/ nodes[id].leaf THEN id
    ELSE EdgeOf(IF left THEN Head(nodes[id].kids) ELSE Last(nodes[id].kids), left)

bt_first == [leaf |-> EdgeOf(root, TRUE), i |-> 0]
bt_last  == LET id == EdgeOf(root, FALSE)
            IN  IF id = NULL THEN Nowhere ELSE [leaf |-> id, i |-> N(nodes[id]) - 1]

bt_key_out(p) == IF p.leaf = NULL THEN Absent ELSE nodes[p.leaf].keys[p.i + 1]

\* btfloor, btprev, btceil, btnext.
bt_command(name, key) ==
    bt_key_out(CASE name = "btfloor" -> bt_seek_back(key, FALSE)
                 [] name = "btprev"  -> bt_seek_back(key, TRUE)
                 [] name = "btceil"  -> bt_seek(key, FALSE)
                 [] name = "btnext"  -> bt_seek(key, TRUE))

\* btkeys from lo up to, not including, hi: at most limit keys (-1: all);
\* Absent stands for a bound that is null.
RECURSIVE RangeFrom(_, _, _, _)
RangeFrom(p, hi, limit, out) ==
    LET node == nodes[p.leaf]
        key  == node.keys[p.i + 1]
    IN  IF \/ p.leaf = NULL
           \/ limit >= 0 /\ Len(out) >= limit
           \/ hi # Absent /\ ussr_btree_key_compare(key, hi) >= 0
        THEN out
        ELSE RangeFrom(IF p.i + 1 >= N(node) THEN [leaf |-> node.next, i |-> 0]
                       ELSE [p EXCEPT !.i = @ + 1], hi, limit, Append(out, key))

bt_range(lo, hi, limit) ==
    RangeFrom(IF lo = Absent THEN bt_first ELSE bt_seek(lo, FALSE), hi, limit, <<>>)

\* The pairs in the order in which ussr_btree_each meets them: along the leaves.
RECURSIVE EachFrom(_)
EachFrom(id) ==
    IF id = NULL THEN <<>>
    ELSE [i \in 1..N(nodes[id]) |-> <<nodes[id].keys[i], nodes[id].vals[i]>>]
             \o EachFrom(nodes[id].next)

ussr_btree_each == EachFrom(EdgeOf(root, TRUE))

(***************************************************************************)
(* The specification: a program that stores and deletes.                   *)
(***************************************************************************)
TreeInit == nodes = << >> /\ root = NULL /\ count = 0 /\ stored = << >>

btput == \E key \in Keys, val \in Vals :
            /\ ussr_btree_put(key, val)
            /\ stored' = [k \in DOMAIN stored \cup {key} |-> IF k = key THEN val ELSE stored[k]]
btdel == \E key \in Keys :
            /\ ussr_btree_delete(key)
            /\ stored' = [k \in DOMAIN stored \ {key} |-> stored[k]]

TreeNext == btput \/ btdel

TreeSpec == TreeInit /\ [][TreeNext]_treeVars

(***************************************************************************)
(* What the commands promise.                                              *)
(***************************************************************************)
Before(a, b) == ussr_btree_key_compare(a, b) < 0

\* Whatever was split, borrowed or merged before, every command reads the map
\* that the puts and deletes so far ask for: btget descends to its pairs, the
\* linked leaves hold exactly them in increasing order, btlen counts them, and
\* the neighbours and ranges that btfloor, btprev, btceil, btnext, btfirst,
\* btlast and btkeys find by descending and then walking the links either way
\* are those of the sorted keys.
AnswersAgree ==
    LET pairs == ussr_btree_each
        D == DOMAIN stored
        Greatest(S) == IF S = {} THEN Absent
                       ELSE CHOOSE k \in S : \A j \in S : j = k \/ Before(j, k)
        Least(S)    == IF S = {} THEN Absent
                       ELSE CHOOSE k \in S : \A j \in S : j = k \/ Before(k, j)
    IN  /\ count = Cardinality(D)
        /\ ToSet(pairs) = {<<k, stored[k]>> : k \in D}
        /\ \A i \in 1..(Len(pairs) - 1) : Before(pairs[i][1], pairs[i + 1][1])
        /\ bt_key_out(bt_first) = Least(D) /\ bt_key_out(bt_last) = Greatest(D)
        /\ \A key \in Keys :
              /\ ussr_btree_get(key) = IF key \in D THEN stored[key] ELSE Absent
              /\ bt_command("btprev", key)  = Greatest({j \in D : Before(j, key)})
              /\ bt_command("btfloor", key) = Greatest({j \in D : ~Before(key, j)})
              /\ bt_command("btnext", key)  = Least({j \in D : Before(key, j)})
              /\ bt_command("btceil", key)  = Least({j \in D : ~Before(j, key)})
              /\ \A hi \in Keys :
                    LET all == bt_range(key, hi, -1)
                    IN  /\ ToSet(all) = {j \in D : ~Before(j, key) /\ Before(j, hi)}
                        /\ bt_range(key, hi, 1) = SubSeq(all, 1, Min({1, Len(all)}))

\* No memory is lost or used after it is freed, whatever is split, borrowed
\* or merged: every node is reached from the root exactly once, all leaves
\* lie at the same depth, and each node except the root keeps between BT_MIN
\* and BT_MAX keys (the arrays have room for one key more).
RECURSIVE HeightOf(_)
HeightOf(id) == IF nodes[id].leaf THEN 0 ELSE 1 + HeightOf(Head(nodes[id].kids))

ShapeKept ==
    LET inner == {id \in DOMAIN nodes : ~nodes[id].leaf}
    IN  /\ root = NULL <=> DOMAIN nodes = {}
        /\ \A id \in DOMAIN nodes :
              /\ id = root \/ N(nodes[id]) >= BT_MIN
              /\ N(nodes[id]) \in 1..BT_MAX
              /\ Cardinality({<<p, i>> \in inner \X (1..(BT_MAX + 1)) :
                                 i \in DOMAIN nodes[p].kids /\ nodes[p].kids[i] = id})
                    = IF id = root THEN 0 ELSE 1
        /\ \A id \in inner :
              /\ Len(nodes[id].kids) = N(nodes[id]) + 1
              /\ \A i \in DOMAIN nodes[id].kids : HeightOf(nodes[id].kids[i]) = HeightOf(id) - 1

=============================================================================
