------------------------------ MODULE DubnaKv -------------------------------
(***************************************************************************)
(* Dubna KV (dubna/kv.su): a key-value store in one file, a copy-on-write  *)
(* B+ tree of pages behind two meta pages.  A program changes the store in *)
(* memory and commits; a commit writes the changed pages, then the meta    *)
(* page of the older commit.  A write may fail and the machine may stop    *)
(* between any two pages or in the middle of one, and a meta page may be   *)
(* found damaged later.                                                    *)
(*                                                                         *)
(* A node that is not changed is looked up in the file here; the cache the *)
(* code keeps of such nodes says the same.  A big value and the free list  *)
(* take one page each, and a page holds nodes up to a weight.              *)
(***************************************************************************)
EXTENDS Integers, FiniteSets, FiniteSetsExt, Sequences, SequencesExt, Functions, TLC

CONSTANTS
    Keys,           \* naturals, in the tree's order
    Weight(_),      \* what the entry of a key takes of a page
    Capacity,       \* what a page holds (4072 bytes)
    Vals, Big,      \* values, and those that go into a page of their own
    Nothing,        \* null
    MaxPages,       \* pages of the file
    MaxTxn,         \* commits
    MaxChanges,     \* puts and deletes
    MaxTrouble,     \* commits that go wrong, damage and returns to the file
    NewLeast,       \* whether keys are put that come before all keys of a branch
    Stores          \* stores to begin with, as sequences of keys and commits

VARIABLES disk,     \* pages of the file
          db,       \* the open store
          want,     \* what the program has put: the value of each key
          kept,     \* what each of the two last commits held, by meta page
          changes, trouble
kvVars == <<disk, db, want, kept, changes, trouble>>

Pages == 0..(MaxPages - 1)
Torn == [k |-> "torn"]

RECURSIVE Sorted(_)
Sorted(S) == IF S = {} THEN <<>> ELSE <<Min(S)>> \o Sorted(S \ {Min(S)})

NoKeys == [k \in Keys |-> Nothing]

(* new: the changed nodes by page; data: the big values not yet written.   *)
(* free may be used now, soon from the next commit, freed after that.      *)
NewStore == [txn |-> 0, root |-> 0, pages |-> 2, fl |-> 0, count |-> 0, new |-> <<>>, data |-> <<>>,
             free |-> {}, soon |-> {}, freed |-> {}]
(* What opening gives when it fails.                                       *)
NoStore == [NewStore EXCEPT !.txn = -1]

-----------------------------------------------------------------------------
(* Pages *)

dkv_new_page(d) == IF d.free # {} THEN Min(d.free) ELSE d.pages
Taken(d) == IF d.free # {} THEN [d EXCEPT !.free = @ \ {Min(@)}] ELSE [d EXCEPT !.pages = @ + 1]

\* Mutant: a page given up may be used at once.
DropNow(d, page) == [d EXCEPT !.free = @ \cup {page}]

dkv_drop(d, page) == [d EXCEPT !.freed = @ \cup {page}]

dkv_node_new(d, node) == [Taken(d) EXCEPT !.new = (dkv_new_page(d) :> node) @@ @]

IsNode(d, page) == page \in DOMAIN d.new \/ (page \in Pages /\ disk[page].k = "node")
dkv_node(d, page) ==
    IF page \in DOMAIN d.new THEN d.new[page] ELSE [kind |-> disk[page].kind, map |-> disk[page].map]

(* A result in a tree: the store after it and the page that stands for p.  *)
dkv_writable(d, page) ==
    IF page \in DOMAIN d.new THEN [d |-> d, page |-> page]
    ELSE [d |-> dkv_drop(dkv_node_new(d, dkv_node(d, page)), page), page |-> dkv_new_page(d)]

Without(f, x) == Restrict(f, DOMAIN f \ {x})

(* The last key at or before key, the first when there is none.            *)
Upto(map, key) == {k \in DOMAIN map : k <= key}
dkv_route(map, key) == IF Upto(map, key) = {} THEN Min(DOMAIN map) ELSE Max(Upto(map, key))

-----------------------------------------------------------------------------
(* Opening *)

MetaOn(dk, slot) == dk[slot].k = "meta"

dkv_load_meta(dk, slot) ==
    LET m == dk[slot]
        list == IF m.fl = 0 THEN [k |-> "list", now |-> {}, later |-> {}] ELSE dk[m.fl]
    IN  IF list.k # "list" THEN NoStore
        ELSE [txn |-> m.txn, root |-> m.root, pages |-> m.pages, fl |-> m.fl, count |-> m.count,
              new |-> <<>>, data |-> <<>>, free |-> list.now, soon |-> list.later, freed |-> {}]

(* The newest meta page that can be read says what the store is.           *)
Newest(dk) == IF MetaOn(dk, 0) /\ (MetaOn(dk, 1) => dk[1].txn <= dk[0].txn) THEN 0 ELSE 1
dkv_load(dk) == IF MetaOn(dk, Newest(dk)) THEN dkv_load_meta(dk, Newest(dk)) ELSE NoStore

-----------------------------------------------------------------------------
(* Values and lookups *)

dkv_value_in(d, v) ==
    IF v \in Big THEN [d |-> [d EXCEPT !.pages = @ + 1, !.data = (d.pages :> v) @@ @],
                       x |-> [big |-> TRUE, page |-> d.pages]]
    ELSE [d |-> d, x |-> [big |-> FALSE, v |-> v]]

dkv_value_out(d, x) ==
    IF ~x.big THEN x.v
    ELSE IF x.page \in DOMAIN d.data THEN d.data[x.page]
    ELSE IF disk[x.page].k = "data" THEN disk[x.page].v ELSE Nothing

dkv_drop_value(d, x) ==
    IF ~x.big THEN d
    ELSE IF x.page \in DOMAIN d.data THEN [d EXCEPT !.data = Without(@, x.page)]
    ELSE dkv_drop(d, x.page)

RECURSIVE dkv_find(_, _, _)
dkv_find(d, page, key) ==
    IF page = 0 \/ ~IsNode(d, page) THEN Nothing
    ELSE LET node == dkv_node(d, page)
         IN  IF node.kind = "B" THEN dkv_find(d, node.map[dkv_route(node.map, key)], key)
             ELSE IF key \in DOMAIN node.map THEN dkv_value_out(d, node.map[key]) ELSE Nothing

dubna_kv_get(d, key) == dkv_find(d, d.root, key)

(* The pairs from lo to before hi; the children that may hold such keys.   *)
RECURSIVE dkv_collect(_, _, _, _)
dkv_collect(d, page, lo, hi) ==
    IF ~IsNode(d, page) THEN <<>>
    ELSE LET node == dkv_node(d, page)
             from == IF Upto(node.map, lo) = {} \/ node.kind = "L" THEN lo ELSE Max(Upto(node.map, lo))
             keys == Sorted({k \in DOMAIN node.map : from <= k /\ k < hi})
         IN  IF node.kind = "L" THEN [i \in DOMAIN keys |-> <<keys[i], dkv_value_out(d, node.map[keys[i]])>>]
             ELSE FoldLeft(LAMBDA s, k : s \o dkv_collect(d, node.map[k], lo, hi), <<>>, keys)

dubna_kv_range(d, lo, hi) == IF d.root = 0 THEN <<>> ELSE dkv_collect(d, d.root, lo, hi)

-----------------------------------------------------------------------------
(* Changes *)

Load(map) == MapThenSumSet(Weight, DOMAIN map)

(* A node that outgrew its page gives its upper half to a new one.         *)
dkv_fit(d, page) ==
    LET node == d.new[page]
        keys == Sorted(DOMAIN node.map)
        sep  == keys[Len(keys) \div 2 + 1]
        half(Side(_)) == [node EXCEPT !.map = Restrict(@, {k \in DOMAIN @ : Side(k)})]
        split == dkv_node_new(d, half(LAMBDA k : k >= sep))
    IN  IF Load(node.map) <= Capacity THEN [d |-> d, page |-> page, right |-> 0]
        ELSE [d |-> [split EXCEPT !.new[page] = half(LAMBDA k : k < sep)],
              page |-> page, right |-> dkv_new_page(d), sep |-> sep]

RECURSIVE dkv_insert(_, _, _, _)
dkv_insert(d, p, key, x) ==
    LET w   == dkv_writable(d, p)
        map == w.d.new[w.page].map
    IN  IF w.d.new[w.page].kind = "L"
        THEN LET e == IF key \in DOMAIN map THEN dkv_drop_value(w.d, map[key]) ELSE [w.d EXCEPT !.count = @ + 1]
             IN  dkv_fit([e EXCEPT !.new[w.page].map = (key :> x) @@ map], w.page)
        ELSE LET ck  == dkv_route(map, key)
                 res == dkv_insert(w.d, map[ck], key, x)
                 one == (ck :> res.page) @@ map
             IN  dkv_fit([res.d EXCEPT !.new[w.page].map = IF res.right = 0 THEN one
                                                           ELSE (res.sep :> res.right) @@ one], w.page)

dubna_kv_put(d, key, value) ==
    LET v   == dkv_value_in(d, value)
        e   == IF d.root = 0 THEN [dkv_node_new(v.d, [kind |-> "L", map |-> <<>>]) EXCEPT !.root = dkv_new_page(v.d)]
               ELSE v.d
        res == dkv_insert(e, e.root, key, v.x)
        top == (Min(DOMAIN res.d.new[res.page].map) :> res.page) @@ (res.sep :> res.right)
    IN  IF res.right = 0 THEN [res.d EXCEPT !.root = res.page]
        ELSE [dkv_node_new(res.d, [kind |-> "B", map |-> top]) EXCEPT !.root = dkv_new_page(res.d)]

(* A page of this transaction that is not needed any more.                 *)
dkv_free_new(d, page) == [d EXCEPT !.free = @ \cup {page}, !.new = Without(@, page)]

RECURSIVE dkv_remove(_, _, _)
dkv_remove(d, p, key) ==
    LET old  == dkv_node(d, p)
        left(e, page) == [d |-> e, page |-> page, gone |-> TRUE, empty |-> e.new[page].map = <<>>]
    IN  IF old.kind = "L"
        THEN IF key \notin DOMAIN old.map THEN [d |-> d, page |-> p, gone |-> FALSE, empty |-> FALSE]
             ELSE LET w == dkv_writable(d, p)
                      e == dkv_drop_value(w.d, old.map[key])
                  IN  left([e EXCEPT !.new[w.page].map = Without(@, key), !.count = @ - 1], w.page)
        ELSE LET ck  == dkv_route(old.map, key)
                 res == dkv_remove(d, old.map[ck], key)
                 w   == dkv_writable(res.d, p)
             IN  IF ~res.gone THEN [res EXCEPT !.page = p]
                 ELSE IF res.empty
                 THEN left([dkv_free_new(w.d, res.page) EXCEPT !.new[w.page].map = Without(@, ck)], w.page)
                 ELSE left([w.d EXCEPT !.new[w.page].map[ck] = res.page], w.page)

(* A root branch with one child gives way to it.                           *)
RECURSIVE Lowered(_)
Lowered(d) ==
    LET node == dkv_node(d, d.root)
        child == node.map[Min(DOMAIN node.map)]
    IN  IF node.kind = "L" \/ Cardinality(DOMAIN node.map) > 1 THEN d
        ELSE Lowered([(IF d.root \in DOMAIN d.new THEN dkv_free_new(d, d.root) ELSE dkv_drop(d, d.root))
                        EXCEPT !.root = child])

dubna_kv_del(d, key) ==
    LET res == dkv_remove(d, d.root, key)
    IN  IF d.root = 0 THEN d
        ELSE IF res.empty THEN [dkv_free_new(res.d, res.page) EXCEPT !.root = 0]
        ELSE Lowered([res.d EXCEPT !.root = res.page])

-----------------------------------------------------------------------------
(* Committing *)

(* The store as its commit makes it before it writes: the old free list's  *)
(* page is given up, the new one's taken at the end of the file.           *)
Prepared(d) == [(IF d.fl > 0 THEN dkv_drop(d, d.fl) ELSE d) EXCEPT !.pages = @ + 1]

NodePage(node) == [k |-> "node", kind |-> node.kind, map |-> node.map]
FreeList(d) == [k |-> "list", now |-> d.free \cup d.soon, later |-> Prepared(d).freed]

Writes(d) == (d.pages :> FreeList(d)) @@ [p \in DOMAIN d.new |-> NodePage(d.new[p])]
             @@ [p \in DOMAIN d.data |-> [k |-> "data", v |-> d.data[p]]]

Slot(txn) == txn % 2
Committed(d) ==
    [Prepared(d) EXCEPT !.txn = @ + 1, !.fl = d.pages, !.new = <<>>, !.data = <<>>,
                        !.free = d.free \cup d.soon, !.soon = Prepared(d).freed, !.freed = {}]
MetaPage(d) == [k |-> "meta", txn |-> d.txn, root |-> d.root, pages |-> d.pages, fl |-> d.fl, count |-> d.count]

(* The pages a commit writes, in this order, the meta page last.           *)
Order(d) == Sorted(DOMAIN Writes(d)) \o <<Slot(d.txn + 1)>>
Content(d) == (Slot(d.txn + 1) :> MetaPage(Committed(d))) @@ Writes(d)

(* The file when done pages were written and the next one half, if torn.   *)
dkv_flush(d, done, torn) ==
    LET at(p) == SelectInSeq(Order(d), LAMBDA q : q = p)
    IN  [p \in Pages |-> IF at(p) = 0 \/ at(p) > done + 1 THEN disk[p]
                         ELSE IF at(p) <= done THEN Content(d)[p]
                         ELSE IF torn THEN Torn ELSE disk[p]]

(* A node that does not fit its page cannot be written.                    *)
Unwritable(d) == {p \in DOMAIN d.new : Load(d.new[p].map) > Capacity}

-----------------------------------------------------------------------------
(* The program and the machine *)

(* Every branch on the way to key has an entry at or before it.            *)
RECURSIVE WellRouted(_, _, _)
WellRouted(d, page, key) ==
    IF page = 0 THEN TRUE
    ELSE LET node == dkv_node(d, page)
         IN  IF node.kind = "L" THEN TRUE
             ELSE IF Upto(node.map, key) = {} THEN FALSE
             ELSE WellRouted(d, node.map[dkv_route(node.map, key)], key)

Put(key, value) ==
    /\ changes < MaxChanges /\ db.pages < MaxPages - 4
    /\ NewLeast \/ WellRouted(db, db.root, key)
    /\ db' = dubna_kv_put(db, key, value)
    /\ want' = [want EXCEPT ![key] = value]
    /\ changes' = changes + 1 /\ UNCHANGED <<disk, kept, trouble>>

Del(key) ==
    /\ changes < MaxChanges /\ db.pages < MaxPages - 4
    /\ db' = dubna_kv_del(db, key)
    /\ want' = [want EXCEPT ![key] = Nothing]
    /\ changes' = changes + 1 /\ UNCHANGED <<disk, kept, trouble>>

dubna_kv_commit ==
    /\ db.txn < MaxTxn /\ db.pages < MaxPages /\ Unwritable(db) = {}
    /\ disk' = dkv_flush(db, Len(Order(db)), FALSE)
    /\ db' = Committed(db)
    /\ kept' = [kept EXCEPT ![Slot(db.txn + 1)] = want]
    /\ UNCHANGED <<want, changes, trouble>>

(* A write fails, or the machine stops in it and the file is opened anew.  *)
CommitCut(stops) ==
    /\ db.txn < MaxTxn /\ db.pages < MaxPages /\ trouble < MaxTrouble
    /\ \E done \in 0..(Len(Order(db)) - 1), torn \in BOOLEAN :
          /\ \A p \in Unwritable(db) : done < SelectInSeq(Order(db), LAMBDA q : q = p)
          /\ disk' = dkv_flush(db, done, torn)
          /\ kept' = IF torn /\ done = Len(Order(db)) - 1
                     THEN [kept EXCEPT ![Slot(db.txn + 1)] = NoKeys] ELSE kept
    /\ db' = IF stops THEN dkv_load(disk') ELSE Prepared(db)
    /\ want' = IF stops THEN kept'[Newest(disk')] ELSE want
    /\ trouble' = trouble + 1 /\ UNCHANGED changes

(* Forgetting the changes, closing and opening, and stopping outside of a  *)
(* commit all come to the same.                                            *)
dubna_kv_abort ==
    /\ trouble < MaxTrouble
    /\ db' = dkv_load(disk) /\ want' = kept[Newest(disk)]
    /\ trouble' = trouble + 1 /\ UNCHANGED <<disk, kept, changes>>

(* One of two good meta pages is found damaged when the file is opened.    *)
Damage(slot) ==
    /\ trouble < MaxTrouble /\ MetaOn(disk, 0) /\ MetaOn(disk, 1)
    /\ disk' = [disk EXCEPT ![slot] = Torn]
    /\ kept' = [kept EXCEPT ![slot] = NoKeys]
    /\ db' = dkv_load(disk') /\ want' = kept[1 - slot]
    /\ trouble' = trouble + 1 /\ UNCHANGED changes


(* A new file with a first change for each key of a sequence.              *)
KvInit ==
    /\ disk = [p \in Pages |-> IF p < 2 THEN MetaPage(NewStore) ELSE Torn]
    /\ \E keys \in Stores, v \in Vals \ Big :
          /\ db = FoldLeft(LAMBDA d, k : dubna_kv_put(d, k, v), NewStore, keys)
          /\ want = [k \in Keys |-> IF k \in ToSet(keys) THEN v ELSE Nothing]
    /\ kept = [slot \in 0..1 |-> NoKeys]
    /\ changes = 0 /\ trouble = 0

KvNext ==
    \/ \E k \in Keys, v \in Vals : Put(k, v)
    \/ \E k \in Keys : Del(k)
    \/ dubna_kv_commit
    \/ \E stops \in BOOLEAN : CommitCut(stops)
    \/ dubna_kv_abort
    \/ \E slot \in 0..1 : Damage(slot)

KvSpec == KvInit /\ [][KvNext]_kvVars

-----------------------------------------------------------------------------
(* Properties *)

Present(held, lo, hi) == {k \in Keys : held[k] # Nothing /\ lo <= k /\ k < hi}
Pairs(held, keys) == [i \in DOMAIN keys |-> <<keys[i], held[keys[i]]>>]
End == Max(Keys) + 1

RangeRight(d, held, lo, hi) == dubna_kv_range(d, lo, hi) = Pairs(held, Sorted(Present(held, lo, hi)))

Found(d, held) == \A k \in Keys : dubna_kv_get(d, k) = held[k]

(* The store answers as if it were the map held.                           *)
Answers(d, held) ==
    /\ d # NoStore
    /\ Found(d, held)
    /\ d.count = Cardinality(Present(held, 0, End))
    /\ RangeRight(d, held, 0, End)

\* What a program has put it gets, alone and in ranges, committed or not, and
\* nothing else (dubna_kv_get, dubna_kv_range, dubna_kv_count).
AnswersRight == Answers(db, want) /\ \A lo, hi \in Keys : lo < hi => RangeRight(db, want, lo, hi)

\* Every key that was put and not removed is found with its value.
KeysFound == Found(db, want)

\* Each commit a meta page stands for can be read whole, whatever has been
\* changed, cut off or aborted since: the newest one when the file is opened,
\* the one before it should the newest meta page be damaged (dubna_kv_commit).
CommitsKept ==
    /\ \E slot \in 0..1 : MetaOn(disk, slot)
    /\ \A slot \in 0..1 : MetaOn(disk, slot) => Answers(dkv_load_meta(disk, slot), kept[slot])

\* A program reads what it has put, and a stop or a failure at any page loses
\* at most the commit that was being written.
StoreKept == AnswersRight /\ CommitsKept
=============================================================================
