------------------------------ MODULE UssrHeap ------------------------------
(***************************************************************************)
(* Vectors, struct instances and B-trees: objects that are shared by       *)
(* reference, counted (uno.c, btree.c), and collected by marking from the  *)
(* roots when a program asks for it (gc.c).  One step is one instruction   *)
(* of the VM; the collector runs between any two of them, as the scheduler *)
(* does at the end of a slice.                                             *)
(*                                                                         *)
(* A slot is a place outside the heap that owns a reference: a variable, a *)
(* register, or a register saved in the frame of a call.  Arguments come   *)
(* in r0 and r1 and the answer goes to r0.  Registers that hold only       *)
(* names, indices and keys are parameters of the actions.  A B-tree is the *)
(* ordered map that BTree shows it to be.  A command that fails leaves     *)
(* slots and heap as they were, so only failures that touch the heap on    *)
(* the way have a step.  Of the scalars only null is kept: it matches      *)
(* every declared type, and none of them refers to anything.               *)
(*                                                                         *)
(* A release may cascade.  What an instruction has still to release waits  *)
(* in a sequence, the next first, and is released one by one before the    *)
(* next instruction or collection; this is the recursion of the code, in   *)
(* its order.                                                              *)
(***************************************************************************)
EXTENDS Integers, SequencesExt, FiniteSetsExt

CONSTANTS
    Ids,       \* addresses
    Variables, \* names of variables
    Fields,    \* struct type -> the declared types of its fields
    MaxItems,  \* items a vector or a B-tree may get to hold
    MaxExtra,  \* counts above the true number of holders
    TreeKeys   \* keys of B-trees, integers

ASSUME HeapAssumption ==
    /\ IsFiniteSet(Ids) /\ IsFiniteSet(Variables)
    /\ Variables \cap {"r0", "r1", "s0", "s1"} = {}
    /\ \A T \in DOMAIN Fields : Fields[T] \in Seq(STRING)
    /\ TreeKeys \subseteq Int

Registers == {"r0", "r1"}
Saved(r)  == IF r = "r0" THEN "s0" ELSE "s1"
Slots     == Variables \cup Registers \cup {"s0", "s1"}

VARIABLES
    heap,      \* address -> object
    slots,     \* slot -> value
    releasing, \* values that are still to be released
    types,     \* struct types declared so far
    inCall,    \* a frame holds saved registers
    drifted    \* history: objects counted once more than they are referred to

heapVars == <<heap, slots, releasing, types, inCall, drifted>>

Null     == [t |-> "null", v |-> "null"]
Ref(o)   == [t |-> "ref", v |-> o]
IsRef(v) == v.t = "ref"

\* k: vector, btree or struct; ty: the element type ("" for none) or the name of
\* the struct; keys: of a B-tree, in order, as many as items.
Object(k, ty, items) == [k |-> k, ty |-> ty, keys |-> <<>>, items |-> items, rc |-> 1]

Held(vs) == {v.v : v \in {u \in vs : IsRef(u)}}

Is(v, kind) == IsRef(v) /\ heap[v.v].k = kind

(***************************************************************************)
(* Counting.                                                               *)
(***************************************************************************)
Retain(h, v) == IF IsRef(v) THEN [h EXCEPT ![v.v].rc = @ + 1] ELSE h

\* References to o in a sequence of values.
RefsIn(vs, o) == Cardinality({i \in DOMAIN vs : vs[i] = Ref(o)})

RetainAll(h, vs) == [o \in DOMAIN h |-> [h[o] EXCEPT !.rc = @ + RefsIn(vs, o)]]

Without(h, o) == [p \in DOMAIN h \ {o} |-> h[p]]

\* The last reference takes the object away, and then goes what it holds.
uno_release_value ==
    LET v    == Head(releasing)
        rest == Tail(releasing)
    IN  /\ releasing # <<>>
        /\ \/ ~IsRef(v) /\ heap' = heap /\ releasing' = rest
           \/ IsRef(v) /\ heap[v.v].rc > 1
              /\ heap' = [heap EXCEPT ![v.v].rc = @ - 1] /\ releasing' = rest
           \/ IsRef(v) /\ heap[v.v].rc = 1
              /\ heap' = Without(heap, v.v) /\ releasing' = heap[v.v].items \o rest
        /\ drifted' = drifted \cap DOMAIN heap'
        /\ UNCHANGED <<slots, types, inCall>>

\* A value that the caller owns goes into a slot, whose old value is released.
Into(h, s, v) ==
    /\ heap' = h
    /\ slots' = [slots EXCEPT ![s] = v]
    /\ releasing' = <<slots[s]>>

\* A copy goes into a slot.
CopyInto(h, s, v) == Into(Retain(h, v), s, v)

\* The references there are to o, in slots, in objects and among what is to be
\* released, and the counts beyond.
ItemRefs(h, o) ==
    Cardinality(UNION {{<<p, i>> : i \in {j \in DOMAIN h[p].items : h[p].items[j] = Ref(o)}} : p \in DOMAIN h})

Holders(o) == Cardinality({s \in Slots : slots[s] = Ref(o)}) + ItemRefs(heap, o) + RefsIn(releasing, o)

Extra(o) == heap[o].rc - Holders(o)

\* Bounds: the addresses, and how far counts may have drifted when another object
\* is made.
HasRoom(n)  == /\ Cardinality(Ids \ DOMAIN heap) >= n
               /\ \A o \in DOMAIN heap : Extra(o) < MaxExtra
With(h, o, obj) == [p \in DOMAIN h \cup {o} |-> IF p = o THEN obj ELSE h[p]]

\* Every field may be null; a struct's name stands for its instances.
uno_type_matches(ty, v) ==
    \/ v.t = "null" \/ ty = "any"
    \/ ty = "vector" /\ Is(v, "vector")
    \/ ty = "btree" /\ Is(v, "btree")
    \/ Is(v, "struct") /\ heap[v.v].ty = ty

(***************************************************************************)
(* Variables, registers and calls.                                         *)
(***************************************************************************)
Quiet == UNCHANGED <<types, inCall>> /\ drifted' = drifted \cap DOMAIN heap'

LoadVarRef   == \E r \in Registers, x \in Variables : CopyInto(heap, r, slots[x]) /\ Quiet
LoadConstRef == \E r \in Registers : CopyInto(heap, r, Null) /\ Quiet
StoreVarRef  == \E x \in Variables : CopyInto(heap, x, slots["r0"]) /\ Quiet

\* The registers move into the frame: nothing is counted.
PushFrameRefs ==
    /\ ~inCall /\ inCall' = TRUE
    /\ slots' = [s \in Slots |-> CASE s \in Variables -> slots[s]
                                   [] s \in Registers -> Null
                                   [] s = "s0" -> slots["r0"]
                                   [] s = "s1" -> slots["r1"]]
    /\ UNCHANGED <<heap, releasing, types, drifted>>

\* The callee's registers are freed, the caller's come back, and the result, a
\* copy of the function's return variable, replaces the one it is due in.
ReturnRefs ==
    \E x \in Variables, to \in Registers :
        LET result == slots[x]
        IN  /\ inCall /\ inCall' = FALSE
            /\ heap' = Retain(heap, result)
            /\ releasing' = <<slots["r0"], slots["r1"], slots[Saved(to)]>>
            /\ slots' = [s \in Slots |-> CASE s = to -> result
                                           [] s \in Variables -> slots[s]
                                           [] s \in Registers \ {to} -> slots[Saved(s)]
                                           [] OTHER -> Null]
            /\ UNCHANGED types /\ drifted' = drifted \cap DOMAIN heap'

(***************************************************************************)
(* Struct types and instances.                                             *)
(***************************************************************************)
\* A name is declared once.
ussr_struct_register ==
    \E T \in DOMAIN Fields \ types :
        types' = types \cup {T} /\ UNCHANGED <<heap, slots, releasing, inCall, drifted>>

\* Values are checked and stored one after the other; one that does not match
\* releases the half-built instance.
ussr_struct_instantiate ==
    \E T \in types, o \in Ids \ DOMAIN heap : LET fs == Fields[T] IN
    \E args \in [DOMAIN fs -> {slots["r0"], slots["r1"]}], n \in 0..Len(fs) :
        LET kept  == SubSeq(args, 1, n)
            built == With(RetainAll(heap, kept), o, Object("struct", T, kept))
        IN  /\ HasRoom(1)
            /\ \A i \in 1..n : uno_type_matches(fs[i], args[i])
            /\ IF n = Len(fs) THEN Into(built, "r0", Ref(o))
               ELSE /\ ~uno_type_matches(fs[n + 1], args[n + 1])
                    /\ heap' = built /\ releasing' = <<Ref(o)>> /\ UNCHANGED slots
            /\ Quiet

\* decode of a struct literal whose first field, given by name, is a fresh vector.
\* The name may come a second time, with null: that takes the place of the vector,
\* which is not released.  A field that was not named fails the literal.
ussr_struct_instantiate_named ==
    \E T \in types, twice \in BOOLEAN, complete \in BOOLEAN, o, p \in Ids \ DOMAIN heap :
        LET items == [f \in DOMAIN Fields[T] |-> IF f = 1 /\ ~twice THEN Ref(p) ELSE Null]
            built == With(With(heap, p, [Object("vector", "", <<>>) EXCEPT !.rc = 2]),
                          o, Object("struct", T, items))
        IN  /\ o # p /\ HasRoom(2) /\ Fields[T] # <<>> /\ Fields[T][1] = "any"
            /\ heap' = built
            /\ IF complete
               THEN slots' = [slots EXCEPT !["r0"] = Ref(o)] /\ releasing' = <<Ref(p), slots["r0"]>>
               ELSE releasing' = <<Ref(o), Ref(p)>> /\ UNCHANGED slots
            /\ drifted' = (IF twice THEN drifted \cup {p} ELSE drifted)
            /\ UNCHANGED <<types, inCall>>

ussr_struct_get_field ==
    /\ Is(slots["r0"], "struct")
    /\ \E i \in DOMAIN heap[slots["r0"].v].items :
          CopyInto(heap, "r0", heap[slots["r0"].v].items[i])
    /\ Quiet

\* The new value is retained before the old one is released.
Replaced(h, o, i, v) == [Retain(h, v) EXCEPT ![o].items[i] = v]

\* setf of the VM; its answer, null, goes to r0.
ussr_struct_try_set_field ==
    LET o == slots["r0"].v
    IN  /\ Is(slots["r0"], "struct")
        /\ \E i \in DOMAIN heap[o].items :
              /\ uno_type_matches(Fields[heap[o].ty][i], slots["r1"])
              /\ heap' = Replaced(heap, o, i, slots["r1"])
              /\ slots' = [slots EXCEPT !["r0"] = Null]
              /\ releasing' = <<heap[o].items[i], slots["r0"]>>
        /\ Quiet

\* setf inside a "@" block evaluates its own copy of the value, stores a second
\* one and forgets the first.
oop_do_setf ==
    LET o == slots["r0"].v
        v == slots["r1"]
    IN  /\ Is(slots["r0"], "struct")
        /\ IsRef(v) => Extra(v.v) < MaxExtra
        /\ \E i \in DOMAIN heap[o].items :
              /\ uno_type_matches(Fields[heap[o].ty][i], v)
              /\ heap' = Replaced(Retain(heap, v), o, i, v)
              /\ releasing' = <<heap[o].items[i]>>
        /\ drifted' = drifted \cup Held({v})
        /\ UNCHANGED <<slots, types, inCall>>

(***************************************************************************)
(* Vectors.                                                                *)
(***************************************************************************)
ussr_vector_create ==
    \E ty \in {"", "vector"}, o \in Ids \ DOMAIN heap :
        /\ HasRoom(1)
        /\ Into(With(heap, o, Object("vector", ty, <<>>)), "r0", Ref(o))
        /\ Quiet

Accepts(o, v) == heap[o].ty = "" \/ uno_type_matches(heap[o].ty, v)

\* push keeps the vector in the variable it came from; its answer is null.
ussr_vector_push ==
    LET o == slots["r0"].v
    IN  /\ Is(slots["r0"], "vector") /\ Accepts(o, slots["r1"])
        /\ Len(heap[o].items) < MaxItems
        /\ Into([Retain(heap, slots["r1"]) EXCEPT ![o].items = Append(@, slots["r1"])], "r0", Null)
        /\ Quiet

\* The slot's reference moves to the answer.
ussr_vector_pop ==
    LET o == slots["r0"].v
    IN  /\ Is(slots["r0"], "vector") /\ heap[o].items # <<>>
        /\ Into([heap EXCEPT ![o].items = Front(@)], "r0", Last(heap[o].items))
        /\ Quiet

ussr_vector_get ==
    /\ Is(slots["r0"], "vector")
    /\ \E i \in DOMAIN heap[slots["r0"].v].items :
          CopyInto(heap, "r0", heap[slots["r0"].v].items[i])
    /\ Quiet

ussr_vector_set ==
    LET o == slots["r0"].v
    IN  /\ Is(slots["r0"], "vector") /\ Accepts(o, slots["r1"])
        /\ \E i \in DOMAIN heap[o].items :
              /\ heap' = Replaced(heap, o, i, slots["r1"])
              /\ releasing' = <<heap[o].items[i]>>
        /\ UNCHANGED slots /\ Quiet

(***************************************************************************)
(* B-trees.                                                                *)
(***************************************************************************)
ussr_btree_create ==
    \E o \in Ids \ DOMAIN heap :
        /\ HasRoom(1)
        /\ Into(With(heap, o, Object("btree", "", <<>>)), "r0", Ref(o))
        /\ Quiet

\* How many keys are below key, and whether it is there.
Place(o, key) == Cardinality({i \in DOMAIN heap[o].keys : heap[o].keys[i] < key})
Holds(o, key) == key \in ToSet(heap[o].keys)

\* btput answers with the tree, which stays in r0.
TreePut ==
    \E key \in TreeKeys :
        LET o == slots["r0"].v
            i == Place(o, key) + 1
        IN  /\ Is(slots["r0"], "btree")
            /\ Holds(o, key) \/ Len(heap[o].items) < MaxItems
            /\ IF Holds(o, key)
               THEN /\ heap' = Replaced(heap, o, i, slots["r1"])
                    /\ releasing' = <<heap[o].items[i]>>
               ELSE /\ heap' = [Retain(heap, slots["r1"]) EXCEPT
                                   ![o].keys = InsertAt(@, i, key),
                                   ![o].items = InsertAt(@, i, slots["r1"])]
                    /\ UNCHANGED releasing
            /\ UNCHANGED slots /\ Quiet

TreeGet ==
    \E key \in TreeKeys :
        LET o == slots["r0"].v
        IN  /\ Is(slots["r0"], "btree")
            /\ CopyInto(heap, "r0", IF Holds(o, key) THEN heap[o].items[Place(o, key) + 1] ELSE Null)
            /\ Quiet

TreeDelete ==
    \E key \in TreeKeys :
        LET o == slots["r0"].v
            i == Place(o, key) + 1
        IN  /\ Is(slots["r0"], "btree") /\ Holds(o, key)
            /\ heap' = [heap EXCEPT ![o].keys = RemoveAt(@, i), ![o].items = RemoveAt(@, i)]
            /\ slots' = [slots EXCEPT !["r0"] = Null]
            /\ releasing' = <<heap[o].items[i], slots["r0"]>>
            /\ Quiet

(***************************************************************************)
(* The collector.                                                          *)
(***************************************************************************)
\* Marking stops at what is marked already: the least set that has S and all
\* that its objects refer to.
Marked(S) ==
    LET closed == {L \in SUBSET DOMAIN heap : S \subseteq L
                      /\ \A o \in L : Held(ToSet(heap[o].items)) \subseteq L}
    IN  {o \in DOMAIN heap : \A L \in closed : o \in L}

\* Mutant: the registers that a call saved are not roots.
RootsWithoutFrames == Held({slots[s] : s \in Variables \cup Registers})

sched_gc_mark_vm == Held({slots[s] : s \in Slots})

\* gc(_) sets a flag that the scheduler reads at the next end of a slice, which
\* may come after any instruction.  What is not marked goes, without any release:
\* the sweep has taken back the references that garbage holds to garbage, and no
\* others.
sched_gc_collect ==
    LET live == Marked(sched_gc_mark_vm)
        dead == DOMAIN heap \ live
    IN  /\ heap' = [o \in live |-> heap[o]]
        /\ drifted' = (drifted \cup UNION {Held(ToSet(heap[o].items)) : o \in dead}) \cap live
        /\ UNCHANGED <<slots, releasing, types, inCall>>

(***************************************************************************)
(* The specification.                                                      *)
(***************************************************************************)
HeapInit ==
    /\ heap = [o \in {} |-> Object("vector", "", <<>>)]
    /\ slots = [s \in Slots |-> Null]
    /\ releasing = <<>>
    /\ types = {} /\ inCall = FALSE /\ drifted = {}

Instruction ==
    \/ LoadVarRef \/ LoadConstRef \/ StoreVarRef \/ PushFrameRefs \/ ReturnRefs
    \/ ussr_struct_register \/ ussr_struct_instantiate \/ ussr_struct_instantiate_named
    \/ ussr_struct_get_field \/ ussr_struct_try_set_field \/ oop_do_setf
    \/ ussr_vector_create \/ ussr_vector_push \/ ussr_vector_pop
    \/ ussr_vector_get \/ ussr_vector_set
    \/ ussr_btree_create \/ TreePut \/ TreeGet \/ TreeDelete

HeapNext ==
    \/ uno_release_value
    \/ releasing = <<>> /\ (Instruction \/ sched_gc_collect)

HeapSpec == HeapInit /\ [][HeapNext]_heapVars

(***************************************************************************)
(* What the counts and the collector promise.                              *)
(***************************************************************************)
\* No reference dangles and none can come to dangle: whatever a slot, an object or
\* a release to come refers to exists and is counted for it, through moves into frames,
\* replaced items, cascades of releases, cycles, failed literals and collections.
\* Three places count once too often (a name given twice in a literal, setf in a
\* "@" block, a live child of collected garbage); apart from the objects they
\* touched, the count is exactly the number of references.
HeapSound ==
    /\ Held(Range(slots) \cup ToSet(releasing)) \subseteq DOMAIN heap
    /\ \A o \in DOMAIN heap :
          /\ Held(ToSet(heap[o].items)) \subseteq DOMAIN heap
          /\ IF o \in drifted THEN Extra(o) >= 0 ELSE Extra(o) = 0
=============================================================================
