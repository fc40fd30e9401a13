----------------------------- MODULE HeapProofs -----------------------------
(***************************************************************************)
(* Proofs about the counted heap: whatever the commands share, move and    *)
(* release, no reference dangles, and every object counts its holders.     *)
(***************************************************************************)
EXTENDS UssrHeap, SequenceTheorems, FiniteSetTheorems, TLAPS

-----------------------------------------------------------------------------
(* The inductive invariant *)

(* Values that refer to nothing outside D, and objects that hold only such. *)
Refs(D)    == {Null} \cup {Ref(o) : o \in D}
Kinds      == {"vector", "btree", "struct"}
TypeNames  == {"", "vector"} \cup DOMAIN Fields
Shapes(D)  == [k : Kinds, ty : TypeNames, keys : Seq(Int), items : Seq(Refs(D)), rc : Int]
Objects(D) == {x \in Shapes(D) : x.k = "btree" => Len(x.keys) = Len(x.items)}

SlotRefs(f, o) == Cardinality({s \in Slots : f[s] = Ref(o)})

Count(h, f, q, o) == SlotRefs(f, o) + ItemRefs(h, o) + RefsIn(q, o)

(* Heap h, slots f and references q that are on their way: no reference    *)
(* leads out of h, no count is too low, and apart from d every count is    *)
(* exact.                                                                  *)
Closed(h, f, q) ==
    /\ DOMAIN h \subseteq Ids
    /\ h \in [DOMAIN h -> Objects(DOMAIN h)]
    /\ f \in [Slots -> Refs(DOMAIN h)]
    /\ q \in Seq(Refs(DOMAIN h))

Good(h, f, q, d) ==
    /\ Closed(h, f, q)
    /\ \A o \in DOMAIN h : /\ h[o].rc >= Count(h, f, q, o)
                           /\ o \notin d => h[o].rc = Count(h, f, q, o)

HeapInv ==
    /\ Good(heap, slots, releasing, drifted)
    /\ types \subseteq DOMAIN Fields
    /\ inCall \in BOOLEAN
    /\ ~inCall => slots["s0"] = Null /\ slots["s1"] = Null

-----------------------------------------------------------------------------
(* Counting *)

One(v, o) == IF v = Ref(o) THEN 1 ELSE 0

Occur(q, o) == {i \in DOMAIN q : q[i] = Ref(o)}

(* A value refers to one object or to none. *)
LEMMA RefFacts ==
    /\ \A o, p : Ref(o) = Ref(p) => o = p
    /\ \A o : Ref(o).v = o /\ IsRef(Ref(o)) /\ Ref(o) # Null
    /\ ~IsRef(Null)
    /\ \A D : \A v \in Refs(D) : IsRef(v) => v.v \in D /\ v = Ref(v.v)
    /\ \A D : \A v \in Refs(D) : ~IsRef(v) => v = Null
    /\ \A D, E : D \subseteq E => Refs(D) \subseteq Refs(E)
    /\ \A v, o : One(v, o) \in Nat
<1>1. /\ \A o, p : Ref(o) = Ref(p) => o = p
      /\ \A o : Ref(o).v = o /\ IsRef(Ref(o)) /\ Ref(o) # Null
      /\ ~IsRef(Null)
  BY DEF Ref, IsRef, Null
<1>2. \A D, E : D \subseteq E => Refs(D) \subseteq Refs(E)
  BY DEF Refs
<1>3. \A D : \A v \in Refs(D) : v = Null \/ \E o \in D : v = Ref(o)
  BY DEF Refs
<1>4. \A v, o : One(v, o) \in Nat
  BY DEF One
<1> QED BY <1>1, <1>2, <1>3, <1>4

LEMMA OneNat ==
    \A v, o : One(v, o) \in Nat
BY DEF One

(* Taking one element out of a finite set. *)
LEMMA CardSplit ==
    ASSUME NEW S, IsFiniteSet(S), NEW x
    PROVE  /\ Cardinality(S) \in Nat
           /\ IsFiniteSet(S \ {x}) /\ Cardinality(S \ {x}) \in Nat
           /\ Cardinality(S) = Cardinality(S \ {x}) + (IF x \in S THEN 1 ELSE 0)
<1>1. Cardinality(S) \in Nat
  BY FS_CardinalityType
<1>2. IsFiniteSet(S \ {x}) /\ Cardinality(S \ {x}) = IF x \in S THEN Cardinality(S) - 1 ELSE Cardinality(S)
  BY FS_RemoveElement
<1>3. Cardinality(S \ {x}) \in Nat
  BY <1>2, FS_CardinalityType
<1> QED BY <1>1, <1>2, <1>3

(* Sets that differ in one element. *)
LEMMA OnePlace ==
    ASSUME NEW A, IsFiniteSet(A), NEW B, IsFiniteSet(B), NEW x, A \ {x} = B \ {x}
    PROVE  /\ Cardinality(A) \in Nat /\ Cardinality(B) \in Nat
           /\ Cardinality(A) + (IF x \in B THEN 1 ELSE 0) = Cardinality(B) + (IF x \in A THEN 1 ELSE 0)
<1>1. /\ Cardinality(A) \in Nat /\ Cardinality(A \ {x}) \in Nat
      /\ Cardinality(A) = Cardinality(A \ {x}) + (IF x \in A THEN 1 ELSE 0)
  BY CardSplit
<1>2. /\ Cardinality(B) \in Nat
      /\ Cardinality(B) = Cardinality(B \ {x}) + (IF x \in B THEN 1 ELSE 0)
  BY CardSplit
<1> QED BY <1>1, <1>2

(* References in sequences. *)
LEMMA OccurFinite ==
    ASSUME NEW V, NEW q \in Seq(V), NEW o
    PROVE  IsFiniteSet(Occur(q, o)) /\ RefsIn(q, o) \in Nat /\ RefsIn(q, o) = Cardinality(Occur(q, o))
<1>1. DOMAIN q = 1..Len(q) /\ Len(q) \in Nat
  OBVIOUS
<1>2. IsFiniteSet(DOMAIN q)
  BY <1>1, FS_Interval
<1>3. IsFiniteSet(Occur(q, o))
  BY <1>2, FS_Subset DEF Occur
<1>4. RefsIn(q, o) = Cardinality(Occur(q, o))
  BY DEF RefsIn, Occur
<1> QED BY <1>3, <1>4, FS_CardinalityType

LEMMA RefsInEmpty ==
    ASSUME NEW o
    PROVE  RefsIn(<<>>, o) = 0
<1>1. {i \in DOMAIN <<>> : <<>>[i] = Ref(o)} = {}
  OBVIOUS
<1> QED BY <1>1, FS_EmptySet DEF RefsIn

LEMMA RefsInOne ==
    ASSUME NEW v, NEW o
    PROVE  RefsIn(<<v>>, o) = One(v, o)
<1>1. {i \in DOMAIN <<v>> : <<v>>[i] = Ref(o)} = IF v = Ref(o) THEN {1} ELSE {}
  OBVIOUS
<1>2. Cardinality({1}) = 1 /\ Cardinality({}) = 0
  BY FS_EmptySet, FS_Singleton
<1> QED BY <1>1, <1>2 DEF RefsIn, One

LEMMA RefsInConcat ==
    ASSUME NEW V, NEW s \in Seq(V), NEW t \in Seq(V), NEW o
    PROVE  RefsIn(s \o t, o) = RefsIn(s, o) + RefsIn(t, o)
<1> DEFINE A == Occur(s, o)
           B == Occur(t, o)
           C == {i \in (Len(s) + 1)..(Len(s) + Len(t)) : t[i - Len(s)] = Ref(o)}
           b == [i \in B |-> i + Len(s)]
<1>1. IsFiniteSet(A) /\ IsFiniteSet(B) /\ RefsIn(s, o) = Cardinality(A) /\ RefsIn(t, o) = Cardinality(B)
  BY OccurFinite
<1>2. b \in Bijection(B, C)
  <2>1. b \in [B -> C]
    BY DEF Occur
  <2>2. \A x, y \in B : b[x] = b[y] => x = y
    BY DEF Occur
  <2>3. \A c \in C : \E x \in B : b[x] = c
    <3> SUFFICES ASSUME NEW c \in C PROVE \E x \in B : b[x] = c
      OBVIOUS
    <3>1. c - Len(s) \in B
      BY DEF Occur
    <3>2. b[c - Len(s)] = c
      BY <3>1
    <3> QED BY <3>1, <3>2
  <2> HIDE DEF b, B, C
  <2> QED BY <2>1, <2>2, <2>3 DEF Bijection, Injection, Surjection, IsInjective
<1>3. IsFiniteSet(C) /\ Cardinality(C) = Cardinality(B)
  BY <1>1, <1>2, FS_Bijection DEF ExistsBijection
<1>4. Occur(s \o t, o) = A \cup C /\ A \cap C = {}
  <2>1. DOMAIN (s \o t) = 1..(Len(s) + Len(t)) /\ DOMAIN s = 1..Len(s) /\ Len(s) \in Nat /\ Len(t) \in Nat
    OBVIOUS
  <2>2. \A i \in 1..(Len(s) + Len(t)) : (s \o t)[i] = IF i <= Len(s) THEN s[i] ELSE t[i - Len(s)]
    OBVIOUS
  <2>3. Occur(s \o t, o) = {i \in 1..(Len(s) + Len(t)) : (IF i <= Len(s) THEN s[i] ELSE t[i - Len(s)]) = Ref(o)}
    BY <2>1, <2>2 DEF Occur
  <2>4. A = {i \in 1..Len(s) : s[i] = Ref(o)}
    BY <2>1 DEF Occur
  <2> QED BY <2>1, <2>3, <2>4
<1>5. s \o t \in Seq(V)
  OBVIOUS
<1>6. RefsIn(s \o t, o) = Cardinality(A \cup C)
  BY <1>4, <1>5, OccurFinite
<1>7. Cardinality(A \cup C) = Cardinality(A) + Cardinality(C) - Cardinality(A \cap C)
  BY <1>1, <1>3, FS_Union
<1>8. Cardinality(A) \in Nat /\ Cardinality(C) \in Nat /\ Cardinality(A \cap C) = 0
  BY <1>1, <1>3, <1>4, FS_CardinalityType, FS_EmptySet
<1> QED BY <1>1, <1>3, <1>6, <1>7, <1>8
LEMMA RefsInCons ==
    ASSUME NEW V, NEW v \in V, NEW q \in Seq(V), NEW o
    PROVE  /\ <<v>> \o q \in Seq(V)
           /\ RefsIn(<<v>> \o q, o) = One(v, o) + RefsIn(q, o)
<1> DEFINE s == <<v>>
<1>1. s \in Seq(V) /\ RefsIn(s, o) = One(v, o)
  BY RefsInOne
<1> HIDE DEF s
<1>2. s \o q \in Seq(V) /\ RefsIn(s \o q, o) = One(v, o) + RefsIn(q, o)
  BY <1>1, RefsInConcat
<1> QED BY <1>2 DEF s

LEMMA RefsInHead ==
    ASSUME NEW V, NEW q \in Seq(V), q # <<>>, NEW o
    PROVE  /\ Head(q) \in V /\ Tail(q) \in Seq(V)
           /\ RefsIn(q, o) = One(Head(q), o) + RefsIn(Tail(q), o)
<1> DEFINE v == Head(q)
           t == Tail(q)
<1>1. v \in V /\ t \in Seq(V) /\ q = <<v>> \o t
  OBVIOUS
<1> HIDE DEF v, t
<1>2. RefsIn(<<v>> \o t, o) = One(v, o) + RefsIn(t, o)
  BY <1>1, RefsInCons
<1> QED BY <1>1, <1>2 DEF v, t

LEMMA RefsInTwo ==
    ASSUME NEW v, NEW w, NEW o
    PROVE  RefsIn(<<v, w>>, o) = One(v, o) + One(w, o)
<1> DEFINE V == {v, w}
           t == <<w>>
           q == <<v, w>>
<1>1. v \in V /\ t \in Seq(V) /\ q \in Seq(V) /\ q # <<>> /\ Head(q) = v
  OBVIOUS
<1>2. Tail(q) = t
  <2>1. Tail(q) \in Seq(V) /\ t \in Seq(V) /\ Len(Tail(q)) = 1 /\ Len(t) = 1
    OBVIOUS
  <2>2. Tail(q)[1] = w /\ t[1] = w
    OBVIOUS
  <2> HIDE DEF V, t, q
  <2>3. \A i \in 1..Len(t) : Tail(q)[i] = t[i]
    BY <2>1, <2>2
  <2> QED BY <2>1, <2>3, SeqEqual
<1>3. RefsIn(t, o) = One(w, o)
  BY RefsInOne
<1> HIDE DEF V, t, q
<1>4. RefsIn(q, o) = One(v, o) + RefsIn(t, o)
  BY <1>1, <1>2, RefsInHead
<1> QED BY <1>3, <1>4 DEF q

LEMMA RefsInThree ==
    ASSUME NEW u, NEW v, NEW w, NEW o
    PROVE  RefsIn(<<u, v, w>>, o) = One(u, o) + One(v, o) + One(w, o)
<1> DEFINE V == {u, v, w}
           t == <<v, w>>
           q == <<u, v, w>>
<1>1. u \in V /\ t \in Seq(V) /\ q \in Seq(V) /\ q # <<>> /\ Head(q) = u
  OBVIOUS
<1>2. Tail(q) = t
  <2>1. Tail(q) \in Seq(V) /\ t \in Seq(V) /\ Len(Tail(q)) = 2 /\ Len(t) = 2
    OBVIOUS
  <2>2. Tail(q)[1] = t[1] /\ Tail(q)[2] = t[2]
    OBVIOUS
  <2> HIDE DEF V, t, q
  <2>3. \A i \in 1..Len(t) : Tail(q)[i] = t[i]
    BY <2>1, <2>2
  <2> QED BY <2>1, <2>3, SeqEqual
<1>3. RefsIn(t, o) = One(v, o) + One(w, o)
  BY RefsInTwo
<1> HIDE DEF V, t, q
<1>4. RefsIn(q, o) = One(u, o) + RefsIn(t, o)
  BY <1>1, <1>2, RefsInHead
<1>5. One(u, o) \in Nat /\ One(v, o) \in Nat /\ One(w, o) \in Nat
  BY DEF One
<1> QED BY <1>3, <1>4, <1>5 DEF q

(* An item put in, taken out, or put in the place of another. *)
LEMMA CutInTwo ==
    ASSUME NEW V, NEW q \in Seq(V), NEW n \in 0..Len(q)
    PROVE  /\ SubSeq(q, 1, n) \in Seq(V) /\ Len(SubSeq(q, 1, n)) = n
           /\ SubSeq(q, n + 1, Len(q)) \in Seq(V) /\ Len(SubSeq(q, n + 1, Len(q))) = Len(q) - n
           /\ SubSeq(q, 1, n) \o SubSeq(q, n + 1, Len(q)) = q
<1> DEFINE s == SubSeq(q, 1, n)
           t == SubSeq(q, n + 1, Len(q))
           r == s \o t
<1>1. s \in Seq(V) /\ Len(s) = n /\ \A i \in 1..n : s[i] = q[i]
  OBVIOUS
<1>2. t \in Seq(V) /\ Len(t) = Len(q) - n /\ \A i \in 1..(Len(q) - n) : t[i] = q[i + n]
  OBVIOUS
<1>3. n \in Nat /\ Len(q) \in Nat
  OBVIOUS
<1> HIDE DEF s, t
<1>4. r \in Seq(V) /\ Len(r) = Len(s) + Len(t) /\ \A i \in 1..(Len(s) + Len(t)) : r[i] = IF i <= Len(s) THEN s[i] ELSE t[i - Len(s)]
  <2>1. s \in Seq(V) /\ t \in Seq(V)
    BY <1>1, <1>2
  <2>2. r \in Seq(V)
    BY <2>1
  <2>3. Len(r) = Len(s) + Len(t)
    BY <2>1
  <2>4. \A i \in 1..(Len(s) + Len(t)) : r[i] = IF i <= Len(s) THEN s[i] ELSE t[i - Len(s)]
    BY <2>1
  <2> QED BY <2>2, <2>3, <2>4
<1> HIDE DEF r
<1>5. Len(r) = Len(q)
  BY <1>1, <1>2, <1>3, <1>4
<1>6. \A i \in 1..Len(r) : r[i] = q[i]
  <2> SUFFICES ASSUME NEW i \in 1..Len(r) PROVE r[i] = q[i]
    OBVIOUS
  <2>1. r[i] = IF i <= n THEN s[i] ELSE t[i - n]
    BY <1>1, <1>4
  <2>2. CASE i <= n
    BY <2>1, <2>2, <1>1, <1>3, <1>5
  <2>3. CASE ~(i <= n)
    <3>1. i - n \in 1..(Len(q) - n) /\ (i - n) + n = i
      BY <2>3, <1>3, <1>5
    <3> QED BY <2>1, <2>3, <3>1, <1>2
  <2> QED BY <2>2, <2>3
<1>7. r = q
  BY <1>4, <1>5, <1>6, SeqEqual
<1> QED BY <1>1, <1>2, <1>7 DEF r, s, t

LEMMA RefsInInsert ==
    ASSUME NEW V, NEW q \in Seq(V), NEW v \in V, NEW n \in 0..Len(q), NEW o
    PROVE  /\ InsertAt(q, n + 1, v) \in Seq(V) /\ Len(InsertAt(q, n + 1, v)) = Len(q) + 1
           /\ RefsIn(InsertAt(q, n + 1, v), o) = RefsIn(q, o) + One(v, o)
<1> DEFINE s == SubSeq(q, 1, n)
           u == <<v>>
           t == SubSeq(q, n + 1, Len(q))
           r == InsertAt(q, n + 1, v)
<1>1. s \in Seq(V) /\ t \in Seq(V) /\ Len(s) = n /\ Len(t) = Len(q) - n /\ s \o t = q
  BY CutInTwo
<1>2. u \in Seq(V) /\ Len(u) = 1 /\ RefsIn(u, o) = One(v, o) /\ Len(q) \in Nat /\ n \in Nat
  BY RefsInOne
<1>3. r = (s \o u) \o t
  <2>1. (n + 1) - 1 = n
    OBVIOUS
  <2> QED BY <2>1 DEF InsertAt
<1> HIDE DEF s, t, u, r
<1> DEFINE w == s \o u
<1>4. w \in Seq(V) /\ Len(w) = Len(s) + Len(u) /\ RefsIn(w, o) = RefsIn(s, o) + RefsIn(u, o)
  BY <1>1, <1>2, RefsInConcat, ConcatProperties, ZenonT(30)
<1> HIDE DEF w
<1>5. w \o t \in Seq(V) /\ Len(w \o t) = Len(w) + Len(t)
  <2>1. w \in Seq(V) /\ t \in Seq(V)
    BY <1>1, <1>4
  <2>2. w \o t \in Seq(V)
    BY <2>1
  <2>3. Len(w \o t) = Len(w) + Len(t)
    BY <2>1
  <2> QED BY <2>2, <2>3
<1>11. RefsIn(w \o t, o) = RefsIn(w, o) + RefsIn(t, o)
  BY <1>1, <1>4, RefsInConcat
<1>6. RefsIn(q, o) = RefsIn(s, o) + RefsIn(t, o)
  BY <1>1, RefsInConcat
<1>7. RefsIn(s, o) \in Nat /\ RefsIn(t, o) \in Nat /\ One(v, o) \in Nat
  BY <1>1, OccurFinite DEF One
<1>8. r = w \o t
  BY <1>3 DEF w
<1>9. Len(r) = Len(q) + 1
  <2>1. Len(r) = (n + 1) + (Len(q) - n)
    BY <1>1, <1>2, <1>4, <1>5, <1>8
  <2> QED BY <1>2, <2>1
<1>10. RefsIn(r, o) = RefsIn(q, o) + One(v, o)
  BY <1>2, <1>4, <1>6, <1>7, <1>8, <1>11
<1> QED BY <1>5, <1>8, <1>9, <1>10 DEF r

LEMMA RefsInRemove ==
    ASSUME NEW V, NEW q \in Seq(V), NEW n \in 0..(Len(q) - 1), NEW o
    PROVE  /\ RemoveAt(q, n + 1) \in Seq(V) /\ Len(RemoveAt(q, n + 1)) = Len(q) - 1 /\ q[n + 1] \in V
           /\ RefsIn(q, o) = RefsIn(RemoveAt(q, n + 1), o) + One(q[n + 1], o)
<1> DEFINE s == SubSeq(q, 1, n)
           v == q[n + 1]
           t == SubSeq(q, n + 1, Len(q))
           w == SubSeq(q, (n + 1) + 1, Len(q))
           r == RemoveAt(q, n + 1)
<1>1. s \in Seq(V) /\ t \in Seq(V) /\ Len(s) = n /\ Len(t) = Len(q) - n /\ s \o t = q
  BY CutInTwo
<1>2. w \in Seq(V) /\ Len(w) = Len(q) - (n + 1)
  BY CutInTwo
<1>3. t # <<>> /\ Head(t) = v /\ v \in V
  <2>1. n \in Nat /\ Len(q) \in Nat /\ n < Len(q) /\ v \in V
    OBVIOUS
  <2>2. Len(t) # 0
    <3> HIDE DEF t
    <3> QED BY <1>1, <2>1
  <2>3. t[1] = q[1 + n] /\ 1 + n = n + 1
    BY <2>1
  <2>4. t[1] = v
    BY <2>3
  <2> HIDE DEF t, v
  <2>5. t # <<>> /\ Head(t) = t[1]
    BY <1>1, <2>2
  <2> QED BY <2>1, <2>4, <2>5
<1>4. Tail(t) = w
  <2>1. Tail(t) \in Seq(V) /\ Len(Tail(t)) = Len(t) - 1 /\ \A i \in 1..Len(Tail(t)) : Tail(t)[i] = t[i + 1]
    BY <1>1, <1>3, HeadTailProperties
  <2>2. /\ \A i \in 1..(Len(q) - n) : t[i] = q[i + n]
        /\ \A i \in 1..(Len(q) - (n + 1)) : w[i] = q[i + (n + 1)]
    OBVIOUS
  <2>3. n \in Nat /\ Len(q) \in Nat
    OBVIOUS
  <2> HIDE DEF s, t, w
  <2>4. \A i \in 1..Len(Tail(t)) : Tail(t)[i] = w[i]
    <3> SUFFICES ASSUME NEW i \in 1..Len(Tail(t)) PROVE Tail(t)[i] = w[i]
      OBVIOUS
    <3>1. Len(Tail(t)) = (Len(q) - n) - 1
      BY <1>1, <2>1
    <3>2. i + 1 \in 1..(Len(q) - n) /\ i \in 1..(Len(q) - (n + 1)) /\ (i + 1) + n = i + (n + 1)
      BY <3>1, <2>3
    <3> QED BY <3>2, <2>1, <2>2
  <2>5. Len(Tail(t)) = Len(w)
    BY <1>1, <1>2, <2>1, <2>3
  <2> QED BY <1>2, <2>1, <2>4, <2>5, SeqEqual
<1>5. r = s \o w
  <2>1. (n + 1) - 1 = n
    OBVIOUS
  <2> QED BY <2>1 DEF RemoveAt
<1> HIDE DEF s, t, v, w, r
<1>6. RefsIn(t, o) = One(v, o) + RefsIn(w, o)
  BY <1>1, <1>3, <1>4, RefsInHead
<1>7. RefsIn(q, o) = RefsIn(s, o) + RefsIn(t, o)
  BY <1>1, RefsInConcat
<1>8. s \o w \in Seq(V) /\ Len(s \o w) = Len(s) + Len(w) /\ RefsIn(s \o w, o) = RefsIn(s, o) + RefsIn(w, o)
  BY <1>1, <1>2, RefsInConcat, ConcatProperties, ZenonT(30)
<1>9. RefsIn(s, o) \in Nat /\ RefsIn(w, o) \in Nat /\ One(v, o) \in Nat
  BY <1>1, <1>2, OccurFinite DEF One
<1>10. RefsIn(q, o) = RefsIn(r, o) + One(v, o)
  BY <1>5, <1>6, <1>7, <1>8, <1>9
<1>11. Len(r) = Len(q) - 1
  <2>1. n \in Nat /\ Len(q) \in Nat
    OBVIOUS
  <2> QED BY <1>1, <1>2, <1>5, <1>8, <2>1
<1> QED BY <1>3, <1>5, <1>8, <1>10, <1>11 DEF r, v

LEMMA RefsInExcept ==
    ASSUME NEW V, NEW q \in Seq(V), NEW i \in DOMAIN q, NEW v \in V, NEW o
    PROVE  /\ [q EXCEPT ![i] = v] \in Seq(V) /\ Len([q EXCEPT ![i] = v]) = Len(q) /\ q[i] \in V
           /\ RefsIn([q EXCEPT ![i] = v], o) + One(q[i], o) = RefsIn(q, o) + One(v, o)
<1> DEFINE r == [q EXCEPT ![i] = v]
<1>1. r \in Seq(V) /\ Len(r) = Len(q) /\ q[i] \in V /\ DOMAIN r = DOMAIN q /\ r[i] = v
  OBVIOUS
<1>2. \A j \in DOMAIN q \ {i} : r[j] = q[j]
  OBVIOUS
<1>3. IsFiniteSet(DOMAIN q)
  BY FS_Interval
<1> HIDE DEF r
<1>4. Occur(r, o) \ {i} = Occur(q, o) \ {i}
  BY <1>1, <1>2 DEF Occur
<1>5. Cardinality(Occur(r, o)) + One(q[i], o) = Cardinality(Occur(q, o)) + One(v, o)
  <2>1. (IF i \in Occur(r, o) THEN 1 ELSE 0) = One(v, o) /\ (IF i \in Occur(q, o) THEN 1 ELSE 0) = One(q[i], o)
    BY <1>1 DEF Occur, One
  <2>2. IsFiniteSet(Occur(r, o)) /\ IsFiniteSet(Occur(q, o))
    BY <1>1, OccurFinite
  <2> QED BY <1>4, <2>1, <2>2, OnePlace
<1>6. RefsIn(r, o) = Cardinality(Occur(r, o)) /\ RefsIn(q, o) = Cardinality(Occur(q, o))
  BY <1>1, OccurFinite
<1> QED BY <1>1, <1>5, <1>6 DEF r

(* No reference counted means no reference there. *)
LEMMA RefsInNone ==
    ASSUME NEW V, NEW q \in Seq(V), NEW o, RefsIn(q, o) = 0
    PROVE  \A i \in DOMAIN q : q[i] # Ref(o)
<1>1. IsFiniteSet(Occur(q, o)) /\ Cardinality(Occur(q, o)) = 0
  BY OccurFinite
<1>2. Occur(q, o) = {}
  BY <1>1, FS_EmptySet
<1> QED BY <1>2 DEF Occur
(* References in slots. *)
LEMMA SlotsFinite ==
    /\ IsFiniteSet(Slots)
    /\ \A f, o : IsFiniteSet({s \in Slots : f[s] = Ref(o)}) /\ SlotRefs(f, o) \in Nat
<1>1. IsFiniteSet(Registers) /\ IsFiniteSet({"s0", "s1"})
  <2>1. Registers = {"r0"} \cup {"r1"} /\ {"s0", "s1"} = {"s0"} \cup {"s1"}
    BY DEF Registers
  <2>2. IsFiniteSet({"r0"}) /\ IsFiniteSet({"s0"})
    BY FS_Singleton
  <2>3. IsFiniteSet({"r0"} \cup {"r1"}) /\ IsFiniteSet({"s0"} \cup {"s1"})
    BY <2>2, FS_AddElement
  <2> QED BY <2>1, <2>3
<1>2. IsFiniteSet(Slots)
  BY <1>1, FS_Union, HeapAssumption DEF Slots
<1>3. \A f, o : IsFiniteSet({s \in Slots : f[s] = Ref(o)})
  BY <1>2, FS_Subset
<1> QED BY <1>2, <1>3, FS_CardinalityType DEF SlotRefs

LEMMA SlotRefsExcept ==
    ASSUME NEW f, NEW g, NEW s \in Slots, \A x \in Slots \ {s} : g[x] = f[x], NEW o
    PROVE  SlotRefs(g, o) + One(f[s], o) = SlotRefs(f, o) + One(g[s], o)
<1> DEFINE A == {x \in Slots : g[x] = Ref(o)}
           B == {x \in Slots : f[x] = Ref(o)}
<1>1. IsFiniteSet(A) /\ IsFiniteSet(B) /\ SlotRefs(g, o) = Cardinality(A) /\ SlotRefs(f, o) = Cardinality(B)
  BY SlotsFinite DEF SlotRefs
<1>2. A \ {s} = B \ {s} /\ (s \in A <=> g[s] = Ref(o)) /\ (s \in B <=> f[s] = Ref(o))
  OBVIOUS
<1>3. (IF s \in A THEN 1 ELSE 0) = One(g[s], o) /\ (IF s \in B THEN 1 ELSE 0) = One(f[s], o)
  BY <1>2 DEF One
<1> HIDE DEF A, B
<1> QED BY <1>1, <1>2, <1>3, OnePlace

LEMMA SlotRefsNone ==
    ASSUME NEW f, NEW o, SlotRefs(f, o) = 0
    PROVE  \A s \in Slots : f[s] # Ref(o)
<1> DEFINE A == {s \in Slots : f[s] = Ref(o)}
<1>1. IsFiniteSet(A) /\ Cardinality(A) = 0
  BY SlotsFinite DEF SlotRefs
<1>2. A = {}
  BY <1>1, FS_EmptySet
<1> QED BY <1>2

(* Registers and frames apart from variables. *)
VarRefs(f, o) == Cardinality({s \in Variables : f[s] = Ref(o)})

LEMMA SlotRefsSplit ==
    ASSUME NEW f, NEW o
    PROVE  /\ VarRefs(f, o) \in Nat
           /\ SlotRefs(f, o) = VarRefs(f, o) + One(f["r0"], o) + One(f["r1"], o) + One(f["s0"], o) + One(f["s1"], o)
<1> DEFINE A == {s \in Slots : f[s] = Ref(o)}
           B == {s \in Variables : f[s] = Ref(o)}
           C == B \cup (A \cap {"r0"})
           D == C \cup (A \cap {"r1"})
           E == D \cup (A \cap {"s0"})
<1>1. IsFiniteSet(A) /\ SlotRefs(f, o) = Cardinality(A)
  BY SlotsFinite DEF SlotRefs
<1>2. "r0" \notin Variables /\ "r1" \notin Variables /\ "s0" \notin Variables /\ "s1" \notin Variables
  BY HeapAssumption
<1>3. B \subseteq A /\ C \subseteq A /\ D \subseteq A /\ E \subseteq A
  BY DEF Slots
<1>4. IsFiniteSet(B) /\ IsFiniteSet(C) /\ IsFiniteSet(D) /\ IsFiniteSet(E)
  BY <1>1, <1>3, FS_Subset
<1>5. /\ "r0" \in A <=> f["r0"] = Ref(o)
      /\ "r1" \in A <=> f["r1"] = Ref(o)
      /\ "s0" \in A <=> f["s0"] = Ref(o)
      /\ "s1" \in A <=> f["s1"] = Ref(o)
  BY DEF Slots, Registers
<1>6. A \ {"s1"} = E /\ E \ {"s0"} = D /\ D \ {"r1"} = C /\ C \ {"r0"} = B
  BY <1>2 DEF Slots, Registers
<1>7. /\ "s0" \in E <=> "s0" \in A
      /\ "r1" \in D <=> "r1" \in A
      /\ "r0" \in C <=> "r0" \in A
  BY <1>2 DEF Slots, Registers
<1> HIDE DEF A, B, C, D, E
<1>8. Cardinality(A) = Cardinality(E) + One(f["s1"], o)
  BY <1>1, <1>5, <1>6, CardSplit DEF One
<1>9. Cardinality(E) = Cardinality(D) + One(f["s0"], o)
  BY <1>4, <1>5, <1>6, <1>7, CardSplit DEF One
<1>10. Cardinality(D) = Cardinality(C) + One(f["r1"], o)
  BY <1>4, <1>5, <1>6, <1>7, CardSplit DEF One
<1>11. Cardinality(C) = Cardinality(B) + One(f["r0"], o)
  BY <1>4, <1>5, <1>6, <1>7, CardSplit DEF One
<1>12. Cardinality(B) \in Nat /\ VarRefs(f, o) = Cardinality(B)
  BY <1>4, FS_CardinalityType DEF VarRefs, B
<1>13. One(f["r0"], o) \in Nat /\ One(f["r1"], o) \in Nat /\ One(f["s0"], o) \in Nat /\ One(f["s1"], o) \in Nat
  BY DEF One
<1> QED BY <1>1, <1>8, <1>9, <1>10, <1>11, <1>12, <1>13

(* References in objects. *)
PlacesOf(h, p, o) == {<<p, i>> : i \in Occur(h[p].items, o)}

Places(h, o) == UNION {PlacesOf(h, p, o) : p \in DOMAIN h}

ItemsIn(h, V) == DOMAIN h \subseteq Ids /\ \A p \in DOMAIN h : h[p].items \in Seq(V)

LEMMA PlacesOfFinite ==
    ASSUME NEW V, NEW h, NEW p, h[p].items \in Seq(V), NEW o
    PROVE  IsFiniteSet(PlacesOf(h, p, o)) /\ Cardinality(PlacesOf(h, p, o)) = RefsIn(h[p].items, o)
<1> DEFINE A == Occur(h[p].items, o)
           B == PlacesOf(h, p, o)
           b == [i \in A |-> <<p, i>>]
<1>1. IsFiniteSet(A) /\ RefsIn(h[p].items, o) = Cardinality(A)
  BY OccurFinite
<1>2. b \in [A -> B] /\ (\A x, y \in A : b[x] = b[y] => x = y) /\ \A c \in B : \E x \in A : b[x] = c
  BY DEF PlacesOf
<1> HIDE DEF A, B, b
<1>3. b \in Bijection(A, B)
  BY <1>2 DEF Bijection, Injection, Surjection, IsInjective
<1>4. IsFiniteSet(B) /\ Cardinality(B) = Cardinality(A)
  BY <1>1, <1>3, FS_Bijection DEF ExistsBijection
<1> QED BY <1>1, <1>4 DEF B

LEMMA PlacesFinite ==
    ASSUME NEW V, NEW h, ItemsIn(h, V), NEW o
    PROVE  IsFiniteSet(Places(h, o)) /\ ItemRefs(h, o) = Cardinality(Places(h, o)) /\ ItemRefs(h, o) \in Nat
<1> DEFINE D == DOMAIN h
           F == {PlacesOf(h, p, o) : p \in D}
           b == [p \in D |-> PlacesOf(h, p, o)]
<1>1. IsFiniteSet(D)
  BY FS_Subset, HeapAssumption DEF ItemsIn
<1>2. b \in [D -> F] /\ \A c \in F : \E x \in D : b[x] = c
  OBVIOUS
<1>3. \A T \in F : IsFiniteSet(T)
  BY PlacesOfFinite DEF ItemsIn
<1>4. Places(h, o) = UNION F
  BY DEF Places
<1>5. ItemRefs(h, o) = Cardinality(UNION F)
  BY DEF ItemRefs, PlacesOf, Occur
<1> HIDE DEF D, F, b
<1>6. b \in Surjection(D, F)
  BY <1>2 DEF Surjection
<1>7. IsFiniteSet(F)
  BY <1>1, <1>6, FS_Surjection
<1>8. IsFiniteSet(UNION F)
  BY <1>3, <1>7, FS_UNION
<1> QED BY <1>4, <1>5, <1>8, FS_CardinalityType
(* The references of one object apart from those of the others. *)
LEMMA ItemRefsSplit ==
    ASSUME NEW V, NEW h, ItemsIn(h, V), NEW p \in DOMAIN h, NEW o
    PROVE  /\ ItemsIn(Without(h, p), V)
           /\ ItemRefs(h, o) = ItemRefs(Without(h, p), o) + RefsIn(h[p].items, o)
<1> DEFINE g == Without(h, p)
           A == Places(h, o)
           B == Places(g, o)
           C == PlacesOf(h, p, o)
<1>1. DOMAIN g = DOMAIN h \ {p} /\ \A x \in DOMAIN g : g[x] = h[x]
  BY DEF Without
<1> HIDE DEF g
<1>2. ItemsIn(g, V)
  BY <1>1 DEF ItemsIn
<1>3. IsFiniteSet(A) /\ IsFiniteSet(B) /\ ItemRefs(h, o) = Cardinality(A) /\ ItemRefs(g, o) = Cardinality(B)
  BY <1>2, PlacesFinite
<1>4. IsFiniteSet(C) /\ Cardinality(C) = RefsIn(h[p].items, o)
  BY PlacesOfFinite DEF ItemsIn
<1>5. \A x \in DOMAIN g : PlacesOf(g, x, o) = PlacesOf(h, x, o)
  BY <1>1 DEF PlacesOf
<1>6. A = B \cup C
  <2>1. DOMAIN h = DOMAIN g \cup {p}
    BY <1>1
  <2>2. A = UNION {PlacesOf(h, x, o) : x \in DOMAIN g \cup {p}}
    BY <2>1 DEF Places
  <2>3. B = UNION {PlacesOf(g, x, o) : x \in DOMAIN g}
    BY DEF Places
  <2> QED BY <1>5, <2>2, <2>3
<1>7. B \cap C = {}
  <2> SUFFICES ASSUME NEW c, c \in B, c \in C PROVE FALSE
    OBVIOUS
  <2>1. PICK x \in DOMAIN g : c \in PlacesOf(g, x, o)
    BY DEF Places
  <2>2. PICK i : c = <<x, i>>
    BY <2>1 DEF PlacesOf
  <2>3. PICK j : c = <<p, j>>
    BY DEF PlacesOf
  <2>4. x \in DOMAIN g /\ x # p
    BY <1>1
  <2> QED BY <2>2, <2>3, <2>4
<1> HIDE DEF A, B, C
<1>8. Cardinality(B \cup C) = Cardinality(B) + Cardinality(C) - Cardinality(B \cap C)
  BY <1>3, <1>4, FS_Union
<1>9. Cardinality(B) \in Nat /\ Cardinality(C) \in Nat /\ Cardinality(B \cap C) = 0
  BY <1>3, <1>4, <1>7, FS_CardinalityType, FS_EmptySet
<1> QED BY <1>2, <1>3, <1>4, <1>6, <1>8, <1>9 DEF g

(* Heaps with the same items hold the same references. *)
LEMMA ItemRefsSame ==
    ASSUME NEW h, NEW g, DOMAIN g = DOMAIN h, \A p \in DOMAIN h : g[p].items = h[p].items
    PROVE  \A o : ItemRefs(g, o) = ItemRefs(h, o)
<1> SUFFICES ASSUME NEW o PROVE ItemRefs(g, o) = ItemRefs(h, o)
  OBVIOUS
<1>1. \A p \in DOMAIN h : {<<p, i>> : i \in {j \in DOMAIN g[p].items : g[p].items[j] = Ref(o)}}
                        = {<<p, i>> : i \in {j \in DOMAIN h[p].items : h[p].items[j] = Ref(o)}}
  OBVIOUS
<1>2. UNION {{<<p, i>> : i \in {j \in DOMAIN g[p].items : g[p].items[j] = Ref(o)}} : p \in DOMAIN h}
        = UNION {{<<p, i>> : i \in {j \in DOMAIN h[p].items : h[p].items[j] = Ref(o)}} : p \in DOMAIN h}
  BY <1>1
<1> QED BY <1>2 DEF ItemRefs

(* A heap in which the items of one object have changed. *)
LEMMA ItemRefsChange ==
    ASSUME NEW V, NEW h, ItemsIn(h, V), NEW g, ItemsIn(g, V), DOMAIN g = DOMAIN h, NEW p \in DOMAIN h,
           \A x \in DOMAIN h \ {p} : g[x].items = h[x].items, NEW o
    PROVE  ItemRefs(g, o) + RefsIn(h[p].items, o) = ItemRefs(h, o) + RefsIn(g[p].items, o)
<1> DEFINE a == Without(h, p)
           b == Without(g, p)
<1>1. ItemsIn(a, V) /\ ItemRefs(h, o) = ItemRefs(a, o) + RefsIn(h[p].items, o)
  BY ItemRefsSplit
<1>2. ItemRefs(g, o) = ItemRefs(b, o) + RefsIn(g[p].items, o)
  BY ItemRefsSplit
<1>3. DOMAIN a = DOMAIN b /\ \A x \in DOMAIN a : b[x].items = a[x].items
  BY DEF Without
<1> HIDE DEF a, b
<1>4. ItemRefs(b, o) = ItemRefs(a, o)
  BY <1>3, ItemRefsSame
<1>5. ItemRefs(a, o) \in Nat /\ RefsIn(h[p].items, o) \in Nat /\ RefsIn(g[p].items, o) \in Nat
  BY <1>1, PlacesFinite, OccurFinite DEF ItemsIn
<1> QED BY <1>1, <1>2, <1>4, <1>5

(* A new object adds its items. *)
LEMMA ItemRefsNew ==
    ASSUME NEW V, NEW h, ItemsIn(h, V), NEW p \in Ids \ DOMAIN h, NEW obj, obj.items \in Seq(V), NEW o
    PROVE  /\ ItemsIn(With(h, p, obj), V)
           /\ ItemRefs(With(h, p, obj), o) = ItemRefs(h, o) + RefsIn(obj.items, o)
<1> DEFINE g == With(h, p, obj)
           a == Without(g, p)
<1>1. DOMAIN g = DOMAIN h \cup {p} /\ g[p] = obj /\ \A x \in DOMAIN h : g[x] = h[x]
  BY DEF With
<1>2. DOMAIN a = DOMAIN h /\ \A x \in DOMAIN h : a[x] = h[x]
  BY <1>1 DEF Without
<1>3. ItemsIn(g, V)
  <2> HIDE DEF g
  <2> QED BY <1>1 DEF ItemsIn
<1> HIDE DEF g
<1>4. ItemRefs(g, o) = ItemRefs(a, o) + RefsIn(obj.items, o)
  BY <1>1, <1>3, ItemRefsSplit
<1> HIDE DEF a
<1>5. ItemRefs(a, o) = ItemRefs(h, o)
  BY <1>2, ItemRefsSame
<1> QED BY <1>3, <1>4, <1>5 DEF g

LEMMA ItemRefsNone ==
    ASSUME NEW V, NEW h, ItemsIn(h, V), NEW o, ItemRefs(h, o) = 0
    PROVE  \A p \in DOMAIN h : \A i \in DOMAIN h[p].items : h[p].items[i] # Ref(o)
<1>1. Places(h, o) = {}
  BY PlacesFinite, FS_EmptySet
<1>2. \A p \in DOMAIN h : PlacesOf(h, p, o) = {}
  BY <1>1 DEF Places
<1> QED BY <1>2 DEF PlacesOf, Occur
-----------------------------------------------------------------------------
(* Single moves of one reference; between them references are on their way *)

LEMMA ClosedFacts ==
    ASSUME NEW h, NEW f, NEW q, Closed(h, f, q)
    PROVE  /\ ItemsIn(h, Refs(DOMAIN h))
           /\ \A o : SlotRefs(f, o) \in Nat /\ ItemRefs(h, o) \in Nat /\ RefsIn(q, o) \in Nat
           /\ \A o : Count(h, f, q, o) \in Nat
           /\ \A o \in DOMAIN h : h[o].rc \in Int /\ h[o].items \in Seq(Refs(DOMAIN h)) /\ h[o] \in Shapes(DOMAIN h)
<1>1. \A o \in DOMAIN h : h[o] \in Shapes(DOMAIN h)
  BY DEF Closed, Objects
<1>2. \A o \in DOMAIN h : h[o].rc \in Int /\ h[o].items \in Seq(Refs(DOMAIN h))
  BY <1>1 DEF Shapes
<1>3. ItemsIn(h, Refs(DOMAIN h))
  BY <1>2 DEF ItemsIn, Closed
<1>4. \A o : SlotRefs(f, o) \in Nat /\ ItemRefs(h, o) \in Nat /\ RefsIn(q, o) \in Nat
  BY <1>3, SlotsFinite, PlacesFinite, OccurFinite DEF Closed
<1> QED BY <1>1, <1>2, <1>3, <1>4 DEF Count

(* An object with another count, and with other items. *)
LEMMA Recounted ==
    ASSUME NEW D, NEW x \in Objects(D), NEW r \in Int,
           NEW y, y = [x EXCEPT !.rc = r]
    PROVE  y \in Objects(D) /\ y.items = x.items /\ y.keys = x.keys /\ y.rc = r
<1>1. y \in Shapes(D) /\ y.items = x.items /\ y.keys = x.keys /\ y.rc = r /\ y.k = x.k
  BY DEF Shapes, Objects
<1>2. x.k = "btree" => Len(x.keys) = Len(x.items)
  BY DEF Objects
<1>3. y \in Objects(D)
  BY <1>1, <1>2 DEF Objects
<1> QED BY <1>1, <1>3

LEMMA Refilled ==
    ASSUME NEW D, NEW x \in Objects(D), NEW vs \in Seq(Refs(D)), Len(vs) = Len(x.items) \/ x.k # "btree",
           NEW y, y = [x EXCEPT !.items = vs]
    PROVE  y \in Objects(D) /\ y.items = vs /\ y.keys = x.keys /\ y.rc = x.rc
<1>1. y \in Shapes(D) /\ y.items = vs /\ y.keys = x.keys /\ y.rc = x.rc /\ y.k = x.k
  BY DEF Shapes, Objects
<1>2. x.k = "btree" => Len(x.keys) = Len(x.items)
  BY DEF Objects
<1>3. y \in Objects(D)
  BY <1>1, <1>2 DEF Objects
<1> QED BY <1>1, <1>3

(* The order of what is on its way does not matter. *)
LEMMA Reorder ==
    ASSUME NEW h, NEW f, NEW q, NEW d, Good(h, f, q, d),
           NEW r \in Seq(Refs(DOMAIN h)), \A o : RefsIn(r, o) = RefsIn(q, o)
    PROVE  Good(h, f, r, d)
BY DEF Good, Closed, Count

(* Counting a copy. *)
LEMMA Take ==
    ASSUME NEW h, NEW f, NEW q, NEW d, Good(h, f, q, d), NEW v \in Refs(DOMAIN h)
    PROVE  /\ DOMAIN Retain(h, v) = DOMAIN h
           /\ \A o \in DOMAIN h : Retain(h, v)[o].items = h[o].items /\ Retain(h, v)[o].keys = h[o].keys
           /\ Good(Retain(h, v), f, <<v>> \o q, d)
<1> DEFINE D == DOMAIN h
           g == Retain(h, v)
           r == <<v>> \o q
<1>1. Closed(h, f, q) /\ q \in Seq(Refs(D)) /\ \A o \in D : h[o] \in Objects(D) /\ h[o] \in Shapes(D)
  BY DEF Good, Closed, Objects
<1>2. DOMAIN g = D /\ \A o \in D : g[o] = [h[o] EXCEPT !.rc = h[o].rc + One(v, o)]
  <2>1. CASE IsRef(v)
    <3>1. v.v \in D /\ v = Ref(v.v)
      BY <2>1, RefFacts
    <3>2. \A o \in D : One(v, o) = IF o = v.v THEN 1 ELSE 0
      BY <3>1, RefFacts DEF One
    <3>3. g = [h EXCEPT ![v.v].rc = h[v.v].rc + 1]
      BY <2>1 DEF Retain
    <3>4. DOMAIN g = D /\ g[v.v] = [h[v.v] EXCEPT !.rc = h[v.v].rc + 1] /\ \A o \in D \ {v.v} : g[o] = h[o]
      BY <1>1, <3>1, <3>3 DEF Closed
    <3>5. \A o \in D \ {v.v} : [h[o] EXCEPT !.rc = h[o].rc + 0] = h[o]
      BY <1>1 DEF Shapes
    <3> QED BY <3>1, <3>2, <3>4, <3>5
  <2>2. CASE ~IsRef(v)
    <3>1. g = h /\ \A o : One(v, o) = 0
      BY <2>2, RefFacts DEF Retain, One
    <3>2. \A o \in D : [h[o] EXCEPT !.rc = h[o].rc + 0] = h[o]
      BY <1>1 DEF Shapes
    <3> QED BY <3>1, <3>2
  <2> QED BY <2>1, <2>2
<1>3. \A o \in D : g[o] \in Objects(D) /\ g[o].items = h[o].items /\ g[o].keys = h[o].keys /\ g[o].rc = h[o].rc + One(v, o)
  <2> SUFFICES ASSUME NEW o \in D
               PROVE  g[o] \in Objects(D) /\ g[o].items = h[o].items /\ g[o].keys = h[o].keys /\ g[o].rc = h[o].rc + One(v, o)
    OBVIOUS
  <2>1. h[o].rc + One(v, o) \in Int
    BY <1>1, RefFacts DEF Shapes
  <2> QED BY <1>1, <1>2, <2>1, Recounted
<1>4. g \in [D -> Objects(D)]
  <2>1. g = [o \in D |-> g[o]]
    BY <1>1 DEF Retain, Closed
  <2> QED BY <1>3, <2>1
<1>5. r \in Seq(Refs(D)) /\ \A o : RefsIn(r, o) = One(v, o) + RefsIn(q, o)
  BY <1>1, RefsInCons
<1>6. \A o : ItemRefs(g, o) = ItemRefs(h, o)
  BY <1>2, <1>3, ItemRefsSame
<1>7. Closed(g, f, r)
  BY <1>1, <1>2, <1>4, <1>5 DEF Closed
<1>8. \A o \in D : Count(g, f, r, o) = Count(h, f, q, o) + One(v, o)
  BY <1>1, <1>5, <1>6, ClosedFacts, RefFacts, SMTT(30) DEF Count
<1> HIDE DEF g, r
<1>9. \A o \in D : Count(h, f, q, o) \in Nat /\ h[o].rc \in Int /\ One(v, o) \in Nat
  BY <1>1, ClosedFacts, RefFacts
<1>10. Good(g, f, r, d)
  BY <1>2, <1>3, <1>7, <1>8, <1>9 DEF Good
<1> QED BY <1>2, <1>3, <1>10 DEF g, r
(* A reference goes into a slot, and the one that was there comes out. *)
LEMMA Swap ==
    ASSUME NEW h, NEW f, NEW q, NEW d, NEW v \in Refs(DOMAIN h), q \in Seq(Refs(DOMAIN h)),
           Good(h, f, <<v>> \o q, d), NEW s \in Slots
    PROVE  f[s] \in Refs(DOMAIN h) /\ Good(h, [f EXCEPT ![s] = v], <<f[s]>> \o q, d)
<1> DEFINE V == Refs(DOMAIN h)
           g == [f EXCEPT ![s] = v]
           r == <<v>> \o q
           t == <<f[s]>> \o q
<1>1. f \in [Slots -> V] /\ f[s] \in V
  BY DEF Good, Closed
<1>2. g \in [Slots -> V] /\ \A o : SlotRefs(g, o) + One(f[s], o) = SlotRefs(f, o) + One(v, o)
  <2>1. g \in [Slots -> V] /\ g[s] = v /\ \A x \in Slots \ {s} : g[x] = f[x]
    BY <1>1
  <2> HIDE DEF V, g
  <2>2. \A o : SlotRefs(g, o) + One(f[s], o) = SlotRefs(f, o) + One(g[s], o)
    BY <2>1, SlotRefsExcept
  <2> QED BY <2>1, <2>2
<1>3. \A o : RefsIn(r, o) = One(v, o) + RefsIn(q, o)
  BY RefsInCons
<1>4. t \in Seq(V) /\ \A o : RefsIn(t, o) = One(f[s], o) + RefsIn(q, o)
  BY <1>1, RefsInCons
<1>5. \A o : SlotRefs(g, o) \in Nat /\ SlotRefs(f, o) \in Nat /\ RefsIn(q, o) \in Nat /\ One(v, o) \in Nat /\ One(f[s], o) \in Nat
  <2>1. \A o : SlotRefs(g, o) \in Nat /\ SlotRefs(f, o) \in Nat
    BY SlotsFinite
  <2>2. \A o : RefsIn(q, o) \in Nat
    BY OccurFinite
  <2> QED BY <2>1, <2>2, OneNat
<1>6. Closed(h, f, r) /\ \A o : ItemRefs(h, o) \in Nat
  BY ClosedFacts DEF Good
<1> HIDE DEF V, g, r, t
<1>7. \A o : Count(h, g, t, o) = Count(h, f, r, o)
  <2> SUFFICES ASSUME NEW o PROVE Count(h, g, t, o) = Count(h, f, r, o)
    OBVIOUS
  <2>1. /\ SlotRefs(g, o) + One(f[s], o) = SlotRefs(f, o) + One(v, o)
        /\ RefsIn(r, o) = One(v, o) + RefsIn(q, o)
        /\ RefsIn(t, o) = One(f[s], o) + RefsIn(q, o)
    BY <1>2, <1>3, <1>4
  <2>2. /\ SlotRefs(g, o) \in Nat /\ SlotRefs(f, o) \in Nat /\ RefsIn(q, o) \in Nat
        /\ One(v, o) \in Nat /\ One(f[s], o) \in Nat /\ ItemRefs(h, o) \in Nat
    BY <1>5, <1>6
  <2> DEFINE sg == SlotRefs(g, o)
             sf == SlotRefs(f, o)
             rr == RefsIn(r, o)
             rt == RefsIn(t, o)
             rq == RefsIn(q, o)
             n  == ItemRefs(h, o)
             ov == One(v, o)
             of == One(f[s], o)
  <2>3. Count(h, g, t, o) = (sg + n) + rt /\ Count(h, f, r, o) = (sf + n) + rr
    BY DEF Count
  <2> HIDE DEF sg, sf, rr, rt, rq, n, ov, of
  <2>4. sg + of = sf + ov /\ rr = ov + rq /\ rt = of + rq
    BY <2>1 DEF sg, sf, rr, rt, rq, ov, of
  <2>5. sg \in Nat /\ sf \in Nat /\ rq \in Nat /\ ov \in Nat /\ of \in Nat /\ n \in Nat
    BY <2>2 DEF sg, sf, rq, ov, of, n
  <2> QED BY <2>3, <2>4, <2>5
<1>8. Closed(h, g, t)
  BY <1>2, <1>4, <1>6 DEF Closed, V
<1>9. Good(h, g, t, d)
  BY <1>7, <1>8 DEF Good, r
<1> QED BY <1>1, <1>9 DEF V, g, t

(* Two sequences refer to the same as two others. *)
SameRefs(s, t, u, w) == \A o : RefsIn(s, o) + RefsIn(t, o) = RefsIn(u, o) + RefsIn(w, o)

(* The items of one object change, and references come out or go in. *)
LEMMA Refill ==
    ASSUME NEW h, NEW f, NEW q, NEW d, Good(h, f, q, d), NEW p \in DOMAIN h,
           NEW x \in Objects(DOMAIN h), x.rc = h[p].rc, NEW r \in Seq(Refs(DOMAIN h)),
           SameRefs(x.items, r, h[p].items, q)
    PROVE  Good([h EXCEPT ![p] = x], f, r, d)
<1> DEFINE D == DOMAIN h
           g == [h EXCEPT ![p] = x]
<1>1. Closed(h, f, q) /\ h \in [D -> Objects(D)]
  BY DEF Good, Closed
<1>2. g \in [D -> Objects(D)] /\ DOMAIN g = D /\ g[p] = x /\ \A o \in D \ {p} : g[o] = h[o]
  BY <1>1
<1> HIDE DEF g
<1>3. Closed(g, f, r)
  BY <1>1, <1>2 DEF Closed
<1>4. ItemsIn(h, Refs(D)) /\ ItemsIn(g, Refs(D))
  BY <1>1, <1>2, <1>3, ClosedFacts
<1>5. \A o : ItemRefs(g, o) + RefsIn(h[p].items, o) = ItemRefs(h, o) + RefsIn(x.items, o)
  BY <1>2, <1>4, ItemRefsChange
<1>6. \A o : /\ ItemRefs(g, o) \in Nat /\ ItemRefs(h, o) \in Nat /\ RefsIn(x.items, o) \in Nat
             /\ RefsIn(h[p].items, o) \in Nat /\ RefsIn(r, o) \in Nat /\ RefsIn(q, o) \in Nat /\ SlotRefs(f, o) \in Nat
  <2>1. x.items \in Seq(Refs(D))
    BY DEF Objects, Shapes
  <2> QED BY <1>1, <1>3, <2>1, ClosedFacts, OccurFinite
<1>7. \A o : Count(g, f, r, o) = Count(h, f, q, o)
  <2> SUFFICES ASSUME NEW o PROVE Count(g, f, r, o) = Count(h, f, q, o)
    OBVIOUS
  <2>1. /\ ItemRefs(g, o) + RefsIn(h[p].items, o) = ItemRefs(h, o) + RefsIn(x.items, o)
        /\ RefsIn(x.items, o) + RefsIn(r, o) = RefsIn(h[p].items, o) + RefsIn(q, o)
    BY <1>5 DEF SameRefs
  <2>2. /\ ItemRefs(g, o) \in Nat /\ ItemRefs(h, o) \in Nat /\ RefsIn(x.items, o) \in Nat
        /\ RefsIn(h[p].items, o) \in Nat /\ RefsIn(r, o) \in Nat /\ RefsIn(q, o) \in Nat /\ SlotRefs(f, o) \in Nat
    BY <1>6
  <2>3. SlotRefs(f, o) + ItemRefs(g, o) + RefsIn(r, o) = SlotRefs(f, o) + ItemRefs(h, o) + RefsIn(q, o)
    <3> DEFINE a == ItemRefs(g, o)
               b == ItemRefs(h, o)
               i == RefsIn(h[p].items, o)
               j == RefsIn(x.items, o)
               k == RefsIn(r, o)
               l == RefsIn(q, o)
               m == SlotRefs(f, o)
    <3>1. a + i = b + j /\ j + k = i + l
      BY <2>1
    <3>2. a \in Nat /\ b \in Nat /\ i \in Nat /\ j \in Nat /\ k \in Nat /\ l \in Nat /\ m \in Nat
      BY <2>2
    <3> HIDE DEF a, b, i, j, k, l, m
    <3>3. m + a + k = m + b + l
      BY <3>1, <3>2
    <3> QED BY <3>3 DEF a, b, k, l, m
  <2> QED BY <2>3 DEF Count
<1>8. \A o \in D : g[o].rc = h[o].rc
  BY <1>2
<1>9. Good(g, f, r, d)
  BY <1>2, <1>3, <1>7, <1>8 DEF Good
<1> QED BY <1>9 DEF g

(* A new object takes references with it and is itself referred to. *)
LEMMA Create ==
    ASSUME NEW h, NEW f, NEW q, NEW d, Good(h, f, q, d), NEW p \in Ids \ DOMAIN h,
           NEW x \in Objects(DOMAIN h \cup {p}), NEW r \in Seq(Refs(DOMAIN h \cup {p})),
           \A o : RefsIn(x.items, o) + RefsIn(r, o) = RefsIn(q, o) + (IF o = p THEN x.rc ELSE 0)
    PROVE  DOMAIN With(h, p, x) = DOMAIN h \cup {p} /\ Good(With(h, p, x), f, r, d)
<1> DEFINE D == DOMAIN h
           E == D \cup {p}
           g == With(h, p, x)
<1>1. Closed(h, f, q) /\ h \in [D -> Objects(D)] /\ f \in [Slots -> Refs(D)] /\ q \in Seq(Refs(D)) /\ D \subseteq Ids
  BY DEF Good, Closed
<1>2. DOMAIN g = E /\ g[p] = x /\ \A o \in D : g[o] = h[o]
  BY DEF With
<1>3. Refs(D) \subseteq Refs(E) /\ Objects(D) \subseteq Objects(E)
  <2>1. Refs(D) \subseteq Refs(E)
    BY RefFacts
  <2>2. Seq(Refs(D)) \subseteq Seq(Refs(E))
    BY <2>1, SeqMonotonic
  <2>3. Shapes(D) \subseteq Shapes(E)
    BY <2>2 DEF Shapes
  <2> QED BY <2>1, <2>3 DEF Objects
<1>4. g \in [E -> Objects(E)]
  <2>1. g = [o \in E |-> g[o]]
    BY DEF With
  <2>2. \A o \in E : g[o] \in Objects(E)
    BY <1>1, <1>2, <1>3
  <2> HIDE DEF g
  <2> QED BY <2>1, <2>2
<1>5. Closed(g, f, r)
  <2>1. f \in [Slots -> Refs(E)]
    BY <1>1, <1>3
  <2> HIDE DEF g
  <2> QED BY <1>1, <1>2, <1>4, <2>1 DEF Closed
<1>6. x.items \in Seq(Refs(E)) /\ ItemsIn(h, Refs(E)) /\ x.rc \in Int
  <2>1. x.items \in Seq(Refs(E)) /\ x.rc \in Int
    BY DEF Objects, Shapes
  <2>2. ItemsIn(h, Refs(D))
    BY <1>1, ClosedFacts
  <2>3. Seq(Refs(D)) \subseteq Seq(Refs(E))
    BY <1>3, SeqMonotonic
  <2> QED BY <2>1, <2>2, <2>3 DEF ItemsIn
<1>7. \A o : ItemRefs(g, o) = ItemRefs(h, o) + RefsIn(x.items, o)
  BY <1>6, ItemRefsNew
<1>8. \A o : /\ ItemRefs(h, o) \in Nat /\ RefsIn(x.items, o) \in Nat
             /\ RefsIn(r, o) \in Nat /\ RefsIn(q, o) \in Nat /\ SlotRefs(f, o) \in Nat
  BY <1>1, <1>6, ClosedFacts, OccurFinite
<1>9. Count(h, f, q, p) = 0
  <2>1. Ref(p) \notin Refs(D)
    BY RefFacts
  <2>2. {s \in Slots : f[s] = Ref(p)} = {}
    BY <1>1, <2>1
  <2>3. Occur(q, p) = {}
    BY <1>1, <2>1 DEF Occur
  <2>4. Places(h, p) = {}
    <3>1. \A y \in D : h[y].items \in Seq(Refs(D))
      BY <1>1, ClosedFacts
    <3>2. \A y \in D : Occur(h[y].items, p) = {}
      BY <3>1, <2>1 DEF Occur
    <3>3. \A y \in D : PlacesOf(h, y, p) = {}
      BY <3>2 DEF PlacesOf
    <3> QED BY <3>3 DEF Places
  <2>5. SlotRefs(f, p) = 0
    BY <2>2, FS_EmptySet DEF SlotRefs
  <2>6. RefsIn(q, p) = 0
    BY <1>1, <2>3, FS_EmptySet, OccurFinite
  <2>7. ItemRefs(h, p) = 0
    BY <1>6, <2>4, FS_EmptySet, PlacesFinite
  <2> QED BY <2>5, <2>6, <2>7 DEF Count
<1> HIDE DEF g
<1>10. \A o \in D : Count(g, f, r, o) = Count(h, f, q, o) /\ g[o].rc = h[o].rc
  <2> SUFFICES ASSUME NEW o \in D PROVE Count(g, f, r, o) = Count(h, f, q, o) /\ g[o].rc = h[o].rc
    OBVIOUS
  <2>1. o # p /\ RefsIn(q, o) + 0 = RefsIn(q, o)
    BY <1>8
  <2>2. RefsIn(x.items, o) + RefsIn(r, o) = RefsIn(q, o)
    BY <2>1
  <2>3. /\ ItemRefs(h, o) \in Nat /\ RefsIn(x.items, o) \in Nat /\ RefsIn(r, o) \in Nat
        /\ RefsIn(q, o) \in Nat /\ SlotRefs(f, o) \in Nat /\ ItemRefs(g, o) = ItemRefs(h, o) + RefsIn(x.items, o)
    BY <1>7, <1>8
  <2>4. Count(g, f, r, o) = Count(h, f, q, o)
    BY <2>2, <2>3 DEF Count
  <2> QED BY <1>2, <2>4
<1>11. Count(g, f, r, p) = g[p].rc
  <2>1. RefsIn(x.items, p) + RefsIn(r, p) = RefsIn(q, p) + x.rc
    BY <1>8
  <2>2. SlotRefs(f, p) = 0 /\ ItemRefs(h, p) = 0 /\ RefsIn(q, p) = 0
    BY <1>8, <1>9 DEF Count
  <2> QED BY <1>2, <1>6, <1>7, <1>8, <2>1, <2>2 DEF Count
<1>12. Good(g, f, r, d)
  BY <1>2, <1>5, <1>6, <1>10, <1>11 DEF Good
<1> QED BY <1>2, <1>12 DEF g
(* A reference is forgotten: its object is counted once too often. *)
LEMMA Forget ==
    ASSUME NEW h, NEW f, NEW q, NEW d, NEW v \in Refs(DOMAIN h), q \in Seq(Refs(DOMAIN h)),
           Good(h, f, <<v>> \o q, d), NEW e, d \subseteq e, IsRef(v) => v.v \in e
    PROVE  Good(h, f, q, e)
<1> DEFINE r == <<v>> \o q
<1>1. \A o : RefsIn(r, o) = One(v, o) + RefsIn(q, o)
  BY RefsInCons
<1>2. Closed(h, f, r) /\ \A o \in DOMAIN h : h[o].rc >= Count(h, f, r, o) /\ (o \notin d => h[o].rc = Count(h, f, r, o))
  BY DEF Good
<1>3. Closed(h, f, q)
  BY <1>2 DEF Closed
<1>4. \A o : SlotRefs(f, o) \in Nat /\ ItemRefs(h, o) \in Nat /\ RefsIn(q, o) \in Nat
  BY <1>3, ClosedFacts
<1> HIDE DEF r
<1>5. \A o \in DOMAIN h : h[o].rc >= Count(h, f, q, o) /\ (o \notin e => h[o].rc = Count(h, f, q, o))
  <2> SUFFICES ASSUME NEW o \in DOMAIN h
               PROVE  h[o].rc >= Count(h, f, q, o) /\ (o \notin e => h[o].rc = Count(h, f, q, o))
    OBVIOUS
  <2> DEFINE n == h[o].rc
             a == SlotRefs(f, o)
             b == ItemRefs(h, o)
             c == RefsIn(q, o)
             i == One(v, o)
  <2>1. n \in Int /\ a \in Nat /\ b \in Nat /\ c \in Nat /\ i \in Nat
    BY <1>3, <1>4, ClosedFacts, OneNat
  <2>2. n >= a + b + (i + c) /\ (o \notin d => n = a + b + (i + c))
    BY <1>1, <1>2 DEF Count
  <2>3. o \notin e => i = 0
    BY RefFacts DEF One
  <2> HIDE DEF n, a, b, c, i
  <2>4. n >= a + b + c /\ (o \notin e => n = a + b + c)
    BY <2>1, <2>2, <2>3
  <2> QED BY <2>4 DEF Count, n, a, b, c
<1> QED BY <1>3, <1>5 DEF Good

LEMMA Narrow ==
    ASSUME NEW h, NEW f, NEW q, NEW d, Good(h, f, q, d)
    PROVE  Good(h, f, q, d \cap DOMAIN h)
BY DEF Good

(* Counting copies of a sequence of values. *)
LEMMA TakeAll ==
    ASSUME NEW h, NEW f, NEW q, NEW d, Good(h, f, q, d), NEW vs \in Seq(Refs(DOMAIN h))
    PROVE  /\ DOMAIN RetainAll(h, vs) = DOMAIN h
           /\ Good(RetainAll(h, vs), f, vs \o q, d)
<1> DEFINE D == DOMAIN h
           g == RetainAll(h, vs)
           r == vs \o q
<1>1. Closed(h, f, q) /\ q \in Seq(Refs(D)) /\ \A o \in D : h[o] \in Objects(D) /\ h[o].rc \in Int
  BY DEF Good, Closed, Objects, Shapes
<1>2. DOMAIN g = D /\ \A o \in D : g[o] = [h[o] EXCEPT !.rc = h[o].rc + RefsIn(vs, o)]
  BY DEF RetainAll
<1>3. \A o : RefsIn(vs, o) \in Nat
  BY OccurFinite
<1>4. \A o \in D : g[o] \in Objects(D) /\ g[o].items = h[o].items /\ g[o].rc = h[o].rc + RefsIn(vs, o)
  <2> SUFFICES ASSUME NEW o \in D
               PROVE  g[o] \in Objects(D) /\ g[o].items = h[o].items /\ g[o].rc = h[o].rc + RefsIn(vs, o)
    OBVIOUS
  <2>1. h[o].rc + RefsIn(vs, o) \in Int
    BY <1>1, <1>3
  <2> QED BY <1>1, <1>2, <2>1, Recounted
<1>5. g \in [D -> Objects(D)]
  <2>1. g = [o \in D |-> g[o]]
    BY DEF RetainAll
  <2> HIDE DEF g
  <2> QED BY <1>4, <2>1
<1>6. r \in Seq(Refs(D)) /\ \A o : RefsIn(r, o) = RefsIn(vs, o) + RefsIn(q, o)
  BY <1>1, RefsInConcat
<1>7. \A o : ItemRefs(g, o) = ItemRefs(h, o)
  BY <1>2, <1>4, ItemRefsSame
<1>8. Closed(g, f, r)
  BY <1>1, <1>2, <1>5, <1>6 DEF Closed
<1>9. \A o : SlotRefs(f, o) \in Nat /\ ItemRefs(h, o) \in Nat /\ RefsIn(q, o) \in Nat
  BY <1>1, ClosedFacts
<1>10. \A o \in D : Count(g, f, r, o) = Count(h, f, q, o) + RefsIn(vs, o)
  BY <1>3, <1>6, <1>7, <1>9 DEF Count
<1>11. \A o \in D : Count(h, f, q, o) \in Nat
  BY <1>1, ClosedFacts
<1> HIDE DEF g, r
<1>12. Good(g, f, r, d)
  BY <1>1, <1>2, <1>3, <1>4, <1>8, <1>10, <1>11 DEF Good
<1> QED BY <1>2, <1>12 DEF g, r

-----------------------------------------------------------------------------
(* Releasing *)

LEMMA Avoiding ==
    ASSUME NEW D, NEW p, NEW q \in Seq(Refs(D)), \A i \in DOMAIN q : q[i] # Ref(p)
    PROVE  q \in Seq(Refs(D \ {p}))
<1>1. \A i \in DOMAIN q : q[i] \in Refs(D \ {p})
  BY DEF Refs
<1> DEFINE E == Refs(D \ {p})
<1>2. Len(q) \in Nat /\ q = [i \in 1..Len(q) |-> q[i]] /\ \A i \in 1..Len(q) : q[i] \in E
  BY <1>1, SMTT(30)
<1> HIDE DEF E
<1>3. q \in Seq(E)
  BY <1>2
<1> QED BY <1>3 DEF E

LEMMA DropNull ==
    ASSUME NEW h, NEW f, NEW q, NEW d, Good(h, f, q, d), q # <<>>, ~IsRef(Head(q))
    PROVE  Good(h, f, Tail(q), d)
<1>1. q \in Seq(Refs(DOMAIN h))
  BY DEF Good, Closed
<1>2. Tail(q) \in Seq(Refs(DOMAIN h)) /\ Head(q) \in Refs(DOMAIN h)
  BY <1>1, RefsInHead
<1>3. \A o : RefsIn(q, o) = One(Head(q), o) + RefsIn(Tail(q), o)
  BY <1>1, RefsInHead
<1>4. \A o : One(Head(q), o) = 0
  BY <1>2, RefFacts DEF One
<1>5. \A o : RefsIn(Tail(q), o) \in Nat
  BY <1>2, OccurFinite
<1>6. \A o : RefsIn(Tail(q), o) = RefsIn(q, o)
  BY <1>3, <1>4, <1>5
<1> QED BY <1>2, <1>6, Reorder

LEMMA DropOne ==
    ASSUME NEW h, NEW f, NEW q, NEW d, Good(h, f, q, d), q # <<>>, IsRef(Head(q))
    PROVE  Good([h EXCEPT ![Head(q).v].rc = @ - 1], f, Tail(q), d)
<1> DEFINE D == DOMAIN h
           p == Head(q).v
           g == [h EXCEPT ![p].rc = @ - 1]
           r == Tail(q)
<1>1. Closed(h, f, q) /\ q \in Seq(Refs(D)) /\ h \in [D -> Objects(D)] /\ \A o \in D : h[o].rc \in Int
  BY DEF Good, Closed, Objects, Shapes
<1>2. r \in Seq(Refs(D)) /\ Head(q) \in Refs(D)
  BY <1>1, RefsInHead
<1>3. p \in D /\ Head(q) = Ref(p)
  BY <1>2, RefFacts
<1>4. \A o : RefsIn(q, o) = (IF o = p THEN 1 ELSE 0) + RefsIn(r, o)
  <2>1. \A o : RefsIn(q, o) = One(Head(q), o) + RefsIn(r, o)
    BY <1>1, RefsInHead
  <2>2. \A o : One(Head(q), o) = IF o = p THEN 1 ELSE 0
    BY <1>3, RefFacts DEF One
  <2> QED BY <2>1, <2>2
<1> HIDE DEF p, r
<1>5. DOMAIN g = D /\ g[p] = [h[p] EXCEPT !.rc = h[p].rc - 1] /\ \A o \in D \ {p} : g[o] = h[o]
  BY <1>1, <1>3
<1>6. g[p] \in Objects(D) /\ g[p].items = h[p].items /\ g[p].rc = h[p].rc - 1
  <2>1. h[p].rc - 1 \in Int /\ h[p] \in Objects(D)
    BY <1>1, <1>3
  <2> QED BY <1>5, <2>1, Recounted
<1>7. g \in [D -> Objects(D)]
  <2>1. g = [h EXCEPT ![p] = g[p]]
    BY <1>1, <1>3, <1>5
  <2> HIDE DEF g
  <2> QED BY <1>1, <1>6, <2>1
<1> HIDE DEF g
<1>8. Closed(g, f, r)
  BY <1>1, <1>2, <1>5, <1>7 DEF Closed
<1>9. \A o : ItemRefs(g, o) = ItemRefs(h, o)
  BY <1>5, <1>6, ItemRefsSame, ZenonT(30)
<1>10. \A o \in D : g[o].rc >= Count(g, f, r, o) /\ (o \notin d => g[o].rc = Count(g, f, r, o))
  <2> SUFFICES ASSUME NEW o \in D
               PROVE  g[o].rc >= Count(g, f, r, o) /\ (o \notin d => g[o].rc = Count(g, f, r, o))
    OBVIOUS
  <2> DEFINE m == h[o].rc
             n == g[o].rc
             a == SlotRefs(f, o)
             b == ItemRefs(h, o)
             c == RefsIn(r, o)
             i == IF o = p THEN 1 ELSE 0
  <2>1. m \in Int /\ a \in Nat /\ b \in Nat /\ c \in Nat /\ i \in Nat
    BY <1>1, <1>8, ClosedFacts
  <2>2. n = m - i
    <3>1. CASE o = p
      BY <1>6, <3>1
    <3>2. CASE o # p
      <4>1. g[o] = h[o] /\ m \in Int
        BY <1>1, <1>5, <3>2
      <4> QED BY <3>2, <4>1
    <3> QED BY <3>1, <3>2
  <2>3. m >= a + b + (i + c) /\ (o \notin d => m = a + b + (i + c))
    BY <1>4 DEF Count, Good
  <2> HIDE DEF m, n, a, b, c, i
  <2>4. n >= a + b + c /\ (o \notin d => n = a + b + c)
    BY <2>1, <2>2, <2>3
  <2> QED BY <1>9, <2>4 DEF Count, n, a, b, c
<1> QED BY <1>5, <1>8, <1>10 DEF Good, g, r, p
(* An object with items that all stay in a smaller heap stays an object.   *)
LEMMA Smaller ==
    ASSUME NEW D, NEW E, NEW x \in Objects(D), x.items \in Seq(Refs(E))
    PROVE  x \in Objects(E)
BY DEF Objects, Shapes

LEMMA FreeLast ==
    ASSUME NEW h, NEW f, NEW q, NEW d, Good(h, f, q, d), q # <<>>, IsRef(Head(q)), h[Head(q).v].rc = 1
    PROVE  Good(Without(h, Head(q).v), f, h[Head(q).v].items \o Tail(q), d)
<1> DEFINE D == DOMAIN h
           p == Head(q).v
           E == D \ {p}
           g == Without(h, p)
           t == Tail(q)
           vs == h[p].items
           r == vs \o t
<1>1. /\ Closed(h, f, q) /\ q \in Seq(Refs(D)) /\ f \in [Slots -> Refs(D)]
      /\ \A o \in D : h[o] \in Objects(D) /\ h[o].rc \in Int /\ h[o].items \in Seq(Refs(D))
  BY DEF Good, Closed, Objects, Shapes
<1>2. t \in Seq(Refs(D)) /\ Head(q) \in Refs(D)
  BY <1>1, RefsInHead
<1>3. p \in D /\ Head(q) = Ref(p)
  BY <1>2, RefFacts
<1>4. \A o : RefsIn(q, o) = (IF o = p THEN 1 ELSE 0) + RefsIn(t, o)
  <2>1. \A o : RefsIn(q, o) = One(Head(q), o) + RefsIn(t, o)
    BY <1>1, RefsInHead
  <2>2. \A o : One(Head(q), o) = IF o = p THEN 1 ELSE 0
    BY <1>3, RefFacts DEF One
  <2> QED BY <2>1, <2>2
<1>5. h[p].rc = 1
  OBVIOUS
<1>6. DOMAIN g = E /\ \A o \in E : g[o] = h[o]
  BY DEF Without
<1>7. g = [o \in E |-> g[o]]
  BY DEF Without
<1> HIDE DEF p, t, g
<1>8. ItemsIn(h, Refs(D)) /\ \A o : SlotRefs(f, o) \in Nat /\ ItemRefs(h, o) \in Nat
  BY <1>1, ClosedFacts
<1>9. \A o : RefsIn(t, o) \in Nat
  BY <1>2, OccurFinite
<1>10. SlotRefs(f, p) = 0 /\ ItemRefs(h, p) = 0 /\ RefsIn(t, p) = 0
  <2> DEFINE a == SlotRefs(f, p)
             b == ItemRefs(h, p)
             c == RefsIn(t, p)
  <2>1. 1 >= a + b + (1 + c)
    BY <1>3, <1>4, <1>5 DEF Good, Count
  <2>2. a \in Nat /\ b \in Nat /\ c \in Nat
    BY <1>8, <1>9
  <2> HIDE DEF a, b, c
  <2>3. a = 0 /\ b = 0 /\ c = 0
    BY <2>1, <2>2
  <2> QED BY <2>3 DEF a, b, c
<1>11. f \in [Slots -> Refs(E)]
  <2>1. \A s \in Slots : f[s] # Ref(p)
    BY <1>10, SlotRefsNone
  <2>2. \A s \in Slots : f[s] \in Refs(E)
    BY <1>1, <2>1 DEF Refs
  <2> HIDE DEF E
  <2> QED BY <1>1, <2>2
<1>12. \A o \in D : h[o].items \in Seq(Refs(E))
  <2>1. \A o \in D : \A i \in DOMAIN h[o].items : h[o].items[i] # Ref(p)
    BY <1>8, <1>10, ItemRefsNone
  <2> QED BY <1>1, <2>1, Avoiding
<1>13. t \in Seq(Refs(E))
  <2>1. \A i \in DOMAIN t : t[i] # Ref(p)
    BY <1>2, <1>10, RefsInNone
  <2> QED BY <1>2, <2>1, Avoiding
<1>14. g \in [E -> Objects(E)]
  <2>1. \A o \in E : g[o] \in Objects(E)
    <3> SUFFICES ASSUME NEW o \in E PROVE g[o] \in Objects(E)
      OBVIOUS
    <3>1. h[o] \in Objects(D) /\ h[o].items \in Seq(Refs(E)) /\ g[o] = h[o]
      BY <1>1, <1>6, <1>12
    <3> HIDE DEF D, E
    <3> QED BY <3>1, Smaller
  <2> HIDE DEF E
  <2> QED BY <1>7, <2>1
<1>15. vs \in Seq(Refs(E))
  BY <1>3, <1>12
<1> HIDE DEF vs
<1>16. r \in Seq(Refs(E)) /\ \A o : RefsIn(r, o) = RefsIn(vs, o) + RefsIn(t, o)
  BY <1>13, <1>15, RefsInConcat
<1> HIDE DEF r
<1>17. Closed(g, f, r)
  <2>1. E \subseteq Ids
    BY <1>1 DEF Closed
  <2> QED BY <1>6, <1>11, <1>14, <1>16, <2>1 DEF Closed
<1>18. \A o : ItemRefs(h, o) = ItemRefs(g, o) + RefsIn(vs, o)
  BY <1>3, <1>8, ItemRefsSplit DEF g, vs
<1>19. \A o : ItemRefs(g, o) \in Nat /\ RefsIn(vs, o) \in Nat
  BY <1>15, <1>17, ClosedFacts, OccurFinite
<1>20. \A o \in E : g[o].rc >= Count(g, f, r, o) /\ (o \notin d => g[o].rc = Count(g, f, r, o))
  <2> SUFFICES ASSUME NEW o \in E
               PROVE  g[o].rc >= Count(g, f, r, o) /\ (o \notin d => g[o].rc = Count(g, f, r, o))
    OBVIOUS
  <2> DEFINE n == h[o].rc
             a == SlotRefs(f, o)
             b == ItemRefs(g, o)
             c == RefsIn(t, o)
             i == RefsIn(vs, o)
  <2>1. n \in Int /\ a \in Nat /\ b \in Nat /\ c \in Nat /\ i \in Nat
    BY <1>1, <1>8, <1>9, <1>19
  <2>2. RefsIn(q, o) = 0 + c /\ ItemRefs(h, o) = b + i
    BY <1>4, <1>18
  <2>3. n >= a + (b + i) + (0 + c) /\ (o \notin d => n = a + (b + i) + (0 + c))
    BY <2>2 DEF Count, Good
  <2>4. g[o].rc = n /\ RefsIn(r, o) = i + c
    BY <1>6, <1>16
  <2> HIDE DEF n, a, b, c, i
  <2>5. n >= a + b + (i + c) /\ (o \notin d => n = a + b + (i + c))
    BY <2>1, <2>3
  <2> QED BY <2>4, <2>5 DEF Count, a, b
<1> QED BY <1>6, <1>17, <1>20 DEF Good, g, r, t, vs, p

-----------------------------------------------------------------------------
(* Collecting *)

(* What is marked holds what the roots hold and is closed under holding. *)
LEMMA MarkedFacts ==
    ASSUME HeapInv, NEW S \in SUBSET DOMAIN heap
    PROVE  /\ S \subseteq Marked(S) /\ Marked(S) \subseteq DOMAIN heap
           /\ \A o \in Marked(S) : \A i \in DOMAIN heap[o].items :
                 IsRef(heap[o].items[i]) => heap[o].items[i].v \in Marked(S)
<1> DEFINE In(L) == L \in SUBSET DOMAIN heap /\ S \subseteq L
                      /\ \A o \in L : Held(ToSet(heap[o].items)) \subseteq L
<1>1. Marked(S) = {o \in DOMAIN heap : \A L : In(L) => o \in L}
  BY DEF Marked
<1> SUFFICES ASSUME NEW o \in Marked(S), NEW i \in DOMAIN heap[o].items, IsRef(heap[o].items[i])
             PROVE  heap[o].items[i].v \in Marked(S)
  BY <1>1
<1> DEFINE p == heap[o].items[i].v
<1>2. p \in Held(ToSet(heap[o].items))
  BY DEF Held, ToSet
<1>3. p \in DOMAIN heap
  <2>1. o \in DOMAIN heap
    BY <1>1
  <2>2. heap[o].items \in Seq(Refs(DOMAIN heap))
    BY <2>1, ClosedFacts DEF HeapInv, Good
  <2>3. heap[o].items[i] \in Refs(DOMAIN heap)
    BY <2>2
  <2> QED BY <2>3, RefFacts
<1>4. \A L : In(L) => p \in L
  BY <1>1, <1>2
<1> HIDE DEF p, In
<1>5. p \in Marked(S)
  BY <1>1, <1>3, <1>4
<1> QED BY <1>5 DEF p
LEMMA CollectStep ==
    ASSUME HeapInv, releasing = <<>>, sched_gc_collect
    PROVE  Good(heap', slots, releasing, drifted')
<1> DEFINE D == DOMAIN heap
           live == Marked(sched_gc_mark_vm)
           g == [o \in live |-> heap[o]]
           lost == UNION {Held(ToSet(heap[o].items)) : o \in D \ live}
<1>1. /\ Closed(heap, slots, releasing) /\ slots \in [Slots -> Refs(D)] /\ D \subseteq Ids
      /\ \A o \in D : heap[o] \in Objects(D) /\ heap[o].rc \in Int /\ heap[o].items \in Seq(Refs(D))
  BY DEF HeapInv, Good, Closed, Objects, Shapes
<1>2. heap' = g /\ drifted' = (drifted \cup lost) \cap live
  BY DEF sched_gc_collect
<1>3. sched_gc_mark_vm \subseteq D /\ \A s \in Slots : IsRef(slots[s]) => slots[s].v \in sched_gc_mark_vm
  <2>1. \A s \in Slots : IsRef(slots[s]) => slots[s].v \in D
    BY <1>1, RefFacts
  <2> QED BY <2>1 DEF sched_gc_mark_vm, Held
<1>4. /\ sched_gc_mark_vm \subseteq live /\ live \subseteq D
      /\ \A o \in live : \A i \in DOMAIN heap[o].items : IsRef(heap[o].items[i]) => heap[o].items[i].v \in live
  BY <1>3, MarkedFacts
<1>5. DOMAIN g = live /\ \A o \in live : g[o] = heap[o]
  OBVIOUS
<1> HIDE DEF live, g
<1>6. slots \in [Slots -> Refs(live)]
  <2>1. \A s \in Slots : slots[s] \in Refs(live)
    BY <1>1, <1>3, <1>4, RefFacts DEF Refs
  <2> QED BY <1>1, <2>1
<1>7. \A o \in live : heap[o].items \in Seq(Refs(live))
  <2> SUFFICES ASSUME NEW o \in live PROVE heap[o].items \in Seq(Refs(live))
    OBVIOUS
  <2> DEFINE q == heap[o].items
             V == Refs(live)
  <2>1. q \in Seq(Refs(D))
    BY <1>1, <1>4
  <2>2. \A i \in DOMAIN q : q[i] \in Refs(D)
    BY <2>1
  <2>3. \A i \in DOMAIN q : q[i] \in V
    BY <1>4, <2>2, RefFacts DEF Refs
  <2>4. Len(q) \in Nat /\ q = [i \in 1..Len(q) |-> q[i]] /\ DOMAIN q = 1..Len(q)
    BY <2>1
  <2> HIDE DEF q, V
  <2>5. q \in Seq(V)
    BY <2>3, <2>4
  <2> QED BY <2>5 DEF q, V
<1>8. g \in [live -> Objects(live)]
  <2>1. \A o \in live : heap[o] \in Objects(live)
    BY <1>1, <1>4, <1>7, Smaller
  <2> QED BY <2>1 DEF g
<1>9. Closed(g, slots, releasing)
  BY <1>1, <1>4, <1>5, <1>6, <1>8 DEF Closed
<1>10. \A o : Places(g, o) \subseteq Places(heap, o)
  BY <1>4, <1>5 DEF Places, PlacesOf
<1>11. \A o : IsFiniteSet(Places(heap, o)) /\ ItemRefs(heap, o) = Cardinality(Places(heap, o))
            /\ ItemRefs(g, o) = Cardinality(Places(g, o))
  BY <1>1, <1>9, ClosedFacts, PlacesFinite
<1>12. \A o : ItemRefs(g, o) <= ItemRefs(heap, o)
  BY <1>10, <1>11, FS_Subset
<1>13. \A o : o \notin lost => ItemRefs(g, o) = ItemRefs(heap, o)
  <2> SUFFICES ASSUME NEW o, o \notin lost PROVE ItemRefs(g, o) = ItemRefs(heap, o)
    OBVIOUS
  <2>1. \A p \in D \ live : \A i \in DOMAIN heap[p].items : heap[p].items[i] # Ref(o)
    <3> SUFFICES ASSUME NEW p \in D \ live, NEW i \in DOMAIN heap[p].items, heap[p].items[i] = Ref(o)
                 PROVE  FALSE
      OBVIOUS
    <3>1. o \in Held(ToSet(heap[p].items))
      BY RefFacts DEF Held, ToSet
    <3> QED BY <3>1
  <2>2. \A p \in D : PlacesOf(heap, p, o) # {} => p \in live
    BY <2>1 DEF PlacesOf, Occur
  <2>3. \A p \in live : PlacesOf(heap, p, o) = PlacesOf(g, p, o)
    BY <1>5 DEF PlacesOf
  <2>4. Places(heap, o) \subseteq Places(g, o)
    BY <1>5, <2>2, <2>3 DEF Places
  <2>5. Places(heap, o) = Places(g, o)
    BY <1>10, <2>4
  <2> QED BY <1>11, <2>5
<1> HIDE DEF lost
<1>14. \A o \in live : /\ g[o].rc >= Count(g, slots, releasing, o)
                       /\ o \notin drifted' => g[o].rc = Count(g, slots, releasing, o)
  <2> SUFFICES ASSUME NEW o \in live
               PROVE  /\ g[o].rc >= Count(g, slots, releasing, o)
                      /\ o \notin drifted' => g[o].rc = Count(g, slots, releasing, o)
    OBVIOUS
  <2> DEFINE n == heap[o].rc
             a == SlotRefs(slots, o)
             b == ItemRefs(heap, o)
             c == ItemRefs(g, o)
             i == RefsIn(releasing, o)
  <2>1. n \in Int /\ a \in Nat /\ b \in Nat /\ c \in Nat /\ i \in Nat
    BY <1>1, <1>4, <1>9, ClosedFacts
  <2>2. n >= a + b + i /\ (o \notin drifted => n = a + b + i)
    BY <1>4 DEF HeapInv, Good, Count
  <2>3. c <= b
    BY <1>12
  <2>4. o \notin drifted' => o \notin drifted /\ c = b
    BY <1>2, <1>13
  <2> HIDE DEF n, a, b, c, i
  <2>5. n >= a + c + i /\ (o \notin drifted' => n = a + c + i)
    BY <2>1, <2>2, <2>3, <2>4
  <2> QED BY <1>5, <2>5 DEF Count, n, a, c, i
<1> QED BY <1>2, <1>5, <1>9, <1>14 DEF Good

-----------------------------------------------------------------------------
(* One instruction at a time *)

LEMMA ReleaseStep ==
    ASSUME HeapInv, uno_release_value
    PROVE  Good(heap', slots, releasing', drifted')
<1>1. Good(heap, slots, releasing, drifted) /\ releasing # <<>>
  BY DEF HeapInv, uno_release_value
<1>2. Good(heap', slots, releasing', drifted)
  <2>1. CASE ~IsRef(Head(releasing))
    BY <1>1, <2>1, DropNull DEF uno_release_value
  <2>2. CASE IsRef(Head(releasing)) /\ heap[Head(releasing).v].rc > 1
    <3> DEFINE v      == Head(releasing)
               rest   == Tail(releasing)
               joined == heap[v.v].items \o rest
               less   == [heap EXCEPT ![v.v].rc = @ - 1]
               freed  == Without(heap, v.v)
    <3>3. \/ ~IsRef(v) /\ heap' = heap /\ releasing' = rest
          \/ IsRef(v) /\ heap[v.v].rc > 1 /\ heap' = less /\ releasing' = rest
          \/ IsRef(v) /\ heap[v.v].rc = 1 /\ heap' = freed /\ releasing' = joined
      BY Zenon DEF uno_release_value
    <3>4. IsRef(v) /\ heap[v.v].rc > 1
      BY <2>2
    <3> HIDE DEF v, rest, joined, less, freed
    <3>5. ~(heap[v.v].rc = 1)
      BY <3>4
    <3>6. heap' = less /\ releasing' = rest
      BY <3>3, <3>4, <3>5, Zenon
    <3>1. heap' = [heap EXCEPT ![Head(releasing).v].rc = @ - 1] /\ releasing' = Tail(releasing)
      BY <3>6, Zenon DEF less, rest, v
    <3>2. Good([heap EXCEPT ![Head(releasing).v].rc = @ - 1], slots, Tail(releasing), drifted)
      BY <1>1, <2>2, DropOne
    <3> QED BY <3>1, <3>2
  <2>3. CASE IsRef(Head(releasing)) /\ heap[Head(releasing).v].rc = 1
    <3> DEFINE v      == Head(releasing)
               rest   == Tail(releasing)
               joined == heap[v.v].items \o rest
               less   == [heap EXCEPT ![v.v].rc = @ - 1]
               freed  == Without(heap, v.v)
    <3>3. \/ ~IsRef(v) /\ heap' = heap /\ releasing' = rest
          \/ IsRef(v) /\ heap[v.v].rc > 1 /\ heap' = less /\ releasing' = rest
          \/ IsRef(v) /\ heap[v.v].rc = 1 /\ heap' = freed /\ releasing' = joined
      BY Zenon DEF uno_release_value
    <3>4. IsRef(v) /\ heap[v.v].rc = 1
      BY <2>3
    <3> HIDE DEF v, rest, joined, less, freed
    <3>5. ~(heap[v.v].rc > 1)
      BY <3>4
    <3>6. heap' = freed /\ releasing' = joined
      BY <3>3, <3>4, <3>5, Zenon
    <3>1. /\ heap' = Without(heap, Head(releasing).v)
          /\ releasing' = heap[Head(releasing).v].items \o Tail(releasing)
      BY <3>6, Zenon DEF v, rest, joined, freed
    <3>2. Good(Without(heap, Head(releasing).v), slots, heap[Head(releasing).v].items \o Tail(releasing), drifted)
      BY <1>1, <2>3, FreeLast
    <3> QED BY <3>1, <3>2
  <2> QED BY <2>1, <2>2, <2>3 DEF uno_release_value
<1> QED BY <1>2, Narrow DEF uno_release_value

(* What is left to show of an instruction that leaves the frame alone. *)
LEMMA Settled ==
    ASSUME HeapInv, Good(heap', slots', releasing', drifted), Quiet,
           slots'["s0"] = slots["s0"], slots'["s1"] = slots["s1"]
    PROVE  HeapInv'
<1>1. Good(heap', slots', releasing', drifted')
  BY Narrow DEF Quiet
<1> QED BY <1>1 DEF HeapInv, Quiet

LEMMA Ends ==
    /\ "s0" \in Slots /\ "s1" \in Slots /\ "r0" \in Slots /\ "r1" \in Slots
    /\ Variables \subseteq Slots /\ Registers \subseteq Slots
    /\ \A s \in Variables \cup Registers : s # "s0" /\ s # "s1"
BY HeapAssumption DEF Slots, Registers

LEMMA ConcatEmpty ==
    \A v : <<v>> \o <<>> = <<v>>
<1> SUFFICES ASSUME NEW v PROVE <<v>> \o <<>> = <<v>>
  OBVIOUS
<1>1. <<v>> \in Seq({v})
  OBVIOUS
<1> QED BY <1>1, ConcatEmptySeq

(* With nothing on its way, a copy goes into a slot. *)
LEMMA CopyIntoStep ==
    ASSUME HeapInv, releasing = <<>>, NEW s \in Variables \cup Registers, NEW v \in Refs(DOMAIN heap),
           CopyInto(heap, s, v), Quiet
    PROVE  HeapInv'
<1> DEFINE h == Retain(heap, v)
           f == [slots EXCEPT ![s] = v]
<1>1. heap' = h /\ slots' = f /\ releasing' = <<slots[s]>>
  BY DEF CopyInto, Into
<1>2. Good(heap, slots, <<>>, drifted) /\ s \in Slots /\ slots \in [Slots -> Refs(DOMAIN heap)]
  BY Ends DEF HeapInv, Good, Closed
<1>3. DOMAIN h = DOMAIN heap /\ Good(h, slots, <<v>> \o <<>>, drifted)
  BY <1>2, Take
<1> HIDE DEF h
<1>4. v \in Refs(DOMAIN h) /\ <<>> \in Seq(Refs(DOMAIN h))
  BY <1>3
<1>5. Good(h, f, <<slots[s]>> \o <<>>, drifted)
  BY <1>2, <1>3, <1>4, Swap
<1>6. Good(heap', slots', releasing', drifted)
  BY <1>1, <1>5, ConcatEmpty
<1>7. slots'["s0"] = slots["s0"] /\ slots'["s1"] = slots["s1"]
  BY <1>1, <1>2, Ends
<1> QED BY <1>6, <1>7, Settled
(* A value takes the place of an item, and the old item is on its way. *)
LEMMA ReplacedStep ==
    ASSUME NEW h, NEW f, NEW d, Good(h, f, <<>>, d), NEW o \in DOMAIN h, NEW i \in DOMAIN h[o].items,
           NEW v \in Refs(DOMAIN h)
    PROVE  /\ h[o].items[i] \in Refs(DOMAIN h) /\ DOMAIN Replaced(h, o, i, v) = DOMAIN h
           /\ Good(Replaced(h, o, i, v), f, <<h[o].items[i]>>, d)
<1> DEFINE D == DOMAIN h
           g == Retain(h, v)
           vs == g[o].items
           ws == [vs EXCEPT ![i] = v]
           x == [g[o] EXCEPT !.items = ws]
           q == <<v>> \o <<>>
           r == <<vs[i]>>
<1>1. DOMAIN g = D /\ (\A p \in D : g[p].items = h[p].items) /\ Good(g, f, q, d)
  BY Take
<1> HIDE DEF g
<1>2. g \in [D -> Objects(D)] /\ g[o] \in Objects(D) /\ vs \in Seq(Refs(D)) /\ vs = h[o].items
  BY <1>1 DEF Good, Closed, Objects, Shapes
<1>3. Replaced(h, o, i, v) = [g EXCEPT ![o] = x]
  BY <1>1, <1>2 DEF Replaced, g
<1> HIDE DEF vs
<1>4. /\ ws \in Seq(Refs(D)) /\ Len(ws) = Len(vs) /\ vs[i] \in Refs(D)
      /\ \A p : RefsIn(ws, p) + One(vs[i], p) = RefsIn(vs, p) + One(v, p)
  BY <1>2, RefsInExcept
<1> HIDE DEF ws
<1>5. x \in Objects(D) /\ x.items = ws /\ x.rc = g[o].rc
  BY <1>2, <1>4, Refilled DEF vs
<1> HIDE DEF x
<1>6. r \in Seq(Refs(D)) /\ (\A p : RefsIn(r, p) = One(vs[i], p)) /\ \A p : RefsIn(q, p) = One(v, p)
  BY <1>4, RefsInOne, ConcatEmpty
<1>7. SameRefs(x.items, r, g[o].items, q)
  BY <1>4, <1>5, <1>6 DEF SameRefs, vs
<1> HIDE DEF q, r
<1>8. Good([g EXCEPT ![o] = x], f, r, d)
  BY <1>1, <1>5, <1>6, <1>7, Refill
<1>9. DOMAIN [g EXCEPT ![o] = x] = D
  BY <1>1
<1> QED BY <1>2, <1>3, <1>4, <1>8, <1>9 DEF r

LEMMA LoadStep ==
    ASSUME HeapInv, releasing = <<>>, LoadVarRef \/ LoadConstRef \/ StoreVarRef
    PROVE  HeapInv'
<1>1. \A s \in Slots : slots[s] \in Refs(DOMAIN heap)
  BY DEF HeapInv, Good, Closed
<1>2. CASE LoadVarRef
  <2>1. PICK r \in Registers, x \in Variables : CopyInto(heap, r, slots[x]) /\ Quiet
    BY <1>2 DEF LoadVarRef
  <2>2. r \in Variables \cup Registers /\ slots[x] \in Refs(DOMAIN heap)
    BY <1>1, Ends
  <2> QED BY <2>1, <2>2, CopyIntoStep
<1>3. CASE LoadConstRef
  <2>1. PICK r \in Registers : CopyInto(heap, r, Null) /\ Quiet
    BY <1>3 DEF LoadConstRef
  <2>2. r \in Variables \cup Registers /\ Null \in Refs(DOMAIN heap)
    BY DEF Refs
  <2> QED BY <2>1, <2>2, CopyIntoStep
<1>4. CASE StoreVarRef
  <2>1. PICK x \in Variables : CopyInto(heap, x, slots["r0"]) /\ Quiet
    BY <1>4 DEF StoreVarRef
  <2>2. x \in Variables \cup Registers /\ slots["r0"] \in Refs(DOMAIN heap)
    BY <1>1, Ends
  <2> QED BY <2>1, <2>2, CopyIntoStep
<1> QED BY <1>2, <1>3, <1>4

(* Registers move to the frame. *)
LEMMA PushStep ==
    ASSUME HeapInv, releasing = <<>>, PushFrameRefs
    PROVE  HeapInv'
<1> DEFINE V == Refs(DOMAIN heap)
<1>1. /\ slots' = [s \in Slots |-> CASE s \in Variables -> slots[s]
                                      [] s \in Registers -> Null
                                      [] s = "s0" -> slots["r0"]
                                      [] s = "s1" -> slots["r1"]]
      /\ UNCHANGED <<heap, releasing, types, drifted>> /\ inCall' = TRUE /\ ~inCall
  BY DEF PushFrameRefs
<1>2. slots \in [Slots -> V] /\ Null \in V
  BY DEF HeapInv, Good, Closed, Refs
<1>3. slots["s0"] = Null /\ slots["s1"] = Null
  BY <1>1 DEF HeapInv
<1>4. /\ \A s \in Variables : slots'[s] = slots[s]
      /\ slots'["r0"] = Null /\ slots'["r1"] = Null /\ slots'["s0"] = slots["r0"] /\ slots'["s1"] = slots["r1"]
  BY <1>1, Ends, HeapAssumption DEF Registers
<1>5. slots' \in [Slots -> V]
  <2>1. \A s \in Slots : slots'[s] \in V
    BY <1>2, <1>4, Ends DEF Slots, Registers
  <2> HIDE DEF V
  <2> QED BY <1>1, <2>1
<1>6. \A o : SlotRefs(slots', o) = SlotRefs(slots, o)
  <2> SUFFICES ASSUME NEW o PROVE SlotRefs(slots', o) = SlotRefs(slots, o)
    OBVIOUS
  <2>1. VarRefs(slots', o) = VarRefs(slots, o)
    BY <1>4 DEF VarRefs
  <2>2. One(Null, o) = 0
    BY RefFacts DEF One
  <2> DEFINE a == VarRefs(slots, o)
             b == One(slots["r0"], o)
             c == One(slots["r1"], o)
  <2>3. a \in Nat /\ b \in Nat /\ c \in Nat
    BY SlotRefsSplit, OneNat
  <2>4. SlotRefs(slots, o) = a + b + c + 0 + 0 /\ SlotRefs(slots', o) = a + 0 + 0 + b + c
    BY <1>3, <1>4, <2>1, <2>2, SlotRefsSplit
  <2> HIDE DEF a, b, c
  <2> QED BY <2>3, <2>4
<1>7. Good(heap', slots', releasing', drifted')
  BY <1>1, <1>5, <1>6 DEF HeapInv, Good, Closed, Count
<1> QED BY <1>1, <1>7 DEF HeapInv
(* References change places between slots and what is on its way. *)
LEMMA Move ==
    ASSUME NEW h, NEW f, NEW q, NEW d, Good(h, f, q, d), NEW g \in [Slots -> Refs(DOMAIN h)],
           NEW r \in Seq(Refs(DOMAIN h)), \A o : SlotRefs(g, o) + RefsIn(r, o) = SlotRefs(f, o) + RefsIn(q, o)
    PROVE  Good(h, g, r, d)
<1>1. Closed(h, f, q) /\ Closed(h, g, r)
  BY DEF Good, Closed
<1>2. \A o : Count(h, g, r, o) = Count(h, f, q, o)
  <2> SUFFICES ASSUME NEW o PROVE Count(h, g, r, o) = Count(h, f, q, o)
    OBVIOUS
  <2> DEFINE a == SlotRefs(g, o)
             b == RefsIn(r, o)
             c == SlotRefs(f, o)
             e == RefsIn(q, o)
             i == ItemRefs(h, o)
  <2>1. a \in Nat /\ b \in Nat /\ c \in Nat /\ e \in Nat /\ i \in Nat
    BY <1>1, ClosedFacts
  <2>2. a + b = c + e
    OBVIOUS
  <2> HIDE DEF a, b, c, e, i
  <2>3. a + i + b = c + i + e
    BY <2>1, <2>2
  <2> QED BY <2>3 DEF Count, a, b, c, e, i
<1> QED BY <1>1, <1>2 DEF Good

(* A result comes back, and the caller's registers with it. *)
LEMMA ReturnStep ==
    ASSUME HeapInv, releasing = <<>>, ReturnRefs
    PROVE  HeapInv'
<1> PICK x \in Variables, to \in Registers :
         LET result == slots[x]
         IN  /\ inCall /\ inCall' = FALSE
             /\ heap' = Retain(heap, result)
             /\ releasing' = <<slots["r0"], slots["r1"], slots[Saved(to)]>>
             /\ slots' = [s \in Slots |-> CASE s = to -> result
                                             [] s \in Variables -> slots[s]
                                             [] s \in Registers \ {to} -> slots[Saved(s)]
                                             [] OTHER -> Null]
             /\ UNCHANGED types /\ drifted' = drifted \cap DOMAIN heap'
  BY DEF ReturnRefs
<1> DEFINE v == slots[x]
           h == Retain(heap, v)
           V == Refs(DOMAIN heap)
           w == slots[Saved(to)]
           r == <<slots["r0"], slots["r1"], w>>
           q == <<v>> \o <<>>
<1>1. Good(heap, slots, <<>>, drifted) /\ slots \in [Slots -> V] /\ v \in V /\ Null \in V /\ w \in V
  BY Ends DEF HeapInv, Good, Closed, Refs, Saved
<1>2. DOMAIN h = DOMAIN heap /\ Good(h, slots, q, drifted)
  BY <1>1, Take
<1>3. slots["r0"] \in V /\ slots["r1"] \in V /\ slots["s0"] \in V /\ slots["s1"] \in V
  BY <1>1, Ends
<1>4. r \in Seq(V)
  <2> HIDE DEF V, w
  <2> QED BY <1>1, <1>3
<1>5. /\ \A s \in Variables : slots'[s] = slots[s]
      /\ slots'["s0"] = Null /\ slots'["s1"] = Null
      /\ to = "r0" => slots'["r0"] = v /\ slots'["r1"] = slots["s1"] /\ w = slots["s0"]
      /\ to = "r1" => slots'["r1"] = v /\ slots'["r0"] = slots["s0"] /\ w = slots["s1"]
      /\ to = "r0" \/ to = "r1"
  <2>1. to = "r0" \/ to = "r1"
    BY DEF Registers
  <2>2. Saved("r0") = "s0" /\ Saved("r1") = "s1"
    BY DEF Saved
  <2>3. \A s \in Variables : s # "r0" /\ s # "r1" /\ s # "s0" /\ s # "s1"
    BY HeapAssumption
  <2>4. "r0" \in Registers /\ "r1" \in Registers /\ "s0" \notin Registers /\ "s1" \notin Registers
    BY DEF Registers
  <2>5. \A s \in Slots : slots'[s] = CASE s = to -> v
                                        [] s \in Variables -> slots[s]
                                        [] s \in Registers \ {to} -> slots[Saved(s)]
                                        [] OTHER -> Null
    OBVIOUS
  <2> HIDE DEF v
  <2>6. \A s \in Variables : slots'[s] = slots[s]
    <3> SUFFICES ASSUME NEW s \in Variables PROVE slots'[s] = slots[s]
      OBVIOUS
    <3>1. s \in Slots /\ s # to /\ s \notin Registers \ {to}
      BY <2>1, <2>3, Ends DEF Registers
    <3> QED BY <2>5, <3>1
  <2>7. slots'["s0"] = Null /\ slots'["s1"] = Null
    BY <2>1, <2>3, <2>4, <2>5, Ends
  <2>8. CASE to = "r0"
    <3>1. slots'["r0"] = v
      BY <2>3, <2>5, <2>8, Ends
    <3>2. slots'["r1"] = slots["s1"]
      BY <2>2, <2>3, <2>4, <2>5, <2>8, Ends
    <3>3. w = slots["s0"]
      BY <2>2, <2>8
    <3> QED BY <2>6, <2>7, <2>8, <3>1, <3>2, <3>3
  <2>9. CASE to = "r1"
    <3>1. slots'["r1"] = v
      BY <2>3, <2>5, <2>9, Ends
    <3>2. slots'["r0"] = slots["s0"]
      BY <2>2, <2>3, <2>4, <2>5, <2>9, Ends
    <3>3. w = slots["s1"]
      BY <2>2, <2>9
    <3> QED BY <2>6, <2>7, <2>9, <3>1, <3>2, <3>3
  <2> QED BY <2>1, <2>8, <2>9
<1>6. slots' \in [Slots -> V]
  <2>1. \A s \in Slots : slots'[s] \in V
    BY <1>1, <1>3, <1>5 DEF Slots, Registers
  <2> HIDE DEF V
  <2>2. slots' = [s \in Slots |-> slots'[s]]
    OBVIOUS
  <2> QED BY <2>1, <2>2
<1>7. \A o : SlotRefs(slots', o) + RefsIn(r, o) = SlotRefs(slots, o) + RefsIn(q, o)
  <2> SUFFICES ASSUME NEW o PROVE SlotRefs(slots', o) + RefsIn(r, o) = SlotRefs(slots, o) + RefsIn(q, o)
    OBVIOUS
  <2>1. VarRefs(slots', o) = VarRefs(slots, o)
    BY <1>5 DEF VarRefs
  <2>2. One(Null, o) = 0
    BY RefFacts DEF One
  <2> DEFINE a == VarRefs(slots, o)
             b == One(slots["r0"], o)
             c == One(slots["r1"], o)
             d == One(slots["s0"], o)
             e == One(slots["s1"], o)
             i == One(v, o)
  <2>3. a \in Nat /\ b \in Nat /\ c \in Nat /\ d \in Nat /\ e \in Nat /\ i \in Nat
    BY SlotRefsSplit, OneNat
  <2>4. SlotRefs(slots, o) = a + b + c + d + e
    BY SlotRefsSplit
  <2>5. RefsIn(q, o) = i
    BY RefsInOne, ConcatEmpty
  <2>6. RefsIn(r, o) = b + c + One(w, o)
    BY RefsInThree
  <2>7. /\ to = "r0" => SlotRefs(slots', o) = a + i + e + 0 + 0 /\ One(w, o) = d
        /\ to = "r1" => SlotRefs(slots', o) = a + d + i + 0 + 0 /\ One(w, o) = e
    BY <1>5, <2>1, <2>2, SlotRefsSplit
  <2> HIDE DEF a, b, c, d, e, i, q, r, v, w
  <2> QED BY <1>5, <2>3, <2>4, <2>5, <2>6, <2>7, SMTT(30)
<1> HIDE DEF h, q, r, v, w
<1>8. Good(h, slots', r, drifted)
  BY <1>2, <1>4, <1>6, <1>7, Move
<1>9. Good(heap', slots', releasing', drifted')
  BY <1>8, Narrow DEF h, r, v, w
<1> QED BY <1>5, <1>9 DEF HeapInv

LEMMA RegisterStep ==
    ASSUME HeapInv, releasing = <<>>, ussr_struct_register
    PROVE  HeapInv'
<1>1. UNCHANGED <<heap, slots, releasing, inCall, drifted>> /\ types' \subseteq DOMAIN Fields
  BY DEF ussr_struct_register, HeapInv
<1> QED BY <1>1 DEF HeapInv

(* A slot gets another value while references are on their way. *)
LEMMA Answer ==
    ASSUME NEW h, NEW f, NEW q, NEW d, Good(h, f, q, d), NEW s \in Slots, NEW v \in Refs(DOMAIN h),
           NEW r \in Seq(Refs(DOMAIN h)), \A o : RefsIn(r, o) + One(v, o) = RefsIn(q, o) + One(f[s], o)
    PROVE  Good(h, [f EXCEPT ![s] = v], r, d)
<1> DEFINE g == [f EXCEPT ![s] = v]
<1>1. f \in [Slots -> Refs(DOMAIN h)] /\ Closed(h, f, q)
  BY DEF Good, Closed
<1>2. g \in [Slots -> Refs(DOMAIN h)] /\ g[s] = v /\ \A x \in Slots \ {s} : g[x] = f[x]
  BY <1>1
<1> HIDE DEF g
<1>3. \A o : SlotRefs(g, o) + RefsIn(r, o) = SlotRefs(f, o) + RefsIn(q, o)
  <2> SUFFICES ASSUME NEW o PROVE SlotRefs(g, o) + RefsIn(r, o) = SlotRefs(f, o) + RefsIn(q, o)
    OBVIOUS
  <2> DEFINE a == SlotRefs(g, o)
             b == RefsIn(r, o)
             c == SlotRefs(f, o)
             e == RefsIn(q, o)
             i == One(v, o)
             j == One(f[s], o)
  <2>1. a \in Nat /\ b \in Nat /\ c \in Nat /\ e \in Nat /\ i \in Nat /\ j \in Nat
    BY <1>1, ClosedFacts, SlotsFinite, OccurFinite, OneNat
  <2>2. a + j = c + i
    BY <1>2, SlotRefsExcept
  <2>3. b + i = e + j
    OBVIOUS
  <2> HIDE DEF a, b, c, e, i, j
  <2>4. a + b = c + e
    BY <2>1, <2>2, <2>3
  <2> QED BY <2>4 DEF a, b, c, e
<1>4. Good(h, g, r, d)
  BY <1>2, <1>3, Move
<1> QED BY <1>4 DEF g
-----------------------------------------------------------------------------
(* Instructions on objects *)

LEMMA Pointed ==
    ASSUME HeapInv, NEW s \in Slots, NEW kind, Is(slots[s], kind)
    PROVE  /\ slots[s].v \in DOMAIN heap /\ heap[slots[s].v].k = kind
           /\ heap[slots[s].v] \in Objects(DOMAIN heap) /\ heap[slots[s].v].items \in Seq(Refs(DOMAIN heap))
<1>1. slots[s] \in Refs(DOMAIN heap) /\ IsRef(slots[s])
  BY DEF HeapInv, Good, Closed, Is
<1>2. slots[s].v \in DOMAIN heap
  BY <1>1, RefFacts
<1>3. heap[slots[s].v] \in Objects(DOMAIN heap)
  BY <1>2 DEF HeapInv, Good, Closed
<1> QED BY <1>2, <1>3 DEF Is, Objects, Shapes

LEMMA SlotTypes ==
    ASSUME HeapInv
    PROVE  /\ \A s \in Slots : slots[s] \in Refs(DOMAIN heap)
           /\ Null \in Refs(DOMAIN heap)
           /\ releasing = <<>> => Good(heap, slots, <<>>, drifted)
BY DEF HeapInv, Good, Closed, Refs

AsMany(s, t) == \A o : RefsIn(s, o) = RefsIn(t, o)

LEMMA Shaped ==
    ASSUME NEW D, NEW k \in Kinds, NEW ty \in TypeNames, NEW vs \in Seq(Refs(D)), k # "btree" \/ vs = <<>>
    PROVE  Object(k, ty, vs) \in Objects(D) /\ Object(k, ty, vs).items = vs /\ Object(k, ty, vs).rc = 1
<1> DEFINE x == Object(k, ty, vs)
<1>1. x \in Shapes(D) /\ x.k = k /\ x.items = vs /\ x.keys = <<>> /\ x.rc = 1
  BY DEF Object, Shapes
<1> HIDE DEF x
<1>2. x \in Objects(D)
  BY <1>1 DEF Objects
<1> QED BY <1>1, <1>2 DEF x

LEMMA ShapedEmpty ==
    ASSUME NEW D, NEW k \in Kinds, NEW ty \in TypeNames
    PROVE  Object(k, ty, <<>>) \in Objects(D) /\ Object(k, ty, <<>>).items = <<>>
<1> DEFINE u == <<>>
<1>1. u \in Seq(Refs(D)) /\ (k # "btree" \/ u = <<>>)
  OBVIOUS
<1> HIDE DEF u
<1>2. Object(k, ty, u) \in Objects(D) /\ Object(k, ty, u).items = u
  BY <1>1, Shaped
<1> QED BY <1>2 DEF u

(* An object made of references that are on their way. *)
LEMMA Make ==
    ASSUME NEW h, NEW f, NEW q, NEW d, Good(h, f, q, d), NEW p \in Ids \ DOMAIN h,
           NEW k \in Kinds, NEW ty \in TypeNames, NEW vs \in Seq(Refs(DOMAIN h)),
           k # "btree" \/ vs = <<>>, AsMany(vs, q)
    PROVE  /\ DOMAIN With(h, p, Object(k, ty, vs)) = DOMAIN h \cup {p}
           /\ Good(With(h, p, Object(k, ty, vs)), f, <<Ref(p)>>, d)
<1> DEFINE E == DOMAIN h \cup {p}
           x == Object(k, ty, vs)
           r == <<Ref(p)>>
<1>1. vs \in Seq(Refs(E))
  <2>1. Refs(DOMAIN h) \subseteq Refs(E)
    BY RefFacts
  <2> QED BY <2>1, SeqMonotonic
<1>2. x \in Objects(E) /\ x.items = vs /\ x.rc = 1
  BY <1>1, Shaped
<1> HIDE DEF x
<1>4. r \in Seq(Refs(E))
  BY DEF Refs
<1>5. \A o : RefsIn(r, o) = IF o = p THEN 1 ELSE 0
  BY RefsInOne, RefFacts DEF One
<1>6. \A o : RefsIn(q, o) \in Nat
  BY ClosedFacts DEF Good
<1> HIDE DEF r
<1>7. \A o : RefsIn(x.items, o) + RefsIn(r, o) = RefsIn(q, o) + (IF o = p THEN x.rc ELSE 0)
  BY <1>2, <1>5, <1>6 DEF AsMany
<1> HIDE DEF E
<1>8. DOMAIN With(h, p, x) = E /\ Good(With(h, p, x), f, r, d)
  BY <1>2, <1>4, <1>7, Create DEF E
<1> QED BY <1>8 DEF x, r, E

(* It goes to r0. *)
LEMMA MakeStep ==
    ASSUME HeapInv, releasing = <<>>, NEW h, DOMAIN h = DOMAIN heap, NEW q, Good(h, slots, q, drifted),
           NEW p \in Ids \ DOMAIN heap, NEW k \in Kinds, NEW ty \in TypeNames,
           NEW vs \in Seq(Refs(DOMAIN heap)), k # "btree" \/ vs = <<>>, AsMany(vs, q),
           Into(With(h, p, Object(k, ty, vs)), "r0", Ref(p)), Quiet
    PROVE  HeapInv'
<1> DEFINE g == With(h, p, Object(k, ty, vs))
           f == [slots EXCEPT !["r0"] = Ref(p)]
<1>1. heap' = g /\ slots' = f /\ releasing' = <<slots["r0"]>>
  BY DEF Into
<1>2. DOMAIN g = DOMAIN h \cup {p} /\ Good(g, slots, <<Ref(p)>>, drifted)
  <2>1. p \in Ids \ DOMAIN h /\ vs \in Seq(Refs(DOMAIN h)) /\ AsMany(vs, q)
    OBVIOUS
  <2> HIDE DEF g
  <2>2. /\ DOMAIN With(h, p, Object(k, ty, vs)) = DOMAIN h \cup {p}
        /\ Good(With(h, p, Object(k, ty, vs)), slots, <<Ref(p)>>, drifted)
    BY <2>1, Make
  <2> QED BY <2>2 DEF g
<1> HIDE DEF g
<1>3. Ref(p) \in Refs(DOMAIN g) /\ <<>> \in Seq(Refs(DOMAIN g))
  BY <1>2 DEF Refs
<1>4. Good(g, slots, <<Ref(p)>> \o <<>>, drifted)
  BY <1>2, ConcatEmpty
<1>5. Good(g, f, <<slots["r0"]>> \o <<>>, drifted)
  BY <1>3, <1>4, Ends, Swap
<1>6. Good(heap', slots', releasing', drifted)
  BY <1>1, <1>5, ConcatEmpty
<1>7. slots'["s0"] = slots["s0"] /\ slots'["s1"] = slots["s1"]
  <2>1. slots \in [Slots -> Refs(DOMAIN heap)]
    BY DEF HeapInv, Good, Closed
  <2> QED BY <1>1, <2>1, Ends
<1> QED BY <1>6, <1>7, Settled

LEMMA CreateStep ==
    ASSUME HeapInv, releasing = <<>>, ussr_vector_create \/ ussr_btree_create
    PROVE  HeapInv'
<1>1. Good(heap, slots, <<>>, drifted) /\ <<>> \in Seq(Refs(DOMAIN heap)) /\ AsMany(<<>>, <<>>)
  BY SlotTypes DEF AsMany
<1>2. CASE ussr_vector_create
  <2>1. PICK ty \in {"", "vector"}, p \in Ids \ DOMAIN heap :
            Into(With(heap, p, Object("vector", ty, <<>>)), "r0", Ref(p)) /\ Quiet
    BY <1>2 DEF ussr_vector_create
  <2>2. "vector" \in Kinds /\ ty \in TypeNames
    BY DEF Kinds, TypeNames
  <2> QED BY <1>1, <2>1, <2>2, MakeStep
<1>3. CASE ussr_btree_create
  <2>1. PICK p \in Ids \ DOMAIN heap : Into(With(heap, p, Object("btree", "", <<>>)), "r0", Ref(p)) /\ Quiet
    BY <1>3 DEF ussr_btree_create
  <2>2. "btree" \in Kinds /\ "" \in TypeNames
    BY DEF Kinds, TypeNames
  <2> QED BY <1>1, <2>1, <2>2, MakeStep
<1> QED BY <1>2, <1>3

LEMMA InstantiateStep ==
    ASSUME HeapInv, releasing = <<>>, ussr_struct_instantiate
    PROVE  HeapInv'
<1>1. PICK T \in types, p \in Ids \ DOMAIN heap : \E args \in [DOMAIN Fields[T] -> {slots["r0"], slots["r1"]}], n \in 0..Len(Fields[T]) :
        LET kept  == SubSeq(args, 1, n)
            built == With(RetainAll(heap, kept), p, Object("struct", T, kept))
        IN  /\ \/ Into(built, "r0", Ref(p))
               \/ heap' = built /\ releasing' = <<Ref(p)>> /\ UNCHANGED slots
            /\ Quiet
  BY DEF ussr_struct_instantiate
<1>2. PICK args \in [DOMAIN Fields[T] -> {slots["r0"], slots["r1"]}], n \in 0..Len(Fields[T]) :
        LET kept  == SubSeq(args, 1, n)
            built == With(RetainAll(heap, kept), p, Object("struct", T, kept))
        IN  /\ \/ Into(built, "r0", Ref(p))
               \/ heap' = built /\ releasing' = <<Ref(p)>> /\ UNCHANGED slots
            /\ Quiet
  BY <1>1
<1> DEFINE V == Refs(DOMAIN heap)
           vs == SubSeq(args, 1, n)
           h == RetainAll(heap, vs)
           q == vs \o <<>>
           g == With(h, p, Object("struct", T, vs))
<1>3. T \in DOMAIN Fields /\ Fields[T] \in Seq(STRING)
  BY HeapAssumption DEF HeapInv
<1>4. vs \in Seq(V)
  <2>1. slots["r0"] \in V /\ slots["r1"] \in V
    BY SlotTypes, Ends
  <2>2. DOMAIN Fields[T] = 1..Len(Fields[T]) /\ Len(Fields[T]) \in Nat
    BY <1>3
  <2>3. args \in [1..Len(Fields[T]) -> V]
    <3> HIDE DEF V
    <3> QED BY <2>1, <2>2
  <2>4. \A i \in 1..n : args[i] \in V
    BY <2>2, <2>3
  <2> HIDE DEF V
  <2> QED BY <2>2, <2>4, SubSeqProperties
<1>5. q = vs
  <2> HIDE DEF vs, V
  <2> QED BY <1>4, ConcatEmptySeq
<1> HIDE DEF vs
<1>6. DOMAIN h = DOMAIN heap /\ Good(h, slots, q, drifted)
  BY <1>4, SlotTypes, TakeAll
<1>7. "struct" \in Kinds /\ T \in TypeNames /\ "struct" # "btree"
  BY <1>3 DEF Kinds, TypeNames
<1>8. AsMany(vs, q)
  BY <1>5 DEF AsMany
<1> HIDE DEF h, q
<1>9. CASE Into(g, "r0", Ref(p)) /\ Quiet
  BY <1>4, <1>6, <1>7, <1>8, <1>9, MakeStep
<1>10. CASE heap' = g /\ releasing' = <<Ref(p)>> /\ UNCHANGED slots /\ Quiet
  <2>1. Good(g, slots, <<Ref(p)>>, drifted)
    BY <1>4, <1>6, <1>7, <1>8, Make
  <2> HIDE DEF g
  <2> QED BY <1>10, <2>1, Settled
<1> QED BY <1>2, <1>9, <1>10 DEF h, vs
(* An object and a vector it may hold are made at once. *)
LEMMA NamedStep ==
    ASSUME HeapInv, releasing = <<>>, ussr_struct_instantiate_named
    PROVE  HeapInv'
<1>1. PICK T \in types, twice \in BOOLEAN, complete \in BOOLEAN, o, p \in Ids \ DOMAIN heap :
        LET items == [f \in DOMAIN Fields[T] |-> IF f = 1 /\ ~twice THEN Ref(p) ELSE Null]
            built == With(With(heap, p, [Object("vector", "", <<>>) EXCEPT !.rc = 2]),
                          o, Object("struct", T, items))
        IN  /\ o # p /\ HasRoom(2) /\ Fields[T] # <<>> /\ Fields[T][1] = "any"
            /\ heap' = built
            /\ IF complete
               THEN slots' = [slots EXCEPT !["r0"] = Ref(o)] /\ releasing' = <<Ref(p), slots["r0"]>>
               ELSE releasing' = <<Ref(o), Ref(p)>> /\ UNCHANGED slots
            /\ drifted' = (IF twice THEN drifted \cup {p} ELSE drifted)
            /\ UNCHANGED <<types, inCall>>
  BY Zenon DEF ussr_struct_instantiate_named
<1> DEFINE vs == [f \in DOMAIN Fields[T] |-> IF f = 1 /\ ~twice THEN Ref(p) ELSE Null]
           x == [Object("vector", "", <<>>) EXCEPT !.rc = 2]
           g == With(heap, p, x)
           y == Object("struct", T, vs)
           h == With(g, o, y)
           D == DOMAIN heap
           E == D \cup {p}
           F == E \cup {o}
           q == <<Ref(p), Ref(p)>>
           r == <<Ref(o), Ref(p)>>
           t == <<Ref(o), Ref(p), Ref(p)>>
<1>2. /\ o # p /\ Fields[T] # <<>> /\ heap' = h
      /\ complete => slots' = [slots EXCEPT !["r0"] = Ref(o)] /\ releasing' = <<Ref(p), slots["r0"]>>
      /\ ~complete => releasing' = r /\ slots' = slots
      /\ drifted' = (IF twice THEN drifted \cup {p} ELSE drifted)
      /\ types' = types /\ inCall' = inCall
  BY <1>1
<1>3. Good(heap, slots, <<>>, drifted) /\ slots \in [Slots -> Refs(D)]
  BY SlotTypes DEF HeapInv, Good, Closed
<1>4. DOMAIN g = E /\ Good(g, slots, q, drifted)
  <2>1. <<>> \in Seq(Refs(E)) /\ "vector" \in Kinds /\ "" \in TypeNames /\ "vector" # "btree"
    BY DEF Kinds, TypeNames
  <2>2. x \in Objects(E) /\ x.items = <<>> /\ x.rc = 2
    <3> DEFINE z == Object("vector", "", <<>>)
    <3> HIDE DEF E
    <3>1. z \in Objects(E) /\ z.items = <<>>
      BY <2>1, ShapedEmpty
    <3>2. x = [z EXCEPT !.rc = 2] /\ 2 \in Int
      OBVIOUS
    <3> HIDE DEF z, x
    <3> QED BY <3>1, <3>2, Recounted, SMTT(30)
  <2>3. q \in Seq(Refs(E))
    BY DEF Refs
  <2>4. \A z : RefsIn(q, z) = IF z = p THEN 2 ELSE 0
    BY RefsInTwo, RefFacts DEF One
  <2> HIDE DEF x, q
  <2>5. \A z : RefsIn(x.items, z) + RefsIn(q, z) = RefsIn(<<>>, z) + (IF z = p THEN x.rc ELSE 0)
    BY <2>2, <2>4, RefsInEmpty
  <2> QED BY <1>3, <2>2, <2>3, <2>5, Create
<1>5. vs \in Seq(Refs(F)) /\ \A z : RefsIn(vs, z) = IF z = p /\ ~twice THEN 1 ELSE 0
  <2>1. T \in DOMAIN Fields /\ Fields[T] \in Seq(STRING)
    BY HeapAssumption DEF HeapInv
  <2>2. Len(Fields[T]) \in Nat /\ DOMAIN Fields[T] = 1..Len(Fields[T]) /\ 1 \in DOMAIN Fields[T]
    <3> DEFINE fs == Fields[T]
    <3>1. fs \in Seq(STRING) /\ fs # <<>>
      BY <1>2, <2>1
    <3> HIDE DEF fs
    <3>2. Len(fs) \in Nat /\ DOMAIN fs = 1..Len(fs) /\ Len(fs) # 0
      BY <3>1
    <3>3. 1 \in DOMAIN fs
      BY <3>2
    <3> QED BY <3>2, <3>3 DEF fs
  <2>3. Ref(p) \in Refs(F) /\ Null \in Refs(F)
    BY DEF Refs
  <2>4. vs \in Seq(Refs(F))
    <3> HIDE DEF F
    <3> QED BY <2>2, <2>3
  <2>5. \A z : Occur(vs, z) = IF z = p /\ ~twice THEN {1} ELSE {}
    BY <2>2, RefFacts DEF Occur
  <2> HIDE DEF vs
  <2>6. \A z : RefsIn(vs, z) = Cardinality(Occur(vs, z))
    BY <2>4, OccurFinite
  <2> QED BY <2>4, <2>5, <2>6, FS_EmptySet, FS_Singleton, ZenonT(90)
<1> HIDE DEF vs, g
<1>6. y \in Objects(F) /\ y.items = vs /\ y.rc = 1
  <2>1. "struct" \in Kinds /\ "struct" # "btree"
    BY DEF Kinds
  <2>2. T \in TypeNames
    BY DEF TypeNames, HeapInv
  <2> HIDE DEF F
  <2> QED BY <1>5, <2>1, <2>2, Shaped
<1> HIDE DEF y
<1>7. r \in Seq(Refs(F)) /\ \A z : RefsIn(r, z) = (IF z = o THEN 1 ELSE 0) + (IF z = p THEN 1 ELSE 0)
  BY RefsInTwo, RefFacts DEF One, Refs
<1>8. \A z : RefsIn(q, z) = IF z = p THEN 2 ELSE 0
  BY RefsInTwo, RefFacts DEF One
<1>9. o \in Ids \ DOMAIN g
  BY <1>2, <1>4
<1>10. DOMAIN h = F /\ Good(h, slots, r, drifted')
  <2>1. CASE ~twice
    <3> HIDE DEF q, r
    <3>1. \A z : RefsIn(y.items, z) + RefsIn(r, z) = RefsIn(q, z) + (IF z = o THEN y.rc ELSE 0)
      BY <1>2, <1>5, <1>6, <1>7, <1>8, <2>1
    <3>2. y \in Objects(DOMAIN g \cup {o}) /\ r \in Seq(Refs(DOMAIN g \cup {o}))
      BY <1>4, <1>6, <1>7
    <3> QED BY <1>2, <1>4, <1>9, <2>1, <3>1, <3>2, Create
  <2>2. CASE twice
    <3> DEFINE w == <<Ref(p)>> \o r
    <3>1. Ref(p) \in Refs(F)
      BY DEF Refs
    <3> HIDE DEF q, r, F
    <3>2. w \in Seq(Refs(F)) /\ \A z : RefsIn(w, z) = One(Ref(p), z) + RefsIn(r, z)
      BY <1>7, <3>1, RefsInCons
    <3>3. \A z : One(Ref(p), z) = IF z = p THEN 1 ELSE 0
      BY RefFacts DEF One
    <3> HIDE DEF w
    <3>4. \A z : RefsIn(y.items, z) + RefsIn(w, z) = RefsIn(q, z) + (IF z = o THEN y.rc ELSE 0)
      BY <1>2, <1>5, <1>6, <1>7, <1>8, <2>2, <3>2, <3>3
    <3>5. y \in Objects(DOMAIN g \cup {o}) /\ w \in Seq(Refs(DOMAIN g \cup {o}))
      BY <1>4, <1>6, <3>2 DEF F
    <3>6. DOMAIN h = F /\ Good(h, slots, w, drifted)
      BY <1>4, <1>9, <3>4, <3>5, Create DEF F
    <3> HIDE DEF h
    <3>7. drifted \subseteq drifted' /\ (IsRef(Ref(p)) => Ref(p).v \in drifted')
      BY <1>2, <2>2, RefFacts
    <3>8. Ref(p) \in Refs(DOMAIN h) /\ r \in Seq(Refs(DOMAIN h))
      BY <1>7, <3>1, <3>6
    <3>9. Good(h, slots, <<Ref(p)>> \o r, drifted)
      BY <3>6 DEF w
    <3>10. Good(h, slots, r, drifted')
      BY <3>7, <3>8, <3>9, Forget
    <3> QED BY <3>6, <3>10
  <2> QED BY <2>1, <2>2
<1> HIDE DEF h
<1>11. CASE complete
  <2> DEFINE a == slots["r0"]
             b == <<Ref(p), a>>
  <2>1. a \in Refs(F) /\ Ref(o) \in Refs(F) /\ Ref(p) \in Refs(F)
    <3>1. a \in Refs(D)
      BY <1>3, Ends
    <3> QED BY <3>1, RefFacts DEF Refs
  <2>2. b \in Seq(Refs(DOMAIN h))
    <3> HIDE DEF F, a
    <3> QED BY <1>10, <2>1
  <2>3. \A z : RefsIn(b, z) + One(Ref(o), z) = RefsIn(r, z) + One(a, z)
    <3> SUFFICES ASSUME NEW z PROVE RefsIn(b, z) + One(Ref(o), z) = RefsIn(r, z) + One(a, z)
      OBVIOUS
    <3>1. RefsIn(b, z) = One(Ref(p), z) + One(a, z) /\ RefsIn(r, z) = One(Ref(o), z) + One(Ref(p), z)
      BY RefsInTwo
    <3>2. One(Ref(p), z) \in Nat /\ One(a, z) \in Nat /\ One(Ref(o), z) \in Nat
      BY OneNat
    <3> HIDE DEF a, b, r
    <3> QED BY <3>1, <3>2
  <2> HIDE DEF b, r, F
  <2>4. Good(h, [slots EXCEPT !["r0"] = Ref(o)], b, drifted')
    BY <1>10, <2>1, <2>2, <2>3, Ends, Answer
  <2>5. slots'["s0"] = slots["s0"] /\ slots'["s1"] = slots["s1"]
    BY <1>2, <1>3, <1>11, Ends
  <2>6. Good(heap', slots', releasing', drifted')
    BY <1>2, <1>11, <2>4 DEF b
  <2> QED BY <1>2, <2>5, <2>6 DEF HeapInv
<1>12. CASE ~complete
  <2>1. Good(heap', slots', releasing', drifted')
    BY <1>2, <1>10, <1>12
  <2> QED BY <1>2, <1>12, <2>1 DEF HeapInv
<1> QED BY <1>11, <1>12

(* Where a key is in a B-tree, or would be. *)
LEMMA PlaceFacts ==
    ASSUME HeapInv, NEW o \in DOMAIN heap, heap[o].k = "btree", NEW key \in Int
    PROVE  /\ heap[o].keys \in Seq(Int) /\ heap[o].items \in Seq(Refs(DOMAIN heap))
           /\ Len(heap[o].keys) = Len(heap[o].items) /\ Place(o, key) \in 0..Len(heap[o].keys)
           /\ Holds(o, key) => Place(o, key) \in 0..(Len(heap[o].keys) - 1)
<1> DEFINE ks == heap[o].keys
           n == Len(ks)
           A == {i \in DOMAIN ks : ks[i] < key}
<1>1. heap[o] \in Objects(DOMAIN heap)
  BY DEF HeapInv, Good, Closed
<1>2. ks \in Seq(Int) /\ heap[o].items \in Seq(Refs(DOMAIN heap)) /\ n = Len(heap[o].items)
  BY <1>1 DEF Objects, Shapes
<1>3. Place(o, key) = Cardinality(A) /\ (Holds(o, key) => \E i \in DOMAIN ks : ks[i] = key)
  BY <1>2 DEF Place, Holds, ToSet
<1> HIDE DEF ks
<1>4. n \in Nat /\ DOMAIN ks = 1..n /\ IsFiniteSet(1..n) /\ Cardinality(1..n) = n
  <2>1. n \in Nat /\ DOMAIN ks = 1..n
    BY <1>2
  <2> HIDE DEF n
  <2>2. IsFiniteSet(1..n) /\ Cardinality(1..n) = IF 1 > n THEN 0 ELSE n - 1 + 1
    BY <2>1, FS_Interval
  <2> QED BY <2>1, <2>2
<1>5. A \subseteq 1..n
  BY <1>4
<1>6. (\E i \in DOMAIN ks : ks[i] = key) => A # 1..n
  BY <1>2, <1>4
<1> HIDE DEF A, n
<1>7. IsFiniteSet(A) /\ Cardinality(A) <= n /\ (Cardinality(A) = n => A = 1..n)
  BY <1>4, <1>5, FS_Subset, ZenonT(30)
<1>8. Cardinality(A) \in Nat
  BY <1>7, FS_CardinalityType
<1> QED BY <1>2, <1>3, <1>4, <1>6, <1>7, <1>8 DEF ks, n

LEMMA GetStep ==
    ASSUME HeapInv, releasing = <<>>, ussr_struct_get_field \/ ussr_vector_get \/ TreeGet
    PROVE  HeapInv'
<1> DEFINE o == slots["r0"].v
<1>1. "r0" \in Slots /\ "r0" \in Variables \cup Registers
  BY Ends DEF Registers
<1>2. CASE ussr_struct_get_field \/ ussr_vector_get
  <2>1. \E kind : Is(slots["r0"], kind)
    BY <1>2 DEF ussr_struct_get_field, ussr_vector_get
  <2>2. PICK i \in DOMAIN heap[o].items : CopyInto(heap, "r0", heap[o].items[i]) /\ Quiet
    BY <1>2 DEF ussr_struct_get_field, ussr_vector_get
  <2>3. heap[o].items \in Seq(Refs(DOMAIN heap))
    BY <1>1, <2>1, Pointed
  <2>4. heap[o].items[i] \in Refs(DOMAIN heap)
    BY <2>3, ElementOfSeq
  <2> QED BY <1>1, <2>2, <2>4, CopyIntoStep
<1>3. CASE TreeGet
  <2>1. PICK key \in TreeKeys :
            /\ Is(slots["r0"], "btree")
            /\ CopyInto(heap, "r0", IF Holds(o, key) THEN heap[o].items[Place(o, key) + 1] ELSE Null)
            /\ Quiet
    BY <1>3 DEF TreeGet
  <2>2. o \in DOMAIN heap /\ heap[o].k = "btree" /\ key \in Int
    BY <1>1, <2>1, Pointed, HeapAssumption
  <2> DEFINE v == IF Holds(o, key) THEN heap[o].items[Place(o, key) + 1] ELSE Null
  <2>3. v \in Refs(DOMAIN heap)
    <3>1. CASE Holds(o, key)
      <4> DEFINE vs == heap[o].items
                 i == Place(o, key)
      <4> HIDE DEF o
      <4>1. vs \in Seq(Refs(DOMAIN heap)) /\ i \in 0..(Len(vs) - 1)
        BY <2>2, <3>1, PlaceFacts
      <4> HIDE DEF vs, i
      <4>2. vs[i + 1] \in Refs(DOMAIN heap)
        BY <4>1
      <4> QED BY <3>1, <4>2 DEF vs, i
    <3>2. CASE ~Holds(o, key)
      BY <3>2, SlotTypes
    <3> QED BY <3>1, <3>2
  <2> HIDE DEF v
  <2>4. CopyInto(heap, "r0", v)
    BY <2>1 DEF v
  <2> QED BY <1>1, <2>1, <2>3, <2>4, CopyIntoStep
<1> QED BY <1>2, <1>3

(* An item that was replaced is on its way and null is the answer. *)
LEMMA AnswerNull ==
    ASSUME HeapInv, NEW h, NEW d, DOMAIN h = DOMAIN heap, NEW w \in Refs(DOMAIN heap), Good(h, slots, <<w>>, d)
    PROVE  Good(h, [slots EXCEPT !["r0"] = Null], <<w, slots["r0"]>>, d)
<1> DEFINE V == Refs(DOMAIN h)
           a == slots["r0"]
           r == <<w, a>>
           q == <<w>>
<1>1. a \in V /\ w \in V /\ Null \in V
  BY SlotTypes, Ends
<1>2. r \in Seq(V)
  <2> HIDE DEF V, a
  <2> QED BY <1>1
<1>3. \A o : RefsIn(r, o) + One(Null, o) = RefsIn(q, o) + One(a, o)
  <2> SUFFICES ASSUME NEW o PROVE RefsIn(r, o) + One(Null, o) = RefsIn(q, o) + One(a, o)
    OBVIOUS
  <2>1. RefsIn(r, o) = One(w, o) + One(a, o) /\ RefsIn(q, o) = One(w, o)
    BY RefsInOne, RefsInTwo
  <2>2. One(w, o) \in Nat /\ One(a, o) \in Nat /\ One(Null, o) = 0
    BY OneNat, RefFacts DEF One
  <2> HIDE DEF r, q, a
  <2> QED BY <2>1, <2>2
<1> HIDE DEF r, q, a
<1>4. Good(h, [slots EXCEPT !["r0"] = Null], r, d)
  BY <1>1, <1>2, <1>3, Ends, Answer DEF q, a
<1> QED BY <1>4 DEF r, a

LEMMA NullAnswered ==
    ASSUME HeapInv, slots' = [slots EXCEPT !["r0"] = Null]
    PROVE  slots'["s0"] = slots["s0"] /\ slots'["s1"] = slots["s1"]
<1>1. slots \in [Slots -> Refs(DOMAIN heap)]
  BY DEF HeapInv, Good, Closed
<1> QED BY <1>1, Ends

LEMMA SetStep ==
    ASSUME HeapInv, releasing = <<>>, ussr_vector_set \/ ussr_struct_try_set_field
    PROVE  HeapInv'
<1> DEFINE o == slots["r0"].v
           v == slots["r1"]
<1>1. v \in Refs(DOMAIN heap) /\ "r0" \in Slots /\ Good(heap, slots, <<>>, drifted)
  BY SlotTypes, Ends
<1>2. CASE ussr_vector_set
  <2>1. PICK i \in DOMAIN heap[o].items :
            heap' = Replaced(heap, o, i, v) /\ releasing' = <<heap[o].items[i]>> /\ UNCHANGED slots /\ Quiet
    BY <1>2 DEF ussr_vector_set
  <2>2. o \in DOMAIN heap
    BY <1>1, <1>2, Pointed DEF ussr_vector_set
  <2>3. Good(Replaced(heap, o, i, v), slots, <<heap[o].items[i]>>, drifted)
    BY <1>1, <2>2, ReplacedStep
  <2> QED BY <2>1, <2>3, Settled
<1>3. CASE ussr_struct_try_set_field
  <2>1. PICK i \in DOMAIN heap[o].items :
            /\ heap' = Replaced(heap, o, i, v)
            /\ slots' = [slots EXCEPT !["r0"] = Null]
            /\ releasing' = <<heap[o].items[i], slots["r0"]>>
    BY <1>3 DEF ussr_struct_try_set_field
  <2>2. o \in DOMAIN heap /\ Quiet
    BY <1>1, <1>3, Pointed DEF ussr_struct_try_set_field
  <2> DEFINE h == Replaced(heap, o, i, v)
             w == heap[o].items[i]
  <2>3. DOMAIN h = DOMAIN heap /\ w \in Refs(DOMAIN heap) /\ Good(h, slots, <<w>>, drifted)
    BY <1>1, <2>2, ReplacedStep
  <2> HIDE DEF h, w
  <2>4. Good(h, [slots EXCEPT !["r0"] = Null], <<w, slots["r0"]>>, drifted)
    BY <2>3, AnswerNull
  <2> QED BY <2>1, <2>2, <2>4, NullAnswered, Settled DEF h, w
<1> QED BY <1>2, <1>3

(* The evaluated copy stays counted, and the object that it refers to is    *)
(* known to have drifted.                                                  *)
LEMMA SetfStep ==
    ASSUME HeapInv, releasing = <<>>, oop_do_setf
    PROVE  HeapInv'
<1> DEFINE o == slots["r0"].v
           v == slots["r1"]
           h == Retain(heap, v)
           e == drifted \cup Held({v})
<1>1. v \in Refs(DOMAIN heap) /\ "r0" \in Slots /\ Good(heap, slots, <<>>, drifted)
  BY SlotTypes, Ends
<1>2. o \in DOMAIN heap
  BY <1>1, Pointed DEF oop_do_setf
<1>3. /\ DOMAIN h = DOMAIN heap /\ \A p \in DOMAIN heap : h[p].items = heap[p].items
      /\ Good(h, slots, <<v>> \o <<>>, drifted)
  BY <1>1, Take
<1>4. PICK i \in DOMAIN heap[o].items : heap' = Replaced(h, o, i, v) /\ releasing' = <<heap[o].items[i]>>
  BY DEF oop_do_setf
<1>5. drifted' = e /\ slots' = slots /\ types' = types /\ inCall' = inCall
  BY DEF oop_do_setf
<1>6. Good(h, slots, <<>>, e)
  <2>1. IsRef(v) => v.v \in e
    BY DEF Held
  <2>2. drifted \subseteq e /\ <<>> \in Seq(Refs(DOMAIN h)) /\ v \in Refs(DOMAIN h)
    BY <1>1, <1>3
  <2> HIDE DEF h, e, v
  <2> QED BY <1>3, <2>1, <2>2, Forget
<1> HIDE DEF h, e, v, o
<1>7. Good(Replaced(h, o, i, v), slots, <<h[o].items[i]>>, e)
  BY <1>1, <1>2, <1>3, <1>6, ReplacedStep
<1>8. Good(heap', slots', releasing', drifted')
  BY <1>2, <1>3, <1>4, <1>5, <1>7
<1> QED BY <1>5, <1>8 DEF HeapInv

(* An item at the end. *)
LEMMA RefsInAppend ==
    ASSUME NEW V, NEW q \in Seq(V), NEW v \in V, NEW o
    PROVE  Append(q, v) \in Seq(V) /\ RefsIn(Append(q, v), o) = RefsIn(q, o) + One(v, o)
<1> DEFINE t == <<v>>
<1>1. t \in Seq(V) /\ Append(q, v) = q \o t /\ RefsIn(t, o) = One(v, o)
  BY AppendIsConcat, RefsInOne
<1>2. Append(q, v) \in Seq(V)
  OBVIOUS
<1> HIDE DEF t
<1>3. RefsIn(q \o t, o) = RefsIn(q, o) + RefsIn(t, o)
  BY <1>1, RefsInConcat
<1> QED BY <1>1, <1>2, <1>3

LEMMA RefsInFront ==
    ASSUME NEW V, NEW q \in Seq(V), q # <<>>, NEW o
    PROVE  /\ Front(q) \in Seq(V) /\ Last(q) \in V
           /\ RefsIn(q, o) = RefsIn(Front(q), o) + One(Last(q), o)
<1> DEFINE n == Len(q) - 1
           s == SubSeq(q, 1, n)
           t == SubSeq(q, n + 1, Len(q))
           u == <<Last(q)>>
<1>1. n \in 0..Len(q) /\ Len(q) \in Nat /\ Last(q) \in V /\ Last(q) = q[n + 1] /\ n + 1 = Len(q)
  BY DEF Last
<1>2. s \in Seq(V) /\ t \in Seq(V) /\ s \o t = q /\ Front(q) = s /\ Len(t) = 1
  <2>1. Front(q) = s
    BY DEF Front
  <2>2. Len(q) - n = 1
    BY <1>1
  <2> HIDE DEF n
  <2> QED BY <1>1, <2>1, <2>2, CutInTwo
<1>3. t[1] = q[n + 1]
  BY <1>1
<1>4. t = u
  <2>1. u \in Seq(V) /\ Len(u) = 1 /\ u[1] = Last(q)
    BY <1>1
  <2> HIDE DEF t, u, n
  <2>2. \A i \in 1..Len(t) : t[i] = u[i]
    BY <1>1, <1>2, <1>3, <2>1
  <2> QED BY <1>2, <2>1, <2>2, SeqEqual
<1>5. RefsIn(u, o) = One(Last(q), o)
  BY RefsInOne
<1> HIDE DEF s, t, u
<1>6. RefsIn(s \o t, o) = RefsIn(s, o) + RefsIn(t, o)
  BY <1>2, RefsInConcat, ZenonT(90)
<1> QED BY <1>1, <1>2, <1>4, <1>5, <1>6

(* A vector grows by the copy that was counted. *)
LEMMA PushItemStep ==
    ASSUME HeapInv, releasing = <<>>, ussr_vector_push
    PROVE  HeapInv'
<1> DEFINE D == DOMAIN heap
           o == slots["r0"].v
           v == slots["r1"]
           g == Retain(heap, v)
           q == <<v>> \o <<>>
           vs == heap[o].items
           ws == Append(vs, v)
           x == [g[o] EXCEPT !.items = ws]
           h == [g EXCEPT ![o] = x]
           f == [slots EXCEPT !["r0"] = Null]
           r == <<slots["r0"]>>
<1>1. v \in Refs(D) /\ "r0" \in Slots /\ Good(heap, slots, <<>>, drifted) /\ slots["r0"] \in Refs(D) /\ Null \in Refs(D)
  BY SlotTypes, Ends
<1>2. o \in D /\ heap[o].k = "vector" /\ vs \in Seq(Refs(D))
  BY <1>1, Pointed DEF ussr_vector_push
<1>3. DOMAIN g = D /\ (\A p \in D : g[p].items = heap[p].items) /\ Good(g, slots, q, drifted)
  BY <1>1, Take
<1>4. g[o] \in Objects(D) /\ g[o].items = vs /\ g[o].k = "vector"
  BY <1>2, <1>3 DEF Good, Closed, Retain
<1>5. Into([g EXCEPT ![o].items = Append(@, v)], "r0", Null) /\ Quiet
  BY DEF ussr_vector_push
<1>6. heap' = h /\ slots' = f /\ releasing' = r
  BY <1>4, <1>5 DEF Into
<1>7. ws \in Seq(Refs(D)) /\ \A p : RefsIn(ws, p) = RefsIn(vs, p) + One(v, p)
  BY <1>1, <1>2, RefsInAppend
<1> HIDE DEF g, ws, D
<1>8. x \in Objects(D) /\ x.items = ws /\ x.rc = g[o].rc
  <2>1. g[o].k # "btree"
    BY <1>4
  <2> QED BY <1>4, <1>7, <2>1, Refilled
<1> HIDE DEF x
<1>9. SameRefs(x.items, <<>>, g[o].items, q)
  <2>1. \A p : RefsIn(q, p) = One(v, p) /\ RefsIn(<<>>, p) = 0 /\ RefsIn(vs, p) \in Nat /\ One(v, p) \in Nat
    BY <1>2, RefsInOne, RefsInEmpty, ConcatEmpty, OccurFinite, OneNat
  <2> HIDE DEF q, vs
  <2> QED BY <1>4, <1>7, <1>8, <2>1 DEF SameRefs
<1>10. DOMAIN h = D /\ Good(h, slots, <<>>, drifted)
  <2>1. <<>> \in Seq(Refs(D)) /\ o \in DOMAIN g
    BY <1>2, <1>3
  <2> HIDE DEF q, vs, o
  <2>2. Good(h, slots, <<>>, drifted)
    BY <1>3, <1>8, <1>9, <2>1, Refill
  <2> QED BY <1>3, <2>2
<1> HIDE DEF h
<1>11. Good(h, f, r, drifted)
  <2>1. r \in Seq(Refs(D))
    BY <1>1
  <2>2. \A p : RefsIn(r, p) + One(Null, p) = RefsIn(<<>>, p) + One(slots["r0"], p)
    <3> SUFFICES ASSUME NEW p PROVE RefsIn(r, p) + One(Null, p) = RefsIn(<<>>, p) + One(slots["r0"], p)
      OBVIOUS
    <3>1. RefsIn(r, p) = One(slots["r0"], p) /\ RefsIn(<<>>, p) = 0
      BY RefsInOne, RefsInEmpty
    <3>2. One(Null, p) = 0 /\ One(slots["r0"], p) \in Nat
      BY OneNat, RefFacts DEF One
    <3> HIDE DEF r
    <3> QED BY <3>1, <3>2
  <2> HIDE DEF r
  <2> QED BY <1>1, <1>10, <2>1, <2>2, Answer
<1>12. Good(heap', slots', releasing', drifted)
  BY <1>6, <1>11
<1> HIDE DEF r
<1> QED BY <1>5, <1>6, <1>12, NullAnswered, Settled

(* The last reference of a vector moves to the answer. *)
LEMMA PopStep ==
    ASSUME HeapInv, releasing = <<>>, ussr_vector_pop
    PROVE  HeapInv'
<1> DEFINE D == DOMAIN heap
           o == slots["r0"].v
           vs == heap[o].items
           ws == Front(vs)
           v == Last(vs)
           x == [heap[o] EXCEPT !.items = ws]
           h == [heap EXCEPT ![o] = x]
           f == [slots EXCEPT !["r0"] = v]
           q == <<v>>
<1>1. "r0" \in Slots /\ Good(heap, slots, <<>>, drifted) /\ slots \in [Slots -> Refs(D)]
  BY SlotTypes, Ends DEF HeapInv, Good, Closed
<1>2. o \in D /\ heap[o].k = "vector" /\ vs \in Seq(Refs(D)) /\ heap[o] \in Objects(D) /\ vs # <<>>
  BY <1>1, Pointed DEF ussr_vector_pop
<1>3. Into([heap EXCEPT ![o].items = Front(@)], "r0", v) /\ Quiet
  BY DEF ussr_vector_pop
<1>4. heap' = h /\ slots' = f /\ releasing' = <<slots["r0"]>>
  BY <1>3 DEF Into
<1> HIDE DEF D, vs
<1>5. ws \in Seq(Refs(D)) /\ v \in Refs(D) /\ \A p : RefsIn(vs, p) = RefsIn(ws, p) + One(v, p)
  BY <1>2, RefsInFront
<1> HIDE DEF ws, v
<1>6. x \in Objects(D) /\ x.items = ws /\ x.rc = heap[o].rc
  <2>1. heap[o].k # "btree"
    BY <1>2
  <2> QED BY <1>2, <1>5, <2>1, Refilled
<1> HIDE DEF x
<1>7. q \in Seq(Refs(D)) /\ SameRefs(x.items, q, heap[o].items, <<>>)
  <2>1. \A p : RefsIn(q, p) = One(v, p) /\ RefsIn(<<>>, p) = 0 /\ RefsIn(ws, p) \in Nat /\ One(v, p) \in Nat
    BY <1>5, RefsInOne, RefsInEmpty, OccurFinite, OneNat
  <2>2. q \in Seq(Refs(D))
    BY <1>5
  <2> HIDE DEF q
  <2> QED BY <1>5, <1>6, <2>1, <2>2 DEF SameRefs, vs
<1>8. DOMAIN h = D /\ Good(h, slots, q, drifted)
  <2> HIDE DEF q, o
  <2>1. Good(h, slots, q, drifted)
    BY <1>1, <1>2, <1>6, <1>7, Refill DEF D
  <2> QED BY <2>1 DEF D
<1> HIDE DEF h
<1>9. Good(h, f, <<slots["r0"]>> \o <<>>, drifted)
  <2>1. <<>> \in Seq(Refs(DOMAIN h)) /\ v \in Refs(DOMAIN h) /\ Good(h, slots, <<v>> \o <<>>, drifted)
    BY <1>5, <1>8, ConcatEmpty
  <2> QED BY <1>1, <2>1, Swap
<1>10. Good(heap', slots', releasing', drifted)
  BY <1>4, <1>9, ConcatEmpty
<1>11. slots'["s0"] = slots["s0"] /\ slots'["s1"] = slots["s1"]
  BY <1>1, <1>4, Ends
<1> QED BY <1>3, <1>10, <1>11, Settled

(* A key that is there gets another value; one that is not comes in with its *)
(* value, and what was on its way is in the tree.                            *)
LEMMA TreePutStep ==
    ASSUME HeapInv, releasing = <<>>, TreePut
    PROVE  HeapInv'
<1> DEFINE D == DOMAIN heap
           o == slots["r0"].v
           v == slots["r1"]
           ks == heap[o].keys
           vs == heap[o].items
<1>1. v \in Refs(D) /\ "r0" \in Slots /\ Good(heap, slots, <<>>, drifted)
  BY SlotTypes, Ends
<1>2. PICK key \in TreeKeys : LET i == Place(o, key) + 1 IN
          /\ Is(slots["r0"], "btree")
          /\ IF Holds(o, key)
             THEN heap' = Replaced(heap, o, i, v) /\ releasing' = <<vs[i]>>
             ELSE /\ heap' = [Retain(heap, v) EXCEPT ![o].keys = InsertAt(@, i, key), ![o].items = InsertAt(@, i, v)]
                  /\ UNCHANGED releasing
          /\ UNCHANGED slots /\ Quiet
  BY DEF TreePut
<1> DEFINE n == Place(o, key)
           i == n + 1
<1>3. o \in D /\ heap[o].k = "btree" /\ key \in Int
  BY <1>1, <1>2, Pointed, HeapAssumption
<1> HIDE DEF D
<1>4. /\ ks \in Seq(Int) /\ vs \in Seq(Refs(D)) /\ Len(ks) = Len(vs) /\ n \in 0..Len(vs)
      /\ Holds(o, key) => n \in 0..(Len(vs) - 1)
  <2> HIDE DEF o
  <2> QED BY <1>3, PlaceFacts DEF D
<1>5. CASE Holds(o, key)
  <2> HIDE DEF n, o, v
  <2>1. i \in DOMAIN vs
    BY <1>4, <1>5
  <2>2. heap' = Replaced(heap, o, i, v) /\ releasing' = <<vs[i]>> /\ UNCHANGED slots /\ Quiet
    BY <1>2, <1>5 DEF n, o, v
  <2>3. Good(Replaced(heap, o, i, v), slots, <<vs[i]>>, drifted)
    BY <1>1, <1>3, <2>1, ReplacedStep DEF D
  <2> QED BY <2>2, <2>3, Settled
<1>6. CASE ~Holds(o, key)
  <2> DEFINE g == Retain(heap, v)
             q == <<v>> \o <<>>
             ls == InsertAt(ks, i, key)
             ws == InsertAt(vs, i, v)
             x == [g[o] EXCEPT !.keys = ls, !.items = ws]
             h == [g EXCEPT ![o] = x]
  <2>1. /\ DOMAIN g = D /\ \A p \in D : g[p].items = heap[p].items /\ g[p].keys = heap[p].keys
        /\ Good(g, slots, q, drifted)
    BY <1>1, Take DEF D
  <2>2. g[o] \in Objects(D) /\ g[o].items = vs /\ g[o].keys = ks
    BY <1>3, <2>1 DEF Good, Closed
  <2>3. heap' = [g EXCEPT ![o].keys = InsertAt(@, i, key), ![o].items = InsertAt(@, i, v)]
    BY <1>2, <1>6
  <2> HIDE DEF g
  <2>4. heap' = h
    BY <1>3, <2>1, <2>2, <2>3 DEF Objects, Shapes
  <2> HIDE DEF n, o, v, ks, vs
  <2>5. ls \in Seq(Int) /\ Len(ls) = Len(ks) + 1
    <3>1. n \in 0..Len(ks) /\ key \in Int /\ ks \in Seq(Int)
      BY <1>3, <1>4
    <3> QED BY <3>1, RefsInInsert, ZenonT(30)
  <2>6. ws \in Seq(Refs(D)) /\ Len(ws) = Len(vs) + 1 /\ \A p : RefsIn(ws, p) = RefsIn(vs, p) + One(v, p)
    BY <1>1, <1>4, RefsInInsert
  <2> HIDE DEF ls, ws
  <2>7. x \in Objects(D) /\ x.items = ws /\ x.rc = g[o].rc
    <3>1. Len(ls) = Len(ws)
      BY <1>4, <2>5, <2>6
    <3> DEFINE y == g[o]
    <3>2. y \in Objects(D) /\ ls \in Seq(Int) /\ ws \in Seq(Refs(D)) /\ Len(ls) = Len(ws)
      BY <2>2, <2>5, <2>6, <3>1
    <3>3. x \in Shapes(D) /\ x.items = ws /\ x.keys = ls /\ x.rc = y.rc
      BY <3>2 DEF Shapes, Objects
    <3> HIDE DEF x, y
    <3>4. x \in Objects(D)
      BY <3>2, <3>3 DEF Objects
    <3> QED BY <3>3, <3>4 DEF y
  <2> HIDE DEF x
  <2>8. SameRefs(x.items, <<>>, g[o].items, q)
    <3>1. \A p : RefsIn(q, p) = One(v, p) /\ RefsIn(<<>>, p) = 0 /\ RefsIn(vs, p) \in Nat /\ One(v, p) \in Nat
      BY <1>4, RefsInOne, RefsInEmpty, ConcatEmpty, OccurFinite, OneNat
    <3> HIDE DEF q
    <3> QED BY <2>2, <2>6, <2>7, <3>1 DEF SameRefs
  <2>9. Good(h, slots, <<>>, drifted)
    <3>1. <<>> \in Seq(Refs(D)) /\ o \in DOMAIN g
      BY <1>3, <2>1
    <3> HIDE DEF q
    <3> QED BY <2>1, <2>7, <2>8, <3>1, Refill
  <2>10. UNCHANGED slots /\ UNCHANGED releasing /\ Quiet
    BY <1>2, <1>6 DEF n, o, v
  <2> HIDE DEF h
  <2> QED BY <2>4, <2>9, <2>10, Settled
<1> QED BY <1>5, <1>6

(* Key and value go, and the value is on its way. *)
LEMMA TreeDeleteStep ==
    ASSUME HeapInv, releasing = <<>>, TreeDelete
    PROVE  HeapInv'
<1> DEFINE D == DOMAIN heap
           o == slots["r0"].v
           ks == heap[o].keys
           vs == heap[o].items
<1>1. "r0" \in Slots /\ Good(heap, slots, <<>>, drifted)
  BY SlotTypes, Ends
<1>2. PICK key \in TreeKeys : LET i == Place(o, key) + 1 IN
          /\ Is(slots["r0"], "btree") /\ Holds(o, key)
          /\ heap' = [heap EXCEPT ![o].keys = RemoveAt(@, i), ![o].items = RemoveAt(@, i)]
          /\ slots' = [slots EXCEPT !["r0"] = Null]
          /\ releasing' = <<vs[i], slots["r0"]>>
          /\ Quiet
  BY DEF TreeDelete
<1> DEFINE n == Place(o, key)
           i == n + 1
           ls == RemoveAt(ks, i)
           ws == RemoveAt(vs, i)
           v == vs[i]
           q == <<v>>
           x == [heap[o] EXCEPT !.keys = ls, !.items = ws]
           h == [heap EXCEPT ![o] = x]
<1>3. o \in D /\ heap[o].k = "btree" /\ key \in Int /\ heap[o] \in Objects(D)
  BY <1>1, <1>2, Pointed, HeapAssumption
<1> HIDE DEF D
<1>4. ks \in Seq(Int) /\ vs \in Seq(Refs(D)) /\ Len(ks) = Len(vs) /\ n \in 0..(Len(vs) - 1)
  <2>1. Holds(o, key)
    BY <1>2
  <2> HIDE DEF o
  <2> QED BY <1>3, <2>1, PlaceFacts DEF D
<1>5. heap' = h
  BY <1>2, <1>3 DEF Objects, Shapes
<1>6. slots' = [slots EXCEPT !["r0"] = Null] /\ releasing' = <<v, slots["r0"]>> /\ Quiet
  BY <1>2
<1> HIDE DEF n, o, ks, vs
<1>7. ls \in Seq(Int) /\ Len(ls) = Len(ks) - 1
  BY <1>4, RefsInRemove
<1>8. /\ ws \in Seq(Refs(D)) /\ Len(ws) = Len(vs) - 1 /\ v \in Refs(D)
      /\ \A p : RefsIn(vs, p) = RefsIn(ws, p) + One(v, p)
  BY <1>4, RefsInRemove
<1> HIDE DEF ls, ws, v
<1>9. x \in Objects(D) /\ x.items = ws /\ x.rc = heap[o].rc
  <2>1. Len(ls) = Len(ws)
    BY <1>4, <1>7, <1>8
  <2> DEFINE y == heap[o]
  <2>2. y \in Objects(D) /\ ls \in Seq(Int) /\ ws \in Seq(Refs(D)) /\ Len(ls) = Len(ws)
    BY <1>3, <1>7, <1>8, <2>1
  <2>3. x \in Shapes(D) /\ x.items = ws /\ x.keys = ls /\ x.rc = y.rc
    BY <2>2 DEF Shapes, Objects
  <2> HIDE DEF x, y
  <2>4. x \in Objects(D)
    BY <2>2, <2>3 DEF Objects
  <2> QED BY <2>3, <2>4 DEF y
<1> HIDE DEF x
<1>10. q \in Seq(Refs(D)) /\ SameRefs(x.items, q, heap[o].items, <<>>)
  <2>1. \A p : RefsIn(q, p) = One(v, p) /\ RefsIn(<<>>, p) = 0 /\ RefsIn(ws, p) \in Nat /\ One(v, p) \in Nat
    BY <1>8, RefsInOne, RefsInEmpty, OccurFinite, OneNat
  <2>2. q \in Seq(Refs(D))
    BY <1>8
  <2> HIDE DEF q
  <2> QED BY <1>8, <1>9, <2>1, <2>2 DEF SameRefs, vs
<1>11. DOMAIN h = D /\ Good(h, slots, q, drifted)
  <2> HIDE DEF q
  <2>1. Good(h, slots, q, drifted)
    BY <1>1, <1>3, <1>9, <1>10, Refill DEF D
  <2> QED BY <2>1 DEF D
<1> HIDE DEF h
<1>12. Good(h, [slots EXCEPT !["r0"] = Null], <<v, slots["r0"]>>, drifted)
  BY <1>8, <1>11, AnswerNull DEF D
<1> QED BY <1>5, <1>6, <1>12, NullAnswered, Settled
-----------------------------------------------------------------------------
(* The specification *)

LEMMA HeapInitially ==
    ASSUME HeapInit
    PROVE  HeapInv
<1>1. DOMAIN heap = {} /\ heap = [o \in {} |-> heap[o]]
  BY DEF HeapInit
<1>2. heap \in [DOMAIN heap -> Objects(DOMAIN heap)] /\ DOMAIN heap \subseteq Ids
  BY <1>1
<1>3. Null \in Refs(DOMAIN heap)
  BY DEF Refs
<1>4. slots = [s \in Slots |-> Null] /\ releasing = <<>>
  BY DEF HeapInit
<1>5. slots \in [Slots -> Refs(DOMAIN heap)] /\ releasing \in Seq(Refs(DOMAIN heap))
  BY <1>3, <1>4
<1>6. slots["s0"] = Null /\ slots["s1"] = Null
  BY <1>4, Ends
<1>7. types \subseteq DOMAIN Fields /\ inCall \in BOOLEAN
  BY DEF HeapInit
<1> QED BY <1>1, <1>2, <1>5, <1>6, <1>7 DEF HeapInv, Good, Closed

LEMMA InstructionStep ==
    ASSUME HeapInv, releasing = <<>>, Instruction
    PROVE  HeapInv'
<1>1. CASE LoadVarRef \/ LoadConstRef \/ StoreVarRef
  BY <1>1, LoadStep
<1>2. CASE PushFrameRefs
  BY <1>2, PushStep
<1>3. CASE ReturnRefs
  BY <1>3, ReturnStep
<1>4. CASE ussr_struct_register
  BY <1>4, RegisterStep
<1>5. CASE ussr_struct_instantiate
  BY <1>5, InstantiateStep
<1>6. CASE ussr_struct_instantiate_named
  BY <1>6, NamedStep
<1>7. CASE ussr_struct_get_field \/ ussr_vector_get \/ TreeGet
  BY <1>7, GetStep
<1>8. CASE ussr_struct_try_set_field \/ ussr_vector_set
  BY <1>8, SetStep
<1>9. CASE oop_do_setf
  BY <1>9, SetfStep
<1>10. CASE ussr_vector_create \/ ussr_btree_create
  BY <1>10, CreateStep
<1>11. CASE ussr_vector_push
  BY <1>11, PushItemStep
<1>12. CASE ussr_vector_pop
  BY <1>12, PopStep
<1>13. CASE TreePut
  BY <1>13, TreePutStep
<1>14. CASE TreeDelete
  BY <1>14, TreeDeleteStep
<1> QED BY <1>1, <1>2, <1>3, <1>4, <1>5, <1>6, <1>7, <1>8, <1>9, <1>10, <1>11, <1>12, <1>13, <1>14 DEF Instruction

LEMMA HeapStep ==
    ASSUME HeapInv, [HeapNext]_heapVars
    PROVE  HeapInv'
<1>1. CASE UNCHANGED heapVars
  BY <1>1 DEF heapVars, HeapInv
<1>2. CASE uno_release_value
  <2>1. slots' = slots /\ types' = types /\ inCall' = inCall
    BY <1>2 DEF uno_release_value
  <2> QED BY <1>2, <2>1, ReleaseStep DEF HeapInv
<1>3. CASE releasing = <<>> /\ Instruction
  BY <1>3, InstructionStep
<1>4. CASE releasing = <<>> /\ sched_gc_collect
  <2>1. slots' = slots /\ releasing' = releasing /\ types' = types /\ inCall' = inCall
    BY <1>4 DEF sched_gc_collect
  <2> QED BY <1>4, <2>1, CollectStep DEF HeapInv
<1> QED BY <1>1, <1>2, <1>3, <1>4 DEF HeapNext

(* What every reference leads to exists.                                   *)
LEMMA HeldInside ==
    ASSUME NEW D, NEW S, S \subseteq Refs(D)
    PROVE  Held(S) \subseteq D
BY RefFacts DEF Held

LEMMA HeapInvSound ==
    ASSUME HeapInv
    PROVE  HeapSound
<1> DEFINE D == DOMAIN heap
<1>1. Good(heap, slots, releasing, drifted) /\ Closed(heap, slots, releasing)
  BY DEF HeapInv, Good
<1>2. Range(slots) \subseteq Refs(D)
  BY <1>1 DEF Closed, Range
<1>3. ToSet(releasing) \subseteq Refs(D)
  <2>1. releasing \in Seq(Refs(D))
    BY <1>1 DEF Closed
  <2> HIDE DEF D
  <2> QED BY <2>1 DEF ToSet
<1>4. Held(Range(slots) \cup ToSet(releasing)) \subseteq D
  BY <1>2, <1>3, HeldInside
<1>5. ASSUME NEW o \in D
      PROVE  /\ Held(ToSet(heap[o].items)) \subseteq D
             /\ IF o \in drifted THEN Extra(o) >= 0 ELSE Extra(o) = 0
  <2>1. heap[o].items \in Seq(Refs(D)) /\ heap[o].rc \in Int
    BY <1>1, ClosedFacts
  <2>2. ToSet(heap[o].items) \subseteq Refs(D)
    <3> DEFINE vs == heap[o].items
    <3> HIDE DEF D, vs
    <3>1. ToSet(vs) \subseteq Refs(D)
      BY <2>1 DEF ToSet, vs
    <3> QED BY <3>1 DEF vs
  <2>3. Holders(o) = Count(heap, slots, releasing, o)
    BY DEF Holders, Count, SlotRefs
  <2>4. Count(heap, slots, releasing, o) \in Nat
    BY <1>1, ClosedFacts
  <2>5. heap[o].rc >= Holders(o) /\ (o \notin drifted => heap[o].rc = Holders(o))
    BY <1>1, <2>3 DEF Good
  <2>6. IF o \in drifted THEN Extra(o) >= 0 ELSE Extra(o) = 0
    BY <2>1, <2>3, <2>4, <2>5 DEF Extra
  <2> QED BY <2>2, <2>6, HeldInside
<1> QED BY <1>4, <1>5 DEF HeapSound

(* Every heap that a program can build satisfies the inductive invariant:   *)
(* references, counts, types and the registers a call has saved fit         *)
(* together at every instruction, release and collection.                   *)
THEOREM HeapInvHolds == HeapSpec => []HeapInv
<1>1. HeapInit => HeapInv
  BY HeapInitially
<1>2. HeapInv /\ [HeapNext]_heapVars => HeapInv'
  BY HeapStep
<1> QED BY <1>1, <1>2, PTL DEF HeapSpec

(* Nothing a program can still reach is freed, whatever it shares, moves    *)
(* into frames, replaces, pops, releases or collects: what a slot, an       *)
(* object or a pending release refers to exists, no object counts less      *)
(* than its references, and apart from those that a field named twice, a    *)
(* setf in a "@" block or a collection has left counted too often, every    *)
(* object counts exactly its references.                                    *)
THEOREM HeapIsSound == HeapSpec => []HeapSound
<1>1. HeapInv => HeapSound
  BY HeapInvSound
<1> QED BY <1>1, HeapInvHolds, PTL
=============================================================================
