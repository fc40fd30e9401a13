------------------------------ MODULE CLibrary ------------------------------
(***************************************************************************)
(* The C libraries the project brings along.  Moscow's heap for graphical  *)
(* programs (moscow/lib/gui/libc.c): first fit over one arena whose blocks *)
(* carry their size at both ends; sizes and addresses count units of       *)
(* HEAP_ALIGN bytes.  Sorting and searching of the usa C compiler's        *)
(* library (usa/libc/libc.c).                                              *)
(***************************************************************************)
EXTENDS Integers, Sequences

CONSTANTS ArenaUnits,   \* size of the arena
          MinUnits,     \* HEAP_MIN
          SmallPart     \* parts of an array up to this length are sorted by insertion (8)

-----------------------------------------------------------------------------
(* A heap: what the first and the last word of every block say, and the    *)
(* free blocks as they are linked.  Words inside blocks are kept as they   *)
(* were last written.                                                      *)
Mark(size, used) == [size |-> size, used |-> used]
heap_mark(h, b, size, used) ==
  [h EXCEPT !.head[b] = Mark(size, used), !.foot[b + size] = Mark(size, used)]
heap_unlink(h, b) == [h EXCEPT !.free = SelectSeq(@, LAMBDA x : x # b)]
heap_link(h, b) == [h EXCEPT !.free = <<b>> \o @]

heap_init ==
  LET none == [i \in 0..ArenaUnits |-> Mark(0, FALSE)]
      h == [head |-> none, foot |-> none, free |-> <<>>, used |-> 0]
  IN  heap_link(heap_mark(h, 0, ArenaUnits, FALSE), 0)

Fits(h, need) == {i \in DOMAIN h.free : h.head[h.free[i]].size >= need}

(* The block and the heap; -1 when none is large enough.  n is in units,   *)
(* header and footer included.                                             *)
malloc(h, n) ==
  LET need == IF n < MinUnits THEN MinUnits ELSE n
      first == CHOOSE i \in Fits(h, need) : \A j \in Fits(h, need) : i <= j
      b == h.free[first]
      size == h.head[b].size
      taken == heap_unlink(h, b)
      rest == heap_link(heap_mark(taken, b + need, size - need, FALSE), b + need)
      split == size - need >= MinUnits
      done == IF split THEN heap_mark(rest, b, need, TRUE) ELSE heap_mark(taken, b, size, TRUE)
  IN  IF Fits(h, need) = {} THEN [h |-> h, b |-> -1]
      ELSE [h |-> [done EXCEPT !.used = @ + done.head[b].size], b |-> b]

free(h, b) ==
  LET size == h.head[b].size
      after == b + size
      joinNext == after < ArenaUnits /\ ~h.head[after].used
      h1 == IF joinNext THEN heap_unlink(h, after) ELSE h
      s1 == IF joinNext THEN size + h.head[after].size ELSE size
      joinPrev == b > 0 /\ ~h.foot[b].used
      prev == b - h.foot[b].size
      h2 == IF joinPrev THEN heap_unlink(h1, prev) ELSE h1
      s2 == IF joinPrev THEN s1 + h.foot[b].size ELSE s1
      at == IF joinPrev THEN prev ELSE b
  IN  [heap_link(heap_mark(h2, at, s2, FALSE), at) EXCEPT !.used = @ - size]

(* A larger block is a new one; the old one is kept when there is none.    *)
realloc(h, b, n) ==
  IF n <= h.head[b].size THEN [h |-> h, b |-> b]
  ELSE LET new == malloc(h, n)
       IN  IF new.b < 0 THEN new ELSE [h |-> free(new.h, b), b |-> new.b]

-----------------------------------------------------------------------------
(* Sorting and searching; arrays are counted from 0 in the code. *)
Swap(a, i, j) == [a EXCEPT ![i] = a[j], ![j] = a[i]]

(* One pass over base..base+n-1 with the middle element as the pivot: the  *)
(* array and the place the pivot comes to.                                 *)
RECURSIVE Pass(_, _, _, _, _)
Pass(a, base, n, i, last) ==
  IF i = n THEN [a |-> Swap(a, base, base + last), last |-> last]
  ELSE IF a[base + i] < a[base]
  THEN Pass(Swap(a, base + last + 1, base + i), base, n, i + 1, last + 1)
  ELSE Pass(a, base, n, i + 1, last)

RECURSIVE Sink(_, _, _)
Sink(a, base, j) ==
  IF j > 0 /\ a[base + j - 1] > a[base + j] THEN Sink(Swap(a, base + j - 1, base + j), base, j - 1) ELSE a

RECURSIVE Insertion(_, _, _, _)
Insertion(a, base, n, i) == IF i >= n THEN a ELSE Insertion(Sink(a, base, i), base, n, i + 1)

RECURSIVE qsort(_, _, _)
qsort(a, base, n) ==
  IF n <= SmallPart THEN Insertion(a, base, n, 1)
  ELSE LET p == Pass(Swap(a, base, base + (n \div 2)), base, n, 1, 0)
       IN  IF p.last < n - p.last - 1
           THEN qsort(qsort(p.a, base, p.last), base + p.last + 1, n - p.last - 1)
           ELSE qsort(qsort(p.a, base + p.last + 1, n - p.last - 1), base, p.last)

(* The index found, or -1. *)
RECURSIVE Between(_, _, _, _)
Between(a, key, lo, hi) ==
  IF lo >= hi THEN -1
  ELSE LET mid == (lo + hi) \div 2
       IN  IF a[mid] = key THEN mid
           ELSE IF key < a[mid] THEN Between(a, key, lo, mid) ELSE Between(a, key, mid + 1, hi)
bsearch(a, n, key) == Between(a, key, 0, n)
=============================================================================
