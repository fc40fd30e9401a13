--------------------------- MODULE PetersburgLayout ---------------------------
(***************************************************************************)
(* Where the widgets of a Petersburg window come to lie (petersburg.c):    *)
(* toolbars at the top, then the two-column grid, or rows one below the    *)
(* other of which those that expand share the height left over.  A window  *)
(* holds its size, its margin (0 edge to edge) and its widgets in order.   *)
(***************************************************************************)
EXTENDS Integers, Sequences, FiniteSetsExt

CONSTANTS Gap,          \* pixels between two widgets (8)
          MaxRows       \* rows a grid may have (256)

Sum(f(_), S) == MapThenSumSet(f, S)
Most(f(_), S) == Max({f(i) : i \in S} \cup {0})

Fresh(toolbar, height) ==
  [toolbar |-> toolbar, preferred |-> height, expand |-> FALSE, in_grid |-> FALSE, row |-> -1, column |-> -1]

petersburg_pack(w, expand) == [w EXCEPT !.expand = expand]

petersburg_grid(w, row, column, expand) ==
  IF row \notin 0..MaxRows - 1 \/ column \notin 0..1 THEN w
  ELSE [w EXCEPT !.in_grid = TRUE, !.row = row, !.column = column, !.expand = expand]

-----------------------------------------------------------------------------
Toolbars(ws) == {i \in DOMAIN ws : ws[i].toolbar}
InGrid(ws) == {i \in DOMAIN ws : ~ws[i].toolbar /\ ws[i].in_grid}
InFlow(ws) == {i \in DOMAIN ws : ~ws[i].toolbar /\ ~ws[i].in_grid}
Upto(S, i) == {j \in S : j < i}

Area(x, y, width, height) == [x |-> x, y |-> y, width |-> width, height |-> height]
Wide(window) == window.width - 2 * window.margin

(* The grid: its rows are as high as their highest widget. *)
RowsOf(ws) == 0..Most(LAMBDA i : ws[i].row, InGrid(ws))
InRow(ws, r) == {i \in InGrid(ws) : ws[i].row = r}
Tall(ws, r) == Most(LAMBDA i : ws[i].preferred, InRow(ws, r))
Expands(ws, r) == \E i \in InRow(ws, r) : ws[i].expand
RowHeight(window, ws, top, r) ==
  LET last == Most(LAMBDA q : q, RowsOf(ws))
      extra == window.height - top - window.margin - Gap * last - Sum(LAMBDA q : Tall(ws, q), RowsOf(ws))
      sharing == {q \in RowsOf(ws) : Expands(ws, q)}
  IN  Tall(ws, r) + (IF extra > 0 /\ r \in sharing THEN extra \div Cardinality(sharing) ELSE 0)
RowTop(window, ws, top, r) ==
  top + Sum(LAMBDA q : RowHeight(window, ws, top, q) + Gap, {q \in RowsOf(ws) : q < r})
GridArea(window, ws, top, i) ==
  LET column_width == (Wide(window) - Gap) \div 2
  IN  Area(window.margin + ws[i].column * (column_width + Gap), RowTop(window, ws, top, ws[i].row),
           column_width, RowHeight(window, ws, top, ws[i].row))

(* What is not in the grid comes below it, at its own height. *)
BelowGrid(window, ws, top, i) ==
  LET last == Most(LAMBDA q : q, RowsOf(ws))
      under == RowTop(window, ws, top, last) + RowHeight(window, ws, top, last) + Gap
  IN  Area(window.margin, under + Sum(LAMBDA j : ws[j].preferred + Gap, Upto(InFlow(ws), i)),
           Wide(window), ws[i].preferred)

(* Without a grid the widgets that expand share what is left. *)
FlowHeight(window, ws, top, i) ==
  LET all == InFlow(ws)
      extra == window.height - top - window.margin - Gap * (Cardinality(all) - 1)
               - Sum(LAMBDA j : ws[j].preferred, all)
      sharing == {j \in all : ws[j].expand}
  IN  ws[i].preferred + (IF extra > 0 /\ i \in sharing THEN extra \div Cardinality(sharing) ELSE 0)
FlowArea(window, ws, top, i) ==
  Area(window.margin, top + Sum(LAMBDA j : FlowHeight(window, ws, top, j) + Gap, Upto(InFlow(ws), i)),
       Wide(window), FlowHeight(window, ws, top, i))

petersburg_layout_flow(window, ws, top, i) ==
  IF ws[i].in_grid THEN GridArea(window, ws, top, i)
  ELSE IF InGrid(ws) # {} THEN BelowGrid(window, ws, top, i)
  ELSE FlowArea(window, ws, top, i)

(* The area of every widget. *)
petersburg_layout(window, ws) ==
  LET Top(S) == window.margin + Sum(LAMBDA j : ws[j].preferred + Gap, S)
  IN  [i \in DOMAIN ws |->
         IF ws[i].toolbar THEN Area(window.margin, Top(Upto(Toolbars(ws), i)), Wide(window), ws[i].preferred)
         ELSE petersburg_layout_flow(window, ws, Top(Toolbars(ws)), i)]

-----------------------------------------------------------------------------
(* What a layout is for. *)
Apart(a, b) ==
  \/ a.x + a.width <= b.x \/ b.x + b.width <= a.x \/ a.y + a.height <= b.y \/ b.y + b.height <= a.y
SameCell(a, b) == a.in_grid /\ b.in_grid /\ a.row = b.row /\ a.column = b.column /\ ~a.toolbar /\ ~b.toolbar
Inside(window, a) ==
  /\ a.x >= window.margin /\ a.x + a.width <= window.width - window.margin
  /\ a.y >= window.margin
Bottom(area, S) == Most(LAMBDA i : area[i].y + area[i].height, S)

(* The height that is needed when nothing expands. *)
Needed(window, ws) ==
  LET plain == [i \in DOMAIN ws |-> [ws[i] EXCEPT !.expand = FALSE]]
  IN  Bottom(petersburg_layout(window, plain), DOMAIN ws) + window.margin

\* Widgets lie inside the window, none over another unless the script put both
\* into one cell of the grid; if they fit at their own heights they fit when
\* some expand, and those then fill the window but for what does not divide.
LaidOut(window, ws, area) ==
  LET mixed == InGrid(ws) # {} /\ InFlow(ws) # {}
      expanding == {i \in DOMAIN ws : ws[i].expand /\ ~ws[i].toolbar}
  IN  /\ \A i, j \in DOMAIN ws : i = j \/ SameCell(ws[i], ws[j]) \/ Apart(area[i], area[j])
      /\ \A i \in DOMAIN ws : Inside(window, area[i])
      /\ (~mixed /\ Needed(window, ws) <= window.height) =>
           LET low == Bottom(area, DOMAIN ws) + window.margin
           IN  /\ low <= window.height
               /\ expanding # {} => low > window.height - Cardinality(expanding)
=============================================================================
