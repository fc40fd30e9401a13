----------------------------- MODULE Petersburg -----------------------------
(***************************************************************************)
(* Petersburg, the windows of a USSR script (petersburg.c): the list of    *)
(* widgets a script builds, the input GLFW reports, the ring in which the  *)
(* callbacks to run wait, and the pump the scheduler calls between two     *)
(* slices, which closes windows and starts one process per event.          *)
(*                                                                         *)
(* Input is reported while GLFW is polled: in the pump or in the loop of a *)
(* message box, after which the script goes on; so a call of the script    *)
(* may come between an input and the pump that delivers it.                *)
(***************************************************************************)
EXTENDS Integers, Sequences, FiniteSets, SequencesExt

CONSTANTS Capacity,     \* places in the ring of events (64)
          Visible,      \* rows a list shows
          MaxShapes,    \* PETERSBURG_MAX_SHAPES
          Built,        \* user interfaces as a script has built them
          Texts,        \* texts a script gives to widgets, sequences of characters
          Defined,      \* names of definitions of the running program
          Names,        \* names given to petersburg_on
          MaxText, MaxWidgets, MaxCalls, MaxInputs     \* bounds of the model

VARIABLES ui,           \* the widgets and everything that belongs to them
          delivered,    \* the events handed to the program so far (history)
          calls, inputs \* how much the script and the user have done

vars == <<ui, delivered, calls, inputs>>

Kinds == {"label", "button", "textbox", "checkbox", "list", "combobox", "toolbar", "image", "canvas"}
Chosen == {"list", "combobox"}                  \* the types with items
NoEvent == [widget |-> 0, on |-> "none", callback |-> "none", serial |-> 0]

Empty == [widgets |-> <<>>, next |-> 1, events |-> [i \in 0..Capacity - 1 |-> NoEvent],
          head |-> 0, count |-> 0, focus |-> 0, error |-> FALSE, delegated |-> FALSE,
          run |-> FALSE, press |-> 0, serial |-> 1]

-----------------------------------------------------------------------------
(* Items of a list or combo box: separated by |, which \ keeps as text.    *)
Escaped(s, i) == s[i] = "\\" /\ i < Len(s) /\ s[i + 1] \in {"|", "\\"}

RECURSIVE CountFrom(_, _, _)
CountFrom(s, i, nonempty) ==
  LET here == IF nonempty THEN 1 ELSE 0
  IN  IF i > Len(s) THEN here
      ELSE IF s[i] = "|" THEN here + CountFrom(s, i + 1, FALSE)
      ELSE CountFrom(s, IF Escaped(s, i) THEN i + 2 ELSE i + 1, TRUE)

petersburg_item_count(s) == CountFrom(s, 1, FALSE)

RECURSIVE ItemFrom(_, _, _, _)
ItemFrom(s, i, left, item) ==
  IF i > Len(s) THEN IF left = 0 THEN item ELSE <<>>
  ELSE IF s[i] = "|"
       THEN IF item # <<>> /\ left = 0 THEN item
            ELSE ItemFrom(s, i + 1, IF item # <<>> THEN left - 1 ELSE left, <<>>)
  ELSE LET at == IF Escaped(s, i) THEN i + 1 ELSE i
       IN  ItemFrom(s, at + 1, left, Append(item, s[at]))

petersburg_item_at(s, index) == ItemFrom(s, 1, index, <<>>)     \* <<>>: there is none

-----------------------------------------------------------------------------
(* Widgets. *)
Ids(u) == {u.widgets[i].id : i \in DOMAIN u.widgets}
petersburg_find(u, id) == CHOOSE w \in ToSet(u.widgets) : w.id = id
IsA(u, id, types) == id \in Ids(u) /\ petersburg_find(u, id).type \in types
Windows(u) == {id \in Ids(u) : IsA(u, id, {"window"})}
Put(u, w) == [u EXCEPT !.widgets = [i \in DOMAIN @ |-> IF @[i].id = w.id THEN w ELSE @[i]]]

petersburg_add(u, type, parent, text) ==
  [u EXCEPT !.widgets = Append(@, [id |-> u.next, parent |-> parent, type |-> type, text |-> text,
                                   selected |-> 0, scroll |-> 0, checked |-> FALSE, marks |-> <<>>,
                                   shapes |-> 0, closing |-> FALSE, laid_out |-> FALSE,
                                   on |-> [s \in {} |-> "none"]]),
            !.next = @ + 1]

(* The slot a callback goes to; a canvas and an image call their click     *)
(* slot "pointer".                                                         *)
Slot(type, event) ==
  CASE event \in {"click", "change"} -> event
    [] event = "pointer" /\ type \in {"image", "canvas"} -> "click"
    [] event \in {"wheel", "menu", "double"} /\ type = "canvas" -> event
    [] event \in {"key", "keyup", "focus", "char"} /\ type = "window" -> event
    [] OTHER -> "none"

EventNames == {"click", "change", "pointer", "wheel", "menu", "double", "key", "keyup", "focus", "char"}

petersburg_set_callback(u, id, event, name) ==
  LET w == petersburg_find(u, id)
      s == Slot(w.type, event)
  IN  Put(u, [w EXCEPT !.on = [x \in DOMAIN @ \cup {s} |-> IF x = s THEN name ELSE @[x]]])

-----------------------------------------------------------------------------
(* The ring of events. *)
Waiting(u) == [i \in 1..u.count |-> u.events[(u.head + i - 1) % Capacity]]

petersburg_queue(u, id, slot) ==
  LET w == petersburg_find(u, id)
  IN  IF slot \notin DOMAIN w.on \/ u.error THEN u
      ELSE IF u.count = Capacity THEN [u EXCEPT !.error = TRUE]
      ELSE [u EXCEPT !.events[(u.head + u.count) % Capacity] =
                       [widget |-> id, on |-> slot, callback |-> w.on[slot], serial |-> u.serial],
                     !.count = @ + 1, !.serial = @ + 1]

Taken(u) == [u EXCEPT !.head = (u.head + u.count) % Capacity, !.count = 0,
                      !.events = [i \in DOMAIN @ |-> NoEvent]]

\* Mutant: the events are moved to the front, but reading goes on where it was.
DiscardKeepsHead(u, id) ==
  LET kept == SelectSeq(Waiting(u), LAMBDA e : e.widget # id)
  IN  [u EXCEPT !.events = [i \in DOMAIN @ |-> IF i < Len(kept) THEN kept[i + 1] ELSE NoEvent],
                !.count = Len(kept)]

petersburg_discard_events(u, id) ==
  LET kept == SelectSeq(Waiting(u), LAMBDA e : e.widget # id)
  IN  [u EXCEPT !.events = [i \in DOMAIN @ |-> IF i < Len(kept) THEN kept[i + 1] ELSE NoEvent],
                !.head = 0, !.count = Len(kept)]

(* The widget, and if it is a container what lies directly in it.          *)
Unlink(u, id) ==
  LET container == IsA(u, id, {"window", "toolbar"})
      gone == {i \in Ids(u) : i = id \/ (container /\ petersburg_find(u, i).parent = id)}
      left == FoldSet(LAMBDA i, s : petersburg_discard_events(s, i), u, gone)
  IN  [left EXCEPT !.widgets = SelectSeq(@, LAMBDA w : w.id \notin gone),
                   !.focus = IF @ \in gone THEN 0 ELSE @]

\* Mutant: a window takes only what lies directly in it along.
DestroyShallow(u, id) == Unlink(u, id)

(* A window first drops its toolbars, whose buttons are its grandchildren. *)
petersburg_destroy(u, id) ==
  LET bars == IF ~IsA(u, id, {"window"}) THEN {}
              ELSE {i \in Ids(u) : IsA(u, i, {"toolbar"}) /\ petersburg_find(u, i).parent = id}
  IN  Unlink(FoldSet(LAMBDA i, s : Unlink(s, i), u, bars), id)

-----------------------------------------------------------------------------
(* Input, as GLFW reports it for one window. *)
Children(u, id) == {i \in Ids(u) : petersburg_find(u, i).parent = id}

petersburg_canvas_press(u, id, soon) ==
  LET pressed == petersburg_queue(u, id, "click")
  IN  IF u.press = id /\ soon
      THEN [petersburg_queue(pressed, id, "double") EXCEPT !.press = 0]
      ELSE [pressed EXCEPT !.press = id]

(* The left button on widget id; spot is the row of a list that was hit or *)
(* the button of a toolbar (0: none), soon that the press follows another  *)
(* closely, in time and place.                                             *)
LeftPress(u, id, spot, soon) ==
  LET w == petersburg_find(u, id)
      f == [u EXCEPT !.focus = IF w.type \in {"textbox", "list"} THEN id ELSE 0]
      n == petersburg_item_count(w.text)
  IN  CASE w.type = "checkbox" -> petersburg_queue(Put(f, [w EXCEPT !.checked = ~@]), id, "change")
        [] w.type = "textbox" -> f
        [] w.type = "list" /\ n > 0 /\ w.scroll + spot < n ->
             petersburg_queue(Put(f, [w EXCEPT !.selected = w.scroll + spot]), id, "change")
        [] w.type = "combobox" /\ n > 0 ->
             petersburg_queue(Put(f, [w EXCEPT !.selected = (@ + 1) % n]), id, "change")
        [] w.type \in Chosen -> petersburg_queue(f, id, "change")
        [] w.type = "toolbar" -> IF spot = 0 THEN f ELSE petersburg_queue(f, spot, "click")
        [] w.type = "canvas" -> petersburg_canvas_press(f, id, soon)
        [] OTHER -> petersburg_queue(f, id, "click")

petersburg_mouse_button(u, button, id, spot, soon) ==
  IF button = "right"
  THEN IF IsA(u, id, {"canvas"}) THEN petersburg_queue(u, id, "menu") ELSE u
  ELSE IF id = 0 THEN [u EXCEPT !.focus = 0] ELSE LeftPress(u, id, spot, soon)

(* A typed character goes to the window's callback and, if it is plain     *)
(* ASCII, to the end of the focused widget's text.                         *)
petersburg_character(u, window, c) ==
  LET told == petersburg_queue(u, window, "char")
      w == petersburg_find(told, told.focus)
  IN  IF u.focus = 0 \/ c = "wide" THEN told
      ELSE petersburg_queue(Put(told, [w EXCEPT !.text = Append(@, c)]), w.id, "change")

petersburg_key(u, window, key) ==
  LET told == petersburg_queue(u, window, IF key = "release" THEN "keyup" ELSE "key")
      w == petersburg_find(told, told.focus)
      Change(v) == petersburg_queue(Put(told, v), v.id, "change")
  IN  IF key = "release" \/ u.focus = 0 THEN told
      ELSE CASE w.type = "list" /\ key = "up" /\ w.selected > 0 -> Change([w EXCEPT !.selected = @ - 1])
             [] w.type = "list" /\ key = "down" /\ w.selected + 1 < petersburg_item_count(w.text) ->
                  Change([w EXCEPT !.selected = @ + 1])
             [] w.type = "textbox" /\ key = "backspace" /\ w.text # <<>> ->
                  Change([w EXCEPT !.text = Front(@)])
             [] OTHER -> told

petersburg_scroll(u, canvas) == petersburg_queue(u, canvas, "wheel")

petersburg_window_focus(u, window) == petersburg_queue(u, window, "focus")

-----------------------------------------------------------------------------
(* The pump. *)
RECURSIVE CloseWindows(_)
CloseWindows(u) ==
  LET closing == {id \in Windows(u) : petersburg_find(u, id).closing}
  IN  IF closing = {} THEN u ELSE CloseWindows(petersburg_destroy(u, CHOOSE id \in closing : TRUE))

(* Drawing a list moves its rows so that the selected one is shown.        *)
Drawn(w) ==
  LET s == IF w.selected < w.scroll THEN w.selected ELSE w.scroll
  IN  [w EXCEPT !.laid_out = TRUE,
                !.scroll = IF w.type # "list" THEN @
                           ELSE IF w.selected >= s + Visible THEN w.selected - Visible + 1 ELSE s]

petersburg_render(u) ==
  IF u.run THEN [u EXCEPT !.widgets = [i \in DOMAIN @ |-> IF @[i].type = "window" THEN @[i] ELSE Drawn(@[i])]]
           ELSE u

Unknown(events) == {i \in DOMAIN events : events[i].callback \notin Defined}

(* What the pump leaves and the events it has started a process for; an    *)
(* unknown callback stops it for good with the ring as it was.             *)
ussr_petersburg_pump(u) ==
  LET shown == petersburg_render(CloseWindows(u))
      events == Waiting(shown)
      first == CHOOSE i \in Unknown(events) : \A j \in Unknown(events) : i <= j
      emptied == IF u.delegated THEN shown ELSE Taken(shown)
  IN  IF u.error THEN [ui |-> u, out |-> <<>>]
      ELSE IF ~u.delegated /\ Unknown(events) # {}
      THEN [ui |-> [shown EXCEPT !.error = TRUE], out |-> SubSeq(events, 1, first - 1)]
      ELSE [ui |-> [emptied EXCEPT !.run = @ /\ Windows(shown) # {}],
            out |-> IF u.delegated THEN <<>> ELSE events]

-----------------------------------------------------------------------------
(* Calls of the script. *)
Call == calls < MaxCalls /\ calls' = calls + 1 /\ UNCHANGED inputs
Silently == UNCHANGED delivered

petersburg_create_window ==
  /\ Call /\ Silently /\ Len(ui.widgets) < MaxWidgets
  /\ ui' = petersburg_add(ui, "window", 0, <<>>)

(* A picture that cannot be read destroys the widget made for it.          *)
petersburg_create_widget(type, parent, text) ==
  /\ Call /\ Silently /\ Len(ui.widgets) < MaxWidgets
  /\ IsA(ui, parent, IF type = "button" THEN {"window", "toolbar"} ELSE {"window"})
  /\ LET made == petersburg_add(ui, type, parent, IF type = "canvas" THEN <<>> ELSE text)
     IN  \/ ui' = made
         \/ type = "image" /\ ui' = petersburg_destroy(made, ui.next)

petersburg_on(id, event, name) ==
  /\ Call /\ Silently /\ id \in Ids(ui) /\ Slot(petersburg_find(ui, id).type, event) # "none"
  /\ ui' = petersburg_set_callback(ui, id, event, name)

petersburg_set_text(id, text) ==
  /\ Call /\ Silently /\ id \in Ids(ui)
  /\ LET w == petersburg_find(ui, id)
     IN  ui' = Put(ui, IF w.type \notin Chosen THEN [w EXCEPT !.text = text]
                       ELSE [w EXCEPT !.text = text, !.selected = 0, !.scroll = 0, !.marks = <<>>])

petersburg_set_index(id, index) ==
  /\ Call /\ Silently /\ IsA(ui, id, Chosen)
  /\ LET w == petersburg_find(ui, id)
     IN  /\ index < petersburg_item_count(w.text)
         /\ ui' = Put(ui, [w EXCEPT !.selected = index])

petersburg_set_focus(id) ==
  /\ Call /\ Silently /\ IsA(ui, id, {"textbox", "list"}) /\ ui' = [ui EXCEPT !.focus = id]

petersburg_set_checked(id, b) ==
  /\ Call /\ Silently /\ IsA(ui, id, {"checkbox", "button"})
  /\ ui' = Put(ui, [petersburg_find(ui, id) EXCEPT !.checked = b])

(* Marks grow to the number of rows when one is set. *)
petersburg_set_mark(id, index) ==
  /\ Call /\ Silently /\ IsA(ui, id, {"list"})
  /\ LET w == petersburg_find(ui, id)
         n == petersburg_item_count(w.text)
     IN  /\ index < n
         /\ ui' = Put(ui, [w EXCEPT !.marks =
                     [i \in 1..(IF Len(@) < n THEN n ELSE Len(@)) |->
                        IF i = index + 1 THEN TRUE ELSE i <= Len(@) /\ @[i]]])

petersburg_canvas_shape(id) ==
  /\ Call /\ Silently /\ IsA(ui, id, {"canvas"})
  /\ petersburg_find(ui, id).shapes < MaxShapes
  /\ ui' = Put(ui, [petersburg_find(ui, id) EXCEPT !.shapes = @ + 1])

petersburg_canvas_clear(id) ==
  /\ Call /\ Silently /\ IsA(ui, id, {"canvas"})
  /\ ui' = Put(ui, [petersburg_find(ui, id) EXCEPT !.shapes = 0])

DestroyWidget(id) ==
  /\ Call /\ Silently /\ id \in Ids(ui) /\ ui' = petersburg_destroy(ui, id)

petersburg_close(id) ==
  /\ Call /\ Silently /\ IsA(ui, id, {"window"})
  /\ ui' = Put(ui, [petersburg_find(ui, id) EXCEPT !.closing = TRUE])

petersburg_run == Call /\ Silently /\ ui' = [ui EXCEPT !.run = TRUE]

petersburg_take_events ==
  /\ Call
  /\ delivered' = delivered \o Waiting(ui)
  /\ ui' = [Taken(ui) EXCEPT !.delegated = TRUE]

petersburg_inject(id, event) ==
  /\ Call /\ Silently /\ id \in Ids(ui)
  /\ LET type == petersburg_find(ui, id).type
     IN  \/ event = "key" /\ type = "window" /\ ui' = petersburg_key(ui, id, "down")
         \/ event = "keyup" /\ type = "window" /\ ui' = petersburg_key(ui, id, "release")
         \/ event = "char" /\ type = "window" /\ ui' = petersburg_character(ui, id, "wide")
         \/ event = "focus" /\ type = "window" /\ ui' = petersburg_window_focus(ui, id)
         \/ event = "pointer" /\ type \in {"canvas", "image"} /\ ui' = petersburg_queue(ui, id, "click")
         \/ event \in {"wheel", "menu", "double"} /\ type = "canvas" /\ ui' = petersburg_queue(ui, id, event)
         \/ event = "click" /\ type # "window" /\ ui' = petersburg_queue(ui, id, "click")

Script ==
  \/ petersburg_create_window \/ petersburg_run \/ petersburg_take_events
  \/ \E type \in Kinds, parent \in Ids(ui), text \in Texts : petersburg_create_widget(type, parent, text)
  \/ \E id \in Ids(ui) :
       \/ DestroyWidget(id) \/ petersburg_close(id) \/ petersburg_set_focus(id)
       \/ petersburg_canvas_shape(id) \/ petersburg_canvas_clear(id)
       \/ \E b \in BOOLEAN : petersburg_set_checked(id, b)
       \/ \E text \in Texts : petersburg_set_text(id, text)
       \/ \E index \in 0..MaxText : petersburg_set_index(id, index) \/ petersburg_set_mark(id, index)
       \/ \E event \in EventNames : petersburg_inject(id, event)
       \/ \E event \in EventNames, name \in Names : petersburg_on(id, event, name)

-----------------------------------------------------------------------------
(* The user, and the scheduler.                                            *)
Spots(id) ==
  IF ~IsA(ui, id, {"list", "toolbar"}) THEN {0}
  ELSE IF IsA(ui, id, {"list"}) THEN 0..Visible - 1 ELSE {0} \cup Children(ui, id)

Input(window, u) ==
  /\ inputs < MaxInputs /\ inputs' = inputs + 1 /\ UNCHANGED calls /\ Silently
  /\ window \in Windows(ui) /\ ui' = u

User ==
  \E window \in Windows(ui) :
    \/ \E id \in {0} \cup Children(ui, window) :
         \E spot \in Spots(id), soon \in IF IsA(ui, id, {"canvas"}) THEN BOOLEAN ELSE {FALSE},
            button \in IF IsA(ui, id, {"canvas"}) THEN {"left", "right"} ELSE {"left"} :
           Input(window, petersburg_mouse_button(ui, button, id, spot, soon))
    \/ \E c \in {"x", "|", "wide"} :
         /\ \A w \in ToSet(ui.widgets) : Len(w.text) < MaxText
         /\ Input(window, petersburg_character(ui, window, c))
    \/ \E key \in {"up", "down", "backspace", "release"} : Input(window, petersburg_key(ui, window, key))
    \/ Input(window, petersburg_window_focus(ui, window))
    \/ \E id \in Children(ui, window) : IsA(ui, id, {"canvas"}) /\ Input(window, petersburg_scroll(ui, id))
    \/ Input(window, Put(ui, [petersburg_find(ui, window) EXCEPT !.closing = TRUE]))

Pump ==
  /\ ui' = ussr_petersburg_pump(ui).ui
  /\ delivered' = delivered \o ussr_petersburg_pump(ui).out
  /\ UNCHANGED <<calls, inputs>>

(* The end of a script.  Handles are not given out again.                  *)
ussr_petersburg_cleanup ==
  /\ ui.widgets # <<>> /\ Call /\ Silently
  /\ ui' = [Empty EXCEPT !.next = ui.next, !.press = ui.press, !.serial = ui.serial]

Init == ui \in Built /\ delivered = <<>> /\ calls = 0 /\ inputs = 0
Next == Script \/ User \/ Pump \/ ussr_petersburg_cleanup

-----------------------------------------------------------------------------
(* Whatever is destroyed, closed, typed or selected in between: no widget  *)
(* outlives the one it lies in, no callback waits for a widget that is     *)
(* gone, the keyboard belongs to a living text box or list, and a list or  *)
(* combo box has its selection, scroll position and marks on rows it has,  *)
(* which petersburg_item_at finds exactly when petersburg_item_count       *)
(* counts them (petersburg_destroy, petersburg_set_text, the input         *)
(* callbacks).                                                             *)
WindowsSound ==
  /\ \A w \in ToSet(ui.widgets) :
       /\ w.parent = 0 \/ IsA(ui, w.parent, {"window", "toolbar"})
       /\ w.type \in Chosen =>
            LET n == petersburg_item_count(w.text)
            IN  /\ w.selected < n \/ (n = 0 /\ w.selected = 0)
                /\ w.scroll <= w.selected \/ w.scroll < n
                /\ Len(w.marks) <= n
                /\ \A i \in 0..MaxText : petersburg_item_at(w.text, i) # <<>> <=> i < n
  /\ \A i \in 1..ui.count : Waiting(ui)[i].widget \in Ids(ui)
  /\ ui.focus # 0 => IsA(ui, ui.focus, {"textbox", "list"})

(* Every callback queued runs once and in the order of the input: what has *)
(* been delivered and what waits are in the order of queueing, and while   *)
(* there has been no error only the callbacks of destroyed widgets are     *)
(* missing (petersburg_queue, petersburg_discard_events,                   *)
(* ussr_petersburg_pump, petersburg_take_events).                          *)
InOrder(events) == \A i, j \in DOMAIN events : i < j => events[i].serial < events[j].serial
EventsKept ==
  [][/\ InOrder(delivered') /\ IsPrefix(delivered, delivered')
     /\ ~ui'.error =>
          /\ InOrder(delivered' \o Waiting(ui'))
          /\ \A i \in 1..ui.count :
               LET e == Waiting(ui)[i]
               IN  e.widget \in Ids(ui') => e \in ToSet(delivered' \o Waiting(ui'))]_vars
=============================================================================
