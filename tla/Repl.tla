-------------------------------- MODULE Repl --------------------------------
(***************************************************************************)
(* Helpers of the REPL: key chords (keybind.c), command aliases (alias.c)  *)
(* and the history file (history.c).                                       *)
(***************************************************************************)
EXTENDS Integers, Sequences

CONSTANTS MaxAliasDepth,    \* ALIAS_MAX_DEPTH
          Reserved,         \* names that cannot be aliases
          DefaultSize       \* HISTORY_DEFAULT_SIZE

-----------------------------------------------------------------------------
(* Key chords: reading the name of a chord, recognising the bytes a        *)
(* terminal sends for one, and turning the codes of a Windows console into *)
(* such bytes.  Bytes are numbers; a chord is a set of modifiers and a key,*)
(* a letter or digit by its code, function key n as F(n).                  *)

F(n) == 256 + n
Letters == 97..122
Digits == 48..57
Esc == 27
Chord(mods, key) == [mods |-> mods, key |-> key]
NoChord == Chord({}, 0)
Unbound == ""

-----------------------------------------------------------------------------
(* A chord is written as words with + between them: modifiers, each by its *)
(* long name or by the letter c, m or s, and a key.                        *)
keybind_modifier(w) ==
  CASE w.text = "ctrl" -> {"ctrl"} [] w.text = "alt" -> {"alt"} [] w.text = "shift" -> {"shift"}
    [] w.key = 99 -> {"ctrl"} [] w.key = 109 -> {"alt"} [] w.key = 115 -> {"shift"}
    [] OTHER -> {}

keybind_key(w) == IF w.key \in Letters \cup Digits \cup {F(n) : n \in 1..12} THEN w.key ELSE 0

(* A one-letter modifier that comes last is the key. *)
IsModifier(words, i) == keybind_modifier(words[i]) # {} /\ ~(words[i].key # 0 /\ i = Len(words))

ussr_keybind_parse(words) ==
  LET mods == UNION {keybind_modifier(words[i]) : i \in {j \in DOMAIN words : IsModifier(words, j)}}
      keys == {i \in DOMAIN words : ~IsModifier(words, i)}
      key == keybind_key(words[Len(words)])
      plain == key < F(0)
  IN  IF \/ words = <<>> \/ keys # {Len(words)} \/ key = 0
         \/ plain /\ mods \subseteq {"shift"}
         \/ "ctrl" \in mods /\ (key \in Digits \/ key \in {104, 105, 106, 109})
         \/ plain /\ "ctrl" \notin mods /\ "shift" \in mods
      THEN NoChord
      ELSE Chord(IF plain THEN mods \ {"shift"} ELSE mods, key)

(* The words ussr_keybind_name prints for a chord. *)
KeyWord(text, key) == [text |-> text, key |-> key]
ussr_keybind_name(c) ==
  (IF "ctrl" \in c.mods THEN <<KeyWord("ctrl", 0)>> ELSE <<>>) \o
  (IF "alt" \in c.mods THEN <<KeyWord("alt", 0)>> ELSE <<>>) \o
  (IF "shift" \in c.mods THEN <<KeyWord("shift", 0)>> ELSE <<>>) \o <<KeyWord("", c.key)>>

-----------------------------------------------------------------------------
(* Bytes of a terminal. *)
keybind_xterm_mods(p) ==
  IF p < 2 THEN {}
  ELSE LET bits == p - 1
       IN  (IF bits % 2 = 1 THEN {"shift"} ELSE {})
           \cup (IF (bits \div 2) % 2 = 1 \/ (bits \div 8) % 2 = 1 THEN {"alt"} ELSE {})
           \cup (IF (bits \div 4) % 2 = 1 THEN {"ctrl"} ELSE {})

Tilde == <<11, 12, 13, 14, 15, 17, 18, 19, 20, 21, 23, 24>>
keybind_tilde_key(n) ==
  IF \E i \in 1..12 : Tilde[i] = n THEN F(CHOOSE i \in 1..12 : Tilde[i] = n) ELSE 0

RECURSIVE Number(_)
Number(s) == IF s = <<>> THEN 0 ELSE 10 * Number(SubSeq(s, 1, Len(s) - 1)) + s[Len(s)] - 48
AllDigits(s) == \A i \in DOMAIN s : s[i] \in Digits

(* Between ESC [ and the last byte: two numbers with one ; between them.   *)
Semicolons(s) == {i \in DOMAIN s : s[i] = 59}
Params(s) ==
  IF Semicolons(s) = {} THEN <<Number(s), 0>>
  ELSE LET at == CHOOSE i \in Semicolons(s) : TRUE
       IN  <<Number(SubSeq(s, 1, at - 1)), Number(SubSeq(s, at + 1, Len(s)))>>
GoodParams(s) ==
  /\ \A i \in DOMAIN s : s[i] \in Digits \cup {59}
  /\ \A i, j \in Semicolons(s) : i = j
  /\ \A i \in Semicolons(s) : i > 1

RECURSIVE keybind_decode(_)
keybind_decode(s) ==
  LET n == Len(s)
      last == s[n]
      middle == SubSeq(s, 3, n - 1)
      more == keybind_decode(Tail(s))
      p == Params(middle)
      csi == (IF last \in {94, 64} THEN {"ctrl"} ELSE {}) \cup (IF last \in {36, 64} THEN {"shift"} ELSE {})
  IN  CASE n = 0 -> NoChord
        [] n = 1 -> IF s[1] \in 1..26 THEN Chord({"ctrl"}, 96 + s[1]) ELSE NoChord
        [] n > 1 /\ s[1] # Esc -> NoChord
        [] n = 2 /\ s[1] = Esc ->
             IF s[2] \in Letters \cup Digits THEN Chord({"alt"}, s[2])
             ELSE IF s[2] \in 1..26 THEN Chord({"ctrl", "alt"}, 96 + s[2]) ELSE NoChord
        [] n > 2 /\ s[1] = Esc /\ s[2] = Esc ->
             IF more = NoChord THEN NoChord ELSE Chord(more.mods \cup {"alt"}, more.key)
        [] n > 2 /\ s[1] = Esc /\ s[2] = 79 ->
             IF last \in 80..83 /\ AllDigits(middle)
             THEN Chord(keybind_xterm_mods(Number(middle)), F(last - 79)) ELSE NoChord
        [] n = 4 /\ s[1] = Esc /\ s[2] = 91 /\ s[3] = 91 /\ last \in 65..69 -> Chord({}, F(last - 64))
        [] n > 2 /\ s[1] = Esc /\ s[2] = 91 /\ GoodParams(middle) ->
             IF last \in {126, 94, 36, 64} /\ keybind_tilde_key(p[1]) # 0
             THEN Chord(keybind_xterm_mods(p[2]) \cup csi, keybind_tilde_key(p[1]))
             ELSE IF last \in 80..83 /\ (middle = <<>> \/ p[1] = 1)
             THEN Chord(keybind_xterm_mods(p[2]), F(last - 79)) ELSE NoChord
        [] OTHER -> NoChord

-----------------------------------------------------------------------------
(* Codes of a Windows console. *)
RowQ == <<113, 119, 101, 114, 116, 121, 117, 105, 111, 112>>
RowA == <<97, 115, 100, 102, 103, 104, 106, 107, 108>>
RowZ == <<122, 120, 99, 118, 98, 110, 109>>
keybind_scan_letter(code) ==
  CASE code \in 16..25 -> RowQ[code - 15] [] code \in 30..38 -> RowA[code - 29]
    [] code \in 44..50 -> RowZ[code - 43] [] OTHER -> 0

Groups == <<{}, {"shift"}, {"ctrl"}, {"alt"}>>
keybind_getch_decode(prefix, code) ==
  CASE code \in 59..68 -> Chord({}, F(code - 58))
    [] code \in 84..113 -> Chord(Groups[((code - 84) \div 10) + 2], F(((code - 84) % 10) + 1))
    [] code \in 133..140 -> Chord(Groups[((code - 133) \div 2) + 1], F(11 + ((code - 133) % 2)))
    [] code \in 120..129 -> Chord({"alt"}, IF code = 129 THEN 48 ELSE code - 71)
    [] prefix = 0 /\ keybind_scan_letter(code) # 0 -> Chord({"alt"}, keybind_scan_letter(code))
    [] OTHER -> NoChord

RECURSIVE Decimal(_)
Decimal(n) == IF n < 10 THEN <<48 + n>> ELSE Append(Decimal(n \div 10), 48 + (n % 10))

(* The bytes a terminal would have sent for the key. *)
ussr_keybind_getch_sequence(prefix, code) ==
  LET c == keybind_getch_decode(prefix, code)
      f == c.key - F(0)
      p == 1 + (IF "shift" \in c.mods THEN 1 ELSE 0) + (IF "alt" \in c.mods THEN 2 ELSE 0)
             + (IF "ctrl" \in c.mods THEN 4 ELSE 0)
  IN  IF c = NoChord THEN <<>>
      ELSE IF f < 1 THEN <<Esc, c.key>>
      ELSE IF f <= 4 /\ p = 1 THEN <<Esc, 79, 79 + f>>
      ELSE IF f <= 4 THEN <<Esc, 91, 49, 59>> \o Decimal(p) \o <<79 + f>>
      ELSE IF p = 1 THEN <<Esc, 91>> \o Decimal(Tilde[f]) \o <<126>>
      ELSE <<Esc, 91>> \o Decimal(Tilde[f]) \o <<59>> \o Decimal(p) \o <<126>>

-----------------------------------------------------------------------------
(* The chords that are bound, each with its line of input.                 *)
ussr_keybind_find(table, c) ==
  IF \E i \in DOMAIN table : table[i].chord = c
  THEN table[CHOOSE i \in DOMAIN table : table[i].chord = c].line ELSE Unbound

(* An empty line takes the binding away. *)
ussr_keybind_set(table, words, line) ==
  LET c == ussr_keybind_parse(words)
      entry == [chord |-> c, line |-> line]
  IN  IF c = NoChord THEN table
      ELSE IF ussr_keybind_find(table, c) = Unbound
      THEN IF line = Unbound THEN table ELSE Append(table, entry)
      ELSE IF line = Unbound THEN SelectSeq(table, LAMBDA e : e.chord # c)
      ELSE [i \in DOMAIN table |-> IF table[i].chord = c THEN entry ELSE table[i]]

ussr_keybind_match_sequence(table, bytes) == ussr_keybind_find(table, keybind_decode(bytes))

(* A console code without a prefix is a plain character. *)
ussr_keybind_match_getch(table, prefix, code) ==
  IF prefix \in {0, 224} THEN ussr_keybind_find(table, keybind_getch_decode(prefix, code))
  ELSE IF code \in 1..26 THEN ussr_keybind_find(table, Chord({"ctrl"}, 96 + code))
  ELSE Unbound

-----------------------------------------------------------------------------
(* Aliases: the table, in the order in which names were first given, and   *)
(* the expansion of a parsed line.  An argument of a command is a word or  *)
(* a block of commands.                                                    *)

Word(w) == [k |-> "word", w |-> w, list |-> <<>>]
Block(list) == [k |-> "block", w |-> "", list |-> list]

Named(table, name) == {i \in DOMAIN table : table[i].name = name}

(* The table afterwards; no words remove the alias. *)
ussr_alias_set(table, name, words) ==
  LET entry == [name |-> name, words |-> words]
  IN  IF name \in Reserved THEN table
      ELSE IF Named(table, name) = {} THEN IF words = <<>> THEN table ELSE Append(table, entry)
      ELSE IF words = <<>> THEN SelectSeq(table, LAMBDA a : a.name # name)
      ELSE [i \in DOMAIN table |-> IF table[i].name = name THEN entry ELSE table[i]]

ussr_alias_find(table, name) == table[CHOOSE i \in Named(table, name) : TRUE].words

(* A command whose last argument is a block defines something or is control*)
(* flow.                                                                   *)
alias_takes_block(c) == c.arguments # <<>> /\ c.arguments[Len(c.arguments)].k = "block"

alias_apply(c, words) ==
  [c EXCEPT !.name = Head(words),
            !.arguments = [i \in 1..Len(words) - 1 |-> Word(words[i + 1])] \o @]

RECURSIVE Replace(_, _, _)
Replace(table, c, seen) ==
  IF Len(seen) = MaxAliasDepth \/ Named(table, c.name) = {} \/ \E i \in DOMAIN seen : seen[i] = c.name
  THEN c
  ELSE Replace(table, alias_apply(c, ussr_alias_find(table, c.name)), Append(seen, c.name))

RECURSIVE alias_expand_command(_, _)
alias_expand_command(table, c) ==
  LET Inside(a) == IF a.k # "block" THEN a
                   ELSE [a EXCEPT !.list = [i \in DOMAIN @ |-> alias_expand_command(table, @[i])]]
      inner == [c EXCEPT !.arguments = [i \in DOMAIN @ |-> Inside(@[i])]]
  IN  IF c.path \/ alias_takes_block(c) THEN inner ELSE Replace(table, inner, <<>>)

ussr_alias_expand(table, list) == [i \in DOMAIN list |-> alias_expand_command(table, list[i])]

-----------------------------------------------------------------------------
(* The history file: what is read from it when a REPL starts, how it is    *)
(* kept short, and what is added line by line.  The file is a sequence of  *)
(* characters, 10 and 13 ending lines.                                     *)

NoLine == <<>>
Off == [path |-> FALSE, last |-> NoLine]

(* USSR_HISTSIZE; -1 when it is not set or not a number. *)
history_size(setting) == IF setting \in 0..1000000 THEN setting ELSE DefaultSize

(* The line from p on without its end, and where the next one starts.      *)
RECURSIVE LineEnd(_, _)
LineEnd(file, p) == IF p > Len(file) \/ file[p] = 10 THEN p ELSE LineEnd(file, p + 1)
history_read_line(file, p) ==
  LET end == LineEnd(file, p)
      line == SubSeq(file, p, end - 1)
  IN  [line |-> IF line # <<>> /\ line[Len(line)] = 13 THEN SubSeq(line, 1, Len(line) - 1) ELSE line, next |-> end + 1]

RECURSIVE LinesFrom(_, _)
LinesFrom(file, p) ==
  LET read == history_read_line(file, p)
  IN  IF p > Len(file) THEN <<>>
      ELSE (IF read.line = <<>> THEN <<>> ELSE <<read.line>>) \o LinesFrom(file, read.next)

RECURSIVE Written(_)
Written(lines) == IF lines = <<>> THEN <<>> ELSE Head(lines) \o <<10>> \o Written(Tail(lines))

(* What the REPL is given, its state, and the file afterwards.  chosen is  *)
(* USSR_HISTFILE: "unset", "empty" or "file"; home that there is a home.   *)
ussr_history_load(repl, file, setting, chosen, home) ==
  LET size == history_size(setting)
      path == size > 0 /\ (chosen = "file" \/ (chosen = "unset" /\ home))
      lines == LinesFrom(file, 1)
      first == IF Len(lines) > size THEN Len(lines) - size ELSE 0
      kept == SubSeq(lines, first + 1, Len(lines))
  IN  IF ~path THEN [repl |-> [repl EXCEPT !.path = FALSE], file |-> file, entries |-> <<>>]
      ELSE [repl |-> [path |-> TRUE, last |-> IF kept = <<>> THEN repl.last ELSE kept[Len(kept)]],
            file |-> IF first > 0 THEN Written(kept) ELSE file, entries |-> kept]

ussr_history_append(repl, file, line) ==
  IF \/ ~repl.path \/ line = <<>> \/ \E i \in DOMAIN line : line[i] \in {10, 13}
     \/ repl.last = line
  THEN [repl |-> repl, file |-> file]
  ELSE [repl |-> [repl EXCEPT !.last = line], file |-> file \o line \o <<10>>]
=============================================================================
