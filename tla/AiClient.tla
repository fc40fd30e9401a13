------------------------------- MODULE AiClient -------------------------------
(***************************************************************************)
(* The prompt command (ai.c): the request it puts together from settings   *)
(* and a question, and the little JSON reading that takes the answer out   *)
(* of a reply.  Text is a sequence of bytes; a position past the end reads *)
(* as 0, and position 0 stands for NULL.  The names in requests and replies*)
(* are abbreviated to one letter.                                          *)
(***************************************************************************)
EXTENDS Integers, Sequences, SequencesExt

Quote == 34
Backslash == 92
At(t, p) == IF p \in DOMAIN t THEN t[p] ELSE 0
Spaces == {32, 9, 10, 13}
Digit == 48..57
Alnum == Digit \cup (65..90) \cup (97..122)
HexDigit == Digit \cup (65..70) \cup (97..102)
HexValue(c) == IF c \in Digit THEN c - 48 ELSE IF c >= 97 THEN c - 87 ELSE c - 55

Model == <<109>>
Tokens == <<116>>
System == <<115>>
Messages == <<77>>
Role == <<114>>
User == <<117>>
Content == <<99>>
Text == <<120>>
Offered == <<67>>
Message == <<103>>
Error == <<101>>

-----------------------------------------------------------------------------
(* A string as it stands in JSON, and in a curl configuration.             *)
HexText(n) == [i \in 1..4 |-> LET d == (n \div (<<4096, 256, 16, 1>>)[i]) % 16 IN IF d < 10 THEN 48 + d ELSE 87 + d]
JsonByte(c) ==
  CASE c \in {Quote, Backslash} -> <<Backslash, c>> [] c = 10 -> <<Backslash, 110>>
    [] c = 13 -> <<Backslash, 114>> [] c = 9 -> <<Backslash, 116>>
    [] c < 32 /\ c \notin {9, 10, 13} -> <<Backslash, 117>> \o HexText(c) [] OTHER -> <<c>>
Escape(s, Byte(_)) == FlattenSeq([i \in DOMAIN s |-> Byte(s[i])])
ai_add_json_string(s) == <<Quote>> \o Escape(s, JsonByte) \o <<Quote>>
ConfigByte(c) == IF c \in {Quote, Backslash} THEN <<Backslash, c>> ELSE <<c>>
ai_add_config_string(s) == <<Quote>> \o Escape(s, ConfigByte) \o <<Quote, 10>>

-----------------------------------------------------------------------------
(* Reading JSON. *)
RECURSIVE json_ws(_, _)
json_ws(t, p) == IF At(t, p) \in Spaces THEN json_ws(t, p + 1) ELSE p

RECURSIVE StringEnd(_, _)
StringEnd(t, p) ==
  CASE At(t, p) = 0 \/ (At(t, p) = Backslash /\ At(t, p + 1) = 0) -> 0
    [] At(t, p) = Backslash /\ At(t, p + 1) # 0 -> StringEnd(t, p + 2)
    [] At(t, p) = Quote -> p + 1
    [] OTHER -> StringEnd(t, p + 1)
json_skip_string(t, p) == IF At(t, p) # Quote THEN 0 ELSE StringEnd(t, p + 1)

RECURSIVE WordEnd(_, _)
WordEnd(t, p) == IF At(t, p) \in Alnum \cup {43, 45, 46} THEN WordEnd(t, p + 1) ELSE p

RECURSIVE json_skip(_, _), SkipItems(_, _, _)
(* From p, items up to the closing bracket. *)
SkipItems(t, p, close) ==
  LET name == json_skip_string(t, json_ws(t, p))
      colon == json_ws(t, name)
      value == IF close = 93 THEN p ELSE colon + 1
      after == json_skip(t, value)
      next == json_ws(t, after)
  IN  IF close = 125 /\ (name = 0 \/ At(t, colon) # 58) THEN 0
      ELSE IF after = 0 THEN 0
      ELSE CASE At(t, next) = 44 -> SkipItems(t, next + 1, close)
             [] At(t, next) = close -> next + 1
             [] OTHER -> 0
json_skip(t, from) ==
  LET p == json_ws(t, from)
      close == At(t, p) + 2
      first == json_ws(t, p + 1)
  IN  CASE At(t, p) = Quote -> json_skip_string(t, p)
        [] At(t, p) \in {123, 91} -> IF At(t, first) = close THEN first + 1 ELSE SkipItems(t, first, close)
        [] At(t, p) \in Alnum \cup {45} -> WordEnd(t, p)
        [] OTHER -> 0

Utf8(code) ==
  CASE code < 128 -> <<code>>
    [] code \in 128..2047 -> <<192 + (code \div 64), 128 + (code % 64)>>
    [] code \in 2048..65535 -> <<224 + (code \div 4096), 128 + ((code \div 64) % 64), 128 + (code % 64)>>
    [] OTHER -> <<240 + (code \div 262144), 128 + ((code \div 4096) % 64), 128 + ((code \div 64) % 64), 128 + (code % 64)>>

(* Four hexadecimal digits from p on, or -1. *)
Hex4(t, p) ==
  IF \E i \in 0..3 : At(t, p + i) \notin HexDigit THEN -1
  ELSE 4096 * HexValue(t[p]) + 256 * HexValue(t[p + 1]) + 16 * HexValue(t[p + 2]) + HexValue(t[p + 3])

NoText == [ok |-> FALSE, s |-> <<>>]
RECURSIVE StringFrom(_, _, _)
StringFrom(t, p, out) ==
  LET c == At(t, p + 1)
      code == Hex4(t, p + 2)
      pair == code \in 55296..56319 /\ At(t, p + 6) = Backslash /\ At(t, p + 7) = 117
              /\ Hex4(t, p + 8) \in 56320..57343
      whole == 65536 + (code - 55296) * 1024 + (Hex4(t, p + 8) - 56320)
      plain == CASE c = 110 -> 10 [] c = 116 -> 9 [] c = 114 -> 13 [] c = 98 -> 8 [] c = 102 -> 12 [] OTHER -> c
  IN  CASE At(t, p) = Quote -> [ok |-> TRUE, s |-> out]
        [] At(t, p) = 0 -> NoText
        [] At(t, p) \notin {0, Quote, Backslash} -> StringFrom(t, p + 1, Append(out, t[p]))
        [] At(t, p) = Backslash /\ c = 0 -> NoText
        [] At(t, p) = Backslash /\ c = 117 ->
             IF code < 0 THEN NoText
             ELSE IF pair THEN StringFrom(t, p + 12, out \o Utf8(whole)) ELSE StringFrom(t, p + 6, out \o Utf8(code))
        [] OTHER -> StringFrom(t, p + 2, Append(out, plain))
json_string(t, from) ==
  LET p == json_ws(t, from) IN IF At(t, p) # Quote THEN NoText ELSE StringFrom(t, p + 1, <<>>)

RECURSIVE Member(_, _, _)
Member(t, p, key) ==
  LET after == json_skip_string(t, p)
      colon == json_ws(t, after)
      value == json_ws(t, colon + 1)
      end == json_skip(t, value)
      comma == json_ws(t, end)
  IN  IF At(t, p) # Quote \/ after = 0 \/ At(t, colon) # 58 THEN 0
      ELSE IF SubSeq(t, p + 1, after - 2) = key THEN value
      ELSE IF end = 0 \/ At(t, comma) # 44 THEN 0
      ELSE Member(t, json_ws(t, comma + 1), key)
json_get(t, from, key) ==
  LET p == json_ws(t, from) IN IF from = 0 \/ At(t, p) # 123 THEN 0 ELSE Member(t, json_ws(t, p + 1), key)

RECURSIVE Element(_, _, _)
Element(t, p, index) ==
  LET end == json_skip(t, p)
      comma == json_ws(t, end)
  IN  IF index = 0 THEN p
      ELSE IF end = 0 \/ At(t, comma) # 44 THEN 0 ELSE Element(t, json_ws(t, comma + 1), index - 1)
json_at(t, from, index) ==
  LET p == json_ws(t, from)
      first == json_ws(t, p + 1)
  IN  IF from = 0 \/ At(t, p) # 91 \/ At(t, first) = 93 THEN 0 ELSE Element(t, first, index)

(* Along a path of names from the whole text on, <<>> standing for [0].     *)
Path(t, keys) ==
  FoldLeft(LAMBDA at, key : IF key = <<>> THEN json_at(t, at, 0) ELSE json_get(t, at, key), 1, keys)

-----------------------------------------------------------------------------
Said(s) == [ok |-> TRUE, why |-> "", s |-> s]
Sorry(why) == [ok |-> FALSE, why |-> why, s |-> <<>>]

(* Texts of the blocks from number i on; none when no block has one.       *)
RECURSIVE Blocks(_, _, _)
BlockText(t, at) == IF at = 0 THEN NoText ELSE json_string(t, at)
Joined(one, rest) == [ok |-> one.ok \/ rest.ok, s |-> one.s \o rest.s]
Blocks(t, content, i) ==
  IF json_at(t, content, i) = 0 THEN NoText
  ELSE Joined(BlockText(t, json_get(t, json_at(t, content, i), Text)), Blocks(t, content, i + 1))

Answered(answer) == IF answer.ok THEN Said(answer.s) ELSE Sorry("no answer")
ai_parse_answer(t, anthropic) ==
  IF Path(t, <<Error, Message>>) # 0 THEN Sorry("provider")
  ELSE Answered(IF anthropic THEN Blocks(t, Path(t, <<Content>>), 0)
                ELSE BlockText(t, Path(t, <<Offered, <<>>, Message, Content>>)))

-----------------------------------------------------------------------------
Pair(key, value) == ai_add_json_string(key) \o <<58>> \o value
Turn(role, text) == <<123>> \o Pair(Role, ai_add_json_string(role)) \o <<44>> \o Pair(Content, ai_add_json_string(text)) \o <<125>>
Body(anthropic, e, question) ==
  <<123>> \o Pair(Model, ai_add_json_string(<<97>>))
  \o (IF anthropic \/ e.tokens # "unset" THEN <<44>> \o Pair(Tokens, <<55>>) ELSE <<>>)
  \o (IF anthropic /\ e.system # <<>> THEN <<44>> \o Pair(System, ai_add_json_string(e.system)) ELSE <<>>)
  \o <<44>> \o Pair(Messages, <<91>> \o (IF ~anthropic /\ e.system # <<>> THEN Turn(System, e.system) \o <<44>> ELSE <<>>)
                              \o Turn(User, question) \o <<93>>)
  \o <<125>>

(* e are the settings; the reason a question is not asked at all, or "".    *)
Anthropic(e) == e.provider \in {"", "anthropic", "claude"}
Refusal(e) ==
  IF ~Anthropic(e) /\ e.provider # "openai" THEN "provider name"
  ELSE IF ~Anthropic(e) /\ ~e.model THEN "model"
  ELSE IF ~e.key /\ e.url = "default" THEN "key"
  ELSE IF e.tokens = "bad" \/ e.timeout = "bad" THEN "number" ELSE ""

Reported(parsed, status) ==
  IF parsed.ok \/ parsed.why = "provider" \/ status < 400 THEN parsed ELSE Sorry("status")

(* What is sent and by which way, and the answer; reply is what the way    *)
(* taken brings back.                                                      *)
ussr_ai_prompt(e, question, reply) ==
  LET native == ~e.curl /\ (e.url = "http" \/ (e.url \in {"default", "https"} /\ e.tls))
      nocurl == ~native /\ ~e.curl /\ ~e.path
      asked == [way |-> IF native THEN "native" ELSE "curl",
                body |-> IF native THEN Body(Anthropic(e), e, question)
                         ELSE ai_add_config_string(Body(Anthropic(e), e, question))]
  IN  IF Refusal(e) # "" \/ nocurl
      THEN [out |-> [way |-> "none", body |-> <<>>], r |-> Sorry(IF nocurl /\ Refusal(e) = "" THEN "curl" ELSE Refusal(e))]
      ELSE [out |-> asked,
            r |-> IF ~reply.ok THEN Sorry("transport")
                  ELSE Reported(ai_parse_answer(reply.text, Anthropic(e)), reply.status)]
=============================================================================
