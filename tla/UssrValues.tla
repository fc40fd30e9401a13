----------------------------- MODULE UssrValues -----------------------------
(***************************************************************************)
(* Values of the USSR language and the operators the virtual machine and   *)
(* the constant folder apply to them (src/src/main.c).                     *)
(*                                                                         *)
(* A value is a type tag and a tuple of integers, so that values of        *)
(* different types can be compared: an integer is <<n>>, a real is a       *)
(* reduced fraction <<n, d>> (the doubles the bounds reach are exact), a   *)
(* boolean is <<0>> or <<1>>, a string is the tuple of its pieces.         *)
(***************************************************************************)
EXTENDS Integers, Sequences, FiniteSetsExt, Bitwise

CONSTANT Width                  \* bits of ussr_int_t (64 in the program)

ASSUME WidthAssumption == Width \in Nat \ {0, 1}

Half     == 2 ^ (Width - 1)
Wrap(n)  == ((n + Half) % (2 * Half)) - Half
Bits(n)  == n % (2 * Half)       \* (uint64_t)n

ussr_null       == [t |-> "null", v |-> <<>>]
ussr_integer(n) == [t |-> "int",  v |-> <<Wrap(n)>>]
ussr_boolean(p) == [t |-> "bool", v |-> <<IF p THEN 1 ELSE 0>>]
ussr_string(s)  == [t |-> "str",  v |-> s]
Err             == [t |-> "err",  v |-> <<>>]

Abs(n)   == IF n < 0 THEN -n ELSE n
Gcd(n, d) == Max({k \in 1..d : n % k = 0 /\ d % k = 0})

\* The quotient of two integers as a double; the divisor is not zero.
ussr_real(n, d) ==
    LET p == IF d < 0 THEN -n ELSE n
        q == Abs(d)
        g == Gcd(p, q)
    IN  [t |-> "real", v |-> <<p \div g, q \div g>>]

vm_numeric(v) == v.t \in {"int", "real"}
IsInt(v)      == v.t = "int"
Num(v)        == v.v[1]
Den(v)        == IF IsInt(v) THEN 1 ELSE v.v[2]

vm_truthy(v) ==
    \/ v.t \in {"bool", "int", "real"} /\ v.v[1] # 0
    \/ v.t = "str" /\ v.v # <<>>

\* Numbers compare by value whatever their types, everything else only
\* with a value of its own type.
vm_equal(a, b) ==
    IF vm_numeric(a) /\ vm_numeric(b)
    THEN Num(a) * Den(b) = Num(b) * Den(a)
    ELSE a = b

ussr_int_mod(a, b) ==            \* C's remainder: the sign of the dividend
    IF b = -1 THEN 0
    ELSE IF a < 0 THEN -((-a) % Abs(b)) ELSE a % Abs(b)

Arithmetic  == {"ADD", "SUB", "MUL", "DIV", "MOD"}
Comparison  == {"LT", "LE", "GT", "GE"}
Bitwise2    == {"XOR", "BAND", "BOR"}
Shift       == {"SHL", "SHR"}
BinaryOps   == Arithmetic \cup Comparison \cup Bitwise2 \cup Shift
                \cup {"EQ", "NE", "LAND", "LOR"}

Compare(op, a, b) ==
    LET l == Num(a) * Den(b)
        r == Num(b) * Den(a)
    IN  CASE op = "LT" -> l < r [] op = "LE" -> l <= r
          [] op = "GT" -> l > r [] op = "GE" -> l >= r

RealArithmetic(op, a, b) ==
    LET n == Num(a)  d == Den(a)  m == Num(b)  e == Den(b)
    IN  CASE op = "ADD" -> ussr_real(n * e + m * d, d * e)
          [] op = "SUB" -> ussr_real(n * e - m * d, d * e)
          [] op = "MUL" -> ussr_real(n * m, d * e)
          [] op = "DIV" -> ussr_real(n * e, d * m)

IntArithmetic(op, a, b) ==
    CASE op = "ADD" -> ussr_integer(a + b)
      [] op = "SUB" -> ussr_integer(a - b)
      [] op = "MUL" -> ussr_integer(a * b)
      [] op = "MOD" -> ussr_integer(ussr_int_mod(a, b))

BitOperation(op, a, b) ==
    CASE op = "XOR"  -> ussr_integer(Bits(a) ^^ Bits(b))
      [] op = "BAND" -> ussr_integer(Bits(a) & Bits(b))
      [] op = "BOR"  -> ussr_integer(Bits(a) | Bits(b))

\* vm_binary: division is always real, % needs integers and a divisor,
\* order needs numbers, shifts a count below the width; >> keeps the sign.
vm_binary(op, l, r) ==
    CASE op = "EQ"   -> ussr_boolean(vm_equal(l, r))
      [] op = "NE"   -> ussr_boolean(~vm_equal(l, r))
      [] op = "LAND" -> ussr_boolean(vm_truthy(l) /\ vm_truthy(r))
      [] op = "LOR"  -> ussr_boolean(vm_truthy(l) \/ vm_truthy(r))
      [] op \in Arithmetic ->
           IF \/ ~vm_numeric(l) \/ ~vm_numeric(r)
              \/ op = "DIV" /\ Num(r) = 0
              \/ op = "MOD" /\ (~IsInt(l) \/ ~IsInt(r) \/ Num(r) = 0)
           THEN Err
           ELSE IF IsInt(l) /\ IsInt(r) /\ op # "DIV"
                THEN IntArithmetic(op, Num(l), Num(r))
                ELSE RealArithmetic(op, l, r)
      [] op \in Comparison ->
           IF vm_numeric(l) /\ vm_numeric(r) THEN ussr_boolean(Compare(op, l, r)) ELSE Err
      [] op \in Bitwise2 ->
           IF IsInt(l) /\ IsInt(r) THEN BitOperation(op, Num(l), Num(r)) ELSE Err
      [] op \in Shift ->
           IF IsInt(l) /\ IsInt(r) /\ Num(r) \in 0..(Width - 1)
           THEN IF op = "SHL" THEN ussr_integer(Num(l) * 2 ^ Num(r))
                              ELSE ussr_integer(Num(l) \div 2 ^ Num(r))
           ELSE Err

\* The folder applies the machine's own operators to literals.
vm_fold_binary(op, l, r) == vm_binary(op, l, r)

\* Unary minus; the negation of the least integer wraps in this build.
Negate(v) ==
    CASE v.t = "int"  -> ussr_integer(-Num(v))
      [] v.t = "real" -> ussr_real(-Num(v), Den(v))
      [] OTHER        -> Err

=============================================================================
