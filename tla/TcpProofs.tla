------------------------------ MODULE TcpProofs ------------------------------
(***************************************************************************)
(* Proofs about Moscow's TCP: that both programs of a conversation read    *)
(* what the other wrote, whatever the network does, for every size of      *)
(* window and segment, number of sockets and length of the streams.        *)
(***************************************************************************)
EXTENDS MoscowTcp, SequenceTheorems, FiniteSetTheorems, TLAPS

-----------------------------------------------------------------------------
(* Numbers *)
R == SeqRange
Gap == SeqRange \div (MaxConns + 1)

(* What the assumption comes to: conversations fit between the numbers of two sockets. *)
LEMMA Constants ==
    /\ R \in Nat \ {0} /\ Gap \in Nat /\ MaxBytes + 2 < Gap
    /\ Mss \in Nat \ {0} /\ Offered \in Nat \ {0} /\ MaxConns \in Nat \ {0} /\ MaxTries \in Nat /\ MaxBytes \in Nat
    /\ R \div 2 \in Nat /\ MaxBytes + 2 < R \div 2
    /\ \A h \in Handles : h * Gap \in Nat /\ Gap <= h * Gap /\ h * Gap + Gap <= R
<1>1. /\ R \in Nat /\ Mss \in Nat \ {0} /\ Offered \in Nat \ {0} /\ MaxConns \in Nat \ {0} /\ MaxTries \in Nat /\ MaxBytes \in Nat
      /\ MaxBytes + 2 < Gap
  BY TcpAssumption DEF R, Gap
<1>2. Gap \in Int /\ (MaxConns + 1) * Gap <= R
  BY <1>1 DEF R, Gap
<1>3. Gap \in Nat /\ R \in Nat \ {0}
  <2>1. Gap \in Nat
    BY <1>1, <1>2
  <2>2. (MaxConns + 1) * Gap = MaxConns * Gap + Gap /\ MaxConns * Gap \in Nat
    BY <1>1, <2>1
  <2> QED BY <1>1, <1>2, <2>1, <2>2
<1>4. R \div 2 \in Nat /\ R - 1 <= 2 * (R \div 2)
  BY <1>3
<1>5. MaxBytes + 2 < R \div 2
  <2>1. MaxConns * Gap >= Gap /\ (MaxConns + 1) * Gap = MaxConns * Gap + Gap /\ MaxConns * Gap \in Nat
    BY <1>1, <1>3
  <2>2. 2 * Gap <= R
    BY <1>2, <1>3, <2>1
  <2>3. Gap <= R \div 2
    BY <2>2, <1>3, <1>4
  <2> QED BY <2>3, <1>1, <1>3, <1>4
<1>6. ASSUME NEW h \in Handles PROVE h * Gap \in Nat /\ Gap <= h * Gap /\ h * Gap + Gap <= R
  <2>1. h \in Nat /\ 1 <= h /\ h <= MaxConns
    BY <1>1 DEF Handles
  <2>2. h * Gap \in Nat /\ Gap <= h * Gap
    BY <2>1, <1>3
  <2>3. h * Gap + Gap = (h + 1) * Gap /\ h + 1 <= MaxConns + 1
    BY <2>1, <1>1, <1>3
  <2>4. (h + 1) * Gap <= (MaxConns + 1) * Gap
    <3>1. ((MaxConns + 1) - (h + 1)) * Gap >= 0
      BY <2>1, <1>1, <1>3
    <3> QED BY <3>1, <2>1, <1>1, <1>3
  <2> QED BY <2>2, <2>3, <2>4, <1>2, <1>3, <2>1, <1>1
<1> QED BY <1>1, <1>3, <1>4, <1>5, <1>6

(* Remainders. *)
LEMMA ModFacts ==
    ASSUME NEW a \in Int
    PROVE  /\ a % R \in 0..(R - 1)
           /\ \E q \in Int : a = q * R + (a % R)
<1>1. R \in Nat \ {0}
  BY Constants
<1>2. a = R * (a \div R) + (a % R) /\ a \div R \in Int /\ a % R \in 0..(R - 1)
  BY <1>1
<1>3. a = (a \div R) * R + (a % R)
  BY <1>1, <1>2
<1> QED BY <1>2, <1>3

LEMMA ModUnique ==
    ASSUME NEW q \in Int, NEW p \in Int, NEW x \in 0..(R - 1), NEW y \in 0..(R - 1), q * R + x = p * R + y
    PROVE  x = y
<1>0. R \in Nat \ {0}
  BY Constants
<1>1. CASE q < p
  <2>1. p - q >= 1 /\ (p - q) * R >= R
    BY <1>0, <1>1
  <2> QED BY <2>1, <1>0
<1>2. CASE q > p
  <2>1. q - p >= 1 /\ (q - p) * R >= R
    BY <1>0, <1>2
  <2> QED BY <2>1, <1>0
<1>3. CASE q = p
  BY <1>3, <1>0
<1> QED BY <1>1, <1>2, <1>3

LEMMA ModIs ==
    ASSUME NEW a \in Int, NEW q \in Int, NEW x \in 0..(R - 1), a = q * R + x
    PROVE  a % R = x
<1>1. PICK p \in Int : a = p * R + (a % R)
  BY ModFacts
<1>2. a % R \in 0..(R - 1)
  BY ModFacts
<1> QED BY <1>1, <1>2, ModUnique

LEMMA ModAdd ==
    ASSUME NEW a \in Int, NEW n \in Int
    PROVE  ((a % R) + n) % R = (a + n) % R
<1>0. R \in Nat \ {0}
  BY Constants
<1>1. PICK p \in Int : a = p * R + (a % R)
  BY ModFacts
<1>2. a % R \in 0..(R - 1) /\ (a % R) + n \in Int
  BY ModFacts
<1>3. PICK q \in Int : (a % R) + n = q * R + (((a % R) + n) % R)
  BY <1>2, ModFacts
<1>4. ((a % R) + n) % R \in 0..(R - 1)
  BY <1>2, ModFacts
<1>5. a + n = (p + q) * R + (((a % R) + n) % R)
  <2> DEFINE pR == p * R
             qR == q * R
             x  == a % R
             y  == (x + n) % R
  <2>1. (p + q) * R = pR + qR /\ pR \in Int /\ qR \in Int
    BY <1>0
  <2>2. a = pR + x /\ x + n = qR + y /\ x \in Int /\ y \in Int
    BY <1>0, <1>1, <1>2, <1>3, <1>4
  <2> HIDE DEF pR, qR, x, y
  <2>3. a + n = (pR + qR) + y
    BY <2>1, <2>2
  <2> QED BY <2>1, <2>3 DEF y, x
<1> QED BY <1>4, <1>5, ModIs

(* The difference of two numbers that are less than half the range apart. *)
LEMMA ModDiff ==
    ASSUME NEW a \in Int, NEW b \in Int, a - b \in -(MaxBytes + 2)..(MaxBytes + 2)
    PROVE  net_seq_diff(a % R, b % R) = a - b
<1>0. R \in Nat \ {0} /\ R \div 2 \in Nat /\ MaxBytes + 2 < R \div 2 /\ R \div 2 <= R /\ MaxBytes \in Nat
  BY Constants
<1>1. PICK p \in Int : a = p * R + (a % R)
  BY ModFacts
<1>2. PICK q \in Int : b = q * R + (b % R)
  BY ModFacts
<1>3. a % R \in 0..(R - 1) /\ b % R \in 0..(R - 1)
  BY ModFacts
<1>4. (a % R) - (b % R) = (a - b) + (q - p) * R
  <2> DEFINE pR == p * R
             qR == q * R
             x  == a % R
             y  == b % R
  <2>1. (q - p) * R = qR - pR /\ pR \in Int /\ qR \in Int
    BY <1>0
  <2>2. a = pR + x /\ b = qR + y /\ x \in Int /\ y \in Int
    BY <1>0, <1>1, <1>2, <1>3
  <2> HIDE DEF pR, qR, x, y
  <2>3. x - y = (a - b) + (qR - pR)
    BY <2>1, <2>2
  <2> QED BY <2>1, <2>3 DEF x, y
<1>5. CASE a >= b
  <2>1. a - b \in 0..(R - 1)
    BY <1>0, <1>5
  <2>2. (a % R) - (b % R) = (q - p) * R + (a - b) /\ q - p \in Int /\ (a % R) - (b % R) \in Int
    BY <1>0, <1>3, <1>4
  <2>3. ((a % R) - (b % R)) % R = a - b
    BY <2>1, <2>2, ModIs
  <2> QED BY <1>0, <1>5, <2>3 DEF net_seq_diff, R
<1>6. CASE a < b
  <2>1. (a - b) + R \in 0..(R - 1)
    BY <1>0, <1>6
  <2>2. (a % R) - (b % R) = ((q - p) - 1) * R + ((a - b) + R) /\ (q - p) - 1 \in Int /\ (a % R) - (b % R) \in Int
    BY <1>0, <1>3, <1>4
  <2>3. ((a % R) - (b % R)) % R = (a - b) + R
    BY <2>1, <2>2, ModIs
  <2>4. (a - b) + R >= R \div 2
    BY <1>0
  <2> QED BY <1>0, <1>6, <2>3, <2>4 DEF net_seq_diff, R
<1> QED BY <1>5, <1>6

(* The number of position k in what socket h of machine m sends. *)
Num(m, h, k) == net_seq_add(net_iss(m, h), k + 1)

(* Numbers of positions: they move together, and near ones are told apart. *)
LEMMA IssInt ==
    ASSUME NEW m \in Machines, NEW h \in Handles
    PROVE  net_iss(m, h) \in Int /\ net_iss("server", h) = h * Gap
<1>1. R \in Nat \ {0} /\ h * Gap \in Nat
  BY Constants
<1>2. net_iss("server", h) = h * Gap
  BY DEF net_iss, Gap
<1>3. CASE m = "client"
  BY <1>1, <1>2, <1>3 DEF net_iss, R
<1>4. CASE m = "server"
  BY <1>1, <1>2, <1>4
<1> QED BY <1>2, <1>3, <1>4 DEF Machines

LEMMA NumInt ==
    ASSUME NEW m \in Machines, NEW h \in Handles, NEW k \in Int
    PROVE  Num(m, h, k) \in Int
<1>1. net_iss(m, h) + (k + 1) \in Int
  BY IssInt
<1> QED BY <1>1, ModFacts, Constants DEF Num, net_seq_add, R

LEMMA NumAdd ==
    ASSUME NEW m \in Machines, NEW h \in Handles, NEW k \in Int, NEW n \in Int
    PROVE  net_seq_add(Num(m, h, k), n) = Num(m, h, k + n)
<1> DEFINE b == net_iss(m, h)
<1>1. b \in Int
  BY IssInt
<1> HIDE DEF b
<1>2. (((b + (k + 1)) % R) + n) % R = ((b + (k + 1)) + n) % R
  BY <1>1, ModAdd
<1>3. (b + (k + 1)) + n = b + ((k + n) + 1)
  BY <1>1
<1> QED BY <1>2, <1>3 DEF Num, net_seq_add, R, b

LEMMA NumDiff ==
    ASSUME NEW m \in Machines, NEW h \in Handles, NEW j \in Int, NEW k \in Int,
           j - k \in -(MaxBytes + 2)..(MaxBytes + 2)
    PROVE  net_seq_diff(Num(m, h, j), Num(m, h, k)) = j - k
<1> DEFINE b == net_iss(m, h)
<1>1. b \in Int
  BY IssInt
<1> HIDE DEF b
<1>2. b + (j + 1) \in Int /\ b + (k + 1) \in Int /\ (b + (j + 1)) - (b + (k + 1)) = j - k
  BY <1>1
<1>3. net_seq_diff((b + (j + 1)) % R, (b + (k + 1)) % R) = j - k
  BY <1>2, ModDiff
<1> QED BY <1>3 DEF Num, net_seq_add, R, b

LEMMA NumSame ==
    ASSUME NEW m \in Machines, NEW h \in Handles, NEW j \in 0..(MaxBytes + 1), NEW k \in 0..(MaxBytes + 1),
           Num(m, h, j) = Num(m, h, k)
    PROVE  j = k
<1>0. MaxBytes \in Nat
  BY Constants
<1>1. net_seq_diff(Num(m, h, j), Num(m, h, k)) = j - k
  BY <1>0, NumDiff
<1>2. net_seq_diff(Num(m, h, k), Num(m, h, k)) = k - k
  BY <1>0, NumDiff
<1> QED BY <1>0, <1>1, <1>2

(* Numbers of different sockets of the server differ, and none is 0. *)
LEMMA ServerNum ==
    ASSUME NEW h \in Handles, NEW k \in 0..(MaxBytes + 1)
    PROVE  Num("server", h, k) = h * Gap + (k + 1) /\ Num("server", h, k) # 0
<1>1. /\ R \in Nat \ {0} /\ Gap \in Nat /\ MaxBytes \in Nat /\ MaxBytes + 2 < Gap
      /\ h * Gap \in Nat /\ Gap <= h * Gap /\ h * Gap + Gap <= R
  BY Constants
<1>2. net_iss("server", h) = h * Gap
  BY IssInt DEF Machines
<1> DEFINE x == h * Gap
<1>3. x + (k + 1) \in 0..(R - 1) /\ x + (k + 1) \in Int /\ x + (k + 1) = 0 * R + (x + (k + 1)) /\ x + (k + 1) # 0
  <2> HIDE DEF x
  <2>1. x \in Nat /\ x + Gap <= R
    BY <1>1 DEF x
  <2>2. 0 * R = 0
    BY <1>1
  <2> QED BY <1>1, <2>1, <2>2
<1>4. (x + (k + 1)) % R = x + (k + 1)
  BY <1>3, ModIs
<1> QED BY <1>2, <1>3, <1>4 DEF Num, net_seq_add, R

(* No number belongs to two sockets of the server. *)
LEMMA Apart ==
    ASSUME NEW h \in Handles, NEW i \in Handles, NEW j \in 0..(MaxBytes + 1), NEW k \in 0..(MaxBytes + 1),
           Num("server", h, j) = Num("server", i, k)
    PROVE  h = i /\ j = k
<1>1. Gap \in Nat /\ MaxBytes \in Nat /\ MaxBytes + 2 < Gap /\ h * Gap \in Nat /\ i * Gap \in Nat /\ h \in Nat /\ i \in Nat
  BY Constants DEF Handles
<1>2. h * Gap + (j + 1) = i * Gap + (k + 1)
  BY ServerNum
<1>3. ASSUME NEW p \in Handles, NEW q \in Handles, p < q
      PROVE  p * Gap + Gap <= q * Gap
  <2>1. p \in Nat /\ q \in Nat /\ p * Gap \in Nat /\ q * Gap \in Nat
    BY Constants DEF Handles
  <2>2. (q - p) * Gap >= Gap
    BY <1>1, <1>3, <2>1
  <2> QED BY <1>1, <2>1, <2>2
<1> DEFINE x == h * Gap
           y == i * Gap
<1>4. x \in Nat /\ y \in Nat /\ x + (j + 1) = y + (k + 1) /\ (h < i => x + Gap <= y) /\ (i < h => y + Gap <= x)
  BY <1>1, <1>2, <1>3
<1>5. h = i
  <2> HIDE DEF x, y
  <2> QED BY <1>1, <1>4
<1> QED BY <1>5, <1>2, <1>1

-----------------------------------------------------------------------------
(* Bytes: the k-th that a program sends is k, so what a socket keeps or a segment carries is a run of numbers. *)
Run(a, n) == [x \in 1..n |-> a + x]

(* Runs: their parts, and what is joined to them, are runs. *)
LEMMA RunFacts ==
    ASSUME NEW a \in Int, NEW n \in Nat
    PROVE  /\ Run(a, n) \in Seq(Int) /\ Len(Run(a, n)) = n
           /\ \A x \in 1..n : Run(a, n)[x] = a + x
           /\ Run(a, n) = <<>> <=> n = 0
<1>1. Run(a, n) \in [1..n -> Int]
  BY DEF Run
<1>2. Run(a, n) \in Seq(Int) /\ Len(Run(a, n)) = n
  BY <1>1
<1>3. \A x \in 1..n : Run(a, n)[x] = a + x
  BY DEF Run
<1>4. Run(a, n) = <<>> <=> n = 0
  BY <1>2, EmptySeq
<1> QED BY <1>2, <1>3, <1>4

LEMMA RunIs ==
    ASSUME NEW a \in Int, NEW n \in Nat, NEW s \in Seq(Int), Len(s) = n, \A x \in 1..n : s[x] = a + x
    PROVE  s = Run(a, n)
<1>1. Run(a, n) \in Seq(Int) /\ Len(Run(a, n)) = n /\ \A x \in 1..n : Run(a, n)[x] = a + x
  BY RunFacts
<1> QED BY <1>1, SeqEqual

LEMMA RunSub ==
    ASSUME NEW a \in Int, NEW n \in Nat, NEW p \in Nat \ {0}, NEW q \in Nat, q <= n, p <= q + 1
    PROVE  SubSeq(Run(a, n), p, q) = Run(a + (p - 1), q - (p - 1))
<1>1. Run(a, n) \in Seq(Int) /\ Len(Run(a, n)) = n /\ \A x \in 1..n : Run(a, n)[x] = a + x
  BY RunFacts
<1>2. \A x \in p..q : Run(a, n)[x] \in Int
  BY <1>1
<1>3. /\ SubSeq(Run(a, n), p, q) \in Seq(Int)
      /\ Len(SubSeq(Run(a, n), p, q)) = IF p <= q THEN q - p + 1 ELSE 0
      /\ \A x \in 1..(q - p + 1) : SubSeq(Run(a, n), p, q)[x] = Run(a, n)[p + x - 1]
  BY <1>2, SubSeqProperties
<1>4. Len(SubSeq(Run(a, n), p, q)) = q - (p - 1) /\ q - (p - 1) \in Nat /\ a + (p - 1) \in Int
  BY <1>3
<1>5. ASSUME NEW x \in 1..(q - (p - 1)) PROVE SubSeq(Run(a, n), p, q)[x] = (a + (p - 1)) + x
  <2>1. p + x - 1 \in 1..n /\ x \in 1..(q - p + 1)
    OBVIOUS
  <2> QED BY <1>1, <1>3, <2>1
<1> QED BY <1>3, <1>4, <1>5, RunIs

LEMMA RunAppend ==
    ASSUME NEW a \in Int, NEW n \in Nat
    PROVE  Append(Run(a, n), a + (n + 1)) = Run(a, n + 1)
<1>1. Run(a, n) \in Seq(Int) /\ Len(Run(a, n)) = n /\ \A x \in 1..n : Run(a, n)[x] = a + x
  BY RunFacts
<1>2. /\ Append(Run(a, n), a + (n + 1)) \in Seq(Int)
      /\ Len(Append(Run(a, n), a + (n + 1))) = n + 1
      /\ \A x \in 1..(n + 1) : Append(Run(a, n), a + (n + 1))[x] = a + x
  BY <1>1
<1>3. n + 1 \in Nat
  OBVIOUS
<1> QED BY <1>2, <1>3, RunIs

LEMMA RunConcat ==
    ASSUME NEW a \in Int, NEW n \in Nat, NEW k \in Nat
    PROVE  Run(a, n) \o Run(a + n, k) = Run(a, n + k)
<1>1. Run(a, n) \in Seq(Int) /\ Len(Run(a, n)) = n /\ \A x \in 1..n : Run(a, n)[x] = a + x
  BY RunFacts
<1>2. a + n \in Int
  OBVIOUS
<1>3. Run(a + n, k) \in Seq(Int) /\ Len(Run(a + n, k)) = k /\ \A x \in 1..k : Run(a + n, k)[x] = (a + n) + x
  BY <1>2, RunFacts
<1> DEFINE s == Run(a, n)
           t == Run(a + n, k)
<1>4. /\ s \o t \in Seq(Int)
      /\ Len(s \o t) = n + k
      /\ \A x \in 1..(n + k) : (s \o t)[x] = IF x <= n THEN s[x] ELSE t[x - n]
  <2> s \in Seq(Int) /\ t \in Seq(Int) /\ Len(s) = n /\ Len(t) = k
    BY <1>1, <1>3
  <2> HIDE DEF s, t
  <2> QED BY ConcatProperties
<1>5. \A x \in 1..(n + k) : (s \o t)[x] = a + x
  <2> TAKE x \in 1..(n + k)
  <2>1. CASE x <= n
    BY <1>1, <1>4, <2>1
  <2>2. CASE x > n
    <3>1. x - n \in 1..k /\ (a + n) + (x - n) = a + x
      BY <2>2
    <3> QED BY <1>3, <1>4, <2>2, <3>1
  <2>3. x <= n \/ x > n
    OBVIOUS
  <2> QED BY <2>1, <2>2, <2>3
<1>6. n + k \in Nat
  OBVIOUS
<1> HIDE DEF s, t
<1>7. s \o t = Run(a, n + k)
  BY <1>4, <1>5, <1>6, RunIs
<1> QED BY <1>7 DEF s, t

LEMMA RunPrefix ==
    ASSUME NEW p \in Nat, NEW n \in Nat, p <= n
    PROVE  IsPrefix(Run(0, p), Run(0, n))
<1>1. Len(Run(0, p)) = p /\ Len(Run(0, n)) = n
  BY RunFacts
<1>2. ASSUME NEW r \in Nat, p <= r
      PROVE  SubSeq(Run(0, r), 1, p) = Run(0, p)
  <2>1. 0 \in Int /\ 1 \in Nat \ {0} /\ 1 <= p + 1 /\ 0 + (1 - 1) = 0 /\ p - (1 - 1) = p
    OBVIOUS
  <2>2. SubSeq(Run(0, r), 1, p) = Run(0 + (1 - 1), p - (1 - 1))
    BY <1>2, <2>1, RunSub, ZenonT(90)
  <2> QED BY <2>1, <2>2
<1> QED BY <1>1, <1>2 DEF IsPrefix

(* Types of a socket and of a segment. *)
States == {"new", "syn_sent", "syn_rcvd", "est", "closed"}
Sockets ==
    [state : States, own : BOOLEAN, held : BOOLEAN, linked : BOOLEAN, queued : BOOLEAN,
     rx : Seq(Int), txq : Seq(Int), txseq : Int, snd_una : Int, snd_nxt : Int, rcv_nxt : Int,
     fin_rcvd : BOOLEAN, fin_sent : BOOLEAN, fin_acked : BOOLEAN, fin_seq : Int,
     closed : BOOLEAN, reset : BOOLEAN, rto : BOOLEAN, tries : Int, linger : BOOLEAN, sent : Seq(Int)]
Segments == [flags : SUBSET {"syn", "ack", "fin", "rst", "psh"}, seq : Int, ack : Int, data : Seq(Int)]

(* How many bytes have been acknowledged, how many numbers the acknowledged and the received take. *)
Bit(b) == IF b THEN 1 ELSE 0
Done(c) == Len(c.sent) - Len(c.txq)
Ackd(c) == Done(c) + Bit(c.fin_acked)
Got(c) == Len(c.rx) + Bit(c.fin_rcvd)

Streams(c) ==
    /\ c.sent = Run(0, Len(c.sent)) /\ Len(c.sent) <= MaxBytes
    /\ c.rx = Run(0, Len(c.rx)) /\ Len(c.rx) <= MaxBytes
    /\ Len(c.txq) <= Len(c.sent) /\ c.txq = Run(Done(c), Len(c.txq))

(* c has sent u of its bytes since it last went back. *)
Flows(m, h, c, u) ==
    /\ u \in Int /\ Done(c) <= u /\ u <= Len(c.sent)
    /\ c.txseq = Num(m, h, Done(c))
    /\ c.snd_una = Num(m, h, Ackd(c))
    /\ c.snd_nxt = Num(m, h, u + Bit(c.fin_sent))
    /\ c.fin_sent => u = Len(c.sent) /\ c.closed /\ c.fin_seq = Num(m, h, Len(c.sent))
    /\ c.fin_acked => c.fin_sent /\ Len(c.txq) = 0

Begun(m, h, c) == c.snd_una = net_iss(m, h) /\ c.snd_nxt = Num(m, h, 0) /\ c.txseq = Num(m, h, 0) /\ c.rto

Blank(c) ==
    /\ c.rx = <<>> /\ c.txq = <<>> /\ c.sent = <<>>
    /\ ~c.fin_rcvd /\ ~c.fin_sent /\ ~c.fin_acked /\ ~c.closed

(* What either kind of socket keeps. *)
Timed(c) == c.linked => c.state \notin {"new", "closed"} /\ (Owes(c) => c.rto)

(* The server's socket that heard a call and knows nothing of an answer. *)
Waits(m, h, c) == m = "server" /\ Blank(c) /\ Begun(m, h, c) /\ ~c.own /\ ~c.queued

(* Socket h of machine m in the conversation with socket p of the other. *)
Follows(m, h, p, c) == Streams(c) /\ c.rcv_nxt = Num(Peer(m), p, Got(c))
Ready(m, h, p, c) == Follows(m, h, p, c) /\ c.state = "est" /\ \E u \in 0..MaxBytes : Flows(m, h, c, u)

End(m, h, p, c) ==
    /\ Timed(c) /\ Follows(m, h, p, c)
    /\ \/ c.state = "syn_rcvd" /\ Waits(m, h, c)
       \/ c.state = "closed"
       \/ Ready(m, h, p, c)

(* A socket in no conversation. *)
Quiet(i, m, h, c) ==
    /\ Timed(c) /\ Blank(c)
    /\ c.state = "new" => c = net_new_sock
    /\ c.state = "syn_sent" => m = "client" /\ h = 1 /\ i = 0 /\ Begun(m, h, c)
    /\ c.state = "syn_rcvd" => Waits(m, h, c)
    /\ c.state # "est"
    /\ m = "server" /\ c.state # "new" => c.rcv_nxt = Num("client", 1, 0)
    /\ m = "client" /\ h # 1 => c.state = "new"

(* c has what d sent, and d has what c knows to have arrived. *)
Pair(c, d) ==
    /\ Len(c.rx) <= Len(d.sent) /\ Done(c) <= Len(d.rx)
    /\ c.fin_rcvd => Len(c.rx) = Len(d.sent) /\ d.closed
    /\ c.fin_acked => Len(d.rx) = Len(c.sent) /\ d.fin_rcvd

(* A segment that c, at the same place, has sent. *)
Says(m, h, p, c, g) ==
    /\ "ack" \in g.flags /\ "syn" \notin g.flags
    /\ \E k \in 0..(MaxBytes + 1) :
          /\ g.seq = Num(m, h, k)
          /\ g.data # <<>> => k + Len(g.data) <= Len(c.sent) /\ g.data = Run(k, Len(g.data)) /\ "fin" \notin g.flags
          /\ "fin" \in g.flags => k = Len(c.sent) /\ c.closed
    /\ \E j \in 0..Got(c) : g.ack = Num(Peer(m), p, j)

(* The socket of machine m in the conversation with the server's socket i; 0 while there is none. *)
At(i, m) == IF m = "client" THEN 1 ELSE i
IsEnd(i, m, h) == i # 0 /\ h = At(i, m)
Fits(i, m, h, c) == IF IsEnd(i, m, h) THEN End(m, h, At(i, Peer(m)), c) ELSE Quiet(i, m, h, c)
Other(i, s, m) == s[Peer(m)][At(i, Peer(m))]

(* Segments of a call and of the answer to it. *)
Call(x) == x.to = "server" /\ x.seg.flags = {"syn"} /\ x.seg.seq = net_iss("client", 1) /\ x.seg.data = <<>>
Answer(s, x) ==
    /\ x.to = "client" /\ x.seg.flags = {"syn", "ack"} /\ x.seg.data = <<>> /\ x.seg.ack = Num("client", 1, 0)
    /\ \E h \in Handles : x.seg.seq = net_iss("server", h) /\ s["server"][h].state # "new"
Speech(i, s, x) ==
    i # 0 /\ LET m == Peer(x.to) IN Says(m, At(i, m), At(i, x.to), s[m][At(i, m)], x.seg)

OnWire(i, s, x) ==
    /\ x \in [to : Machines, seg : Segments]
    /\ ("rst" \in x.seg.flags /\ "syn" \notin x.seg.flags) \/ Call(x) \/ Answer(s, x) \/ Speech(i, s, x)

Sound(i, s, w) ==
    /\ i \in 0..MaxConns
    /\ s \in [Machines -> [Handles -> Sockets]]
    /\ \A m \in Machines, h \in Handles : Fits(i, m, h, s[m][h])
    /\ i # 0 => Pair(s["client"][1], s["server"][i]) /\ Pair(s["server"][i], s["client"][1])
    /\ \A x \in w : OnWire(i, s, x)

Conversation == \E i \in 0..MaxConns : Sound(i, socks, wire)
TcpInv == listening \in BOOLEAN /\ Conversation

-----------------------------------------------------------------------------
(* Sending *)

(* Small facts about machines and sockets. *)
LEMMA Peers == \A m \in Machines : Peer(m) \in Machines /\ Peer(Peer(m)) = m
BY DEF Machines, Peer

LEMMA BitIs == \A b : Bit(b) \in 0..1 /\ Bit(TRUE) = 1 /\ Bit(FALSE) = 0
BY DEF Bit

LEMMA SocketTypes ==
    ASSUME NEW c \in Sockets
    PROVE  /\ c.sent \in Seq(Int) /\ c.rx \in Seq(Int) /\ c.txq \in Seq(Int)
           /\ Len(c.sent) \in Nat /\ Len(c.rx) \in Nat /\ Len(c.txq) \in Nat
           /\ Done(c) \in Int /\ Got(c) \in Nat
           /\ c.fin_rcvd \in BOOLEAN /\ c.fin_acked \in BOOLEAN /\ c.fin_sent \in BOOLEAN /\ c.closed \in BOOLEAN
<1>1. c.sent \in Seq(Int) /\ c.rx \in Seq(Int) /\ c.txq \in Seq(Int)
  BY DEF Sockets
<1>2. Len(c.sent) \in Nat /\ Len(c.rx) \in Nat /\ Len(c.txq) \in Nat
  BY <1>1
<1>3. Bit(c.fin_rcvd) \in 0..1
  BY BitIs
<1>4. Done(c) \in Int /\ Got(c) \in Nat
  BY <1>2, <1>3 DEF Done, Got
<1>5. c.fin_rcvd \in BOOLEAN /\ c.fin_acked \in BOOLEAN /\ c.fin_sent \in BOOLEAN /\ c.closed \in BOOLEAN
  BY DEF Sockets
<1> QED BY <1>1, <1>2, <1>4, <1>5

LEMMA Lengths ==
    ASSUME NEW c \in Sockets, Streams(c)
    PROVE  /\ MaxBytes \in Nat
           /\ Len(c.sent) \in 0..MaxBytes /\ Len(c.rx) \in 0..MaxBytes /\ Len(c.txq) \in Nat
           /\ Done(c) \in Nat /\ Done(c) + Len(c.txq) = Len(c.sent)
           /\ Got(c) \in 0..(MaxBytes + 1) /\ Ackd(c) \in 0..(MaxBytes + 1)
<1>1. c.sent \in Seq(Int) /\ c.rx \in Seq(Int) /\ c.txq \in Seq(Int) /\ MaxBytes \in Nat
  BY Constants DEF Sockets
<1>2. Len(c.sent) \in Nat /\ Len(c.rx) \in Nat /\ Len(c.txq) \in Nat
  BY <1>1
<1>3. Len(c.sent) <= MaxBytes /\ Len(c.rx) <= MaxBytes /\ Len(c.txq) <= Len(c.sent)
  BY DEF Streams
<1>4. Done(c) \in Nat /\ Done(c) + Len(c.txq) = Len(c.sent) /\ Done(c) <= MaxBytes
  BY <1>1, <1>2, <1>3 DEF Done
<1>5. Bit(c.fin_rcvd) \in 0..1 /\ Bit(c.fin_acked) \in 0..1
  BY BitIs
<1>6. Got(c) \in 0..(MaxBytes + 1) /\ Ackd(c) \in 0..(MaxBytes + 1)
  BY <1>1, <1>2, <1>3, <1>4, <1>5 DEF Got, Ackd
<1> QED BY <1>1, <1>2, <1>3, <1>4, <1>6

(* What the numbers of an established socket come to. *)
LEMMA FlowNumbers ==
    ASSUME NEW m \in Machines, NEW h \in Handles, NEW c \in Sockets, Streams(c),
           NEW u \in 0..MaxBytes, Flows(m, h, c, u)
    PROVE  /\ InFlight(c) = (u + Bit(c.fin_sent)) - Ackd(c) /\ InFlight(c) \in Nat
           /\ Sent(c) = u - Done(c) /\ Sent(c) \in Nat
           /\ Avail(c) = Len(c.sent) - u /\ Avail(c) \in Nat
<1>1. /\ MaxBytes \in Nat /\ Len(c.sent) \in 0..MaxBytes /\ Len(c.txq) \in Nat
      /\ Done(c) \in Nat /\ Done(c) + Len(c.txq) = Len(c.sent) /\ Ackd(c) \in 0..(MaxBytes + 1)
  BY Lengths
<1>2. /\ Done(c) <= u /\ u <= Len(c.sent) /\ c.fin_sent \in BOOLEAN /\ c.fin_acked \in BOOLEAN
      /\ c.fin_sent => u = Len(c.sent)
      /\ c.fin_acked => c.fin_sent /\ Len(c.txq) = 0
  BY DEF Flows, Sockets
<1>3. Ackd(c) <= u + Bit(c.fin_sent) /\ u + Bit(c.fin_sent) \in 0..(MaxBytes + 1)
  BY <1>1, <1>2 DEF Ackd, Bit
<1>4. (u + Bit(c.fin_sent)) - Ackd(c) \in -(MaxBytes + 2)..(MaxBytes + 2)
  BY <1>1, <1>3
<1>5. InFlight(c) = (u + Bit(c.fin_sent)) - Ackd(c)
  BY <1>1, <1>3, <1>4, NumDiff DEF InFlight, Flows
<1>6. Sent(c) = u - Done(c)
  <2>1. CASE c.fin_sent
    BY <1>1, <1>2, <2>1 DEF Sent
  <2>2. CASE ~c.fin_sent
    <3>1. u - Done(c) \in -(MaxBytes + 2)..(MaxBytes + 2) /\ u + Bit(c.fin_sent) = u
      BY <1>1, <1>2, <2>2 DEF Bit
    <3>2. c.snd_nxt = Num(m, h, u) /\ c.txseq = Num(m, h, Done(c))
      BY <3>1 DEF Flows
    <3> QED BY <1>1, <2>2, <3>1, <3>2, NumDiff DEF Sent
  <2> QED BY <2>1, <2>2
<1>7. Avail(c) = Len(c.sent) - u
  BY <1>1, <1>6, SMTT(30) DEF Avail
<1> QED BY <1>1, <1>2, <1>3, <1>5, <1>6, <1>7

LEMMA NumHere ==
    ASSUME NEW m \in Machines, NEW h \in Handles, NEW c \in Sockets, Streams(c),
           NEW u \in 0..MaxBytes, Flows(m, h, c, u)
    PROVE  u + Bit(c.fin_sent) \in 0..(MaxBytes + 1) /\ c.snd_nxt = Num(m, h, u + Bit(c.fin_sent))
BY Constants DEF Flows, Bit, Sockets

(* The three kinds of segment that an established socket sends. *)
LEMMA SegmentType ==
    ASSUME NEW c \in Sockets, NEW flags \in SUBSET {"syn", "ack", "fin", "rst", "psh"}, NEW seq \in Int, NEW data \in Seq(Int),
           NEW g, g = net_tcp_seg(c, flags, seq, data)
    PROVE  g \in Segments /\ g.flags = flags /\ g.seq = seq /\ g.data = data /\ g.ack = c.rcv_nxt
BY DEF net_tcp_seg, Segments, Sockets

(* What net_tcp_seg makes at a position that c has reached is a segment of the conversation. *)
LEMMA DataSays ==
    ASSUME NEW m \in Machines, NEW h \in Handles, NEW p \in Handles, NEW c \in Sockets, Follows(m, h, p, c),
           NEW flags \in {{"psh", "ack"}, {"ack"}}, NEW k \in 0..(MaxBytes + 1), NEW n \in Nat,
           n = 0 \/ k + n <= Len(c.sent)
    PROVE  LET g == net_tcp_seg(c, flags, Num(m, h, k), Run(k, n)) IN g \in Segments /\ Says(m, h, p, c, g)
<1> DEFINE g == net_tcp_seg(c, flags, Num(m, h, k), Run(k, n))
<1>1. MaxBytes \in Nat /\ Got(c) \in 0..(MaxBytes + 1) /\ c.rcv_nxt = Num(Peer(m), p, Got(c))
  BY Lengths DEF Follows
<1>2. k \in Int /\ Num(m, h, k) \in Int
  BY <1>1, NumInt
<1>3. Run(k, n) \in Seq(Int) /\ Len(Run(k, n)) = n /\ (Run(k, n) = <<>> <=> n = 0)
  BY <1>2, RunFacts
<1>4. /\ g \in Segments /\ g.flags = flags /\ g.seq = Num(m, h, k) /\ g.data = Run(k, n)
      /\ g.ack = Num(Peer(m), p, Got(c))
  BY <1>1, <1>2, <1>3, SegmentType, SMTT(30)
<1>5. "ack" \in g.flags /\ "syn" \notin g.flags /\ "fin" \notin g.flags
  BY <1>4
<1>6. Got(c) \in 0..Got(c)
  BY <1>1
<1> HIDE DEF g
<1>7. g.data # <<>> => k + Len(g.data) <= Len(c.sent) /\ g.data = Run(k, Len(g.data))
  BY <1>3, <1>4
<1>8. Says(m, h, p, c, g)
  BY <1>4, <1>5, <1>6, <1>7 DEF Says
<1> QED BY <1>4, <1>8 DEF g

LEMMA FinSays ==
    ASSUME NEW m \in Machines, NEW h \in Handles, NEW p \in Handles, NEW c \in Sockets, Follows(m, h, p, c), c.closed
    PROVE  LET g == net_tcp_seg(c, {"fin", "ack"}, Num(m, h, Len(c.sent)), <<>>) IN g \in Segments /\ Says(m, h, p, c, g)
<1> DEFINE g == net_tcp_seg(c, {"fin", "ack"}, Num(m, h, Len(c.sent)), <<>>)
<1>1. /\ MaxBytes \in Nat /\ Got(c) \in 0..(MaxBytes + 1) /\ c.rcv_nxt = Num(Peer(m), p, Got(c))
      /\ Len(c.sent) \in 0..MaxBytes
  BY Lengths DEF Follows
<1>2. Len(c.sent) \in Int /\ Len(c.sent) \in 0..(MaxBytes + 1)
  BY <1>1
<1>3. Num(m, h, Len(c.sent)) \in Int /\ <<>> \in Seq(Int)
  BY <1>2, NumInt
<1>4. /\ g \in Segments /\ g.flags = {"fin", "ack"} /\ g.seq = Num(m, h, Len(c.sent)) /\ g.data = <<>>
      /\ g.ack = Num(Peer(m), p, Got(c))
  BY <1>1, <1>3 DEF net_tcp_seg, Segments, Sockets
<1>5. "ack" \in g.flags /\ "syn" \notin g.flags
  BY <1>4
<1>6. Got(c) \in 0..Got(c)
  BY <1>1
<1> HIDE DEF g
<1>8. Says(m, h, p, c, g)
  BY <1>2, <1>4, <1>5, <1>6 DEF Says
<1> QED BY <1>4, <1>8 DEF g

LEMMA AckSays ==
    ASSUME NEW m \in Machines, NEW h \in Handles, NEW p \in Handles, NEW c \in Sockets, Follows(m, h, p, c),
           NEW k \in 0..(MaxBytes + 1), c.snd_nxt = Num(m, h, k)
    PROVE  LET g == net_tcp_seg(c, {"ack"}, c.snd_nxt, <<>>) IN g \in Segments /\ Says(m, h, p, c, g)
<1>1. Run(k, 0) = <<>>
  BY RunFacts, Constants
<1> QED BY <1>1, DataSays

-----------------------------------------------------------------------------
(* Sending. *)
LEMMA PieceFacts ==
    ASSUME NEW n \in Nat, NEW k \in 0..((n + Mss - 1) \div Mss - 1)
    PROVE  k * Mss \in Nat /\ k * Mss < n /\ (k + 1) * Mss = k * Mss + Mss /\ Mss \in Nat \ {0}
<1>1. Mss \in Nat \ {0}
  BY Constants
<1> DEFINE a == n + Mss - 1
           q == a \div Mss
<1>2. a \in Nat /\ q \in Nat /\ Mss * q <= a
  BY <1>1
<1>3. k \in Nat /\ k + 1 <= q
  BY <1>2
<1> HIDE DEF q
<1>4. Mss * q = Mss * (k + 1) + Mss * (q - (k + 1)) /\ Mss * (q - (k + 1)) \in Nat
  BY <1>1, <1>2, <1>3
<1>5. Mss * (k + 1) = k * Mss + Mss /\ (k + 1) * Mss = k * Mss + Mss /\ k * Mss \in Nat
  BY <1>1, <1>3
<1> DEFINE kM == k * Mss
           rM == Mss * (q - (k + 1))
           qM == Mss * q
<1>6. kM < n
  <2>1. kM \in Nat /\ rM \in Nat /\ qM <= n + Mss - 1 /\ qM = (kM + Mss) + rM
    BY <1>2, <1>4, <1>5
  <2> HIDE DEF kM, rM, qM
  <2> QED BY <1>1, <2>1
<1> QED BY <1>1, <1>5, <1>6

(* SubSeq by a name that the provers do not look into. *)
Cut(s, p, q) == SubSeq(s, p, q)
(* The middle of a run. *)
LEMMA CutRun ==
    ASSUME NEW D \in Int, NEW T \in Nat, NEW P \in Nat \ {0}, NEW Q \in Nat, Q <= T, P <= Q + 1
    PROVE  Cut(Run(D, T), P, Q) = Run(D + (P - 1), Q - (P - 1))
BY RunSub DEF Cut

LEMMA CutIs ==
    ASSUME NEW D \in Int, NEW T \in Nat, NEW P \in Nat \ {0}, NEW Q \in Nat, Q <= T, P <= Q + 1,
           NEW A \in Int, NEW N \in Int, A = D + (P - 1), N = Q - (P - 1)
    PROVE  Cut(Run(D, T), P, Q) = Run(A, N)
BY CutRun

(* The bytes from low up to high of those that c, at u, has yet to send. *)
PieceIs(c, u, low, high) == SubSeq(c.txq, Sent(c) + low + 1, Sent(c) + high) = Run(u + low, high - low)

(* What SendData cuts from the queue is what it says it is. *)
LEMMA PieceRun ==
    ASSUME NEW m \in Machines, NEW h \in Handles, NEW c \in Sockets, Streams(c),
           NEW u \in 0..MaxBytes, Flows(m, h, c, u), NEW n \in Nat, u + n <= Len(c.sent),
           NEW low \in Nat, NEW high \in Nat, low < high, high <= n
    PROVE  PieceIs(c, u, low, high)
<1> DEFINE D == Done(c)
           T == Len(c.txq)
           at == Sent(c)
           P == at + low + 1
           Q == at + high
           A == u + low
           N == high - low
<1>1. T \in Nat /\ D \in Nat /\ D + T = Len(c.sent) /\ MaxBytes \in Nat /\ Len(c.sent) \in Nat
  BY Lengths
<1>2. at = u - D /\ at \in Nat
  BY FlowNumbers
<1>3. c.txq = Run(D, T)
  BY DEF Streams
<1> HIDE DEF D, T, at
<1>4. u \in Nat
  BY <1>1
<1>5. P \in Nat \ {0} /\ Q \in Nat /\ P <= Q + 1 /\ A \in Int /\ N \in Int
  BY <1>1, <1>2, <1>4
<1>6. Q <= T
  BY <1>1, <1>2, <1>4
<1>7. A = D + (P - 1) /\ N = Q - (P - 1)
  BY <1>1, <1>2, <1>4
<1>8. D \in Int
  BY <1>1
<1> HIDE DEF P, Q, A, N
<1>9. Cut(Run(D, T), P, Q) = Run(A, N)
  BY <1>1, <1>5, <1>6, <1>7, <1>8, CutIs
<1> QED BY <1>3, <1>9 DEF D, T, at, P, Q, A, N, Cut, PieceIs

(* SendData moves snd_nxt over bytes that the socket has, and sends just these. *)
LEMMA SendDataSound ==
    ASSUME NEW m \in Machines, NEW h \in Handles, NEW p \in Handles, NEW c \in Sockets, Follows(m, h, p, c),
           NEW u \in 0..MaxBytes, Flows(m, h, c, u)
    PROVE  \E n \in Nat :
              /\ u + n <= Len(c.sent) /\ (n = 0 /\ InFlight(c) = 0 => Avail(c) = 0)
              /\ SendData(c).c = [c EXCEPT !.snd_nxt = Num(m, h, (u + n) + Bit(c.fin_sent))]
              /\ \A g \in SendData(c).out : g \in Segments /\ Says(m, h, p, c, g)
<1> DEFINE n  == IF InFlight(c) < Offered THEN Fewer(Avail(c), Offered - InFlight(c)) ELSE 0
           at == Sent(c)
           data(k) == SubSeq(c.txq, at + k * Mss + 1, at + Fewer((k + 1) * Mss, n))
           piece(k) == net_tcp_seg(c, {"psh", "ack"}, net_seq_add(c.snd_nxt, k * Mss), data(k))
<1>0. Streams(c)
  BY DEF Follows
<1>1. /\ InFlight(c) \in Nat /\ at = u - Done(c) /\ at \in Nat
      /\ Avail(c) = Len(c.sent) - u /\ Avail(c) \in Nat
  BY <1>0, FlowNumbers
<1>2. /\ MaxBytes \in Nat /\ Len(c.sent) \in 0..MaxBytes /\ Len(c.txq) \in Nat
      /\ Done(c) \in Nat /\ Done(c) + Len(c.txq) = Len(c.sent)
  BY <1>0, Lengths
<1>3. Offered \in Nat \ {0}
  BY Constants
<1>4. n \in Nat /\ n <= Len(c.sent) - u /\ (n = 0 /\ InFlight(c) = 0 => Avail(c) = 0)
  BY <1>1, <1>2, <1>3, SMTT(30) DEF Fewer
<1>5. /\ SendData(c).c = [c EXCEPT !.snd_nxt = net_seq_add(c.snd_nxt, n)]
      /\ SendData(c).out = {piece(k) : k \in 0..((n + Mss - 1) \div Mss - 1)}
  BY DEF SendData, Out
<1>6. /\ u + Bit(c.fin_sent) \in 0..(MaxBytes + 1) /\ c.snd_nxt = Num(m, h, u + Bit(c.fin_sent))
      /\ c.fin_sent => u = Len(c.sent)
  BY <1>0, NumHere DEF Flows
<1> HIDE DEF n, at
<1>7. u + n <= Len(c.sent)
  BY <1>1, <1>2, <1>4
<1>9. net_seq_add(c.snd_nxt, n) = Num(m, h, (u + n) + Bit(c.fin_sent))
  <2>1. net_seq_add(c.snd_nxt, n) = Num(m, h, (u + Bit(c.fin_sent)) + n)
    BY <1>2, <1>4, <1>6, NumAdd
  <2>2. (u + Bit(c.fin_sent)) + n = (u + n) + Bit(c.fin_sent)
    BY <1>2, <1>4, <1>6 DEF Bit
  <2> QED BY <2>1, <2>2
<1>8. ASSUME NEW k \in 0..((n + Mss - 1) \div Mss - 1)
      PROVE  piece(k) \in Segments /\ Says(m, h, p, c, piece(k))
  <2> DEFINE kM == k * Mss
             e  == Fewer((k + 1) * Mss, n)
  <2>1. kM \in Nat /\ kM < n /\ (k + 1) * Mss = kM + Mss /\ Mss \in Nat \ {0}
    BY <1>4, PieceFacts
  <2> HIDE DEF kM
  <2>2. e \in Nat /\ kM < e /\ e <= n
    BY <1>4, <2>1 DEF Fewer
  <2> HIDE DEF e
  <2>3. ~c.fin_sent /\ u + Bit(c.fin_sent) = u
    BY <1>2, <1>4, <1>6, <2>1 DEF Bit
  <2>4. net_seq_add(c.snd_nxt, kM) = Num(m, h, u + kM)
    BY <1>2, <1>6, <2>1, <2>3, NumAdd
  <2>5. data(k) = Run(u + kM, e - kM)
    <3>1. PieceIs(c, u, kM, e)
      BY <1>0, <1>4, <1>7, <2>1, <2>2, PieceRun
    <3> QED BY <3>1 DEF kM, e, at, PieceIs
  <2>6. u + kM \in 0..(MaxBytes + 1) /\ e - kM \in Nat /\ (u + kM) + (e - kM) <= Len(c.sent)
    BY <1>2, <1>4, <2>1, <2>2
  <2>7. piece(k) = net_tcp_seg(c, {"psh", "ack"}, Num(m, h, u + kM), Run(u + kM, e - kM))
    BY <2>4, <2>5 DEF kM
  <2> QED BY <2>6, <2>7, DataSays
<1> QED BY <1>2, <1>4, <1>5, <1>8, <1>9

(* d is what c becomes by sending. *)
Alike(c, d) ==
    /\ d \in Sockets
    /\ d.state = c.state /\ d.own = c.own /\ d.held = c.held /\ d.linked = c.linked /\ d.queued = c.queued
    /\ d.rx = c.rx /\ d.txq = c.txq /\ d.txseq = c.txseq /\ d.snd_una = c.snd_una /\ d.rcv_nxt = c.rcv_nxt
    /\ d.fin_rcvd = c.fin_rcvd /\ d.fin_acked = c.fin_acked /\ d.closed = c.closed /\ d.reset = c.reset
    /\ d.sent = c.sent

(* What a socket in a conversation never takes back. *)
Grows(c, d) ==
    /\ Len(c.sent) <= Len(d.sent) /\ (c.closed => d.closed /\ Len(d.sent) = Len(c.sent))
    /\ Len(c.rx) <= Len(d.rx) /\ (c.fin_rcvd => d.fin_rcvd /\ Len(d.rx) = Len(c.rx))

(* What two such sockets have in common. *)
LEMMA AlikeFollows ==
    ASSUME NEW m, NEW h, NEW p, NEW c \in Sockets, NEW d, Alike(c, d), Follows(m, h, p, c)
    PROVE  Follows(m, h, p, d) /\ Grows(c, d) /\ Done(d) = Done(c) /\ Ackd(d) = Ackd(c) /\ Got(d) = Got(c)
<1>1. Done(d) = Done(c) /\ Ackd(d) = Ackd(c) /\ Got(d) = Got(c)
  BY DEF Alike, Done, Ackd, Got
<1>2. Streams(d)
  BY <1>1 DEF Alike, Follows, Streams
<1>3. Grows(c, d)
  <2>1. Len(c.sent) \in Nat /\ Len(c.rx) \in Nat
    BY DEF Sockets
  <2> QED BY <2>1 DEF Alike, Grows
<1> QED BY <1>1, <1>2, <1>3 DEF Follows, Alike

LEMMA AlikeTransitive ==
    ASSUME NEW c, NEW d, NEW e, Alike(c, d), Alike(d, e) PROVE Alike(c, e)
BY DEF Alike

(* What was said stays true, and what a partner has stays sent, while sockets grow. *)
LEMMA SaysGrows ==
    ASSUME NEW m, NEW h, NEW p, NEW c \in Sockets, NEW d \in Sockets, Grows(c, d), NEW g \in Segments, Says(m, h, p, c, g)
    PROVE  Says(m, h, p, d, g)
<1>0. g.data \in Seq(Int)
  BY DEF Segments
<1>1. Len(c.sent) \in Nat /\ Len(c.rx) \in Nat /\ Len(d.sent) \in Nat /\ Len(d.rx) \in Nat /\ Len(g.data) \in Nat
  BY <1>0, SocketTypes
<1>2. Got(c) \in Nat /\ Got(d) \in Nat /\ Got(c) <= Got(d)
  <2>1. Len(c.rx) <= Len(d.rx) /\ (c.fin_rcvd => d.fin_rcvd) /\ c.fin_rcvd \in BOOLEAN /\ d.fin_rcvd \in BOOLEAN
    BY SocketTypes DEF Grows
  <2>2. Bit(c.fin_rcvd) \in 0..1 /\ Bit(d.fin_rcvd) \in 0..1 /\ Bit(c.fin_rcvd) <= Bit(d.fin_rcvd)
    BY <2>1 DEF Bit
  <2> QED BY <1>1, <2>1, <2>2 DEF Got
<1>3. PICK j \in 0..Got(c) : g.ack = Num(Peer(m), p, j)
  BY DEF Says
<1>4. j \in 0..Got(d)
  BY <1>2
<1>5. PICK k \in 0..(MaxBytes + 1) :
          /\ g.seq = Num(m, h, k)
          /\ g.data # <<>> => k + Len(g.data) <= Len(c.sent) /\ g.data = Run(k, Len(g.data)) /\ "fin" \notin g.flags
          /\ "fin" \in g.flags => k = Len(c.sent) /\ c.closed
  BY DEF Says
<1>6. k + Len(g.data) <= Len(c.sent) => k + Len(g.data) <= Len(d.sent)
  BY <1>1, <1>5, Constants DEF Grows
<1>7. "fin" \in g.flags => k = Len(d.sent) /\ d.closed
  BY <1>5 DEF Grows
<1> QED BY <1>3, <1>4, <1>5, <1>6, <1>7 DEF Says

LEMMA PairGrows ==
    ASSUME NEW c \in Sockets, NEW d \in Sockets, NEW e \in Sockets, Pair(c, d), Grows(d, e)
    PROVE  Pair(c, e)
<1>1. /\ Len(c.sent) \in Nat /\ Len(c.rx) \in Nat /\ Len(c.txq) \in Nat /\ Done(c) \in Int
      /\ Len(d.sent) \in Nat /\ Len(d.rx) \in Nat /\ Len(e.sent) \in Nat /\ Len(e.rx) \in Nat
  BY SocketTypes
<1> QED BY <1>1 DEF Pair, Grows

(* SendFin sends FIN after all bytes, and leaves nothing undone without something in flight. *)
LEMMA SendFinSound ==
    ASSUME NEW m \in Machines, NEW h \in Handles, NEW p \in Handles, NEW c \in Sockets, Follows(m, h, p, c),
           NEW u \in 0..MaxBytes, Flows(m, h, c, u)
    PROVE  LET o == SendFin(c)
           IN  /\ Alike(c, o.c) /\ Flows(m, h, o.c, u)
               /\ InFlight(o.c) = 0 => o.c = c /\ ~(c.closed /\ Avail(c) = 0 /\ ~c.fin_sent)
               /\ \A g \in o.out : g \in Segments /\ Says(m, h, p, c, g)
<1> DEFINE o == SendFin(c)
<1>0. Streams(c)
  BY DEF Follows
<1>1. CASE ~(c.closed /\ Avail(c) = 0 /\ ~c.fin_sent)
  <2>1. o = Out(c, {})
    BY <1>1 DEF SendFin
  <2>2. o.c = c /\ o.out = {}
    BY <2>1 DEF Out
  <2>3. Alike(c, c)
    BY DEF Alike
  <2> QED BY <1>1, <2>2, <2>3
<1>2. CASE c.closed /\ Avail(c) = 0 /\ ~c.fin_sent
  <2>1. MaxBytes \in Nat /\ Len(c.sent) \in 0..MaxBytes
    BY <1>0, Lengths
  <2>2. u = Len(c.sent) /\ InFlight(c) = (u + Bit(c.fin_sent)) - Ackd(c) /\ InFlight(c) \in Nat /\ Bit(c.fin_sent) = 0
    BY <1>0, <1>2, <2>1, FlowNumbers DEF Bit
  <2>3. c.snd_nxt = Num(m, h, u) /\ net_seq_add(c.snd_nxt, 1) = Num(m, h, u + 1)
    BY <2>1, <2>2, NumAdd DEF Flows
  <2>4. /\ o.c = [c EXCEPT !.fin_seq = c.snd_nxt, !.fin_sent = TRUE, !.snd_nxt = Num(m, h, u + 1)]
        /\ o.out = {net_tcp_seg(c, {"fin", "ack"}, Num(m, h, Len(c.sent)), <<>>)}
    BY <1>2, <2>2, <2>3 DEF SendFin, Out
  <2>5. Num(m, h, u + 1) \in Int
    BY <2>1, NumInt
  <2>6. Alike(c, o.c) /\ o.c.fin_seq = Num(m, h, u) /\ o.c.fin_sent = TRUE /\ o.c.snd_nxt = Num(m, h, u + 1)
    <3> HIDE DEF o
    <3> QED BY <2>3, <2>4, <2>5, ZenonT(30) DEF Alike, Sockets
  <2>7. Flows(m, h, o.c, u)
    <3> HIDE DEF o
    <3>1. Done(o.c) = Done(c) /\ Ackd(o.c) = Ackd(c) /\ Follows(m, h, p, o.c)
      BY <2>6, AlikeFollows
    <3>2. Bit(o.c.fin_sent) = 1
      BY <2>6 DEF Bit
    <3>3. /\ o.c.txseq = c.txseq /\ o.c.snd_una = c.snd_una /\ o.c.sent = c.sent /\ o.c.txq = c.txq
          /\ o.c.closed = c.closed /\ o.c.fin_acked = c.fin_acked
      BY <2>6 DEF Alike
    <3> QED BY <1>2, <2>2, <2>6, <3>1, <3>2, <3>3 DEF Flows
  <2>8. InFlight(o.c) = InFlight(c) + 1
    <3> HIDE DEF o
    <3>1. Done(o.c) = Done(c) /\ Ackd(o.c) = Ackd(c) /\ Follows(m, h, p, o.c) /\ o.c \in Sockets
      BY <2>6, AlikeFollows DEF Alike
    <3>2. InFlight(o.c) = (u + Bit(o.c.fin_sent)) - Ackd(o.c) /\ Bit(o.c.fin_sent) = 1
      BY <2>6, <2>7, <3>1, FlowNumbers DEF Follows, Bit
    <3>3. Ackd(c) \in Int
      BY <1>0, Lengths
    <3> QED BY <2>1, <2>2, <3>1, <3>2, <3>3
  <2>9. \A g \in o.out : g \in Segments /\ Says(m, h, p, c, g)
    BY <1>2, <2>4, FinSays
  <2> HIDE DEF o
  <2>10. InFlight(o.c) # 0
    BY <2>2, <2>8
  <2> QED BY <2>6, <2>7, <2>9, <2>10 DEF o
<1> QED BY <1>1, <1>2

(* net_tcp_output: only what was written is sent, and who owes something has a timer. *)
LEMMA OutputSound ==
    ASSUME NEW m \in Machines, NEW h \in Handles, NEW p \in Handles, NEW c \in Sockets, Ready(m, h, p, c)
    PROVE  LET o == net_tcp_output(c)
           IN  /\ Alike(c, o.c) /\ Ready(m, h, p, o.c) /\ (Owes(o.c) => o.c.rto)
               /\ \A g \in o.out : g \in Segments /\ Says(m, h, p, o.c, g)
<1> DEFINE o == net_tcp_output(c)
           s == SendData(c).c
           f == SendFin(s).c
<1>1. PICK u \in 0..MaxBytes : Flows(m, h, c, u)
  BY DEF Ready
<1>2. Follows(m, h, p, c) /\ Streams(c) /\ c.state = "est"
  BY DEF Ready, Follows
<1>3. PICK n \in Nat :
              /\ u + n <= Len(c.sent) /\ (n = 0 /\ InFlight(c) = 0 => Avail(c) = 0)
              /\ s = [c EXCEPT !.snd_nxt = Num(m, h, (u + n) + Bit(c.fin_sent))]
              /\ \A g \in SendData(c).out : g \in Segments /\ Says(m, h, p, c, g)
  BY <1>1, <1>2, SendDataSound
<1>4. /\ o.c = [f EXCEPT !.rto = @ \/ InFlight(f) > 0]
      /\ o.out = SendData(c).out \cup SendFin(s).out
  BY <1>2 DEF net_tcp_output, Joined, Out, s, f
<1> HIDE DEF o, s, f
<1>5. MaxBytes \in Nat /\ Len(c.sent) \in 0..MaxBytes /\ u + n \in 0..MaxBytes /\ Ackd(c) \in Nat
  BY <1>2, <1>3, Lengths
<1>6. Alike(c, s) /\ s.snd_nxt = Num(m, h, (u + n) + Bit(c.fin_sent)) /\ s.fin_sent = c.fin_sent /\ s.fin_seq = c.fin_seq
  <2>1. Bit(c.fin_sent) \in Int
    BY DEF Bit
  <2>2. Num(m, h, (u + n) + Bit(c.fin_sent)) \in Int
    BY <1>5, <2>1, NumInt
  <2> QED BY <1>3, <2>2 DEF Alike, Sockets
<1>7. Follows(m, h, p, s) /\ Grows(c, s) /\ Done(s) = Done(c) /\ Ackd(s) = Ackd(c) /\ s \in Sockets
  BY <1>2, <1>6, AlikeFollows DEF Alike
<1>8. Flows(m, h, s, u + n)
  <2>1. /\ s.txseq = c.txseq /\ s.snd_una = c.snd_una /\ s.sent = c.sent /\ s.txq = c.txq
        /\ s.closed = c.closed /\ s.fin_acked = c.fin_acked
    BY <1>6 DEF Alike
  <2>2. c.fin_sent => u + n = Len(c.sent)
    BY <1>1, <1>3, <1>5 DEF Flows
  <2>3. Done(c) \in Nat
    BY <1>2, Lengths
  <2>4. Done(c) <= u + n /\ u + n <= Len(c.sent)
    BY <1>1, <1>3, <1>5, <2>3 DEF Flows
  <2> QED BY <1>1, <1>5, <1>6, <1>7, <2>1, <2>2, <2>4 DEF Flows
<1>9. /\ Alike(s, f) /\ Flows(m, h, f, u + n)
      /\ InFlight(f) = 0 => f = s /\ ~(s.closed /\ Avail(s) = 0 /\ ~s.fin_sent)
      /\ \A g \in SendFin(s).out : g \in Segments /\ Says(m, h, p, s, g)
  BY <1>5, <1>7, <1>8, SendFinSound DEF f
<1>10. f \in Sockets /\ Follows(m, h, p, f) /\ Grows(s, f) /\ Done(f) = Done(s) /\ Ackd(f) = Ackd(s)
  BY <1>7, <1>9, AlikeFollows DEF Alike
<1>11. /\ Alike(f, o.c) /\ o.c.snd_nxt = f.snd_nxt /\ o.c.fin_sent = f.fin_sent /\ o.c.fin_seq = f.fin_seq
       /\ o.c.rto = (f.rto \/ InFlight(f) > 0)
  BY <1>4, <1>10, ZenonT(30) DEF Alike, Sockets
<1>12. Follows(m, h, p, o.c) /\ Grows(f, o.c) /\ Done(o.c) = Done(f) /\ Ackd(o.c) = Ackd(f) /\ o.c \in Sockets
  BY <1>10, <1>11, AlikeFollows DEF Alike
<1>13. Flows(m, h, o.c, u + n)
  <2>1. /\ o.c.txseq = f.txseq /\ o.c.snd_una = f.snd_una /\ o.c.sent = f.sent /\ o.c.txq = f.txq
        /\ o.c.closed = f.closed /\ o.c.fin_acked = f.fin_acked
    BY <1>11 DEF Alike
  <2> QED BY <1>9, <1>11, <1>12, <2>1 DEF Flows
<1>14. Alike(c, o.c)
  BY <1>6, <1>9, <1>11, AlikeTransitive
<1>15. Ready(m, h, p, o.c)
  BY <1>2, <1>5, <1>12, <1>13, <1>14 DEF Ready, Alike
<1>16. ASSUME Owes(o.c) PROVE o.c.rto
  <2>1. InFlight(o.c) = InFlight(f) /\ InFlight(f) \in Nat
    BY <1>5, <1>9, <1>10, <1>11, FlowNumbers DEF InFlight, Alike, Follows
  <2>2. CASE InFlight(f) > 0
    BY <1>11, <2>2
  <2>3. CASE InFlight(f) = 0
    <3>1. f = s /\ ~(s.closed /\ Avail(s) = 0 /\ ~s.fin_sent)
      BY <1>9, <2>3
    <3>2. InFlight(s) = ((u + n) + Bit(s.fin_sent)) - Ackd(s) /\ Avail(s) = Len(s.sent) - (u + n)
      BY <1>5, <1>7, <1>8, FlowNumbers DEF Follows
    <3>3. InFlight(c) = (u + Bit(c.fin_sent)) - Ackd(c) /\ InFlight(c) \in Nat /\ Avail(c) = Len(c.sent) - u
      BY <1>1, <1>2, FlowNumbers
    <3>4. InFlight(s) = InFlight(c) + n
      <4>1. Bit(c.fin_sent) \in 0..1 /\ Bit(s.fin_sent) = Bit(c.fin_sent)
        BY <1>6, BitIs
      <4> QED BY <1>5, <1>7, <3>2, <3>3, <4>1
    <3>5. n = 0 /\ InFlight(c) = 0
      BY <2>3, <3>1, <3>3, <3>4
    <3>6. Avail(s) = 0
      BY <1>3, <1>5, <1>6, <3>2, <3>3, <3>5 DEF Alike
    <3>7. ~(s.closed /\ ~s.fin_sent)
      BY <3>1, <3>6
    <3>8. Avail(o.c) = Avail(s) /\ o.c.state = "est" /\ o.c.closed = s.closed /\ o.c.fin_sent = s.fin_sent
      BY <1>2, <1>11, <1>14, <3>1 DEF Alike, Avail, Sent
    <3>9. ~Owes(o.c)
      BY <2>1, <2>3, <3>6, <3>7, <3>8 DEF Owes
    <3> QED BY <1>16, <3>9
  <2> QED BY <2>1, <2>2, <2>3
<1>17. ASSUME NEW g \in o.out PROVE g \in Segments /\ Says(m, h, p, o.c, g)
  <2>1. o.c \in Sockets /\ Grows(c, o.c) /\ Grows(s, o.c)
    <3>1. Alike(s, o.c)
      BY <1>9, <1>11, AlikeTransitive
    <3> QED BY <1>2, <1>7, <1>14, <3>1, AlikeFollows DEF Alike
  <2> QED BY <1>3, <1>4, <1>7, <1>9, <2>1, SaysGrows
<1> QED BY <1>14, <1>15, <1>16, <1>17 DEF o

-----------------------------------------------------------------------------
(* Receiving *)

(* c and d are the two ends, in both directions. *)
Paired(c, d) == Pair(c, d) /\ Pair(d, c)

(* a is what c becomes by hearing of what has come. *)
Hears(c, a) ==
    /\ a \in Sockets
    /\ a.state = c.state /\ a.own = c.own /\ a.held = c.held /\ a.linked = c.linked /\ a.queued = c.queued
    /\ a.closed = c.closed /\ a.reset = c.reset /\ a.sent = c.sent

AckedTo(c, una, q, first, all, z, late) ==
    [c EXCEPT !.snd_una = una, !.txq = q, !.txseq = first, !.fin_acked = all, !.tries = z, !.rto = late]

AckedFrom(c, una, q, first, all, z, late) ==
    LET a == AckedTo(c, una, q, first, all, z, late) IN
    /\ a \in Sockets
    /\ a.snd_una = una /\ a.txq = q /\ a.txseq = first /\ a.fin_acked = all
    /\ a.state = c.state /\ a.own = c.own /\ a.held = c.held /\ a.linked = c.linked /\ a.queued = c.queued
    /\ a.closed = c.closed /\ a.reset = c.reset /\ a.sent = c.sent
    /\ a.rx = c.rx /\ a.fin_rcvd = c.fin_rcvd /\ a.rcv_nxt = c.rcv_nxt
    /\ a.snd_nxt = c.snd_nxt /\ a.fin_sent = c.fin_sent /\ a.fin_seq = c.fin_seq

LEMMA AcknowledgedSocket ==
    ASSUME NEW c \in Sockets, NEW una \in Int, NEW q \in Seq(Int), NEW first \in Int, NEW all \in BOOLEAN, NEW late \in BOOLEAN,
           NEW z \in Int
    PROVE  AckedFrom(c, una, q, first, all, z, late)
<1> DEFINE a == AckedTo(c, una, q, first, all, z, late)
<1>1. a \in Sockets
  BY DEF Sockets, AckedTo
<1>2. a.snd_una = una /\ a.txq = q /\ a.txseq = first
  BY DEF Sockets, AckedTo
<1>3. a.fin_acked = all
  BY DEF Sockets, AckedTo
<1>4. a.state = c.state /\ a.own = c.own /\ a.held = c.held /\ a.linked = c.linked /\ a.queued = c.queued
  BY DEF Sockets, AckedTo
<1>5. a.closed = c.closed /\ a.reset = c.reset /\ a.sent = c.sent
  BY DEF Sockets, AckedTo
<1>6. a.rx = c.rx /\ a.fin_rcvd = c.fin_rcvd /\ a.rcv_nxt = c.rcv_nxt
  BY DEF Sockets, AckedTo
<1>7. a.snd_nxt = c.snd_nxt /\ a.fin_sent = c.fin_sent /\ a.fin_seq = c.fin_seq
  BY DEF Sockets, AckedTo
<1> QED BY <1>1, <1>2, <1>3, <1>4, <1>5, <1>6, <1>7 DEF AckedFrom

(* Acknowledge forgets only what the other end has. *)
LEMMA AcknowledgeSound ==
    ASSUME NEW m \in Machines, NEW h \in Handles, NEW p \in Handles, NEW c \in Sockets, Ready(m, h, p, c),
           NEW d \in Sockets, Streams(d), Paired(c, d), NEW g \in Segments,
           NEW j \in 0..Got(d), g.ack = Num(m, h, j)
    PROVE  LET a == Acknowledge(c, g)
           IN  Hears(c, a) /\ Ready(m, h, p, a) /\ Pair(a, d) /\ Grows(c, a)
<1> DEFINE a == Acknowledge(c, g)
           L == Len(c.sent)
           drop == Fewer(net_seq_diff(g.ack, c.txseq), Len(c.txq))
           taken == "ack" \in g.flags /\ net_seq_diff(g.ack, c.snd_una) > 0 /\ net_seq_diff(g.ack, c.snd_nxt) <= 0
<1>1. PICK u \in 0..MaxBytes : Flows(m, h, c, u)
  BY DEF Ready
<1>2. Follows(m, h, p, c) /\ Streams(c) /\ c.state = "est"
  BY DEF Ready, Follows
<1>3. /\ MaxBytes \in Nat /\ L \in 0..MaxBytes /\ Len(c.txq) \in Nat /\ Done(c) \in Nat /\ Done(c) + Len(c.txq) = L
      /\ Ackd(c) \in 0..(MaxBytes + 1) /\ Len(c.rx) \in Nat
  BY <1>2, Lengths
<1>4. Len(d.rx) \in Nat /\ Got(d) \in 0..(MaxBytes + 1) /\ j \in 0..(MaxBytes + 1)
  BY <1>3, Lengths
<1>5. CASE ~taken
  <2>1. a = c
    BY <1>5 DEF Acknowledge
  <2> QED BY <1>3, <2>1 DEF Hears, Grows, Paired
<1>6. CASE taken
  <2> HIDE DEF L
  <2>1. /\ c.txseq = Num(m, h, Done(c)) /\ c.snd_una = Num(m, h, Ackd(c)) /\ c.snd_nxt = Num(m, h, u + Bit(c.fin_sent))
        /\ Done(c) <= u /\ u <= L
        /\ c.fin_sent => u = L /\ c.closed /\ c.fin_seq = Num(m, h, L)
        /\ c.fin_acked => c.fin_sent /\ Len(c.txq) = 0
    BY <1>1 DEF Flows, L
  <2>2. u + Bit(c.fin_sent) \in 0..(MaxBytes + 1) /\ (c.fin_sent => Bit(c.fin_sent) = 1) /\ (~c.fin_sent => Bit(c.fin_sent) = 0)
    BY <1>1, <1>3 DEF Bit
  <2>3. net_seq_diff(g.ack, c.snd_una) = j - Ackd(c)
    BY <1>3, <1>4, <2>1, NumDiff
  <2>4. net_seq_diff(g.ack, c.snd_nxt) = j - (u + Bit(c.fin_sent))
    BY <1>3, <1>4, <2>1, <2>2, NumDiff
  <2>5. net_seq_diff(g.ack, c.txseq) = j - Done(c)
    <3>1. Done(c) \in Int /\ j \in Int /\ j - Done(c) \in -(MaxBytes + 2)..(MaxBytes + 2)
      BY <1>3, <1>4, SMTT(30)
    <3>2. net_seq_diff(Num(m, h, j), Num(m, h, Done(c))) = j - Done(c)
      BY <3>1, NumDiff
    <3> QED BY <2>1, <3>2
  <2>6. Ackd(c) < j /\ j <= u + Bit(c.fin_sent)
    BY <1>3, <1>4, <1>6, <2>2, <2>3, <2>4
  <2>7. /\ ~c.fin_acked /\ Ackd(c) = Done(c) /\ j <= L + 1
        /\ j = L + 1 => c.fin_sent
    <3>1. c.fin_acked \in BOOLEAN /\ c.fin_sent \in BOOLEAN
      BY SocketTypes
    <3>2. Ackd(c) = Done(c) + Bit(c.fin_acked) /\ (c.fin_acked => Bit(c.fin_acked) = 1) /\ (~c.fin_acked => Bit(c.fin_acked) = 0)
      BY <3>1 DEF Ackd, Bit
    <3>3. j <= L + 1 /\ (j = L + 1 => c.fin_sent)
      BY <1>3, <1>4, <2>1, <2>2, <2>6, <3>1
    <3>4. ~c.fin_acked
      BY <1>3, <1>4, <2>1, <2>2, <2>6, <3>2, <3>3
    <3> QED BY <1>3, <3>2, <3>3, <3>4
  <2> DEFINE x == Fewer(j, L)
  <2>8. x \in Nat /\ Done(c) <= x /\ x <= L /\ x <= u /\ drop = x - Done(c) /\ (j <= L => x = j) /\ (j = L + 1 => x = L)
    BY <1>3, <1>4, <2>1, <2>2, <2>5, <2>6, <2>7 DEF Fewer
  <2>9. (c.fin_sent /\ net_seq_diff(g.ack, c.fin_seq) >= 1) <=> j = L + 1
    <3>1. CASE c.fin_sent
      <4>1. net_seq_diff(g.ack, c.fin_seq) = j - L
        BY <1>3, <1>4, <2>1, <3>1, NumDiff
      <4> QED BY <1>3, <1>4, <2>7, <3>1, <4>1
    <3>2. CASE ~c.fin_sent
      BY <2>7, <3>2
    <3> QED BY <3>1, <3>2
  <2>10. a = [c EXCEPT !.snd_una = g.ack,
                       !.txq = IF drop > 0 THEN SubSeq(@, drop + 1, Len(@)) ELSE @,
                       !.txseq = IF drop > 0 THEN net_seq_add(@, drop) ELSE @,
                       !.fin_acked = @ \/ (c.fin_sent /\ net_seq_diff(g.ack, c.fin_seq) >= 1),
                       !.tries = 0,
                       !.rto = net_seq_diff(g.ack, c.snd_nxt) < 0]
    BY <1>6 DEF Acknowledge
  <2> HIDE DEF a, drop, x, taken
  <2>11. (IF drop > 0 THEN SubSeq(c.txq, drop + 1, Len(c.txq)) ELSE c.txq) = Run(x, L - x)
    <3>1. c.txq = Run(Done(c), Len(c.txq)) /\ Len(c.txq) = L - Done(c)
      BY <1>2, <1>3 DEF Streams
    <3>2. CASE drop = 0
      BY <1>3, <2>8, <3>1, <3>2
    <3>3. CASE drop > 0
      <4>1. drop + 1 \in Nat \ {0} /\ drop + 1 <= Len(c.txq) + 1
        BY <1>3, <2>8, <3>1, <3>3, SMTT(30)
      <4>2. x = Done(c) + ((drop + 1) - 1) /\ L - x = Len(c.txq) - ((drop + 1) - 1)
        BY <1>3, <2>8, <3>1, SMTT(30)
      <4>3. Done(c) \in Int /\ Len(c.txq) \in Nat /\ x \in Int /\ L - x \in Int /\ Len(c.txq) <= Len(c.txq)
        BY <1>3, <2>8
      <4> DEFINE P == drop + 1
                 N == L - x
                 T == Len(c.txq)
                 D == Done(c)
      <4> HIDE DEF P, N, T, D
      <4>5. P \in Nat \ {0} /\ T \in Nat /\ T <= T /\ P <= T + 1 /\ D \in Int /\ x \in Int /\ N \in Int
        BY <4>1, <4>3 DEF P, N, T, D
      <4>6. x = D + (P - 1) /\ N = T - (P - 1)
        BY <4>2 DEF P, N, T, D
      <4>7. Cut(Run(D, T), P, T) = Run(x, N)
        BY <4>5, <4>6, CutIs
      <4>4. Cut(c.txq, drop + 1, Len(c.txq)) = Run(x, L - x)
        BY <3>1, <4>7 DEF P, N, T, D
      <4> QED BY <3>3, <4>4 DEF Cut
    <3>4. drop = 0 \/ drop > 0
      BY <1>3, <2>8
    <3> QED BY <3>2, <3>3, <3>4
  <2>12. (IF drop > 0 THEN net_seq_add(c.txseq, drop) ELSE c.txseq) = Num(m, h, x)
    <3>4. Done(c) + drop = x /\ Done(c) \in Int /\ drop \in Int
      BY <1>3, <2>8
    <3>1. net_seq_add(c.txseq, drop) = Num(m, h, x)
      BY <2>1, <3>4, NumAdd
    <3>2. drop = 0 => x = Done(c)
      BY <1>3, <2>8
    <3>3. drop = 0 \/ drop > 0
      BY <1>3, <2>8
    <3> QED BY <2>1, <3>1, <3>2, <3>3
  <2>13. /\ a \in Sockets
         /\ a.snd_una = Num(m, h, j) /\ a.txq = Run(x, L - x) /\ a.txseq = Num(m, h, x)
         /\ a.fin_acked = (j = L + 1)
         /\ a.state = c.state /\ a.own = c.own /\ a.held = c.held /\ a.linked = c.linked /\ a.queued = c.queued
         /\ a.closed = c.closed /\ a.reset = c.reset /\ a.sent = c.sent
         /\ a.rx = c.rx /\ a.fin_rcvd = c.fin_rcvd /\ a.rcv_nxt = c.rcv_nxt
         /\ a.snd_nxt = c.snd_nxt /\ a.fin_sent = c.fin_sent /\ a.fin_seq = c.fin_seq
    <3>1. Num(m, h, x) \in Int /\ Num(m, h, j) \in Int /\ Run(x, L - x) \in Seq(Int)
      <4>1. x \in Int /\ j \in Int /\ L - x \in Nat
        BY <1>3, <1>4, <2>8
      <4>2. Num(m, h, x) \in Int /\ Num(m, h, j) \in Int
        BY <4>1, NumInt
      <4>3. Run(x, L - x) \in Seq(Int)
        BY <4>1, RunFacts
      <4> QED BY <4>2, <4>3
    <3>2. a = [c EXCEPT !.snd_una = Num(m, h, j), !.txq = Run(x, L - x), !.txseq = Num(m, h, x),
                        !.fin_acked = (j = L + 1), !.tries = 0, !.rto = net_seq_diff(g.ack, c.snd_nxt) < 0]
      <4>1. (c.fin_acked \/ (c.fin_sent /\ net_seq_diff(g.ack, c.fin_seq) >= 1)) = (j = L + 1)
        BY <2>7, <2>9
      <4> QED BY <2>10, <2>11, <2>12, <4>1
    <3>3. (net_seq_diff(g.ack, c.snd_nxt) < 0) \in BOOLEAN /\ (j = L + 1) \in BOOLEAN
      OBVIOUS
    <3> DEFINE una == Num(m, h, j)
               q == Run(x, L - x)
               first == Num(m, h, x)
               all == j = L + 1
               late == net_seq_diff(g.ack, c.snd_nxt) < 0
               zero == 0
    <3> HIDE DEF una, q, first, all, late, zero
    <3>4. a = AckedTo(c, una, q, first, all, zero, late)
      BY <3>2 DEF una, q, first, all, late, zero, AckedTo
    <3>5. una \in Int /\ q \in Seq(Int) /\ first \in Int /\ all \in BOOLEAN /\ late \in BOOLEAN /\ zero \in Int
      BY <3>1, <3>3 DEF una, q, first, all, late, zero
    <3>6. /\ a \in Sockets
          /\ a.snd_una = una /\ a.txq = q /\ a.txseq = first /\ a.fin_acked = all
          /\ a.state = c.state /\ a.own = c.own /\ a.held = c.held /\ a.linked = c.linked /\ a.queued = c.queued
          /\ a.closed = c.closed /\ a.reset = c.reset /\ a.sent = c.sent
          /\ a.rx = c.rx /\ a.fin_rcvd = c.fin_rcvd /\ a.rcv_nxt = c.rcv_nxt
          /\ a.snd_nxt = c.snd_nxt /\ a.fin_sent = c.fin_sent /\ a.fin_seq = c.fin_seq
      <4>1. AckedFrom(c, una, q, first, all, zero, late)
        BY <3>5, AcknowledgedSocket
      <4> QED BY <3>4, <4>1 DEF AckedFrom
    <3> QED BY <3>6 DEF una, q, first, all
  <2>14. Len(a.txq) = L - x /\ Done(a) = x /\ Got(a) = Got(c)
    <3>2. x \in Int /\ L - x \in Nat
      BY <1>3, <2>8
    <3>1. Len(Run(x, L - x)) = L - x
      BY <3>2, RunFacts
    <3> QED BY <1>3, <2>8, <2>13, <3>1 DEF Done, Got, L
  <2>15. Ackd(a) = j
    <3>1. Ackd(a) = x + Bit(a.fin_acked)
      BY <2>14 DEF Ackd
    <3>2. CASE j = L + 1
      <4>1. Bit(a.fin_acked) = 1
        BY <2>13, <3>2 DEF Bit
      <4> QED BY <1>3, <2>8, <3>1, <3>2, <4>1
    <3>3. CASE j # L + 1
      <4>1. Bit(a.fin_acked) = 0
        BY <2>13, <3>3 DEF Bit
      <4>2. x = j
        BY <1>3, <1>4, <2>7, <2>8, <3>3
      <4> QED BY <2>8, <3>1, <4>1, <4>2
    <3> QED BY <3>2, <3>3
  <2>16. Follows(m, h, p, a)
    <3>1. Streams(a)
      <4>1. a.sent = Run(0, Len(a.sent)) /\ Len(a.sent) <= MaxBytes /\ a.rx = Run(0, Len(a.rx)) /\ Len(a.rx) <= MaxBytes
        BY <1>2, <2>13 DEF Streams
      <4>2. Len(a.txq) <= Len(a.sent)
        BY <1>3, <2>8, <2>13, <2>14 DEF L
      <4>3. a.txq = Run(Done(a), Len(a.txq))
        BY <2>13, <2>14
      <4> QED BY <4>1, <4>2, <4>3 DEF Streams
    <3> QED BY <1>2, <2>13, <2>14, <3>1 DEF Follows
  <2>17. Flows(m, h, a, u)
    <3>2. a.fin_acked => j = L + 1
      BY <2>13
    <3>3. j = L + 1 => Len(a.txq) = 0
      BY <1>3, <2>8, <2>14
    <3>1. a.fin_acked => a.fin_sent /\ Len(a.txq) = 0
      BY <2>7, <2>13, <3>2, <3>3
    <3> QED BY <1>1, <2>1, <2>8, <2>13, <2>14, <2>15, <3>1 DEF Flows, L
  <2>18. Pair(a, d)
    <3>1. /\ Len(c.rx) <= Len(d.sent) /\ (c.fin_rcvd => Len(c.rx) = Len(d.sent) /\ d.closed)
          /\ Len(d.rx) <= L /\ (d.fin_rcvd => Len(d.rx) = L /\ c.closed)
      BY DEF Paired, Pair, L
    <3>2. x <= Len(d.rx) /\ (j = L + 1 => Len(d.rx) = L /\ d.fin_rcvd)
      <4>1. d.fin_rcvd \in BOOLEAN /\ Got(d) = Len(d.rx) + Bit(d.fin_rcvd)
        BY SocketTypes DEF Got
      <4>2. j <= Got(d) /\ j \in Nat
        BY <1>4
      <4>3. CASE d.fin_rcvd
        <5>1. Len(d.rx) = L
          BY <3>1, <4>3
        <5> QED BY <1>3, <2>8, <4>3, <5>1
      <4>4. CASE ~d.fin_rcvd
        <5>1. Bit(d.fin_rcvd) = 0
          BY <4>4 DEF Bit
        <5>2. j <= Len(d.rx)
          BY <1>4, <4>1, <4>2, <5>1
        <5> QED BY <1>3, <1>4, <2>7, <2>8, <3>1, <4>2, <5>2
      <4> QED BY <4>1, <4>3, <4>4
    <3> QED BY <2>13, <2>14, <3>1, <3>2 DEF Pair, L
  <2>19. Grows(c, a)
    BY <1>3, <2>13 DEF Grows, L
  <2>20. Ready(m, h, p, a)
    BY <1>2, <2>13, <2>16, <2>17 DEF Ready
  <2> QED BY <2>13, <2>18, <2>19, <2>20 DEF Hears, a
<1> QED BY <1>5, <1>6

(* Concatenation by a name that the provers do not look into. *)
Glue(s, t) == s \o t

(* Received bytes continue those that were there. *)
LEMMA RunJoin ==
    ASSUME NEW n \in Nat, NEW k \in Nat, NEW t \in Nat, t = n + k
    PROVE  Glue(Run(0, n), Run(n, k)) = Run(0, t)
<1>1. \A a \in Int, i \in Nat, j \in Nat : Glue(Run(a, i), Run(a + i, j)) = Run(a, i + j)
  BY RunConcat DEF Glue
<1>2. Glue(Run(0, n), Run(0 + n, k)) = Run(0, n + k)
  BY <1>1
<1>3. 0 + n = n
  OBVIOUS
<1> QED BY <1>2, <1>3

LEMMA NumMoves ==
    ASSUME NEW m \in Machines, NEW h \in Handles, NEW k \in Int, NEW n \in Int, NEW t \in Int, t = k + n
    PROVE  net_seq_add(Num(m, h, k), n) = Num(m, h, t)
BY NumAdd

(* TakeData takes just the next bytes that the other end sent. *)
LEMMA TakeDataSound ==
    ASSUME NEW m \in Machines, NEW h \in Handles, NEW p \in Handles, NEW c \in Sockets, Ready(m, h, p, c),
           NEW d \in Sockets, Streams(d), Pair(c, d), NEW g \in Segments, Says(Peer(m), p, h, d, g)
    PROVE  LET a == TakeData(c, g)
           IN  Hears(c, a) /\ Ready(m, h, p, a) /\ Pair(a, d) /\ Grows(c, a)
<1> DEFINE a == TakeData(c, g)
           taken == g.data # <<>> /\ g.seq = c.rcv_nxt /\ ~c.fin_rcvd
<1>1. PICK u \in 0..MaxBytes : Flows(m, h, c, u)
  BY DEF Ready
<1>2. Follows(m, h, p, c) /\ Streams(c) /\ c.state = "est" /\ c.rcv_nxt = Num(Peer(m), p, Got(c))
  BY DEF Ready, Follows
<1>3. MaxBytes \in Nat /\ Len(c.rx) \in 0..MaxBytes /\ Got(c) \in 0..(MaxBytes + 1) /\ Len(c.sent) \in Nat
  BY <1>2, Lengths
<1>4. Len(d.sent) \in 0..MaxBytes
  BY Lengths
<1>5. CASE ~taken
  <2>1. a = c
    BY <1>5 DEF TakeData
  <2> QED BY <1>3, <2>1 DEF Hears, Grows
<1>6. CASE taken
  <2>1. a = [c EXCEPT !.rx = @ \o g.data, !.rcv_nxt = net_seq_add(@, Len(g.data))]
    BY <1>6 DEF TakeData
  <2>2. PICK k \in 0..(MaxBytes + 1) :
            g.seq = Num(Peer(m), p, k) /\ k + Len(g.data) <= Len(d.sent) /\ g.data = Run(k, Len(g.data))
    BY <1>6 DEF Says
  <2>3. Got(c) = Len(c.rx) /\ Len(g.data) \in Nat
    BY <1>3, <1>6 DEF Got, Bit, Segments
  <2>4. k = Len(c.rx)
    BY <1>2, <1>3, <1>6, <2>2, <2>3, NumSame, Peers
  <2> HIDE DEF a, taken
  <2> DEFINE n == Len(g.data)
             r == Len(c.rx)
             t == r + n
  <2>9. c.rx = Run(0, r) /\ g.data = Run(r, n) /\ c.rcv_nxt = Num(Peer(m), p, r)
    BY <1>2, <2>2, <2>3, <2>4 DEF Streams
  <2>10. n \in Nat /\ n # 0 /\ r \in 0..MaxBytes /\ r + n <= Len(d.sent) /\ Len(d.sent) \in 0..MaxBytes /\ MaxBytes \in Nat
    BY <1>3, <1>4, <1>6, <2>2, <2>3, <2>4, EmptySeq DEF Segments, taken
  <2> HIDE DEF n, r
  <2>11. r \in Nat /\ t \in Nat /\ t = r + n /\ t <= Len(d.sent) /\ t \in 0..MaxBytes
    BY <2>10
  <2> HIDE DEF t
  <2>5. c.rx \o g.data = Run(0, t)
    <3>1. Glue(Run(0, r), Run(r, n)) = Run(0, t)
      BY <2>10, <2>11, RunJoin
    <3>2. Glue(c.rx, g.data) = Run(0, t)
      BY <2>9, <3>1
    <3> QED BY <3>2 DEF Glue
  <2>6. net_seq_add(c.rcv_nxt, n) = Num(Peer(m), p, t)
    BY <2>9, <2>10, <2>11, NumMoves, Peers
  <2>7. /\ a \in Sockets
        /\ a.rx = Run(0, t) /\ a.rcv_nxt = Num(Peer(m), p, t)
        /\ a.snd_una = c.snd_una /\ a.txq = c.txq /\ a.txseq = c.txseq /\ a.fin_acked = c.fin_acked
        /\ a.state = c.state /\ a.own = c.own /\ a.held = c.held /\ a.linked = c.linked /\ a.queued = c.queued
        /\ a.closed = c.closed /\ a.reset = c.reset /\ a.sent = c.sent /\ a.fin_rcvd = c.fin_rcvd
        /\ a.snd_nxt = c.snd_nxt /\ a.fin_sent = c.fin_sent /\ a.fin_seq = c.fin_seq
    <3>1. Run(0, t) \in Seq(Int)
      BY <2>11, RunFacts
    <3>2. Num(Peer(m), p, t) \in Int
      BY <2>11, NumInt, Peers
    <3>3. a = [c EXCEPT !.rx = Run(0, t), !.rcv_nxt = Num(Peer(m), p, t)]
      BY <2>1, <2>5, <2>6 DEF n
    <3> QED BY <3>1, <3>2, <3>3 DEF Sockets
  <2>8. Len(a.rx) = t /\ Done(a) = Done(c) /\ Ackd(a) = Ackd(c) /\ Got(a) = t
    <3>1. Len(Run(0, t)) = t
      BY <2>11, RunFacts
    <3>2. Bit(a.fin_rcvd) = 0
      BY <1>6, <2>7 DEF Bit, taken
    <3> QED BY <2>7, <2>11, <3>1, <3>2 DEF Done, Ackd, Got
  <2>12. Streams(a)
    BY <1>2, <2>7, <2>8, <2>11 DEF Streams
  <2>13. Flows(m, h, a, u)
    BY <1>1, <2>7, <2>8 DEF Flows
  <2>14. Ready(m, h, p, a)
    BY <1>2, <2>7, <2>8, <2>12, <2>13 DEF Ready, Follows
  <2>15. Pair(a, d)
    BY <1>6, <2>7, <2>8, <2>11 DEF Pair, taken
  <2>16. Grows(c, a)
    BY <1>3, <1>6, <2>7, <2>8, <2>10, <2>11 DEF Grows, taken, r
  <2> QED BY <2>7, <2>14, <2>15, <2>16 DEF Hears, a
<1> QED BY <1>5, <1>6

(* TakeFin takes the end of the stream only after all of it. *)
LEMMA TakeFinSound ==
    ASSUME NEW m \in Machines, NEW h \in Handles, NEW p \in Handles, NEW c \in Sockets, Ready(m, h, p, c),
           NEW d \in Sockets, Streams(d), Pair(c, d), NEW g \in Segments, Says(Peer(m), p, h, d, g)
    PROVE  LET a == TakeFin(c, g)
           IN  Hears(c, a) /\ Ready(m, h, p, a) /\ Pair(a, d) /\ Grows(c, a)
<1> DEFINE a == TakeFin(c, g)
           taken == "fin" \in g.flags /\ net_seq_add(g.seq, Len(g.data)) = c.rcv_nxt /\ ~c.fin_rcvd
<1>1. PICK u \in 0..MaxBytes : Flows(m, h, c, u)
  BY DEF Ready
<1>2. Follows(m, h, p, c) /\ Streams(c) /\ c.state = "est" /\ c.rcv_nxt = Num(Peer(m), p, Got(c))
  BY DEF Ready, Follows
<1>3. MaxBytes \in Nat /\ Len(c.rx) \in 0..MaxBytes /\ Got(c) \in 0..(MaxBytes + 1) /\ Len(c.sent) \in Nat
  BY <1>2, Lengths
<1>4. Len(d.sent) \in 0..MaxBytes
  BY Lengths
<1>5. CASE ~taken
  <2>1. a = c
    BY <1>5 DEF TakeFin
  <2> QED BY <1>3, <2>1 DEF Hears, Grows
<1>6. CASE taken
  <2>1. a = [c EXCEPT !.fin_rcvd = TRUE, !.rcv_nxt = net_seq_add(@, 1)]
    BY <1>6 DEF TakeFin
  <2>2. PICK k \in 0..(MaxBytes + 1) :
            g.seq = Num(Peer(m), p, k) /\ k = Len(d.sent) /\ d.closed /\ g.data = <<>>
    BY <1>6 DEF Says
  <2>3. Got(c) = Len(c.rx) /\ Len(g.data) = 0
    BY <1>3, <1>6, <2>2 DEF Got, Bit
  <2>4. Len(d.sent) = Len(c.rx)
    <3>2. k \in Int /\ 0 \in Int /\ k = k + 0
      BY <1>3
    <3>1. net_seq_add(g.seq, 0) = Num(Peer(m), p, k)
      BY <2>2, <3>2, NumMoves, Peers
    <3> QED BY <1>2, <1>3, <1>6, <2>2, <2>3, <3>1, NumSame, Peers
  <2> HIDE DEF a, taken
  <2> DEFINE r == Len(c.rx)
             t == r + 1
  <2>5. r \in Int /\ t \in Int /\ 1 \in Int /\ t = r + 1 /\ c.rcv_nxt = Num(Peer(m), p, r)
    BY <1>2, <1>3, <2>3
  <2> HIDE DEF t, r
  <2>6. net_seq_add(c.rcv_nxt, 1) = Num(Peer(m), p, t) /\ Num(Peer(m), p, t) \in Int
    <3>1. net_seq_add(Num(Peer(m), p, r), 1) = Num(Peer(m), p, t)
      BY <2>5, NumMoves, Peers
    <3>2. Num(Peer(m), p, t) \in Int
      BY <2>5, NumInt, Peers
    <3> QED BY <2>5, <3>1, <3>2
  <2>7. /\ a \in Sockets
        /\ a.fin_rcvd = TRUE /\ a.rcv_nxt = Num(Peer(m), p, t) /\ a.rx = c.rx
        /\ a.snd_una = c.snd_una /\ a.txq = c.txq /\ a.txseq = c.txseq /\ a.fin_acked = c.fin_acked
        /\ a.state = c.state /\ a.own = c.own /\ a.held = c.held /\ a.linked = c.linked /\ a.queued = c.queued
        /\ a.closed = c.closed /\ a.reset = c.reset /\ a.sent = c.sent
        /\ a.snd_nxt = c.snd_nxt /\ a.fin_sent = c.fin_sent /\ a.fin_seq = c.fin_seq
    <3> QED BY <2>1, <2>6 DEF Sockets
  <2>8. Done(a) = Done(c) /\ Ackd(a) = Ackd(c) /\ Got(a) = t
    BY <2>5, <2>7 DEF Done, Ackd, Got, Bit, r
  <2>9. Streams(a)
    BY <1>2, <2>7, <2>8 DEF Streams
  <2>10. Flows(m, h, a, u)
    BY <1>1, <2>7, <2>8 DEF Flows
  <2>11. Ready(m, h, p, a)
    BY <1>2, <2>7, <2>8, <2>9, <2>10 DEF Ready, Follows
  <2>12. Pair(a, d)
    BY <2>2, <2>4, <2>7, <2>8 DEF Pair
  <2>13. Grows(c, a)
    BY <1>3, <1>6, <2>7 DEF Grows, taken
  <2> QED BY <2>7, <2>11, <2>12, <2>13 DEF Hears, a
<1> QED BY <1>5, <1>6

-----------------------------------------------------------------------------
(* After a segment *)

(* e knows of the streams what c knows. *)
Told(c, e) ==
    /\ e.rx = c.rx /\ e.txq = c.txq /\ e.sent = c.sent
    /\ e.fin_rcvd = c.fin_rcvd /\ e.fin_acked = c.fin_acked

(* Sockets that differ in neither streams nor what they know of them. *)
LEMMA PairTold ==
    ASSUME NEW c, NEW d, NEW e, Pair(c, d), Told(c, e) PROVE Pair(e, d)
BY DEF Pair, Told, Done

LEMMA GrowsTransitive ==
    ASSUME NEW c \in Sockets, NEW d \in Sockets, NEW e \in Sockets, Grows(c, d), Grows(d, e) PROVE Grows(c, e)
<1>1. /\ Len(c.sent) \in Nat /\ Len(d.sent) \in Nat /\ Len(e.sent) \in Nat
      /\ Len(c.rx) \in Nat /\ Len(d.rx) \in Nat /\ Len(e.rx) \in Nat
  BY SocketTypes
<1> QED BY <1>1 DEF Grows

LEMMA GrowsItself ==
    ASSUME NEW c \in Sockets, NEW e, Told(c, e), c.closed => e.closed PROVE Grows(c, e)
<1>1. Len(c.sent) \in Nat /\ Len(c.rx) \in Nat
  BY SocketTypes
<1> QED BY <1>1 DEF Grows, Told

(* What does not touch the streams keeps what follows them. *)
LEMMA ToldFollows ==
    ASSUME NEW m, NEW h, NEW p, NEW c, NEW e, Follows(m, h, p, c), Told(c, e), e.rcv_nxt = c.rcv_nxt
    PROVE  Follows(m, h, p, e)
<1>1. Done(e) = Done(c) /\ Got(e) = Got(c)
  BY DEF Told, Done, Got
<1> QED BY <1>1 DEF Follows, Streams, Told

LEMMA ToldReady ==
    ASSUME NEW m, NEW h, NEW p, NEW c, NEW e, Ready(m, h, p, c), Told(c, e), e.rcv_nxt = c.rcv_nxt,
           e.state = c.state, e.txseq = c.txseq, e.snd_una = c.snd_una, e.snd_nxt = c.snd_nxt,
           e.fin_sent = c.fin_sent, e.fin_seq = c.fin_seq, c.closed => e.closed
    PROVE  Ready(m, h, p, e)
<1>1. Follows(m, h, p, e)
  BY ToldFollows DEF Ready
<1>2. PICK u \in 0..MaxBytes : Flows(m, h, c, u)
  BY DEF Ready
<1>3. Done(e) = Done(c) /\ Ackd(e) = Ackd(c)
  BY DEF Told, Done, Ackd
<1>4. Flows(m, h, e, u)
  BY <1>2, <1>3 DEF Flows, Told
<1> QED BY <1>1, <1>4 DEF Ready

(* net_tcp_reap of a socket of which c may be said what may be of any end. *)
LEMMA ReapFields ==
    ASSUME NEW c \in Sockets
    PROVE  LET r == net_tcp_reap(c)
           IN  /\ r \in Sockets /\ Told(c, r) /\ r.rcv_nxt = c.rcv_nxt /\ r.closed = c.closed /\ r.fin_sent = c.fin_sent
               /\ \/ r.state = "closed" /\ ~r.linked
                  \/ /\ r.state = c.state /\ r.linked = c.linked /\ r.rto = c.rto
                     /\ r.txseq = c.txseq /\ r.snd_una = c.snd_una /\ r.snd_nxt = c.snd_nxt
                     /\ r.fin_seq = c.fin_seq /\ r.own = c.own /\ r.queued = c.queued
<1> DEFINE r == net_tcp_reap(c)
<1>1. CASE c.reset \/ (c.fin_acked /\ c.fin_rcvd)
  <2>1. r = [c EXCEPT !.linked = FALSE, !.state = "closed", !.held = @ /\ ~c.closed]
    BY <1>1 DEF net_tcp_reap
  <2> HIDE DEF r
  <2>2. r \in Sockets
    BY <2>1, ZenonT(30) DEF Sockets, States
  <2>3. /\ r.rx = c.rx /\ r.txq = c.txq /\ r.sent = c.sent /\ r.fin_rcvd = c.fin_rcvd /\ r.fin_acked = c.fin_acked
        /\ r.rcv_nxt = c.rcv_nxt /\ r.closed = c.closed /\ r.state = "closed" /\ ~r.linked /\ r.fin_sent = c.fin_sent
    BY <2>1 DEF Sockets
  <2> QED BY <2>2, <2>3 DEF Told, r
<1>2. CASE ~(c.reset \/ (c.fin_acked /\ c.fin_rcvd))
  <2>1. r = [c EXCEPT !.linger = @ \/ (c.closed /\ c.fin_acked)]
    BY <1>2 DEF net_tcp_reap
  <2> HIDE DEF r
  <2>2. r \in Sockets
    BY <2>1 DEF Sockets
  <2>3. /\ r.rx = c.rx /\ r.txq = c.txq /\ r.sent = c.sent /\ r.fin_rcvd = c.fin_rcvd /\ r.fin_acked = c.fin_acked
        /\ r.rcv_nxt = c.rcv_nxt /\ r.closed = c.closed
        /\ r.state = c.state /\ r.linked = c.linked /\ r.rto = c.rto
        /\ r.txseq = c.txseq /\ r.snd_una = c.snd_una /\ r.snd_nxt = c.snd_nxt
        /\ r.fin_sent = c.fin_sent /\ r.fin_seq = c.fin_seq /\ r.own = c.own /\ r.queued = c.queued
    BY <2>1 DEF Sockets
  <2> QED BY <2>2, <2>3 DEF Told, r
<1> QED BY <1>1, <1>2

(* Whether something is left to do depends on state and numbers only. *)
LEMMA OwesSame ==
    ASSUME NEW c, NEW e, Told(c, e), e.state = c.state, e.txseq = c.txseq, e.snd_una = c.snd_una,
           e.snd_nxt = c.snd_nxt, e.fin_sent = c.fin_sent, e.closed = c.closed
    PROVE  Owes(e) = Owes(c)
BY DEF Owes, InFlight, Avail, Sent, Told

(* What an established socket is after it was reaped. *)
LEMMA ReapSound ==
    ASSUME NEW m, NEW h, NEW p, NEW c \in Sockets, Ready(m, h, p, c), Owes(c) => c.rto
    PROVE  LET r == net_tcp_reap(c)
           IN  r \in Sockets /\ End(m, h, p, r) /\ Told(c, r) /\ Grows(c, r) /\ r.state # "new"
<1> DEFINE r == net_tcp_reap(c)
<1> HIDE DEF r
<1>1. /\ r \in Sockets /\ Told(c, r) /\ r.rcv_nxt = c.rcv_nxt /\ r.closed = c.closed /\ r.fin_sent = c.fin_sent
      /\ \/ r.state = "closed" /\ ~r.linked
         \/ /\ r.state = c.state /\ r.linked = c.linked /\ r.rto = c.rto
            /\ r.txseq = c.txseq /\ r.snd_una = c.snd_una /\ r.snd_nxt = c.snd_nxt
            /\ r.fin_seq = c.fin_seq
  BY ReapFields DEF r
<1>2. Follows(m, h, p, r) /\ c.state = "est"
  BY <1>1, ToldFollows DEF Ready
<1>3. Grows(c, r)
  BY <1>1, GrowsItself
<1>4. CASE r.state = "closed" /\ ~r.linked
  BY <1>1, <1>2, <1>3, <1>4 DEF End, Timed, r
<1>5. CASE ~(r.state = "closed" /\ ~r.linked)
  <2>1. Ready(m, h, p, r)
    BY <1>1, <1>5, ToldReady
  <2>2. Owes(r) = Owes(c)
    BY <1>1, <1>5, OwesSame
  <2>3. Timed(r)
    BY <1>1, <1>2, <1>5, <2>2 DEF Timed
  <2> QED BY <1>1, <1>2, <1>3, <1>5, <2>1, <2>3 DEF End, r
<1> QED BY <1>4, <1>5

(* The answer to a segment, if there is one. *)
LEMMA AnswerSays ==
    ASSUME NEW m \in Machines, NEW h \in Handles, NEW p \in Handles, NEW c \in Sockets, Ready(m, h, p, c)
    PROVE  /\ net_tcp_ctl(c, {"ack"}, c.snd_nxt).c = c
           /\ \A g \in net_tcp_ctl(c, {"ack"}, c.snd_nxt).out : g \in Segments /\ Says(m, h, p, c, g)
<1>1. PICK u \in 0..MaxBytes : Flows(m, h, c, u)
  BY DEF Ready
<1>2. Follows(m, h, p, c) /\ Streams(c)
  BY DEF Ready, Follows
<1>3. u + Bit(c.fin_sent) \in 0..(MaxBytes + 1) /\ c.snd_nxt = Num(m, h, u + Bit(c.fin_sent))
  BY <1>1, <1>2, NumHere
<1>4. /\ net_tcp_ctl(c, {"ack"}, c.snd_nxt).c = c
      /\ net_tcp_ctl(c, {"ack"}, c.snd_nxt).out = {net_tcp_seg(c, {"ack"}, c.snd_nxt, <<>>)}
  BY DEF net_tcp_ctl, Out
<1>5. LET g == net_tcp_seg(c, {"ack"}, c.snd_nxt, <<>>) IN g \in Segments /\ Says(m, h, p, c, g)
  BY <1>2, <1>3, AckSays
<1> QED BY <1>4, <1>5

(* What a socket sends is what it says when it has sent and was reaped. *)
LEMMA OutputReaped ==
    ASSUME NEW m \in Machines, NEW h \in Handles, NEW p \in Handles, NEW c \in Sockets, Ready(m, h, p, c),
           NEW d \in Sockets, Paired(c, d)
    PROVE  LET o == Reaped(net_tcp_output(c))
           IN  /\ o.c \in Sockets /\ End(m, h, p, o.c) /\ Paired(o.c, d) /\ Grows(c, o.c) /\ o.c.state # "new"
               /\ \A g \in o.out : g \in Segments /\ Says(m, h, p, o.c, g)
<1> DEFINE s == net_tcp_output(c)
           r == net_tcp_reap(s.c)
<1>1. /\ Alike(c, s.c) /\ Ready(m, h, p, s.c) /\ (Owes(s.c) => s.c.rto)
      /\ \A g \in s.out : g \in Segments /\ Says(m, h, p, s.c, g)
  BY OutputSound
<1>2. Reaped(s).c = r /\ Reaped(s).out = s.out
  BY DEF Reaped, Out
<1> HIDE DEF s
<1>3. s.c \in Sockets /\ Told(c, s.c) /\ Grows(c, s.c)
  BY <1>1, AlikeFollows DEF Alike, Told, Ready
<1>4. r \in Sockets /\ End(m, h, p, r) /\ Told(s.c, r) /\ Grows(s.c, r) /\ r.state # "new"
  BY <1>1, <1>3, ReapSound
<1> HIDE DEF r
<1>5. Grows(c, r)
  BY <1>3, <1>4, GrowsTransitive
<1>6. Told(c, r)
  BY <1>3, <1>4 DEF Told
<1>7. Paired(r, d)
  BY <1>4, <1>5, <1>6, PairTold, PairGrows DEF Paired
<1>8. \A g \in s.out : g \in Segments /\ Says(m, h, p, r, g)
  BY <1>1, <1>3, <1>4, SaysGrows
<1> QED BY <1>2, <1>4, <1>5, <1>7, <1>8 DEF s

(* Segment, in a conversation: it takes what its partner said, answers and sends on. *)
LEMMA SegmentSound ==
    ASSUME NEW m \in Machines, NEW h \in Handles, NEW p \in Handles, NEW c \in Sockets, Ready(m, h, p, c),
           NEW d \in Sockets, Streams(d), Paired(c, d),
           NEW g \in Segments, Says(Peer(m), p, h, d, g)
    PROVE  LET o == Segment(c, g)
           IN  /\ o.c \in Sockets /\ End(m, h, p, o.c) /\ Paired(o.c, d) /\ Grows(c, o.c) /\ o.c.state # "new"
               /\ \A x \in o.out : x \in Segments /\ Says(m, h, p, o.c, x)
<1> DEFINE a == Acknowledge(c, g)
           b == TakeData(a, g)
           e == TakeFin(b, g)
           answer == IF g.data # <<>> \/ "fin" \in g.flags THEN net_tcp_ctl(e, {"ack"}, e.snd_nxt) ELSE Out(e, {})
           s == net_tcp_output(e)
           o == Reaped(s)
<1>1. PICK j \in 0..Got(d) : g.ack = Num(m, h, j)
  BY Peers DEF Says
<1>2. Hears(c, a) /\ Ready(m, h, p, a) /\ Pair(a, d) /\ Grows(c, a)
  BY <1>1, AcknowledgeSound
<1> HIDE DEF a
<1>3. Hears(a, b) /\ Ready(m, h, p, b) /\ Pair(b, d) /\ Grows(a, b)
  BY <1>2, TakeDataSound DEF Hears
<1> HIDE DEF b
<1>4. Hears(b, e) /\ Ready(m, h, p, e) /\ Pair(e, d) /\ Grows(b, e)
  BY <1>3, TakeFinSound DEF Hears
<1> HIDE DEF e
<1>5. a \in Sockets /\ b \in Sockets /\ e \in Sockets
  BY <1>2, <1>3, <1>4 DEF Hears
<1>6. Grows(c, e)
  <2>1. Grows(c, b)
    BY <1>2, <1>3, <1>5, GrowsTransitive
  <2> QED BY <1>4, <1>5, <2>1, GrowsTransitive
<1>7. Paired(e, d)
  BY <1>4, <1>5, <1>6, PairGrows DEF Paired
<1>8. answer.c = e /\ \A x \in answer.out : x \in Segments /\ Says(m, h, p, e, x)
  <2>1. CASE g.data # <<>> \/ "fin" \in g.flags
    BY <1>4, <1>5, <2>1, AnswerSays
  <2>2. CASE ~(g.data # <<>> \/ "fin" \in g.flags)
    BY <2>2 DEF Out
  <2> QED BY <2>1, <2>2
<1>9. /\ o.c \in Sockets /\ End(m, h, p, o.c) /\ Paired(o.c, d) /\ Grows(e, o.c) /\ o.c.state # "new"
      /\ \A x \in o.out : x \in Segments /\ Says(m, h, p, o.c, x)
  BY <1>4, <1>5, <1>7, OutputReaped
<1>10. Segment(c, g) = Out(o.c, answer.out \cup o.out)
  <2>1. "syn" \notin g.flags
    BY DEF Says
  <2>2. Segment(c, g) = Reaped(Joined(answer, net_tcp_output(answer.c)))
    BY <2>1 DEF Segment, a, b, e
  <2> HIDE DEF answer
  <2>3. Segment(c, g) = Reaped(Joined(answer, s))
    BY <1>8, <2>2
  <2> HIDE DEF s
  <2>4. Reaped(Joined(answer, s)) = Out(net_tcp_reap(s.c), answer.out \cup s.out)
    BY DEF Reaped, Joined, Out
  <2>5. o.c = net_tcp_reap(s.c) /\ o.out = s.out
    BY DEF Reaped, Out
  <2> QED BY <2>3, <2>4, <2>5
<1> HIDE DEF o, answer
<1>11. Segment(c, g).c = o.c /\ Segment(c, g).out = answer.out \cup o.out
  BY <1>10 DEF Out
<1>12. Grows(c, o.c)
  BY <1>5, <1>6, <1>9, GrowsTransitive
<1>13. \A x \in answer.out : Says(m, h, p, o.c, x)
  BY <1>5, <1>8, <1>9, SaysGrows
<1> QED BY <1>8, <1>9, <1>11, <1>12, <1>13

-----------------------------------------------------------------------------
(* The beginning of a conversation *)

(* A socket that has just come to stand, at either end. *)
LEMMA BlankReady ==
    ASSUME NEW m \in Machines, NEW h \in Handles, NEW p \in Handles, NEW c \in Sockets, Blank(c), c.state = "est",
           c.snd_una = Num(m, h, 0), c.snd_nxt = Num(m, h, 0), c.txseq = Num(m, h, 0), c.rcv_nxt = Num(Peer(m), p, 0)
    PROVE  Ready(m, h, p, c) /\ Timed(c) /\ Streams(c) /\ Got(c) = 0
<1>1. /\ c.rx = <<>> /\ c.txq = <<>> /\ c.sent = <<>>
      /\ ~c.fin_rcvd /\ ~c.fin_sent /\ ~c.fin_acked /\ ~c.closed
  BY DEF Blank
<1>2. Len(c.rx) = 0 /\ Len(c.txq) = 0 /\ Len(c.sent) = 0 /\ Run(0, 0) = <<>> /\ MaxBytes \in Nat
  BY <1>1, RunFacts, Constants
<1>3. Bit(c.fin_rcvd) = 0 /\ Bit(c.fin_sent) = 0 /\ Bit(c.fin_acked) = 0
  BY <1>1 DEF Bit
<1>4. Done(c) = 0 /\ Ackd(c) = 0 /\ Got(c) = 0
  BY <1>2, <1>3 DEF Done, Ackd, Got
<1>5. Streams(c)
  BY <1>1, <1>2, <1>4 DEF Streams
<1>6. Follows(m, h, p, c)
  BY <1>4, <1>5 DEF Follows
<1>7. 0 \in 0..MaxBytes /\ 0 + Bit(c.fin_sent) = 0
  BY <1>2, <1>3
<1>8. Flows(m, h, c, 0)
  BY <1>1, <1>2, <1>4, <1>7 DEF Flows
<1>9. Ready(m, h, p, c)
  BY <1>6, <1>7, <1>8 DEF Ready
<1>10. InFlight(c) = (0 + Bit(c.fin_sent)) - Ackd(c) /\ Avail(c) = Len(c.sent) - 0
  BY <1>5, <1>7, <1>8, FlowNumbers
<1>11. ~Owes(c)
  BY <1>1, <1>2, <1>3, <1>4, <1>10 DEF Owes
<1> QED BY <1>4, <1>5, <1>9, <1>11 DEF Timed

(* net_tcp_in, when the server hears that its answer has come. *)
LEMMA EstablishedByAck ==
    ASSUME NEW m \in Machines, NEW h \in Handles, NEW p \in Handles, NEW c \in Sockets, End(m, h, p, c), c.state = "syn_rcvd",
           NEW g \in Segments, g.ack = c.snd_nxt, NEW open \in BOOLEAN
    PROVE  LET e == [Established(c, g) EXCEPT !.queued = open]
           IN  e \in Sockets /\ Ready(m, h, p, e) /\ Told(c, e) /\ Grows(c, e)
<1> DEFINE zero == 0
           e == [Established(c, g) EXCEPT !.queued = open]
<1>1. Waits(m, h, c) /\ Follows(m, h, p, c)
  BY DEF End, Ready
<1>2. Blank(c) /\ c.snd_nxt = Num(m, h, 0) /\ c.txseq = Num(m, h, 0)
  BY <1>1 DEF Waits, Begun
<1>3. zero \in Int
  OBVIOUS
<1> HIDE DEF zero
<1>4. e = [c EXCEPT !.state = "est", !.snd_una = g.ack, !.rto = FALSE, !.tries = zero, !.queued = open]
  BY DEF Established, zero, Sockets
<1>5. g.ack \in Int
  BY DEF Segments
<1> HIDE DEF e
<1>6. e \in Sockets
  BY <1>3, <1>4, <1>5 DEF Sockets, States
<1>7. /\ Told(c, e) /\ e.state = "est" /\ e.snd_una = g.ack /\ e.snd_nxt = c.snd_nxt /\ e.txseq = c.txseq
      /\ e.rcv_nxt = c.rcv_nxt /\ e.fin_sent = c.fin_sent /\ e.closed = c.closed
  BY <1>4 DEF Sockets, Told
<1>8. Blank(e)
  BY <1>2, <1>7 DEF Blank, Told
<1>9. e.rcv_nxt = Num(Peer(m), p, 0)
  <2>1. Got(c) = 0
    BY <1>2 DEF Blank, Got, Bit
  <2> QED BY <1>1, <1>7, <2>1 DEF Follows
<1>10. Ready(m, h, p, e)
  BY <1>2, <1>6, <1>7, <1>8, <1>9, BlankReady
<1>11. Grows(c, e)
  BY <1>7, GrowsItself
<1> QED BY <1>6, <1>7, <1>10, <1>11 DEF e

(* net_tcp_in, when the client hears the answer to its call. *)
LEMMA EstablishedByAnswer ==
    ASSUME NEW h \in Handles, NEW c \in Sockets, Quiet(0, "client", 1, c), c.state = "syn_sent",
           NEW g \in Segments, g.ack = c.snd_nxt, g.seq = net_iss("server", h)
    PROVE  LET e == [Established(c, g) EXCEPT !.rcv_nxt = net_seq_add(g.seq, 1)]
           IN  e \in Sockets /\ Ready("client", 1, h, e) /\ Timed(e) /\ Blank(e) /\ Streams(e) /\ Got(e) = 0
<1> DEFINE zero == 0
           next == net_seq_add(g.seq, 1)
           e == [Established(c, g) EXCEPT !.rcv_nxt = next]
<1>0. "client" \in Machines /\ "server" \in Machines /\ 1 \in Handles /\ Peer("client") = "server"
  BY Constants DEF Machines, Handles, Peer
<1>1. Blank(c) /\ c.snd_nxt = Num("client", 1, 0) /\ c.txseq = Num("client", 1, 0)
  BY DEF Quiet, Begun
<1>2. next = Num("server", h, 0) /\ next \in Int
  <2>1. Num("server", h, 0) = net_seq_add(net_iss("server", h), 1)
    BY DEF Num
  <2>2. Num("server", h, 0) \in Int
    BY <1>0, NumInt
  <2> QED BY <2>1, <2>2
<1>3. zero \in Int
  OBVIOUS
<1> HIDE DEF zero, next
<1>4. e = [c EXCEPT !.state = "est", !.snd_una = g.ack, !.rto = FALSE, !.tries = zero, !.rcv_nxt = next]
  BY DEF Established, zero, Sockets
<1>5. g.ack \in Int
  BY DEF Segments
<1> HIDE DEF e
<1>6. e \in Sockets
  BY <1>2, <1>3, <1>4, <1>5 DEF Sockets, States
<1>7. /\ Told(c, e) /\ e.state = "est" /\ e.snd_una = g.ack /\ e.snd_nxt = c.snd_nxt /\ e.txseq = c.txseq
      /\ e.rcv_nxt = next /\ e.fin_sent = c.fin_sent /\ e.closed = c.closed
  BY <1>4 DEF Sockets, Told
<1>8. Blank(e)
  BY <1>1, <1>7 DEF Blank, Told
<1>9. Ready("client", 1, h, e) /\ Timed(e) /\ Streams(e) /\ Got(e) = 0
  BY <1>0, <1>1, <1>2, <1>6, <1>7, <1>8, BlankReady
<1> QED BY <1>6, <1>8, <1>9 DEF e, next

(* net_tcp_retransmit goes back. *)
LEMMA GoneBack ==
    ASSUME NEW m \in Machines, NEW h \in Handles, NEW p \in Handles, NEW c \in Sockets, Ready(m, h, p, c)
    PROVE  LET e == [c EXCEPT !.tries = @ + 1, !.snd_nxt = c.snd_una, !.fin_sent = @ /\ c.fin_acked]
           IN  e \in Sockets /\ Ready(m, h, p, e) /\ Told(c, e) /\ Grows(c, e)
<1> DEFINE more == c.tries + 1
           e == [c EXCEPT !.tries = @ + 1, !.snd_nxt = c.snd_una, !.fin_sent = @ /\ c.fin_acked]
<1>1. PICK u \in 0..MaxBytes : Flows(m, h, c, u)
  BY DEF Ready
<1>2. Follows(m, h, p, c) /\ Streams(c) /\ c.state = "est"
  BY DEF Ready, Follows
<1>3. more \in Int /\ c.snd_una \in Int
  BY DEF Sockets
<1> HIDE DEF more
<1>4. e = [c EXCEPT !.tries = more, !.snd_nxt = c.snd_una, !.fin_sent = @ /\ c.fin_acked]
  BY DEF more, Sockets
<1> HIDE DEF e
<1>5. e \in Sockets
  BY <1>3, <1>4, ZenonT(30) DEF Sockets
<1>6. /\ Told(c, e) /\ e.state = "est" /\ e.snd_una = c.snd_una /\ e.snd_nxt = c.snd_una /\ e.txseq = c.txseq
      /\ e.rcv_nxt = c.rcv_nxt /\ e.fin_sent = (c.fin_sent /\ c.fin_acked) /\ e.closed = c.closed /\ e.fin_seq = c.fin_seq
  BY <1>2, <1>4 DEF Sockets, Told
<1>7. Done(e) = Done(c) /\ Ackd(e) = Ackd(c)
  BY <1>6 DEF Told, Done, Ackd
<1>8. Follows(m, h, p, e)
  BY <1>2, <1>6, ToldFollows
<1>9. Done(c) \in 0..MaxBytes /\ Done(c) <= Len(c.sent) /\ (Len(c.txq) = 0 => Done(c) = Len(c.sent))
  BY <1>2, Lengths
<1>10. e.fin_sent <=> c.fin_acked
  BY <1>1, <1>6 DEF Flows
<1>11. Done(c) + Bit(e.fin_sent) = Ackd(c)
  BY <1>10 DEF Ackd, Bit
<1>12. Flows(m, h, e, Done(c))
  BY <1>1, <1>6, <1>7, <1>9, <1>10, <1>11 DEF Flows, Told
<1>13. Ready(m, h, p, e)
  BY <1>6, <1>8, <1>9, <1>12 DEF Ready
<1>14. Grows(c, e)
  BY <1>6, GrowsItself
<1> QED BY <1>5, <1>6, <1>13, <1>14 DEF e

-----------------------------------------------------------------------------
(* Steps of one socket *)

(* Segments that belong to no stream: resets, calls and answers to a call. *)
Greets(m, h, y) ==
    \/ "rst" \in y.flags /\ "syn" \notin y.flags
    \/ m = "client" /\ y.flags = {"syn"} /\ y.seq = net_iss("client", 1) /\ y.data = <<>>
    \/ /\ m = "server" /\ y.flags = {"syn", "ack"} /\ y.data = <<>>
       /\ y.ack = Num("client", 1, 0) /\ y.seq = net_iss("server", h)

(* c, whose partner is d, may become o.c and send o.out. *)
EndStep(m, h, p, c, d, o) ==
    /\ o.c \in Sockets /\ End(m, h, p, o.c) /\ Paired(o.c, d) /\ Grows(c, o.c) /\ o.c.state # "new"
    /\ \A y \in o.out : y \in Segments /\ (Says(m, h, p, o.c, y) \/ Greets(m, h, y))

(* The same of a socket in no conversation. *)
QuietStep(i, m, h, o) ==
    /\ o.c \in Sockets /\ Quiet(i, m, h, o.c) /\ o.c.state # "new"
    /\ \A y \in o.out : y \in Segments /\ Greets(m, h, y)

(* A socket that closes, at the end of a conversation and outside of one. *)
LEMMA ClosedEnd ==
    ASSUME NEW m, NEW h, NEW p, NEW c \in Sockets, Follows(m, h, p, c), NEW d \in Sockets, Paired(c, d),
           NEW e \in Sockets, Told(c, e), e.rcv_nxt = c.rcv_nxt, c.closed => e.closed, e.state = "closed", ~e.linked
    PROVE  End(m, h, p, e) /\ Paired(e, d) /\ Grows(c, e)
<1>1. Follows(m, h, p, e) /\ Grows(c, e)
  BY ToldFollows, GrowsItself
<1>2. Paired(e, d)
  BY <1>1, PairTold, PairGrows DEF Paired
<1> QED BY <1>1, <1>2 DEF End, Timed

LEMMA ClosedQuiet ==
    ASSUME NEW i, NEW m, NEW h, NEW c \in Sockets, Quiet(i, m, h, c), c.state # "new",
           NEW e \in Sockets, Told(c, e), e.rcv_nxt = c.rcv_nxt, e.closed = c.closed, e.fin_sent = c.fin_sent,
           e.state = "closed", ~e.linked
    PROVE  Quiet(i, m, h, e)
<1>1. Blank(e)
  BY DEF Quiet, Blank, Told
<1> QED BY <1>1 DEF Quiet, Timed

(* net_tcp_retransmit after MaxTries. *)
LEMMA GivenUp ==
    ASSUME NEW m, NEW h, NEW c \in Sockets, c.tries = MaxTries
    PROVE  LET o == Reaped(net_tcp_retransmit(c))
           IN  /\ o.c \in Sockets /\ Told(c, o.c) /\ o.c.rcv_nxt = c.rcv_nxt /\ o.c.closed = c.closed /\ o.c.fin_sent = c.fin_sent
               /\ o.c.state = "closed" /\ ~o.c.linked
               /\ \A y \in o.out : y \in Segments /\ Greets(m, h, y)
<1> DEFINE more == c.tries + 1
           a == [c EXCEPT !.tries = more, !.reset = TRUE]
           r == net_tcp_reap(a)
           e == net_tcp_reap(r)
           g == net_tcp_seg(a, {"rst"}, c.snd_nxt, <<>>)
<1>1. more \in Int
  BY DEF Sockets
<1>2. net_tcp_retransmit(c) = Reaped(net_tcp_ctl([[c EXCEPT !.tries = @ + 1] EXCEPT !.reset = TRUE], {"rst"}, c.snd_nxt))
  BY DEF net_tcp_retransmit
<1>3. [[c EXCEPT !.tries = @ + 1] EXCEPT !.reset = TRUE] = a
  BY DEF Sockets
<1>4. Reaped(net_tcp_retransmit(c)).c = e /\ Reaped(net_tcp_retransmit(c)).out = {g}
  <2> HIDE DEF a
  <2>1. Reaped(net_tcp_ctl(a, {"rst"}, c.snd_nxt)) = Out(r, {g})
    BY DEF Reaped, net_tcp_ctl, Out
  <2>2. Reaped(Out(r, {g})).c = e /\ Reaped(Out(r, {g})).out = {g}
    BY DEF Reaped, Out
  <2> QED BY <1>2, <1>3, <2>1, <2>2
<1> HIDE DEF more
<1>5. /\ a \in Sockets /\ Told(c, a) /\ a.rcv_nxt = c.rcv_nxt /\ a.closed = c.closed /\ a.fin_sent = c.fin_sent
      /\ a.reset = TRUE /\ a.snd_nxt = c.snd_nxt
  <2>1. a \in Sockets
    BY <1>1 DEF Sockets
  <2> QED BY <2>1 DEF Sockets, Told
<1> HIDE DEF a
<1>6. /\ r \in Sockets /\ Told(a, r) /\ r.rcv_nxt = a.rcv_nxt /\ r.closed = a.closed
      /\ r.state = "closed" /\ ~r.linked /\ r.fin_sent = a.fin_sent /\ r.reset = TRUE
  <2>1. r \in Sockets /\ Told(a, r) /\ r.rcv_nxt = a.rcv_nxt /\ r.closed = a.closed
    BY <1>5, ReapFields
  <2>2. r = [a EXCEPT !.linked = FALSE, !.state = "closed", !.held = @ /\ ~a.closed]
    BY <1>5 DEF net_tcp_reap
  <2> HIDE DEF r
  <2> QED BY <1>5, <2>1, <2>2 DEF Sockets
<1> HIDE DEF r
<1>7. /\ e \in Sockets /\ Told(r, e) /\ e.rcv_nxt = r.rcv_nxt /\ e.closed = r.closed
      /\ e.state = "closed" /\ ~e.linked /\ e.fin_sent = r.fin_sent
  <2>1. e \in Sockets /\ Told(r, e) /\ e.rcv_nxt = r.rcv_nxt /\ e.closed = r.closed
    BY <1>6, ReapFields
  <2>2. e = [r EXCEPT !.linked = FALSE, !.state = "closed", !.held = @ /\ ~r.closed]
    BY <1>6 DEF net_tcp_reap
  <2> HIDE DEF e
  <2> QED BY <1>6, <2>1, <2>2 DEF Sockets
<1> HIDE DEF e
<1>8. Told(c, e)
  BY <1>5, <1>6, <1>7 DEF Told
<1>9. g \in Segments /\ g.flags = {"rst"}
  BY <1>5 DEF net_tcp_seg, Segments, Sockets
<1> HIDE DEF g
<1>10. Greets(m, h, g)
  BY <1>9 DEF Greets
<1> QED BY <1>4, <1>5, <1>6, <1>7, <1>8, <1>9, <1>10

(* net_tcp_retransmit while a connection is being made. *)
LEMMA AskedAgain ==
    ASSUME NEW c \in Sockets, c.tries # MaxTries, NEW f, f \in {{"syn"}, {"syn", "ack"}},
           net_tcp_retransmit(c) = net_tcp_ctl([c EXCEPT !.tries = @ + 1], f, c.snd_una)
    PROVE  LET o == Reaped(net_tcp_retransmit(c))
           IN  /\ o.c \in Sockets /\ Told(c, o.c) /\ o.c.rcv_nxt = c.rcv_nxt /\ o.c.closed = c.closed /\ o.c.fin_sent = c.fin_sent
               /\ \/ o.c.state = "closed" /\ ~o.c.linked
                  \/ /\ o.c.state = c.state /\ o.c.linked = c.linked /\ o.c.rto = c.rto
                     /\ o.c.txseq = c.txseq /\ o.c.snd_una = c.snd_una /\ o.c.snd_nxt = c.snd_nxt
                     /\ o.c.own = c.own /\ o.c.queued = c.queued
               /\ \A y \in o.out : /\ y \in Segments /\ y.flags = f /\ y.seq = c.snd_una
                                   /\ y.data = <<>> /\ y.ack = c.rcv_nxt
<1> DEFINE more == c.tries + 1
           a == [c EXCEPT !.tries = more]
           e == net_tcp_reap(a)
           g == net_tcp_seg(a, f, c.snd_una, <<>>)
<1>1. more \in Int
  BY DEF Sockets
<1>2. [c EXCEPT !.tries = @ + 1] = a
  BY DEF Sockets
<1>3. Reaped(net_tcp_retransmit(c)).c = e /\ Reaped(net_tcp_retransmit(c)).out = {g}
  <2> HIDE DEF a
  <2> QED BY <1>2 DEF Reaped, net_tcp_ctl, Out
<1> HIDE DEF more
<1>4. /\ a \in Sockets /\ Told(c, a) /\ a.rcv_nxt = c.rcv_nxt /\ a.closed = c.closed /\ a.fin_sent = c.fin_sent
      /\ a.snd_nxt = c.snd_nxt /\ a.snd_una = c.snd_una /\ a.txseq = c.txseq /\ a.state = c.state /\ a.linked = c.linked
      /\ a.rto = c.rto /\ a.own = c.own /\ a.queued = c.queued
  <2>1. a \in Sockets
    BY <1>1 DEF Sockets
  <2> QED BY <2>1 DEF Sockets, Told
<1> HIDE DEF a
<1>5. /\ e \in Sockets /\ Told(a, e) /\ e.rcv_nxt = a.rcv_nxt /\ e.closed = a.closed /\ e.fin_sent = a.fin_sent
      /\ \/ e.state = "closed" /\ ~e.linked
         \/ /\ e.state = a.state /\ e.linked = a.linked /\ e.rto = a.rto
            /\ e.txseq = a.txseq /\ e.snd_una = a.snd_una /\ e.snd_nxt = a.snd_nxt
            /\ e.own = a.own /\ e.queued = a.queued
  BY <1>4, ReapFields
<1> HIDE DEF e
<1>6. Told(c, e)
  BY <1>4, <1>5 DEF Told
<1>7. g \in Segments /\ g.flags = f /\ g.seq = c.snd_una /\ g.data = <<>> /\ g.ack = c.rcv_nxt
  <2>1. c.snd_una \in Int /\ <<>> \in Seq(Int) /\ f \in SUBSET {"syn", "ack", "fin", "rst", "psh"}
    BY DEF Sockets
  <2>2. a.rcv_nxt = c.rcv_nxt /\ a.rcv_nxt \in Int
    BY <1>4 DEF Sockets
  <2>3. g = [flags |-> f, seq |-> c.snd_una, ack |-> a.rcv_nxt, data |-> <<>>]
    BY DEF net_tcp_seg
  <2> HIDE DEF g
  <2>4. g \in Segments
    BY <2>1, <2>2, <2>3 DEF Segments
  <2> QED BY <2>2, <2>3, <2>4
<1> HIDE DEF g
<1> QED BY <1>3, <1>4, <1>5, <1>6, <1>7

(* net_tcp_retransmit, at the end of a conversation and outside of one. *)
LEMMA RetransmitEnd ==
    ASSUME NEW m \in Machines, NEW h \in Handles, NEW p \in Handles, m = "server" => p = 1,
           NEW c \in Sockets, End(m, h, p, c), c.linked, NEW d \in Sockets, Paired(c, d)
    PROVE  EndStep(m, h, p, c, d, Reaped(net_tcp_retransmit(c)))
<1> DEFINE o == Reaped(net_tcp_retransmit(c))
<1>1. Follows(m, h, p, c) /\ ((c.state = "syn_rcvd" /\ Waits(m, h, c)) \/ Ready(m, h, p, c))
  BY DEF End, Timed
<1>2. CASE c.tries = MaxTries
  <2>1. /\ o.c \in Sockets /\ Told(c, o.c) /\ o.c.rcv_nxt = c.rcv_nxt /\ o.c.closed = c.closed
        /\ o.c.state = "closed" /\ ~o.c.linked
        /\ \A y \in o.out : y \in Segments /\ Greets(m, h, y)
    BY <1>2, GivenUp
  <2> HIDE DEF o
  <2>2. End(m, h, p, o.c) /\ Paired(o.c, d) /\ Grows(c, o.c)
    BY <1>1, <2>1, ClosedEnd
  <2> QED BY <2>1, <2>2 DEF EndStep, o
<1>3. CASE c.tries # MaxTries /\ c.state = "syn_rcvd"
  <2>1. net_tcp_retransmit(c) = net_tcp_ctl([c EXCEPT !.tries = @ + 1], {"syn", "ack"}, c.snd_una)
    <3> DEFINE a == [c EXCEPT !.tries = @ + 1]
    <3>1. a.state = "syn_rcvd" /\ a.snd_una = c.snd_una
      BY <1>3 DEF Sockets
    <3> HIDE DEF a
    <3>2. net_tcp_retransmit(c) = CASE c.state = "syn_rcvd" -> net_tcp_ctl(a, {"syn", "ack"}, c.snd_una)
                                    [] c.state = "syn_sent" -> net_tcp_ctl(a, {"syn"}, c.snd_una)
                                    [] c.state = "est"      -> GoBack(a)
      BY <1>3 DEF net_tcp_retransmit, a
    <3> QED BY <1>3, <3>2 DEF a
  <2>2. /\ o.c \in Sockets /\ Told(c, o.c) /\ o.c.rcv_nxt = c.rcv_nxt /\ o.c.closed = c.closed /\ o.c.fin_sent = c.fin_sent
        /\ \/ o.c.state = "closed" /\ ~o.c.linked
           \/ /\ o.c.state = c.state /\ o.c.linked = c.linked /\ o.c.rto = c.rto
              /\ o.c.txseq = c.txseq /\ o.c.snd_una = c.snd_una /\ o.c.snd_nxt = c.snd_nxt
              /\ o.c.own = c.own /\ o.c.queued = c.queued
        /\ \A y \in o.out : /\ y \in Segments /\ y.flags = {"syn", "ack"} /\ y.seq = c.snd_una
                            /\ y.data = <<>> /\ y.ack = c.rcv_nxt
    BY <1>3, <2>1, AskedAgain
  <2> HIDE DEF o
  <2>3. Waits(m, h, c)
    BY <1>1, <1>3 DEF Ready
  <2>4. m = "server" /\ c.snd_una = net_iss("server", h) /\ c.rcv_nxt = Num("client", 1, 0)
    <3>1. m = "server" /\ p = 1 /\ Peer(m) = "client" /\ Got(c) = 0 /\ c.snd_una = net_iss(m, h)
      BY <2>3 DEF Waits, Blank, Got, Bit, Begun, Peer
    <3> QED BY <1>1, <3>1 DEF Follows
  <2>5. \A y \in o.out : y \in Segments /\ Greets(m, h, y)
    BY <2>2, <2>4 DEF Greets
  <2>6. End(m, h, p, o.c) /\ Paired(o.c, d) /\ Grows(c, o.c) /\ o.c.state # "new"
    <3>1. CASE o.c.state = "closed" /\ ~o.c.linked
      <4>1. End(m, h, p, o.c) /\ Paired(o.c, d) /\ Grows(c, o.c)
        BY <1>1, <2>2, <3>1, ClosedEnd
      <4> QED BY <3>1, <4>1
    <3>2. CASE ~(o.c.state = "closed" /\ ~o.c.linked)
      <4>1. Follows(m, h, p, o.c) /\ Grows(c, o.c)
        BY <1>1, <2>2, ToldFollows, GrowsItself
      <4>2. Paired(o.c, d)
        BY <2>2, <4>1, PairTold, PairGrows DEF Paired
      <4>3. Waits(m, h, o.c) /\ o.c.state = "syn_rcvd" /\ o.c.rto
        BY <1>3, <2>2, <2>3, <3>2 DEF Waits, Blank, Begun, Told
      <4> QED BY <4>1, <4>2, <4>3 DEF End, Timed
    <3> QED BY <3>1, <3>2
  <2> QED BY <2>2, <2>5, <2>6 DEF EndStep, o
<1>4. CASE c.tries # MaxTries /\ c.state # "syn_rcvd"
  <2> DEFINE e == [c EXCEPT !.tries = @ + 1, !.snd_nxt = c.snd_una, !.fin_sent = @ /\ c.fin_acked]
  <2>1. Ready(m, h, p, c) /\ c.state = "est"
    BY <1>1, <1>4 DEF Ready
  <2>2. e \in Sockets /\ Ready(m, h, p, e) /\ Told(c, e) /\ Grows(c, e)
    BY <2>1, GoneBack
  <2>3. net_tcp_retransmit(c) = net_tcp_output(e)
    <3> DEFINE a == [c EXCEPT !.tries = @ + 1]
    <3>1. a.snd_una = c.snd_una /\ a.fin_acked = c.fin_acked
      BY DEF Sockets
    <3>2. [a EXCEPT !.snd_nxt = a.snd_una, !.fin_sent = @ /\ a.fin_acked] = e
      BY <3>1 DEF Sockets
    <3>3. GoBack(a) = net_tcp_output(e)
      BY <3>2 DEF GoBack
    <3> HIDE DEF a, e
    <3>4. net_tcp_retransmit(c) = CASE c.state = "syn_rcvd" -> net_tcp_ctl(a, {"syn", "ack"}, c.snd_una)
                                    [] c.state = "syn_sent" -> net_tcp_ctl(a, {"syn"}, c.snd_una)
                                    [] c.state = "est"      -> GoBack(a)
      BY <1>4 DEF net_tcp_retransmit, a
    <3> QED BY <2>1, <3>3, <3>4
  <2> HIDE DEF e
  <2>4. Paired(e, d)
    BY <2>2, PairTold, PairGrows DEF Paired
  <2>5. /\ o.c \in Sockets /\ End(m, h, p, o.c) /\ Paired(o.c, d) /\ Grows(e, o.c) /\ o.c.state # "new"
        /\ \A g \in o.out : g \in Segments /\ Says(m, h, p, o.c, g)
    BY <2>2, <2>3, <2>4, OutputReaped
  <2> HIDE DEF o
  <2>6. Grows(c, o.c)
    BY <2>2, <2>5, GrowsTransitive
  <2> QED BY <2>5, <2>6 DEF EndStep, o
<1> QED BY <1>2, <1>3, <1>4

LEMMA RetransmitQuiet ==
    ASSUME NEW i, NEW m \in Machines, NEW h \in Handles, NEW c \in Sockets, Quiet(i, m, h, c), c.linked
    PROVE  QuietStep(i, m, h, Reaped(net_tcp_retransmit(c)))
<1> DEFINE o == Reaped(net_tcp_retransmit(c))
           a == [c EXCEPT !.tries = @ + 1]
           f == IF c.state = "syn_sent" THEN {"syn"} ELSE {"syn", "ack"}
<1>1. c.state \in {"syn_sent", "syn_rcvd"}
  BY DEF Quiet, Timed, Sockets, States
<1>2. CASE c.tries = MaxTries
  <2>1. /\ o.c \in Sockets /\ Told(c, o.c) /\ o.c.rcv_nxt = c.rcv_nxt /\ o.c.closed = c.closed /\ o.c.fin_sent = c.fin_sent
        /\ o.c.state = "closed" /\ ~o.c.linked
        /\ \A y \in o.out : y \in Segments /\ Greets(m, h, y)
    BY <1>2, GivenUp
  <2> HIDE DEF o
  <2>2. Quiet(i, m, h, o.c)
    BY <1>1, <2>1, ClosedQuiet
  <2> QED BY <2>1, <2>2 DEF QuietStep, o
<1>3. CASE c.tries # MaxTries
  <2>1. net_tcp_retransmit(c) = net_tcp_ctl(a, f, c.snd_una)
    <3>1. net_tcp_retransmit(c) = CASE c.state = "syn_rcvd" -> net_tcp_ctl(a, {"syn", "ack"}, c.snd_una)
                                    [] c.state = "syn_sent" -> net_tcp_ctl(a, {"syn"}, c.snd_una)
                                    [] c.state = "est"      -> GoBack(a)
      <4>1. a.state = c.state /\ a.snd_una = c.snd_una
        BY DEF Sockets
      <4> HIDE DEF a
      <4> QED BY <1>3, <4>1 DEF net_tcp_retransmit, a
    <3> HIDE DEF a
    <3>2. CASE c.state = "syn_rcvd"
      BY <3>1, <3>2
    <3>3. CASE c.state = "syn_sent"
      BY <3>1, <3>3
    <3> QED BY <1>1, <3>2, <3>3
  <2>2. f \in {{"syn"}, {"syn", "ack"}} /\ (c.state = "syn_sent" => f = {"syn"}) /\ (c.state # "syn_sent" => f = {"syn", "ack"})
    OBVIOUS
  <2> HIDE DEF f
  <2>3. /\ o.c \in Sockets /\ Told(c, o.c) /\ o.c.rcv_nxt = c.rcv_nxt /\ o.c.closed = c.closed /\ o.c.fin_sent = c.fin_sent
        /\ \/ o.c.state = "closed" /\ ~o.c.linked
           \/ /\ o.c.state = c.state /\ o.c.linked = c.linked /\ o.c.rto = c.rto
              /\ o.c.txseq = c.txseq /\ o.c.snd_una = c.snd_una /\ o.c.snd_nxt = c.snd_nxt
              /\ o.c.own = c.own /\ o.c.queued = c.queued
        /\ \A y \in o.out : /\ y \in Segments /\ y.flags = f /\ y.seq = c.snd_una
                            /\ y.data = <<>> /\ y.ack = c.rcv_nxt
    BY <1>3, <2>1, <2>2, AskedAgain
  <2> HIDE DEF o
  <2>4. CASE c.state = "syn_sent"
    <3>1. m = "client" /\ h = 1 /\ i = 0 /\ Begun(m, h, c) /\ f = {"syn"}
      BY <2>2, <2>4 DEF Quiet
    <3>2. \A y \in o.out : y \in Segments /\ Greets(m, h, y)
      BY <2>3, <3>1 DEF Greets, Begun
    <3>3. Quiet(i, m, h, o.c) /\ o.c.state # "new"
      <4>1. CASE o.c.state = "closed" /\ ~o.c.linked
        BY <2>3, <2>4, <4>1, ClosedQuiet
      <4>2. CASE ~(o.c.state = "closed" /\ ~o.c.linked)
        <5>1. Blank(o.c)
          BY <2>3 DEF Quiet, Blank, Told
        <5>2. Begun(m, h, o.c) /\ o.c.state = "syn_sent" /\ o.c.rto
          BY <2>3, <2>4, <3>1, <4>2 DEF Begun
        <5> QED BY <3>1, <5>1, <5>2 DEF Quiet, Timed
      <4> QED BY <4>1, <4>2
    <3> QED BY <2>3, <3>2, <3>3 DEF QuietStep, o
  <2>5. CASE c.state = "syn_rcvd"
    <3>1. m = "server" /\ Waits(m, h, c) /\ f = {"syn", "ack"} /\ c.rcv_nxt = Num("client", 1, 0)
      BY <2>2, <2>5 DEF Quiet, Waits
    <3>2. \A y \in o.out : y \in Segments /\ Greets(m, h, y)
      BY <2>3, <3>1 DEF Greets, Waits, Begun
    <3>3. Quiet(i, m, h, o.c) /\ o.c.state # "new"
      <4>1. CASE o.c.state = "closed" /\ ~o.c.linked
        BY <2>3, <2>5, <4>1, ClosedQuiet
      <4>2. CASE ~(o.c.state = "closed" /\ ~o.c.linked)
        <5>1. Waits(m, h, o.c) /\ o.c.state = "syn_rcvd"
          BY <2>3, <2>5, <3>1, <4>2 DEF Waits, Begun, Blank, Told
        <5>2. Blank(o.c) /\ o.c.rto
          BY <5>1 DEF Waits, Begun
        <5> QED BY <2>3, <3>1, <5>1, <5>2 DEF Quiet, Timed
      <4> QED BY <4>1, <4>2
    <3> QED BY <2>3, <3>2, <3>3 DEF QuietStep, o
  <2> QED BY <1>1, <2>4, <2>5
<1> QED BY <1>2, <1>3

(* A segment that may reach socket h of m, whose partner is d. *)
Heard(m, h, p, d, g) ==
    \/ "rst" \in g.flags
    \/ "syn" \in g.flags /\ (m = "server" => "ack" \notin g.flags)
    \/ Says(Peer(m), p, h, d, g)

(* What a reset makes of a socket. *)
WasReset(c) == [c EXCEPT !.reset = TRUE, !.state = "closed", !.linked = FALSE,
                         !.held = @ /\ ~(c.state = "syn_rcvd" \/ c.closed)]

(* RST takes a socket out of the tables and leaves its streams alone. *)
LEMMA ResetFields ==
    ASSUME NEW c \in Sockets
    PROVE  LET e == WasReset(c)
           IN  /\ e \in Sockets /\ Told(c, e) /\ e.rcv_nxt = c.rcv_nxt /\ e.closed = c.closed /\ e.fin_sent = c.fin_sent
               /\ e.state = "closed" /\ ~e.linked
<1> DEFINE e == WasReset(c)
           kept == c.held /\ ~(c.state = "syn_rcvd" \/ c.closed)
<1>1. kept \in BOOLEAN
  OBVIOUS
<1>2. e = [c EXCEPT !.reset = TRUE, !.state = "closed", !.linked = FALSE, !.held = kept]
  BY DEF Sockets, WasReset
<1> HIDE DEF kept, e
<1>3. e \in Sockets
  BY <1>1, <1>2 DEF Sockets, States
<1> QED BY <1>2, <1>3 DEF Sockets, Told, e

(* net_tcp_in at the end of a conversation. *)
LEMMA ReceiveEnd ==
    ASSUME NEW m \in Machines, NEW h \in Handles, NEW p \in Handles,
           NEW c \in Sockets, End(m, h, p, c), c.linked, NEW d \in Sockets, Streams(d), Paired(c, d),
           NEW g \in Segments, Heard(m, h, p, d, g), NEW open \in BOOLEAN
    PROVE  EndStep(m, h, p, c, d, net_tcp_in(c, g, open))
<1> DEFINE o == net_tcp_in(c, g, open)
<1>1. Follows(m, h, p, c) /\ ((c.state = "syn_rcvd" /\ Waits(m, h, c)) \/ (Ready(m, h, p, c) /\ c.state = "est"))
  BY DEF End, Timed, Ready
<1>2. CASE "rst" \in g.flags
  <2>1. o = Out(WasReset(c), {})
    BY <1>2 DEF net_tcp_in, WasReset
  <2>2. o.c = WasReset(c) /\ o.out = {}
    BY <2>1 DEF Out
  <2> HIDE DEF o
  <2>3. /\ o.c \in Sockets /\ Told(c, o.c) /\ o.c.rcv_nxt = c.rcv_nxt /\ o.c.closed = c.closed
        /\ o.c.state = "closed" /\ ~o.c.linked
    BY <2>2, ResetFields
  <2>4. End(m, h, p, o.c) /\ Paired(o.c, d) /\ Grows(c, o.c)
    BY <1>1, <2>3, ClosedEnd
  <2> QED BY <2>2, <2>3, <2>4 DEF EndStep, o
<1>3. CASE "rst" \notin g.flags /\ c.state = "syn_rcvd"
  <2>1. o = IF "ack" \in g.flags /\ g.ack = c.snd_nxt
            THEN Segment([Established(c, g) EXCEPT !.queued = open], g) ELSE Out(c, {})
    BY <1>3 DEF net_tcp_in
  <2>2. m = "server"
    BY <1>1, <1>3 DEF Waits
  <2>3. CASE "ack" \in g.flags /\ g.ack = c.snd_nxt
    <3> DEFINE e == [Established(c, g) EXCEPT !.queued = open]
    <3>1. e \in Sockets /\ Ready(m, h, p, e) /\ Told(c, e) /\ Grows(c, e)
      BY <1>3, <2>3, EstablishedByAck
    <3>2. Says(Peer(m), p, h, d, g)
      BY <1>3, <2>2, <2>3 DEF Heard
    <3>3. o = Segment(e, g)
      BY <2>1, <2>3
    <3> HIDE DEF e, o
    <3>4. Paired(e, d)
      BY <3>1, PairTold, PairGrows DEF Paired
    <3>5. /\ o.c \in Sockets /\ End(m, h, p, o.c) /\ Paired(o.c, d) /\ Grows(e, o.c) /\ o.c.state # "new"
          /\ \A x \in o.out : x \in Segments /\ Says(m, h, p, o.c, x)
      BY <3>1, <3>2, <3>3, <3>4, SegmentSound
    <3>6. Grows(c, o.c)
      BY <3>1, <3>5, GrowsTransitive
    <3> QED BY <3>5, <3>6 DEF EndStep, o
  <2>4. CASE ~("ack" \in g.flags /\ g.ack = c.snd_nxt)
    <3>1. o.c = c /\ o.out = {}
      BY <2>1, <2>4 DEF Out
    <3> HIDE DEF o
    <3>2. Grows(c, c)
      BY GrowsItself DEF Told
    <3> QED BY <1>3, <3>1, <3>2 DEF EndStep, o
  <2> QED BY <2>3, <2>4
<1>4. CASE "rst" \notin g.flags /\ c.state # "syn_rcvd"
  <2>1. Ready(m, h, p, c) /\ c.state = "est"
    BY <1>1, <1>4
  <2>2. o = Segment(c, g)
    BY <1>4, <2>1 DEF net_tcp_in
  <2>3. CASE "syn" \in g.flags
    <3>1. o = net_tcp_ctl(c, {"ack"}, c.snd_nxt)
      BY <2>2, <2>3 DEF Segment
    <3> HIDE DEF o
    <3>2. o.c = c /\ \A x \in o.out : x \in Segments /\ Says(m, h, p, c, x)
      BY <2>1, <3>1, AnswerSays
    <3>3. Grows(c, c)
      BY GrowsItself DEF Told
    <3> QED BY <2>1, <3>2, <3>3 DEF EndStep, o
  <2>4. CASE "syn" \notin g.flags
    <3>1. Says(Peer(m), p, h, d, g)
      BY <1>4, <2>4 DEF Heard
    <3> HIDE DEF o
    <3>2. /\ o.c \in Sockets /\ End(m, h, p, o.c) /\ Paired(o.c, d) /\ Grows(c, o.c) /\ o.c.state # "new"
          /\ \A x \in o.out : x \in Segments /\ Says(m, h, p, o.c, x)
      BY <2>1, <2>2, <3>1, SegmentSound
    <3> QED BY <3>2 DEF EndStep, o
  <2> QED BY <2>3, <2>4
<1> QED BY <1>2, <1>3, <1>4

(* A socket in no conversation that is not brought into one. *)
LEMMA ReceiveQuiet ==
    ASSUME NEW i, NEW m \in Machines, NEW h \in Handles, NEW c \in Sockets, Quiet(i, m, h, c), c.linked,
           NEW g \in Segments, NEW open \in BOOLEAN,
           \/ "rst" \in g.flags
           \/ c.state = "syn_sent" /\ ~({"syn", "ack"} \subseteq g.flags /\ g.ack = c.snd_nxt)
           \/ c.state = "syn_rcvd" /\ ~("ack" \in g.flags /\ g.ack = c.snd_nxt)
    PROVE  QuietStep(i, m, h, net_tcp_in(c, g, open))
<1> DEFINE o == net_tcp_in(c, g, open)
<1>1. c.state # "new"
  BY DEF Quiet, Timed
<1>2. CASE "rst" \in g.flags
  <2>1. o = Out(WasReset(c), {})
    BY <1>2 DEF net_tcp_in, WasReset
  <2>2. o.c = WasReset(c) /\ o.out = {}
    BY <2>1 DEF Out
  <2> HIDE DEF o
  <2>3. /\ o.c \in Sockets /\ Told(c, o.c) /\ o.c.rcv_nxt = c.rcv_nxt /\ o.c.closed = c.closed /\ o.c.fin_sent = c.fin_sent
        /\ o.c.state = "closed" /\ ~o.c.linked
    BY <2>2, ResetFields
  <2>4. Quiet(i, m, h, o.c)
    BY <1>1, <2>3, ClosedQuiet
  <2> QED BY <2>2, <2>3, <2>4 DEF QuietStep, o
<1>3. CASE "rst" \notin g.flags
  <2>1. o = Out(c, {})
    <3>1. CASE c.state = "syn_sent"
      BY <1>3, <3>1 DEF net_tcp_in
    <3>2. CASE c.state = "syn_rcvd"
      BY <1>3, <3>2 DEF net_tcp_in
    <3> QED BY <1>3, <3>1, <3>2
  <2>2. o.c = c /\ o.out = {}
    BY <2>1 DEF Out
  <2> HIDE DEF o
  <2> QED BY <1>1, <2>2 DEF QuietStep, o
<1> QED BY <1>2, <1>3

(* The client's socket that hears the answer of the server's socket h. *)
LEMMA ReceiveAnswer ==
    ASSUME NEW h \in Handles, NEW c \in Sockets, Quiet(0, "client", 1, c), c.state = "syn_sent",
           NEW g \in Segments, "rst" \notin g.flags, {"syn", "ack"} \subseteq g.flags, g.ack = c.snd_nxt,
           g.seq = net_iss("server", h), NEW open \in BOOLEAN
    PROVE  LET o == net_tcp_in(c, g, open)
           IN  /\ o.c \in Sockets /\ End("client", 1, h, o.c) /\ Blank(o.c) /\ o.c.state # "new"
               /\ \A y \in o.out : y \in Segments /\ Says("client", 1, h, o.c, y)
<1> DEFINE o == net_tcp_in(c, g, open)
           e == [Established(c, g) EXCEPT !.rcv_nxt = net_seq_add(g.seq, 1)]
<1>0. "client" \in Machines /\ 1 \in Handles
  BY Constants DEF Machines, Handles
<1>1. e \in Sockets /\ Ready("client", 1, h, e) /\ Timed(e) /\ Blank(e)
  BY EstablishedByAnswer
<1>2. o = net_tcp_ctl(e, {"ack"}, c.snd_nxt)
  BY DEF net_tcp_in
<1>3. e.snd_nxt = c.snd_nxt /\ e.state = "est"
  BY DEF Established, Sockets
<1> HIDE DEF e, o
<1>4. o.c = e /\ \A y \in o.out : y \in Segments /\ Says("client", 1, h, e, y)
  BY <1>0, <1>1, <1>2, <1>3, AnswerSays
<1>5. End("client", 1, h, e)
  BY <1>1 DEF End, Ready
<1> QED BY <1>1, <1>3, <1>4, <1>5 DEF o

-----------------------------------------------------------------------------
(* The programs. *)

(* sys_socket_send queues the next byte. *)
LEMMA SendEnd ==
    ASSUME NEW m \in Machines, NEW h \in Handles, NEW p \in Handles,
           NEW c \in Sockets, Ready(m, h, p, c), ~c.closed, ~c.fin_sent, Len(c.sent) < MaxBytes, Timed(c),
           NEW d \in Sockets, Paired(c, d), NEW next, next = Len(c.sent) + 1
    PROVE  LET e == [c EXCEPT !.txq = Append(@, next), !.sent = Append(@, next)]
           IN  e \in Sockets /\ Ready(m, h, p, e) /\ Grows(c, e) /\ Paired(e, d)
<1> DEFINE q == Append(c.txq, next)
           s == Append(c.sent, next)
           e == [c EXCEPT !.txq = Append(@, next), !.sent = Append(@, next)]
           L == Len(c.sent)
           n == Len(c.txq)
<1>1. PICK u \in 0..MaxBytes : Flows(m, h, c, u)
  BY DEF Ready
<1>2. Follows(m, h, p, c) /\ Streams(c) /\ c.state = "est"
  BY DEF Ready, Follows
<1>3. MaxBytes \in Nat /\ L \in Nat /\ n \in Nat /\ Done(c) \in Nat /\ Done(c) + n = L /\ L < MaxBytes
  BY <1>2, Lengths
<1>4. c.sent \in Seq(Int) /\ c.txq \in Seq(Int) /\ next \in Int
  BY <1>3, SocketTypes
<1>5. q \in Seq(Int) /\ s \in Seq(Int) /\ Len(q) = n + 1 /\ Len(s) = L + 1
  BY <1>4
<1>6. s = Run(0, L + 1) /\ q = Run(Done(c), n + 1)
  <2>1. c.sent = Run(0, L) /\ c.txq = Run(Done(c), n)
    BY <1>2 DEF Streams
  <2> HIDE DEF L, n
  <2>2. Append(Run(0, L), 0 + (L + 1)) = Run(0, L + 1) /\ 0 + (L + 1) = L + 1
    BY <1>3, RunAppend
  <2> DEFINE D == Done(c)
  <2>5. D \in Int /\ n \in Nat /\ D + (n + 1) = L + 1
    BY <1>3
  <2> HIDE DEF D
  <2>3. Append(Run(D, n), D + (n + 1)) = Run(D, n + 1)
    BY <2>5, RunAppend
  <2>6. Append(Run(D, n), L + 1) = Run(D, n + 1)
    BY <2>3, <2>5
  <2> USE DEF D
  <2>4. next = L + 1
    BY DEF L
  <2> QED BY <2>1, <2>2, <2>4, <2>6
<1>7. e = [c EXCEPT !.txq = q, !.sent = s]
  BY DEF Sockets
<1> HIDE DEF q, s, e
<1>8. e \in Sockets
  BY <1>5, <1>7 DEF Sockets
<1>9. /\ e.txq = q /\ e.sent = s /\ e.rx = c.rx /\ e.fin_rcvd = c.fin_rcvd /\ e.fin_acked = c.fin_acked
      /\ e.rcv_nxt = c.rcv_nxt /\ e.state = "est" /\ e.txseq = c.txseq /\ e.snd_una = c.snd_una /\ e.snd_nxt = c.snd_nxt
      /\ e.fin_sent = c.fin_sent /\ e.fin_seq = c.fin_seq /\ e.closed = c.closed
  BY <1>2, <1>7 DEF Sockets
<1>10. Len(e.sent) = L + 1 /\ Len(e.txq) = n + 1
  BY <1>5, <1>9
<1>18. Done(e) = Done(c) /\ Ackd(e) = Ackd(c) /\ Got(e) = Got(c)
  <2>0. Len(e.sent) - Len(e.txq) = (L + 1) - (n + 1)
    BY <1>10
  <2> HIDE DEF L, n
  <2>1. (L + 1) - (n + 1) = L - n
    BY <1>3
  <2>2. Done(e) = L - n
    BY <2>0, <2>1 DEF Done
  <2>3. Done(e) = Done(c)
    BY <2>2 DEF Done, L, n
  <2> QED BY <1>9, <2>3 DEF Ackd, Got
<1>11. ~c.fin_acked
  BY <1>1 DEF Flows
<1>12. Streams(e)
  <2>1. e.sent = Run(0, Len(e.sent))
    BY <1>6, <1>9, <1>10
  <2>2. e.txq = Run(Done(e), Len(e.txq))
    BY <1>6, <1>9, <1>10, <1>18
  <2>3. Len(e.sent) <= MaxBytes /\ Len(e.txq) <= Len(e.sent)
    <3> HIDE DEF L, n
    <3>1. L + 1 <= MaxBytes /\ n + 1 <= L + 1
      BY <1>3
    <3> QED BY <3>1, <1>10
  <2> QED BY <1>2, <1>9, <2>1, <2>2, <2>3 DEF Streams
<1>13. Flows(m, h, e, u)
  <2>1. u <= Len(e.sent)
    BY <1>1, <1>3, <1>10 DEF Flows
  <2> QED BY <1>1, <1>9, <1>18, <1>11, <2>1 DEF Flows
<1>14. Ready(m, h, p, e)
  BY <1>2, <1>9, <1>18, <1>12, <1>13 DEF Ready, Follows
<1>15. Grows(c, e)
  <2>1. Len(c.rx) \in Nat
    BY SocketTypes
  <2> QED BY <1>3, <1>9, <1>10, <2>1 DEF Grows
<1>16. Pair(e, d)
  BY <1>9, <1>18, <1>11 DEF Paired, Pair
<1>17. Pair(d, e)
  BY <1>8, <1>15, PairGrows DEF Paired
<1> QED BY <1>8, <1>14, <1>15, <1>16, <1>17 DEF e, Paired

(* sys_socket_close marks the socket. *)
LEMMA CloseEnd ==
    ASSUME NEW m \in Machines, NEW h \in Handles, NEW p \in Handles,
           NEW c \in Sockets, Ready(m, h, p, c), NEW d \in Sockets, Paired(c, d)
    PROVE  LET e == [c EXCEPT !.closed = TRUE]
           IN  e \in Sockets /\ Ready(m, h, p, e) /\ Grows(c, e) /\ Paired(e, d)
<1> DEFINE e == [c EXCEPT !.closed = TRUE]
<1>1. e \in Sockets
  BY DEF Sockets
<1>2. /\ Told(c, e) /\ e.rcv_nxt = c.rcv_nxt /\ e.state = c.state /\ e.txseq = c.txseq /\ e.snd_una = c.snd_una
      /\ e.snd_nxt = c.snd_nxt /\ e.fin_sent = c.fin_sent /\ e.fin_seq = c.fin_seq /\ e.closed
  BY DEF Sockets, Told
<1> HIDE DEF e
<1>3. Ready(m, h, p, e) /\ Grows(c, e)
  BY <1>2, ToldReady, GrowsItself
<1>4. Paired(e, d)
  BY <1>1, <1>2, <1>3, PairTold, PairGrows DEF Paired
<1> QED BY <1>1, <1>3, <1>4 DEF e

-----------------------------------------------------------------------------
(* The state *)

(* The sockets of a conversation. *)
LEMMA Ends ==
    ASSUME NEW i \in 0..MaxConns
    PROVE  /\ 1 \in Handles /\ "client" \in Machines /\ "server" \in Machines
           /\ i # 0 => i \in Handles /\ \A m \in Machines : At(i, m) \in Handles
           /\ At(i, "client") = 1 /\ At(i, "server") = i /\ Peer("client") = "server" /\ Peer("server") = "client"
BY Constants DEF Handles, Machines, At, Peer

(* One socket moves; what was under way still is. *)
LEMMA WireStays ==
    ASSUME NEW i \in 0..MaxConns, NEW s \in [Machines -> [Handles -> Sockets]],
           NEW m \in Machines, NEW h \in Handles, NEW e \in Sockets, s[m][h].state # "new" => e.state # "new",
           IsEnd(i, m, h) => Grows(s[m][h], e), NEW x, OnWire(i, s, x)
    PROVE  OnWire(i, [s EXCEPT ![m][h] = e], x)
<1> DEFINE t == [s EXCEPT ![m][h] = e]
<1>1. t \in [Machines -> [Handles -> Sockets]]
  OBVIOUS
<1>2. t[m][h] = e /\ \A k \in Machines, j \in Handles : k # m \/ j # h => t[k][j] = s[k][j]
  OBVIOUS
<1> HIDE DEF t
<1>3. x \in [to : Machines, seg : Segments] /\ x.to \in Machines /\ x.seg \in Segments
  BY DEF OnWire
<1>4. ASSUME Answer(s, x) PROVE Answer(t, x)
  <2>1. PICK j \in Handles : x.seg.seq = net_iss("server", j) /\ s["server"][j].state # "new"
    BY <1>4 DEF Answer
  <2>2. t["server"][j].state # "new"
    BY <1>2, <2>1, Ends
  <2> QED BY <1>4, <2>1, <2>2 DEF Answer
<1>5. ASSUME Speech(i, s, x) PROVE Speech(i, t, x)
  <2> DEFINE k == Peer(x.to)
             j == At(i, k)
  <2>1. i # 0 /\ Says(k, j, At(i, x.to), s[k][j], x.seg)
    BY <1>5 DEF Speech
  <2>2. k \in Machines /\ j \in Handles /\ At(i, x.to) \in Handles
    BY <1>3, <2>1, Peers, Ends
  <2>3. Says(k, j, At(i, x.to), t[k][j], x.seg)
    <3>1. CASE k = m /\ j = h
      <4>1. IsEnd(i, m, h)
        BY <2>1, <3>1 DEF IsEnd
      <4>2. Grows(s[k][j], t[k][j]) /\ s[k][j] \in Sockets /\ t[k][j] \in Sockets
        BY <1>2, <3>1, <4>1
      <4> QED BY <1>3, <2>1, <2>2, <4>2, SaysGrows
    <3>2. CASE ~(k = m /\ j = h)
      <4>1. t[k][j] = s[k][j]
        BY <1>2, <2>2, <3>2
      <4> QED BY <2>1, <4>1
    <3> QED BY <3>1, <3>2
  <2> QED BY <2>1, <2>3 DEF Speech
<1>6. OnWire(i, t, x)
  BY <1>3, <1>4, <1>5 DEF OnWire
<1> QED BY <1>6 DEF t

(* One socket moves, and all that the invariant says of the others still holds. *)
LEMMA SocketMoves ==
    ASSUME NEW i, NEW s, NEW w, Sound(i, s, w),
           NEW m \in Machines, NEW h \in Handles, NEW e \in Sockets, s[m][h].state # "new" => e.state # "new",
           Fits(i, m, h, e), IsEnd(i, m, h) => Grows(s[m][h], e) /\ Paired(e, Other(i, s, m))
    PROVE  Sound(i, [s EXCEPT ![m][h] = e], w)
<1> DEFINE t == [s EXCEPT ![m][h] = e]
<1>1. i \in 0..MaxConns /\ s \in [Machines -> [Handles -> Sockets]]
  BY DEF Sound
<1>2. t \in [Machines -> [Handles -> Sockets]]
  BY <1>1
<1>3. t[m][h] = e /\ \A k \in Machines, j \in Handles : k # m \/ j # h => t[k][j] = s[k][j]
  BY <1>1
<1>4. \A x \in w : OnWire(i, t, x)
  BY <1>1, WireStays DEF Sound
<1> HIDE DEF t
<1>5. ASSUME NEW k \in Machines, NEW j \in Handles PROVE Fits(i, k, j, t[k][j])
  BY <1>3 DEF Sound
<1>6. ASSUME i # 0 PROVE Pair(t["client"][1], t["server"][i]) /\ Pair(t["server"][i], t["client"][1])
  <2>1. Pair(s["client"][1], s["server"][i]) /\ Pair(s["server"][i], s["client"][1])
    BY <1>6 DEF Sound
  <2>2. CASE m = "client" /\ h = 1
    <3>1. IsEnd(i, m, h) /\ Other(i, s, m) = s["server"][i]
      BY <1>1, <1>6, <2>2, Ends DEF IsEnd, Other
    <3>2. t["client"][1] = e /\ t["server"][i] = s["server"][i]
      BY <1>1, <1>3, <1>6, <2>2, Ends
    <3> QED BY <3>1, <3>2 DEF Paired
  <2>3. CASE m = "server" /\ h = i
    <3>1. IsEnd(i, m, h) /\ Other(i, s, m) = s["client"][1]
      BY <1>1, <1>6, <2>3, Ends DEF IsEnd, Other
    <3>2. t["server"][i] = e /\ t["client"][1] = s["client"][1]
      BY <1>1, <1>3, <1>6, <2>3, Ends
    <3> QED BY <3>1, <3>2 DEF Paired
  <2>4. CASE ~(m = "client" /\ h = 1) /\ ~(m = "server" /\ h = i)
    <3>1. t["server"][i] = s["server"][i] /\ t["client"][1] = s["client"][1]
      BY <1>1, <1>3, <1>6, <2>4, Ends
    <3> QED BY <2>1, <3>1
  <2> QED BY <2>2, <2>3, <2>4
<1>7. Sound(i, t, w)
  BY <1>1, <1>2, <1>4, <1>5, <1>6 DEF Sound
<1> QED BY <1>7 DEF t

(* Segments go, or others come. *)
LEMMA WireMoves ==
    ASSUME NEW i, NEW s, NEW w, Sound(i, s, w), NEW v, \A x \in v : x \in w \/ OnWire(i, s, x)
    PROVE  Sound(i, s, v)
BY DEF Sound

(* What a socket sends may be under way. *)
LEMMA GreetsOnWire ==
    ASSUME NEW i, NEW s, NEW m \in Machines, NEW h \in Handles, s[m][h].state # "new",
           NEW y \in Segments, Greets(m, h, y)
    PROVE  OnWire(i, s, [to |-> Peer(m), seg |-> y])
<1> DEFINE x == [to |-> Peer(m), seg |-> y]
<1>1. x \in [to : Machines, seg : Segments] /\ x.to = Peer(m) /\ x.seg = y
  BY Peers
<1> HIDE DEF x
<1>2. CASE "rst" \in y.flags /\ "syn" \notin y.flags
  BY <1>1, <1>2 DEF OnWire, x
<1>3. CASE m = "client" /\ y.flags = {"syn"} /\ y.seq = net_iss("client", 1) /\ y.data = <<>>
  <2>1. Call(x)
    BY <1>1, <1>3 DEF Call, Peer
  <2> QED BY <1>1, <2>1 DEF OnWire, x
<1>4. CASE /\ m = "server" /\ y.flags = {"syn", "ack"} /\ y.data = <<>>
           /\ y.ack = Num("client", 1, 0) /\ y.seq = net_iss("server", h)
  <2>1. Answer(s, x)
    BY <1>1, <1>4 DEF Answer, Peer
  <2> QED BY <1>1, <2>1 DEF OnWire, x
<1> QED BY <1>2, <1>3, <1>4 DEF Greets

LEMMA SaysOnWire ==
    ASSUME NEW i, NEW s, NEW m \in Machines, NEW h, IsEnd(i, m, h),
           NEW y \in Segments, Says(m, h, At(i, Peer(m)), s[m][h], y)
    PROVE  OnWire(i, s, [to |-> Peer(m), seg |-> y])
<1> DEFINE x == [to |-> Peer(m), seg |-> y]
<1>1. x \in [to : Machines, seg : Segments] /\ x.to = Peer(m) /\ x.seg = y /\ Peer(x.to) = m
  BY Peers
<1> HIDE DEF x
<1>2. i # 0 /\ h = At(i, m)
  BY DEF IsEnd
<1>3. Speech(i, s, x)
  BY <1>1, <1>2 DEF Speech
<1> QED BY <1>1, <1>3 DEF OnWire, x

(* Whether o is a step that socket h of m may take. *)
Steps(i, s, m, h, o) ==
    IF IsEnd(i, m, h) THEN EndStep(m, h, At(i, Peer(m)), s[m][h], Other(i, s, m), o) ELSE QuietStep(i, m, h, o)

(* A step of one socket keeps the invariant, whatever the network keeps of the wire. *)
LEMMA StepSound ==
    ASSUME NEW i, NEW s, NEW w, Sound(i, s, w), NEW m \in Machines, NEW h \in Handles,
           NEW o, Steps(i, s, m, h, o), NEW v, v \subseteq w \cup To(Peer(m), o.out)
    PROVE  Sound(i, [s EXCEPT ![m][h] = o.c], v)
<1> DEFINE e == o.c
           t == [s EXCEPT ![m][h] = e]
<1>1. /\ e \in Sockets /\ e.state # "new" /\ Fits(i, m, h, e)
      /\ IsEnd(i, m, h) => Grows(s[m][h], e) /\ Paired(e, Other(i, s, m))
  BY DEF Steps, EndStep, QuietStep, Fits
<1>2. Sound(i, t, w)
  BY <1>1, SocketMoves
<1>3. t[m][h] = e
  BY DEF Sound
<1> HIDE DEF e, t
<1>4. ASSUME NEW y \in o.out PROVE OnWire(i, t, [to |-> Peer(m), seg |-> y])
  <2>1. y \in Segments /\ (Greets(m, h, y) \/ (IsEnd(i, m, h) /\ Says(m, h, At(i, Peer(m)), e, y)))
    BY DEF Steps, EndStep, QuietStep, e
  <2>2. CASE Greets(m, h, y)
    BY <1>1, <1>3, <2>1, <2>2, GreetsOnWire
  <2>3. CASE IsEnd(i, m, h) /\ Says(m, h, At(i, Peer(m)), e, y)
    BY <1>3, <2>1, <2>3, SaysOnWire
  <2> QED BY <2>1, <2>2, <2>3
<1>5. \A x \in v : x \in w \/ OnWire(i, t, x)
  BY <1>4 DEF To
<1>6. Sound(i, t, v)
  BY <1>2, <1>5, WireMoves
<1> QED BY <1>6 DEF t, e

-----------------------------------------------------------------------------
(* Commands and timers *)

(* A socket that is no longer in the tables of the machine. *)
Forgotten(c) == [c EXCEPT !.held = FALSE, !.linked = FALSE]

(* Forgetting a socket changes nothing that either end relies on. *)
LEMMA ForgottenFields ==
    ASSUME NEW c \in Sockets
    PROVE  LET e == Forgotten(c)
           IN  /\ e \in Sockets /\ Told(c, e) /\ e.rcv_nxt = c.rcv_nxt /\ e.closed = c.closed /\ e.fin_sent = c.fin_sent
               /\ e.state = c.state /\ ~e.linked /\ e.rto = c.rto /\ e.txseq = c.txseq /\ e.snd_una = c.snd_una
               /\ e.snd_nxt = c.snd_nxt /\ e.fin_seq = c.fin_seq /\ e.own = c.own /\ e.queued = c.queued
               /\ c = net_new_sock => e = net_new_sock
<1> DEFINE e == Forgotten(c)
<1>1. e \in Sockets
  BY DEF Forgotten, Sockets
<1>2. c = net_new_sock => e = net_new_sock
  <2>1. ASSUME c = net_new_sock PROVE e = c
    <3>1. ~c.held /\ ~c.linked
      BY <2>1 DEF net_new_sock
    <3>2. c.held \in BOOLEAN /\ c.linked \in BOOLEAN
      BY DEF Sockets
    <3>3. c.held = FALSE /\ c.linked = FALSE
      BY <3>1, <3>2
    <3> QED BY <3>3 DEF Forgotten, Sockets
  <2> QED BY <2>1
<1> QED BY <1>1, <1>2 DEF Forgotten, Sockets, Told

LEMMA ForgottenFits ==
    ASSUME NEW i, NEW m, NEW h, NEW c \in Sockets, Fits(i, m, h, c)
    PROVE  Fits(i, m, h, Forgotten(c))
<1> DEFINE e == Forgotten(c)
           p == At(i, Peer(m))
<1>1. /\ e \in Sockets /\ Told(c, e) /\ e.rcv_nxt = c.rcv_nxt /\ e.closed = c.closed /\ e.fin_sent = c.fin_sent
      /\ e.state = c.state /\ ~e.linked /\ e.rto = c.rto /\ e.txseq = c.txseq /\ e.snd_una = c.snd_una
      /\ e.snd_nxt = c.snd_nxt /\ e.fin_seq = c.fin_seq /\ e.own = c.own /\ e.queued = c.queued
      /\ c = net_new_sock => e = net_new_sock
  BY ForgottenFields
<1> HIDE DEF e
<1>2. Timed(e)
  BY <1>1 DEF Timed
<1>3. Blank(c) => Blank(e)
  BY <1>1 DEF Blank, Told
<1>4. Waits(m, h, c) => Waits(m, h, e)
  BY <1>1, <1>3 DEF Waits, Begun
<1>5. ASSUME End(m, h, p, c) PROVE End(m, h, p, e)
  <2>1. Follows(m, h, p, c)
    BY <1>5 DEF End
  <2>2. Follows(m, h, p, e)
    BY <1>1, <2>1, ToldFollows
  <2>3. Ready(m, h, p, c) => Ready(m, h, p, e)
    BY <1>1, ToldReady
  <2> QED BY <1>1, <1>2, <1>4, <1>5, <2>2, <2>3 DEF End
<1>6. ASSUME Quiet(i, m, h, c) PROVE Quiet(i, m, h, e)
  <2>1. Begun(m, h, c) => Begun(m, h, e)
    BY <1>1 DEF Begun
  <2> QED BY <1>1, <1>2, <1>3, <1>4, <1>6, <2>1 DEF Quiet
<1> QED BY <1>5, <1>6 DEF Fits, e

(* A socket of m at either end of the conversation, and its partner. *)
LEMMA AtEnd ==
    ASSUME NEW i, NEW s, NEW w, Sound(i, s, w), NEW m \in Machines, NEW h \in Handles, IsEnd(i, m, h)
    PROVE  /\ i \in Handles /\ h = At(i, m) /\ At(i, Peer(m)) \in Handles /\ (m = "server" => At(i, Peer(m)) = 1)
           /\ s[m][h] \in Sockets /\ End(m, h, At(i, Peer(m)), s[m][h])
           /\ Other(i, s, m) \in Sockets /\ Streams(Other(i, s, m)) /\ Paired(s[m][h], Other(i, s, m))
<1>1. i \in 0..MaxConns /\ i # 0 /\ h = At(i, m) /\ s \in [Machines -> [Handles -> Sockets]]
  BY DEF Sound, IsEnd
<1>2. /\ i \in Handles /\ At(i, Peer(m)) \in Handles /\ Peer(m) \in Machines
      /\ m = "server" => At(i, Peer(m)) = 1
  BY <1>1, Ends, Peers
<1>3. s[m][h] \in Sockets /\ Other(i, s, m) \in Sockets
  BY <1>1, <1>2 DEF Other
<1>4. End(m, h, At(i, Peer(m)), s[m][h])
  BY DEF Sound, Fits
<1>5. IsEnd(i, Peer(m), At(i, Peer(m)))
  BY <1>1 DEF IsEnd
<1>6. End(Peer(m), At(i, Peer(m)), At(i, Peer(Peer(m))), Other(i, s, m))
  BY <1>2, <1>5 DEF Sound, Fits, Other
<1>7. Streams(Other(i, s, m))
  BY <1>6 DEF End, Follows
<1>8. Paired(s[m][h], Other(i, s, m))
  <2>1. Pair(s["client"][1], s["server"][i]) /\ Pair(s["server"][i], s["client"][1])
    BY <1>1 DEF Sound
  <2>2. CASE m = "client"
    BY <1>1, <2>1, <2>2, Ends DEF Paired, Other
  <2>3. CASE m = "server"
    BY <1>1, <2>1, <2>3, Ends DEF Paired, Other
  <2> QED BY <2>2, <2>3 DEF Machines
<1> QED BY <1>1, <1>2, <1>3, <1>4, <1>7, <1>8

LEMMA NotAtEnd ==
    ASSUME NEW i, NEW s, NEW w, Sound(i, s, w), NEW m \in Machines, NEW h \in Handles, ~IsEnd(i, m, h)
    PROVE  s[m][h] \in Sockets /\ Quiet(i, m, h, s[m][h])
BY DEF Sound, Fits

(* A lingering socket goes, or a closed one is released. *)
LEMMA ForgottenSteps ==
    ASSUME NEW i, NEW s, NEW w, Sound(i, s, w), NEW m \in Machines, NEW h \in Handles, s[m][h].state # "new"
    PROVE  Steps(i, s, m, h, Out(Forgotten(s[m][h]), {}))
<1> DEFINE c == s[m][h]
           e == Forgotten(c)
           o == Out(e, {})
           p == At(i, Peer(m))
           d == Other(i, s, m)
<1>0. c \in Sockets /\ Fits(i, m, h, c)
  BY DEF Sound
<1>1. e \in Sockets /\ Told(c, e) /\ e.closed = c.closed /\ e.state = c.state /\ Fits(i, m, h, e)
  BY <1>0, ForgottenFields, ForgottenFits
<1>2. o.c = e /\ o.out = {}
  BY DEF Out
<1> HIDE DEF e, o
<1>3. CASE IsEnd(i, m, h)
  <2>1. d \in Sockets /\ Paired(c, d) /\ End(m, h, p, e)
    BY <1>1, <1>3, AtEnd DEF Fits
  <2>2. Grows(c, e)
    BY <1>0, <1>1, GrowsItself
  <2>3. Paired(e, d)
    BY <1>0, <1>1, <2>1, <2>2, PairTold, PairGrows DEF Paired
  <2>4. EndStep(m, h, p, c, d, o)
    BY <1>1, <1>2, <2>1, <2>2, <2>3 DEF EndStep
  <2> QED BY <1>3, <2>4 DEF Steps, o, e
<1>4. CASE ~IsEnd(i, m, h)
  <2>1. QuietStep(i, m, h, o)
    BY <1>1, <1>2, <1>4 DEF QuietStep, Fits
  <2> QED BY <1>4, <2>1 DEF Steps, o, e
<1> QED BY <1>3, <1>4

(* sys_socket_accept. *)
LEMMA AcceptSteps ==
    ASSUME NEW i, NEW s, NEW w, Sound(i, s, w), NEW h \in Handles, s["server"][h].queued
    PROVE  Steps(i, s, "server", h, Out([s["server"][h] EXCEPT !.queued = FALSE, !.own = s["server"][h].held], {}))
<1> DEFINE c == s["server"][h]
           e == [c EXCEPT !.queued = FALSE, !.own = c.held]
           o == Out(e, {})
           p == At(i, Peer("server"))
           d == Other(i, s, "server")
<1>0. c \in Sockets /\ Fits(i, "server", h, c) /\ "server" \in Machines
  BY DEF Sound, Machines
<1>1. e \in Sockets
  BY <1>0 DEF Sockets
<1>2. /\ Told(c, e) /\ e.rcv_nxt = c.rcv_nxt /\ e.state = c.state /\ e.txseq = c.txseq /\ e.snd_una = c.snd_una
      /\ e.snd_nxt = c.snd_nxt /\ e.fin_sent = c.fin_sent /\ e.fin_seq = c.fin_seq /\ e.closed = c.closed
      /\ e.linked = c.linked /\ e.rto = c.rto
  BY <1>0 DEF Sockets, Told
<1>3. o.c = e /\ o.out = {}
  BY DEF Out
<1> HIDE DEF e, o
<1>4. Timed(c) => Timed(e)
  <2>1. Owes(e) = Owes(c)
    BY <1>2, OwesSame
  <2> QED BY <1>2, <2>1 DEF Timed
<1>5. ~Waits("server", h, c)
  BY DEF Waits
<1>6. CASE IsEnd(i, "server", h)
  <2>1. /\ p \in Handles /\ End("server", h, p, c) /\ d \in Sockets /\ Paired(c, d)
    BY <1>0, <1>6, AtEnd
  <2>2. Timed(c) /\ Follows("server", h, p, c) /\ (c.state = "closed" \/ Ready("server", h, p, c))
    BY <1>5, <2>1 DEF End
  <2>3. Follows("server", h, p, e) /\ (Ready("server", h, p, c) => Ready("server", h, p, e))
    BY <1>2, <2>2, ToldFollows, ToldReady
  <2>4. End("server", h, p, e)
    BY <1>2, <1>4, <2>2, <2>3 DEF End
  <2>5. Grows(c, e)
    BY <1>0, <1>2, GrowsItself
  <2>6. Paired(e, d)
    BY <1>0, <1>1, <1>2, <2>1, <2>5, PairTold, PairGrows DEF Paired
  <2>7. e.state # "new"
    BY <1>2, <2>2 DEF Ready
  <2>8. EndStep("server", h, p, c, d, o)
    BY <1>1, <1>3, <2>4, <2>5, <2>6, <2>7 DEF EndStep
  <2> QED BY <1>6, <2>8 DEF Steps, o, e
<1>7. CASE ~IsEnd(i, "server", h)
  <2>1. Quiet(i, "server", h, c)
    BY <1>0, <1>7 DEF Fits
  <2>2. c.state # "new"
    BY <2>1 DEF Quiet, net_new_sock
  <2>3. Blank(e)
    BY <1>2, <2>1 DEF Quiet, Blank, Told
  <2>4. Quiet(i, "server", h, e)
    BY <1>2, <1>4, <1>5, <2>1, <2>2, <2>3 DEF Quiet
  <2>5. QuietStep(i, "server", h, o)
    BY <1>1, <1>2, <1>3, <2>2, <2>4 DEF QuietStep
  <2> QED BY <1>7, <2>5 DEF Steps, o, e
<1> QED BY <1>6, <1>7

(* The bound on all that is written bounds each stream. *)
LEMMA RoomLeft ==
    ASSUME socks \in [Machines -> [Handles -> Sockets]], NEW m \in Machines, NEW h \in Handles, Streams(socks[m][h]),
           Cardinality(Written) < MaxBytes
    PROVE  Len(socks[m][h].sent) < MaxBytes
<1> DEFINE L == Len(socks[m][h].sent)
           f == [k \in 1..L |-> <<m, h, k>>]
<1>1. socks[m][h] \in Sockets /\ MaxBytes \in Nat /\ L \in 0..MaxBytes /\ socks[m][h].sent \in Seq(Int)
  BY Lengths, SocketTypes
<1>2. IsFiniteSet(Written)
  <2>1. IsFiniteSet(Machines)
    <3>1. IsFiniteSet({} \cup {"client"})
      BY FS_EmptySet, FS_AddElement
    <3>2. IsFiniteSet(({} \cup {"client"}) \cup {"server"})
      BY <3>1, FS_AddElement
    <3>3. Machines = ({} \cup {"client"}) \cup {"server"}
      BY DEF Machines
    <3> QED BY <3>2, <3>3
  <2>2. IsFiniteSet(Handles) /\ IsFiniteSet(1..MaxBytes)
    BY FS_Interval, Constants DEF Handles
  <2> DEFINE all == {b \in Machines \X (Handles \X (1..MaxBytes)) : TRUE}
             g == [b \in Written |-> <<b[1], <<b[2], b[3]>>>>]
  <2>3. IsFiniteSet(Machines \X (Handles \X (1..MaxBytes)))
    BY <2>1, <2>2, FS_Product
  <2>4. g \in Injection(Written, Machines \X (Handles \X (1..MaxBytes)))
    <3>1. g \in [Written -> Machines \X (Handles \X (1..MaxBytes))]
      BY DEF Written
    <3>2. ASSUME NEW a \in Written, NEW b \in Written, g[a] = g[b] PROVE a = b
      <4>1. a[1] = b[1] /\ a[2] = b[2] /\ a[3] = b[3]
        BY <3>2
      <4> QED BY <4>1 DEF Written
    <3> QED BY <3>1, <3>2 DEF Injection, IsInjective
  <2> QED BY <2>3, <2>4, FS_Injection
<1>3. f \in Injection(1..L, Written)
  <2>1. ASSUME NEW k \in 1..L PROVE <<m, h, k>> \in Written
    BY <1>1 DEF Written
  <2>2. f \in [1..L -> Written]
    BY <2>1
  <2> QED BY <2>2 DEF Injection, IsInjective
<1> HIDE DEF f, L
<1>4. Cardinality(1..L) <= Cardinality(Written) /\ Cardinality(Written) \in Nat
  BY <1>2, <1>3, FS_Injection, FS_CardinalityType
<1>5. Cardinality(1..L) = L
  <2>1. 1 \in Int /\ L \in Int
    BY <1>1
  <2>2. Cardinality(1..L) = IF 1 > L THEN 0 ELSE L - 1 + 1
    BY <2>1, FS_Interval
  <2> QED BY <1>1, <2>2
<1> QED BY <1>1, <1>4, <1>5 DEF L

(* sys_socket_send. *)
LEMMA SendSteps ==
    ASSUME NEW i, NEW s, NEW w, Sound(i, s, w), NEW m \in Machines, NEW h \in Handles,
           s[m][h].state = "est", ~s[m][h].closed, ~s[m][h].fin_sent, Len(s[m][h].sent) < MaxBytes
    PROVE  LET next == Len(s[m][h].sent) + 1
           IN  Steps(i, s, m, h, net_tcp_output([s[m][h] EXCEPT !.txq = Append(@, next), !.sent = Append(@, next)]))
<1> DEFINE c == s[m][h]
           next == Len(c.sent) + 1
           e == [c EXCEPT !.txq = Append(@, next), !.sent = Append(@, next)]
           o == net_tcp_output(e)
           p == At(i, Peer(m))
           d == Other(i, s, m)
<1>1. IsEnd(i, m, h)
  BY NotAtEnd DEF Quiet
<1>2. c \in Sockets /\ End(m, h, p, c) /\ d \in Sockets /\ Paired(c, d) /\ p \in Handles
  BY <1>1, AtEnd
<1> HIDE DEF d, p
<1>3. Timed(c) /\ Ready(m, h, p, c)
  BY <1>2 DEF End
<1>4. e \in Sockets /\ Ready(m, h, p, e) /\ Grows(c, e) /\ Paired(e, d)
  <2> HIDE DEF c, next
  <2>1. next = Len(c.sent) + 1 /\ ~c.closed /\ ~c.fin_sent /\ Len(c.sent) < MaxBytes
    BY DEF c, next
  <2> QED BY <1>2, <1>3, <2>1, SendEnd
<1> HIDE DEF e
<1>5. Alike(e, o.c) /\ Ready(m, h, p, o.c) /\ (Owes(o.c) => o.c.rto) /\ \A g \in o.out : g \in Segments /\ Says(m, h, p, o.c, g)
  BY <1>2, <1>4, OutputSound
<1> HIDE DEF o, c
<1>6. o.c \in Sockets /\ Told(e, o.c) /\ o.c.state = "est"
  BY <1>5 DEF Alike, Told, Ready
<1>7. End(m, h, p, o.c)
  BY <1>5, <1>6 DEF End, Timed, Ready
<1>8. Grows(e, o.c)
  BY <1>4, <1>5, AlikeFollows DEF Ready
<1>9. Grows(c, o.c)
  BY <1>2, <1>4, <1>6, <1>8, GrowsTransitive
<1>10. Paired(o.c, d)
  BY <1>2, <1>4, <1>6, <1>8, PairTold, PairGrows DEF Paired
<1>11. EndStep(m, h, p, c, d, o)
  BY <1>5, <1>6, <1>7, <1>9, <1>10 DEF EndStep
<1> QED BY <1>1, <1>11 DEF Steps, o, e, c, p, d

(* sys_socket_close: its socket belongs to the program, so it is neither new nor waiting. *)
LEMMA CloseSteps ==
    ASSUME NEW i, NEW s, NEW w, Sound(i, s, w), NEW m \in Machines, NEW h \in Handles,
           s[m][h].own, s[m][h].state # "syn_sent"
    PROVE  Steps(i, s, m, h, IF s[m][h].state = "closed" THEN Out([s[m][h] EXCEPT !.held = FALSE], {})
                             ELSE Reaped(net_tcp_output([s[m][h] EXCEPT !.closed = TRUE])))
<1> DEFINE c == s[m][h]
           p == At(i, Peer(m))
           d == Other(i, s, m)
<1>1. c \in Sockets
  BY DEF Sound
<1>2. ~Waits(m, h, c) /\ c.state # "new"
  <2>1. c # net_new_sock
    BY DEF net_new_sock
  <2>2. IsEnd(i, m, h) => c.state # "new"
    BY AtEnd DEF End, Ready
  <2> QED BY <2>1, <2>2, NotAtEnd DEF Waits, Quiet
<1>3. CASE c.state = "closed"
  <2>1. Timed(c)
    BY AtEnd, NotAtEnd DEF End, Quiet
  <2>2. c.linked = FALSE
    BY <1>1, <1>3, <2>1 DEF Timed, Sockets
  <2>3. [c EXCEPT !.held = FALSE] = Forgotten(c)
    BY <1>1, <2>2 DEF Sockets, Forgotten
  <2> QED BY <1>2, <1>3, <2>3, ForgottenSteps
<1>4. CASE c.state # "closed"
  <2> DEFINE e == [c EXCEPT !.closed = TRUE]
             o == Reaped(net_tcp_output(e))
  <2>1. IsEnd(i, m, h)
    BY <1>2, <1>4, NotAtEnd DEF Quiet, Sockets, States
  <2>2. End(m, h, p, c) /\ d \in Sockets /\ Paired(c, d) /\ p \in Handles
    BY <2>1, AtEnd
  <2>3. Ready(m, h, p, c)
    BY <1>2, <1>4, <2>2 DEF End
  <2> HIDE DEF c, p, d
  <2>4. e \in Sockets /\ Ready(m, h, p, e) /\ Grows(c, e) /\ Paired(e, d)
    BY <1>1, <2>2, <2>3, CloseEnd
  <2> HIDE DEF e
  <2>5. /\ o.c \in Sockets /\ End(m, h, p, o.c) /\ Paired(o.c, d) /\ Grows(e, o.c) /\ o.c.state # "new"
        /\ \A g \in o.out : g \in Segments /\ Says(m, h, p, o.c, g)
    BY <2>2, <2>4, OutputReaped
  <2> HIDE DEF o
  <2>6. Grows(c, o.c)
    BY <1>1, <2>4, <2>5, GrowsTransitive
  <2>7. EndStep(m, h, p, c, d, o)
    BY <2>5, <2>6 DEF EndStep
  <2> QED BY <1>4, <2>1, <2>7 DEF Steps, o, e, c, p, d
<1> QED BY <1>3, <1>4

(* net_tcp_timers: the retransmission. *)
LEMMA TimerSteps ==
    ASSUME NEW i, NEW s, NEW w, Sound(i, s, w), NEW m \in Machines, NEW h \in Handles, s[m][h].linked
    PROVE  s[m][h].state # "new" /\ Steps(i, s, m, h, Reaped(net_tcp_retransmit(s[m][h])))
<1> DEFINE c == s[m][h]
           p == At(i, Peer(m))
           d == Other(i, s, m)
           o == Reaped(net_tcp_retransmit(c))
<1>1. c \in Sockets
  BY DEF Sound
<1>2. CASE IsEnd(i, m, h)
  <2>1. End(m, h, p, c) /\ d \in Sockets /\ Paired(c, d) /\ p \in Handles /\ (m = "server" => p = 1)
    BY <1>2, AtEnd
  <2> HIDE DEF c, p, d
  <2>2. c.linked
    BY DEF c
  <2>3. EndStep(m, h, p, c, d, o)
    BY <1>1, <2>1, <2>2, RetransmitEnd
  <2>4. c.state # "new"
    BY <2>1, <2>2 DEF End, Timed
  <2> QED BY <1>2, <2>3, <2>4 DEF Steps, o, c, p, d
<1>3. CASE ~IsEnd(i, m, h)
  <2>1. Quiet(i, m, h, c)
    BY <1>3, NotAtEnd
  <2>2. QuietStep(i, m, h, o)
    BY <1>1, <2>1, RetransmitQuiet
  <2>3. c.state # "new"
    BY <2>1 DEF Quiet, Timed
  <2> QED BY <1>3, <2>2, <2>3 DEF Steps
<1> QED BY <1>2, <1>3

(* net_new_sock. *)
LEMMA NewSocket == net_new_sock \in Sockets
<1> DEFINE none == <<>>
           zero == 0
           first == "new"
<1>1. none \in Seq(Int) /\ zero \in Int /\ first \in States
  BY DEF States
<1>2. net_new_sock =
        [state |-> first, own |-> FALSE, held |-> FALSE, linked |-> FALSE, queued |-> FALSE,
         rx |-> none, txq |-> none, txseq |-> zero, snd_una |-> zero, snd_nxt |-> zero, rcv_nxt |-> zero,
         fin_rcvd |-> FALSE, fin_sent |-> FALSE, fin_acked |-> FALSE, fin_seq |-> zero,
         closed |-> FALSE, reset |-> FALSE, rto |-> FALSE, tries |-> zero, linger |-> FALSE, sent |-> none]
  BY DEF net_new_sock
<1> HIDE DEF none, zero, first
<1> QED BY <1>1, <1>2 DEF Sockets

(* A socket as Started makes it. *)
LEMMA StartedFields ==
    ASSUME NEW m \in Machines, NEW h \in Handles, NEW state \in States, NEW next \in Int
    PROVE  LET c == Started(m, h, state, next)
           IN  /\ c \in Sockets /\ Blank(c) /\ Begun(m, h, c) /\ c.state = state /\ c.linked /\ c.rcv_nxt = next
               /\ c.snd_una = net_iss(m, h) /\ ~c.queued /\ (m = "server" => ~c.own)
<1> DEFINE iss == net_iss(m, h)
           n == net_seq_add(iss, 1)
           mine == (m = "client")
           c == [net_new_sock EXCEPT !.state = state, !.held = TRUE, !.linked = TRUE, !.own = mine,
                             !.rcv_nxt = next, !.snd_una = iss, !.snd_nxt = n, !.txseq = n, !.rto = TRUE]
<1>1. iss \in Int
  BY IssInt
<1>2. n = Num(m, h, 0)
  BY <1>1 DEF Num
<1>3. n \in Int
  BY <1>2, NumInt
<1>4. mine \in BOOLEAN /\ (m = "server" => ~mine)
  OBVIOUS
<1>5. Started(m, h, state, next) = c
  BY DEF Started
<1> HIDE DEF iss, n, mine
<1>6. c \in Sockets
  BY <1>1, <1>3, <1>4, NewSocket DEF Sockets
<1>7. /\ c.state = state /\ c.linked /\ c.rcv_nxt = next /\ c.snd_una = iss /\ c.snd_nxt = n /\ c.txseq = n /\ c.rto
      /\ ~c.queued /\ c.own = mine /\ Blank(c)
  BY DEF net_new_sock, Blank
<1> HIDE DEF c
<1>8. Begun(m, h, c)
  BY <1>2, <1>7 DEF Begun, iss
<1> QED BY <1>4, <1>5, <1>6, <1>7, <1>8 DEF iss

-----------------------------------------------------------------------------
(* Arrivals *)

(* Sockets over which nothing has come or gone. *)
LEMMA BlankStreams ==
    ASSUME NEW c \in Sockets, Blank(c)
    PROVE  Streams(c) /\ Len(c.rx) = 0 /\ Done(c) = 0 /\ Got(c) = 0
<1>1. c.rx = <<>> /\ c.txq = <<>> /\ c.sent = <<>> /\ ~c.fin_rcvd
  BY DEF Blank
<1>2. Len(c.rx) = 0 /\ Len(c.txq) = 0 /\ Len(c.sent) = 0 /\ Run(0, 0) = <<>> /\ MaxBytes \in Nat
  BY <1>1, RunFacts, Constants
<1>3. Done(c) = 0 /\ Got(c) = 0
  BY <1>1, <1>2 DEF Done, Got, Bit
<1>4. Streams(c)
  BY <1>1, <1>2, <1>3 DEF Streams
<1> QED BY <1>2, <1>3, <1>4

LEMMA BlankFollows ==
    ASSUME NEW m, NEW h, NEW p, NEW c \in Sockets, Blank(c), c.rcv_nxt = Num(Peer(m), p, 0)
    PROVE  Follows(m, h, p, c)
BY BlankStreams DEF Follows

LEMMA BlankPair ==
    ASSUME NEW c \in Sockets, NEW d \in Sockets, Blank(c), Blank(d)
    PROVE  Paired(c, d)
<1>1. ASSUME NEW e \in Sockets, Blank(e) PROVE Len(e.rx) = 0 /\ Done(e) = 0 /\ ~e.fin_rcvd /\ ~e.fin_acked
  BY <1>1 DEF Blank, Done
<1>2. /\ Len(c.rx) = 0 /\ Done(c) = 0 /\ ~c.fin_rcvd /\ ~c.fin_acked
      /\ Len(d.rx) = 0 /\ Done(d) = 0 /\ ~d.fin_rcvd /\ ~d.fin_acked
  BY <1>1
<1>3. Len(c.sent) \in Nat /\ Len(d.sent) \in Nat
  BY SocketTypes
<1> QED BY <1>2, <1>3 DEF Paired, Pair

(* The client hears the answer of the server's socket j: the conversation begins. *)
LEMMA Meet ==
    ASSUME NEW s, NEW w, Sound(0, s, w), NEW j \in Handles, s["server"][j].state # "new",
           NEW o, o.c \in Sockets, End("client", 1, j, o.c), Blank(o.c), o.c.state # "new",
           \A y \in o.out : y \in Segments /\ Says("client", 1, j, o.c, y),
           NEW v, v \subseteq w \cup To("server", o.out)
    PROVE  Sound(j, [s EXCEPT !["client"][1] = o.c], v)
<1> DEFINE e == o.c
           t == [s EXCEPT !["client"][1] = e]
<1>1. s \in [Machines -> [Handles -> Sockets]] /\ 0 \in 0..MaxConns /\ j \in 0..MaxConns /\ j # 0
  BY Constants DEF Sound, Handles
<1>2. 1 \in Handles /\ "client" \in Machines /\ "server" \in Machines /\ Peer("client") = "server" /\ Peer("server") = "client"
  BY <1>1, Ends
<1>3. t \in [Machines -> [Handles -> Sockets]]
  BY <1>1
<1>4. t["client"][1] = e /\ \A k \in Machines, l \in Handles : k # "client" \/ l # 1 => t[k][l] = s[k][l]
  BY <1>1, <1>2
<1> HIDE DEF t, e
<1>5. \A k \in Machines, l \in Handles : s[k][l] \in Sockets /\ Quiet(0, k, l, s[k][l])
  BY NotAtEnd DEF IsEnd
<1>6. ASSUME NEW k \in Machines, NEW l \in Handles PROVE Fits(j, k, l, t[k][l])
  <2>1. CASE k = "client" /\ l = 1
    BY <1>1, <1>2, <1>4, <2>1 DEF Fits, IsEnd, At, e
  <2>2. CASE k = "server" /\ l = j
    <3> DEFINE d == s["server"][j]
    <3>1. d \in Sockets /\ Quiet(0, "server", j, d) /\ d.state # "new"
      BY <1>2, <1>5
    <3> HIDE DEF d
    <3>2. /\ Timed(d) /\ Blank(d) /\ d.rcv_nxt = Num("client", 1, 0)
          /\ d.state = "syn_rcvd" => Waits("server", j, d)
          /\ d.state \notin {"new", "syn_sent", "est"}
      BY <3>1 DEF Quiet
    <3>3. Follows("server", j, 1, d)
      BY <1>2, <3>1, <3>2, BlankFollows
    <3>4. d.state \in {"syn_rcvd", "closed"}
      BY <3>1, <3>2 DEF Sockets, States
    <3>5. End("server", j, 1, d)
      BY <3>2, <3>3, <3>4 DEF End
    <3>6. t[k][l] = d
      BY <1>2, <1>4, <2>2 DEF d
    <3> QED BY <1>1, <1>2, <2>2, <3>5, <3>6 DEF Fits, IsEnd, At
  <2>3. CASE ~(k = "client" /\ l = 1) /\ ~(k = "server" /\ l = j)
    <3>1. t[k][l] = s[k][l] /\ ~IsEnd(j, k, l)
      BY <1>4, <2>3 DEF IsEnd, At, Machines
    <3>2. s[k][l].state # "syn_sent"
      BY <1>5, <2>3 DEF Quiet
    <3>3. Quiet(j, k, l, s[k][l])
      BY <1>5, <3>2 DEF Quiet
    <3> QED BY <3>1, <3>3 DEF Fits
  <2> QED BY <2>1, <2>2, <2>3
<1>7. Pair(t["client"][1], t["server"][j]) /\ Pair(t["server"][j], t["client"][1])
  <2>1. t["server"][j] = s["server"][j] /\ s["server"][j] \in Sockets /\ Blank(s["server"][j])
    BY <1>2, <1>4, <1>5 DEF Quiet
  <2> QED BY <1>4, <2>1, BlankPair DEF Paired, e
<1>8. ASSUME NEW x \in w PROVE OnWire(j, t, x)
  <2>1. OnWire(0, s, x)
    BY DEF Sound
  <2>2. Answer(s, x) => Answer(t, x)
    BY <1>2, <1>4 DEF Answer
  <2>3. ~Speech(0, s, x)
    BY DEF Speech
  <2> QED BY <2>1, <2>2, <2>3 DEF OnWire
<1>9. ASSUME NEW y \in o.out PROVE OnWire(j, t, [to |-> "server", seg |-> y])
  <2>1. y \in Segments /\ Says("client", 1, j, t["client"][1], y)
    BY <1>4 DEF e
  <2>2. IsEnd(j, "client", 1) /\ At(j, Peer("client")) = j
    BY <1>1, <1>2 DEF IsEnd, At
  <2>3. OnWire(j, t, [to |-> Peer("client"), seg |-> y])
    BY <1>2, <2>1, <2>2, SaysOnWire
  <2> QED BY <1>2, <2>3
<1>10. \A x \in v : OnWire(j, t, x)
  BY <1>8, <1>9 DEF To
<1>11. Sound(j, t, v)
  BY <1>1, <1>3, <1>6, <1>7, <1>10 DEF Sound
<1> QED BY <1>11 DEF t, e

(* What is under way to a socket of the conversation is for it to hear. *)
LEMMA Hearing ==
    ASSUME NEW i, NEW s, NEW w, Sound(i, s, w), NEW x \in w, NEW h \in Handles, IsEnd(i, x.to, h)
    PROVE  x.to \in Machines /\ x.seg \in Segments /\ Heard(x.to, h, At(i, Peer(x.to)), Other(i, s, x.to), x.seg)
<1> DEFINE m == x.to
           g == x.seg
<1>1. OnWire(i, s, x)
  BY DEF Sound
<1>2. m \in Machines /\ g \in Segments
  BY <1>1 DEF OnWire
<1>3. h = At(i, m)
  BY DEF IsEnd
<1>4. ASSUME Call(x) PROVE Heard(m, h, At(i, Peer(m)), Other(i, s, m), g)
  BY <1>4 DEF Call, Heard
<1>5. ASSUME Answer(s, x) PROVE Heard(m, h, At(i, Peer(m)), Other(i, s, m), g)
  BY <1>5 DEF Answer, Heard
<1>6. ASSUME Speech(i, s, x) PROVE Heard(m, h, At(i, Peer(m)), Other(i, s, m), g)
  BY <1>3, <1>6 DEF Speech, Other, Heard
<1>7. ASSUME "rst" \in g.flags PROVE Heard(m, h, At(i, Peer(m)), Other(i, s, m), g)
  BY <1>7 DEF Heard
<1>8. Heard(m, h, At(i, Peer(m)), Other(i, s, m), g)
  BY <1>1, <1>4, <1>5, <1>6, <1>7 DEF OnWire
<1> QED BY <1>2, <1>8

(* net_tcp_in, at any socket that the machine finds. *)
LEMMA HearsSound ==
    ASSUME NEW i, NEW s, NEW w, Sound(i, s, w), NEW x \in w, NEW h \in Handles, s[x.to][h].linked, NEW open \in BOOLEAN,
           NEW v, v \subseteq w \cup To(Peer(x.to), net_tcp_in(s[x.to][h], x.seg, open).out)
    PROVE  \E j \in 0..MaxConns : Sound(j, [s EXCEPT ![x.to][h] = net_tcp_in(s[x.to][h], x.seg, open).c], v)
<1> DEFINE m == x.to
           g == x.seg
           c == s[m][h]
           o == net_tcp_in(c, g, open)
<1>0. i \in 0..MaxConns /\ OnWire(i, s, x) /\ s \in [Machines -> [Handles -> Sockets]]
  BY DEF Sound
<1>1. m \in Machines /\ g \in Segments /\ c \in Sockets
  BY <1>0 DEF OnWire
<1>2. CASE IsEnd(i, m, h)
  <2> DEFINE p == At(i, Peer(m))
             d == Other(i, s, m)
  <2>1. End(m, h, p, c) /\ d \in Sockets /\ Streams(d) /\ Paired(c, d) /\ p \in Handles
    BY <1>1, <1>2, AtEnd
  <2>2. Heard(m, h, p, d, g)
    BY <1>2, Hearing
  <2>3. c.linked
    OBVIOUS
  <2>4. EndStep(m, h, p, c, d, o)
    <3> HIDE DEF c, p, d, m, g
    <3> QED BY <1>1, <2>1, <2>2, <2>3, ReceiveEnd
  <2>5. Steps(i, s, m, h, o)
    BY <1>2, <2>4 DEF Steps
  <2>6. v \subseteq w \cup To(Peer(m), o.out)
    OBVIOUS
  <2> HIDE DEF o, m
  <2>7. Sound(i, [s EXCEPT ![m][h] = o.c], v)
    BY <1>1, <2>5, <2>6, StepSound
  <2> QED BY <1>0, <2>7 DEF o, m
<1>3. CASE ~IsEnd(i, m, h)
  <2>1. Quiet(i, m, h, c) /\ c.linked
    BY <1>1, <1>3, NotAtEnd
  <2>2. c.state \in {"syn_sent", "syn_rcvd"}
    BY <1>1, <2>1 DEF Quiet, Timed, Sockets, States
  <2>3. ASSUME \/ "rst" \in g.flags
               \/ c.state = "syn_sent" /\ ~({"syn", "ack"} \subseteq g.flags /\ g.ack = c.snd_nxt)
               \/ c.state = "syn_rcvd" /\ ~("ack" \in g.flags /\ g.ack = c.snd_nxt)
        PROVE  Sound(i, [s EXCEPT ![m][h] = o.c], v)
    <3>1. QuietStep(i, m, h, o)
      <4> HIDE DEF c, m, g
      <4> QED BY <1>1, <2>1, <2>3, ReceiveQuiet
    <3>2. Steps(i, s, m, h, o) /\ v \subseteq w \cup To(Peer(m), o.out)
      BY <1>3, <3>1 DEF Steps
    <3> HIDE DEF o, m
    <3> QED BY <1>1, <3>2, StepSound
  <2>4. CASE c.state = "syn_sent" /\ "rst" \notin g.flags /\ {"syn", "ack"} \subseteq g.flags /\ g.ack = c.snd_nxt
    <3>1. m = "client" /\ h = 1 /\ i = 0
      BY <2>1, <2>4 DEF Quiet
    <3>2. Answer(s, x)
      BY <1>0, <2>4, <3>1 DEF OnWire, Call, Speech
    <3>3. PICK j \in Handles : g.seq = net_iss("server", j) /\ s["server"][j].state # "new"
      BY <3>2 DEF Answer
    <3>4. /\ o.c \in Sockets /\ End("client", 1, j, o.c) /\ Blank(o.c) /\ o.c.state # "new"
          /\ \A y \in o.out : y \in Segments /\ Says("client", 1, j, o.c, y)
      <4>1. Quiet(0, "client", 1, c)
        BY <2>1, <3>1
      <4> HIDE DEF c, m, g
      <4> QED BY <1>1, <2>4, <3>3, <4>1, ReceiveAnswer
    <3>5. v \subseteq w \cup To("server", o.out) /\ Sound(0, s, w)
      BY <3>1 DEF Peer
    <3> HIDE DEF o
    <3>6. Sound(j, [s EXCEPT !["client"][1] = o.c], v)
      BY <3>3, <3>4, <3>5, Meet
    <3>7. j \in 0..MaxConns
      BY <3>6 DEF Sound
    <3> QED BY <3>1, <3>6, <3>7 DEF o
  <2>5. ~(c.state = "syn_rcvd" /\ "rst" \notin g.flags /\ "ack" \in g.flags /\ g.ack = c.snd_nxt)
    <3> SUFFICES ASSUME c.state = "syn_rcvd", "rst" \notin g.flags, "ack" \in g.flags, g.ack = c.snd_nxt PROVE FALSE
      OBVIOUS
    <3>1. m = "server" /\ c.snd_nxt = Num("server", h, 0)
      BY <2>1 DEF Quiet, Waits, Begun
    <3>2. Speech(i, s, x)
      BY <1>0, <3>1 DEF OnWire, Call, Answer
    <3>3. i # 0 /\ Says("client", 1, i, s["client"][1], g)
      BY <1>0, <3>1, <3>2, Ends DEF Speech
    <3>4. IsEnd(i, "client", 1) /\ i \in Handles /\ 1 \in Handles /\ "client" \in Machines /\ Peer("client") = "server"
      BY <1>0, <3>3, Ends DEF IsEnd
    <3>5. Got(s["client"][1]) \in 0..(MaxBytes + 1)
      BY <3>4, AtEnd, Lengths DEF End, Follows
    <3>6. PICK k \in 0..Got(s["client"][1]) : g.ack = Num("server", i, k)
      BY <3>3, <3>4 DEF Says
    <3>7. k \in 0..(MaxBytes + 1) /\ 0 \in 0..(MaxBytes + 1)
      BY <3>5, <3>6, Constants
    <3>8. h = i
      BY <3>1, <3>4, <3>6, <3>7, Apart
    <3> QED BY <1>3, <3>1, <3>3, <3>8 DEF IsEnd, At
  <2> QED BY <1>0, <2>2, <2>3, <2>4, <2>5
<1> QED BY <1>2, <1>3

(* sys_socket_connect. *)
LEMMA ConnectSteps ==
    ASSUME NEW i, NEW s, NEW w, Sound(i, s, w), s["client"][1].state = "new"
    PROVE  LET c == Started("client", 1, "syn_sent", 0)
           IN  Steps(i, s, "client", 1, net_tcp_ctl(c, {"syn"}, c.snd_una))
<1> DEFINE c == Started("client", 1, "syn_sent", 0)
           o == net_tcp_ctl(c, {"syn"}, c.snd_una)
<1>1. i \in 0..MaxConns /\ 1 \in Handles /\ "client" \in Machines
  BY Ends DEF Sound
<1>2. ~IsEnd(i, "client", 1)
  BY <1>1, AtEnd DEF End, Ready
<1>3. i = 0
  BY <1>2 DEF IsEnd, At
<1>4. "syn_sent" \in States /\ 0 \in Int
  BY DEF States
<1>5. /\ c \in Sockets /\ Blank(c) /\ Begun("client", 1, c) /\ c.state = "syn_sent" /\ c.linked
      /\ c.snd_una = net_iss("client", 1) /\ c.rcv_nxt = 0
  BY <1>1, <1>4, StartedFields
<1>6. o.c = c /\ o.out = {net_tcp_seg(c, {"syn"}, c.snd_una, <<>>)}
  BY DEF net_tcp_ctl, Out
<1>7. ASSUME NEW y \in o.out PROVE y \in Segments /\ Greets("client", 1, y)
  <2> DEFINE f == {"syn"}
             none == <<>>
             una == c.snd_una
  <2>1. y = net_tcp_seg(c, f, una, none)
    BY <1>6
  <2>2. f \in SUBSET {"syn", "ack", "fin", "rst", "psh"} /\ none \in Seq(Int) /\ una \in Int /\ c.rcv_nxt \in Int
    BY <1>5 DEF Sockets
  <2> HIDE DEF c, f, none, una, o
  <2>3. y \in Segments /\ y.flags = f /\ y.seq = una /\ y.data = none
    BY <2>1, <2>2 DEF net_tcp_seg, Segments
  <2> QED BY <1>5, <2>3 DEF Greets, f, none, una
<1> HIDE DEF c, o
<1>8. Timed(c)
  BY <1>5 DEF Timed, Begun
<1>9. Quiet(i, "client", 1, c)
  BY <1>3, <1>5, <1>8 DEF Quiet
<1>10. QuietStep(i, "client", 1, o)
  BY <1>5, <1>6, <1>7, <1>9 DEF QuietStep
<1> QED BY <1>2, <1>10 DEF Steps, o, c

(* The first SYN of the client is the only kind that is a call. *)
LEMMA CallIs ==
    ASSUME NEW i, NEW s, NEW x, OnWire(i, s, x), IsCall(x)
    PROVE  net_seq_add(x.seg.seq, 1) = Num("client", 1, 0)
<1>1. x.to = "server" /\ "syn" \in x.seg.flags /\ "ack" \notin x.seg.flags
  BY DEF IsCall
<1>2. Call(x)
  BY <1>1 DEF OnWire, Answer, Speech, Says
<1>3. x.seg.seq = net_iss("client", 1)
  BY <1>2 DEF Call
<1> QED BY <1>3 DEF Num

(* A call finds a listener. *)
LEMMA CalledSteps ==
    ASSUME NEW i, NEW s, NEW w, Sound(i, s, w), NEW h \in Handles, s["server"][h].state = "new",
           NEW next, next = Num("client", 1, 0)
    PROVE  LET c == Started("server", h, "syn_rcvd", next)
           IN  Steps(i, s, "server", h, net_tcp_ctl(c, {"syn", "ack"}, c.snd_una))
<1> DEFINE c == Started("server", h, "syn_rcvd", next)
           o == net_tcp_ctl(c, {"syn", "ack"}, c.snd_una)
<1>1. i \in 0..MaxConns /\ 1 \in Handles /\ "client" \in Machines /\ "server" \in Machines
  BY Ends DEF Sound
<1>2. ~IsEnd(i, "server", h)
  BY <1>1, AtEnd DEF End, Ready
<1>4. "syn_rcvd" \in States /\ next \in Int
  BY <1>1, NumInt DEF States
<1>5. /\ c \in Sockets /\ Blank(c) /\ Begun("server", h, c) /\ c.state = "syn_rcvd" /\ c.linked
      /\ c.snd_una = net_iss("server", h) /\ c.rcv_nxt = next /\ ~c.queued /\ ~c.own
  BY <1>1, <1>4, StartedFields
<1>6. o.c = c /\ o.out = {net_tcp_seg(c, {"syn", "ack"}, c.snd_una, <<>>)}
  BY DEF net_tcp_ctl, Out
<1>7. ASSUME NEW y \in o.out PROVE y \in Segments /\ Greets("server", h, y)
  <2> DEFINE f == {"syn", "ack"}
             none == <<>>
             una == c.snd_una
  <2>1. y = net_tcp_seg(c, f, una, none)
    BY <1>6
  <2>2. f \in SUBSET {"syn", "ack", "fin", "rst", "psh"} /\ none \in Seq(Int) /\ una \in Int /\ c.rcv_nxt \in Int
    BY <1>5 DEF Sockets
  <2> HIDE DEF c, f, none, una, o
  <2>3. y \in Segments /\ y.flags = f /\ y.seq = una /\ y.data = none /\ y.ack = c.rcv_nxt
    BY <2>1, <2>2 DEF net_tcp_seg, Segments
  <2> QED BY <1>5, <2>3 DEF Greets, f, none, una
<1> HIDE DEF c, o
<1>8. Timed(c) /\ Waits("server", h, c)
  BY <1>5 DEF Timed, Begun, Waits
<1>9. Quiet(i, "server", h, c)
  BY <1>5, <1>8 DEF Quiet
<1>10. QuietStep(i, "server", h, o)
  BY <1>5, <1>6, <1>7, <1>9 DEF QuietStep
<1> QED BY <1>2, <1>10 DEF Steps, o, c

(* net_tcp_refuse answers with a reset, which any socket may hear. *)
LEMMA RefusalOnWire ==
    ASSUME NEW i, NEW s, NEW m \in Machines, NEW g \in Segments
    PROVE  OnWire(i, s, [to |-> Peer(m), seg |-> net_tcp_refuse(g)])
<1> DEFINE r == net_tcp_refuse(g)
           x == [to |-> Peer(m), seg |-> r]
           n == Len(g.data) + Cardinality(g.flags \cap {"syn", "fin"})
<1>1. g.seq \in Int /\ g.ack \in Int /\ Len(g.data) \in Nat
  BY DEF Segments
<1>2. Cardinality(g.flags \cap {"syn", "fin"}) \in Nat
  <2>1. IsFiniteSet(({} \cup {"syn"}) \cup {"fin"})
    <3>1. IsFiniteSet({} \cup {"syn"})
      BY FS_EmptySet, FS_AddElement
    <3> QED BY <3>1, FS_AddElement
  <2>2. g.flags \cap {"syn", "fin"} \in SUBSET (({} \cup {"syn"}) \cup {"fin"})
    OBVIOUS
  <2> QED BY <2>1, <2>2, FS_Subset, FS_CardinalityType
<1>3. net_seq_add(g.seq, n) \in Int
  <2>1. n \in Int
    BY <1>1, <1>2
  <2> HIDE DEF n
  <2>2. g.seq + n \in Int
    BY <1>1, <2>1
  <2>3. (g.seq + n) % R \in 0..(R - 1)
    BY <2>2, ModFacts
  <2> QED BY <2>3, Constants DEF net_seq_add, R
<1>4. r = IF "ack" \in g.flags THEN [flags |-> {"rst"}, seq |-> g.ack, ack |-> 0, data |-> <<>>]
          ELSE [flags |-> {"rst", "ack"}, seq |-> 0, ack |-> net_seq_add(g.seq, n), data |-> <<>>]
  BY DEF net_tcp_refuse, net_tcp_seg
<1> HIDE DEF n, r
<1>5. r \in Segments /\ "rst" \in r.flags /\ "syn" \notin r.flags
  BY <1>1, <1>3, <1>4 DEF Segments
<1>6. x \in [to : Machines, seg : Segments] /\ x.seg = r
  BY <1>5, Peers
<1> QED BY <1>5, <1>6 DEF OnWire, r

(* net_drop forgets all sockets of a machine. *)
LEMMA DropSound ==
    ASSUME NEW i, NEW s, NEW w, Sound(i, s, w), NEW m \in Machines,
           NEW t, t = [s EXCEPT ![m] = [h \in Handles |-> Forgotten(s[m][h])]]
    PROVE  Sound(i, t, w)
<1>1. i \in 0..MaxConns /\ s \in [Machines -> [Handles -> Sockets]]
  BY DEF Sound
<1>2. ASSUME NEW k \in Machines, NEW j \in Handles PROVE t[k][j] = s[k][j] \/ t[k][j] = Forgotten(s[k][j])
  BY <1>1
<1>3. ASSUME NEW k \in Machines, NEW j \in Handles
      PROVE  /\ t[k][j] \in Sockets /\ Fits(i, k, j, t[k][j])
             /\ Told(s[k][j], t[k][j]) /\ t[k][j].closed = s[k][j].closed /\ t[k][j].state = s[k][j].state
  <2> DEFINE c == s[k][j]
  <2>1. c \in Sockets /\ Fits(i, k, j, c)
    BY DEF Sound
  <2>2. Fits(i, k, j, Forgotten(c))
    BY <2>1, ForgottenFits
  <2>3. Forgotten(c) \in Sockets /\ Told(c, Forgotten(c)) /\ Forgotten(c).closed = c.closed /\ Forgotten(c).state = c.state
    BY <2>1, ForgottenFields
  <2>4. Told(c, c)
    BY DEF Told
  <2> QED BY <1>2, <2>1, <2>2, <2>3, <2>4
<1>4. t \in [Machines -> [Handles -> Sockets]]
  <2>1. [h \in Handles |-> Forgotten(s[m][h])] \in [Handles -> Sockets]
    BY <1>1, ForgottenFields
  <2> QED BY <1>1, <2>1
<1>5. ASSUME NEW k \in Machines, NEW j \in Handles
      PROVE  Grows(s[k][j], t[k][j]) /\ s[k][j] \in Sockets /\ t[k][j] \in Sockets
  BY <1>1, <1>3, GrowsItself
<1>6. ASSUME i # 0 PROVE Pair(t["client"][1], t["server"][i]) /\ Pair(t["server"][i], t["client"][1])
  <2>1. Pair(s["client"][1], s["server"][i]) /\ Pair(s["server"][i], s["client"][1])
    BY <1>6 DEF Sound
  <2>2. 1 \in Handles /\ i \in Handles /\ "client" \in Machines /\ "server" \in Machines
    BY <1>1, <1>6, Ends
  <2>3. Pair(t["client"][1], s["server"][i]) /\ Pair(t["server"][i], s["client"][1])
    BY <1>3, <2>1, <2>2, PairTold
  <2>4. /\ t["client"][1] \in Sockets /\ t["server"][i] \in Sockets /\ s["client"][1] \in Sockets /\ s["server"][i] \in Sockets
        /\ Grows(s["client"][1], t["client"][1]) /\ Grows(s["server"][i], t["server"][i])
    BY <1>5, <2>2
  <2> QED BY <2>3, <2>4, PairGrows
<1>7. ASSUME NEW x \in w PROVE OnWire(i, t, x)
  <2>1. OnWire(i, s, x)
    BY DEF Sound
  <2>2. x.to \in Machines /\ x.seg \in Segments
    BY <2>1 DEF OnWire
  <2>3. ASSUME Answer(s, x) PROVE Answer(t, x)
    <3>1. PICK j \in Handles : x.seg.seq = net_iss("server", j) /\ s["server"][j].state # "new"
      BY <2>3 DEF Answer
    <3>2. t["server"][j].state # "new"
      BY <1>1, <1>3, <3>1, Ends
    <3> QED BY <2>3, <3>1, <3>2 DEF Answer
  <2>4. ASSUME Speech(i, s, x) PROVE Speech(i, t, x)
    <3> DEFINE k == Peer(x.to)
               j == At(i, k)
    <3>1. i # 0 /\ Says(k, j, At(i, x.to), s[k][j], x.seg)
      BY <2>4 DEF Speech
    <3>2. k \in Machines /\ j \in Handles
      BY <1>1, <2>2, <3>1, Peers, Ends
    <3>3. Says(k, j, At(i, x.to), t[k][j], x.seg)
      BY <1>5, <2>2, <3>1, <3>2, SaysGrows
    <3> QED BY <3>1, <3>3 DEF Speech
  <2> QED BY <2>1, <2>3, <2>4 DEF OnWire
<1> QED BY <1>1, <1>3, <1>4, <1>6, <1>7 DEF Sound

(* At the start no socket has been made. *)
LEMMA InitSound == TcpInit => TcpInv
<1> SUFFICES ASSUME TcpInit PROVE Sound(0, socks, wire)
  BY Constants DEF TcpInv, TcpInit, Conversation
<1>1. net_new_sock \in Sockets
  BY NewSocket
<1>2. socks \in [Machines -> [Handles -> Sockets]]
  BY <1>1 DEF TcpInit
<1>3. ASSUME NEW m \in Machines, NEW h \in Handles PROVE Fits(0, m, h, socks[m][h])
  <2>1. socks[m][h] = net_new_sock
    BY DEF TcpInit
  <2>2. net_new_sock.state = "new" /\ ~net_new_sock.linked /\ Blank(net_new_sock)
    BY DEF net_new_sock, Blank
  <2>3. Quiet(0, m, h, net_new_sock)
    BY <2>2 DEF Quiet, Timed
  <2> QED BY <2>1, <2>3 DEF Fits, IsEnd
<1> QED BY <1>2, <1>3, Constants DEF Sound, TcpInit

-----------------------------------------------------------------------------
(* The specification *)

(* From states to steps of the specification. *)
LEMMA SocketStep ==
    ASSUME NEW i \in 0..MaxConns, Sound(i, socks, wire), NEW m \in Machines, NEW h \in Handles,
           NEW o, Steps(i, socks, m, h, o), socks' = [socks EXCEPT ![m][h] = o.c], wire' \subseteq wire \cup To(Peer(m), o.out)
    PROVE  Conversation'
<1> DEFINE v == wire'
<1> HIDE DEF v
<1>1. v \subseteq wire \cup To(Peer(m), o.out)
  BY DEF v
<1>2. Sound(i, [socks EXCEPT ![m][h] = o.c], v)
  BY <1>1, StepSound
<1> QED BY <1>2 DEF Conversation, v, Sound, OnWire, Answer, Speech

LEMMA WireStep ==
    ASSUME NEW i \in 0..MaxConns, Sound(i, socks, wire), socks' = socks, \A x \in wire' : x \in wire \/ OnWire(i, socks, x)
    PROVE  Conversation'
<1>1. Sound(i, socks, wire')
  BY WireMoves
<1> QED BY <1>1 DEF Conversation

LEMMA DoStep ==
    ASSUME NEW i \in 0..MaxConns, Sound(i, socks, wire), NEW m \in Machines, NEW h \in Handles,
           NEW o, Steps(i, socks, m, h, o), Do(m, h, o)
    PROVE  Conversation'
BY SocketStep DEF Do, Becomes

(* What a program, the listener or a timer does. *)
LEMMA CommandsSound ==
    ASSUME NEW i \in 0..MaxConns, Sound(i, socks, wire), ~EarlyClose, NEW m \in Machines, NEW h \in Handles
    PROVE  /\ sys_socket_connect => Conversation'
           /\ sys_socket_accept(h) => Conversation'
           /\ sys_socket_send(m, h) => Conversation'
           /\ sys_socket_close(m, h) => Conversation'
           /\ net_tcp_timers(m, h) => Conversation'
           /\ CloseListener => Conversation'
           /\ net_drop(m) => Conversation'
<1>0. socks \in [Machines -> [Handles -> Sockets]] /\ 1 \in Handles /\ "client" \in Machines /\ "server" \in Machines
  BY Ends DEF Sound
<1>1. ASSUME sys_socket_connect PROVE Conversation'
  <2> DEFINE c == Started("client", 1, "syn_sent", 0)
             o == net_tcp_ctl(c, {"syn"}, c.snd_una)
  <2>1. socks["client"][1].state = "new" /\ Do("client", 1, o)
    BY <1>1 DEF sys_socket_connect
  <2>2. Steps(i, socks, "client", 1, o)
    BY <2>1, ConnectSteps
  <2> HIDE DEF o
  <2> QED BY <1>0, <2>1, <2>2, DoStep
<1>2. ASSUME sys_socket_accept(h) PROVE Conversation'
  <2> DEFINE o == Out([socks["server"][h] EXCEPT !.queued = FALSE, !.own = socks["server"][h].held], {})
  <2>1. socks["server"][h].queued /\ Do("server", h, o)
    BY <1>2 DEF sys_socket_accept
  <2>2. Steps(i, socks, "server", h, o)
    BY <2>1, AcceptSteps
  <2> HIDE DEF o
  <2> QED BY <1>0, <2>1, <2>2, DoStep
<1>3. ASSUME sys_socket_send(m, h) PROVE Conversation'
  <2> DEFINE c == socks[m][h]
             next == Len(c.sent) + 1
             o == net_tcp_output([c EXCEPT !.txq = Append(@, next), !.sent = Append(@, next)])
  <2>1. c.state = "est" /\ ~c.closed /\ ~c.fin_sent /\ Cardinality(Written) < MaxBytes /\ Do(m, h, o)
    BY <1>3 DEF sys_socket_send
  <2>2. Streams(c)
    <3>1. IsEnd(i, m, h)
      BY <2>1, NotAtEnd DEF Quiet
    <3> QED BY <3>1, AtEnd DEF End, Follows
  <2>3. Len(c.sent) < MaxBytes
    BY <1>0, <2>1, <2>2, RoomLeft
  <2>4. Steps(i, socks, m, h, o)
    BY <2>1, <2>3, SendSteps
  <2> HIDE DEF o
  <2> QED BY <2>1, <2>4, DoStep
<1>4. ASSUME sys_socket_close(m, h) PROVE Conversation'
  <2> DEFINE c == socks[m][h]
             o == IF c.state = "closed" THEN Out([c EXCEPT !.held = FALSE], {})
                  ELSE Reaped(net_tcp_output([c EXCEPT !.closed = TRUE]))
  <2>1. c.own /\ c.state # "syn_sent" /\ Do(m, h, o)
    BY <1>4 DEF sys_socket_close, Usable
  <2>2. Steps(i, socks, m, h, o)
    BY <2>1, CloseSteps
  <2> HIDE DEF o
  <2> QED BY <2>1, <2>2, DoStep
<1>5. ASSUME net_tcp_timers(m, h) PROVE Conversation'
  <2> DEFINE c == socks[m][h]
  <2>1. c.linked /\ c.state # "new" /\ Steps(i, socks, m, h, Reaped(net_tcp_retransmit(c)))
    BY <1>5, TimerSteps DEF net_tcp_timers
  <2>2. CASE Do(m, h, Reaped(net_tcp_retransmit(c)))
    <3> DEFINE o == Reaped(net_tcp_retransmit(c))
    <3>1. Steps(i, socks, m, h, o) /\ Do(m, h, o)
      BY <2>1, <2>2
    <3> HIDE DEF o
    <3> QED BY <3>1, DoStep
  <2>3. CASE Do(m, h, Out([c EXCEPT !.linked = FALSE, !.held = FALSE], {}))
    <3> DEFINE o == Out(Forgotten(c), {})
    <3>1. [c EXCEPT !.linked = FALSE, !.held = FALSE] = Forgotten(c)
      BY <1>0 DEF Forgotten, Sockets
    <3>2. Steps(i, socks, m, h, o) /\ Do(m, h, o)
      BY <2>1, <2>3, <3>1, ForgottenSteps
    <3> HIDE DEF o
    <3> QED BY <3>2, DoStep
  <2> QED BY <1>5, <2>2, <2>3 DEF net_tcp_timers
<1>6. ASSUME CloseListener PROVE Conversation'
  BY <1>6, WireStep DEF CloseListener
<1>7. ASSUME net_drop(m) PROVE Conversation'
  <2>1. /\ socks' = [socks EXCEPT ![m] = [j \in Handles |-> [socks[m][j] EXCEPT !.held = FALSE, !.linked = FALSE]]]
        /\ wire' = wire
    BY <1>7 DEF net_drop
  <2>2. socks' = [socks EXCEPT ![m] = [j \in Handles |-> Forgotten(socks[m][j])]]
    BY <2>1 DEF Forgotten
  <2> DEFINE t == socks'
  <2> HIDE DEF t
  <2>3. t = [socks EXCEPT ![m] = [j \in Handles |-> Forgotten(socks[m][j])]]
    BY <2>2 DEF t
  <2>4. Sound(i, t, wire)
    BY <2>3, DropSound
  <2> QED BY <2>1, <2>4 DEF Conversation, t
<1> QED BY <1>1, <1>2, <1>3, <1>4, <1>5, <1>6, <1>7

(* What comes of a segment that arrives. *)
LEMMA ReceiveSound ==
    ASSUME NEW i \in 0..MaxConns, Sound(i, socks, wire), listening \in BOOLEAN, NEW x \in wire, Receive(x)
    PROVE  Conversation'
<1>0. /\ OnWire(i, socks, x) /\ x.to \in Machines /\ x.seg \in Segments
      /\ socks \in [Machines -> [Handles -> Sockets]] /\ "server" \in Machines
  BY DEF Sound, OnWire, Machines
<1>1. ASSUME NEW copy, NEW out, Arrives(x, copy, out)
      PROVE  wire' \subseteq wire \cup To(Peer(x.to), out)
  BY <1>1 DEF Arrives
<1>2. ASSUME NEW copy, Ignored(x, copy) PROVE Conversation'
  <2>1. socks' = socks /\ wire' \subseteq wire \cup To(Peer(x.to), {})
    BY <1>1, <1>2 DEF Ignored
  <2>2. \A y \in wire' : y \in wire
    BY <2>1 DEF To
  <2> QED BY <2>1, <2>2, WireStep
<1>3. ASSUME NEW copy, Refused(x, copy) PROVE Conversation'
  <2>1. socks' = socks /\ wire' \subseteq wire \cup To(Peer(x.to), {net_tcp_refuse(x.seg)})
    BY <1>1, <1>3 DEF Refused
  <2>2. OnWire(i, socks, [to |-> Peer(x.to), seg |-> net_tcp_refuse(x.seg)])
    BY <1>0, RefusalOnWire
  <2>3. \A y \in wire' : y \in wire \/ OnWire(i, socks, y)
    BY <2>1, <2>2 DEF To
  <2> QED BY <2>1, <2>3, WireStep
<1>4. ASSUME NEW copy, Called(x, copy) PROVE Conversation'
  <2>1. PICK h \in Handles :
           /\ socks["server"][h].state = "new"
           /\ LET c == Started("server", h, "syn_rcvd", net_seq_add(x.seg.seq, 1))
                  o == net_tcp_ctl(c, {"syn", "ack"}, c.snd_una)
              IN  socks' = [socks EXCEPT !["server"][h] = c] /\ Arrives(x, copy, o.out)
    BY <1>4 DEF Called
  <2> DEFINE next == net_seq_add(x.seg.seq, 1)
             c == Started("server", h, "syn_rcvd", next)
             o == net_tcp_ctl(c, {"syn", "ack"}, c.snd_una)
  <2>2. next = Num("client", 1, 0) /\ x.to = "server"
    BY <1>0, <1>4, CallIs DEF Called, IsCall
  <2>3. Steps(i, socks, "server", h, o)
    <3> HIDE DEF next
    <3> QED BY <2>1, <2>2, CalledSteps
  <2>4. o.c = c
    BY DEF net_tcp_ctl, Out
  <2>5. socks' = [socks EXCEPT !["server"][h] = o.c] /\ wire' \subseteq wire \cup To(Peer("server"), o.out)
    BY <1>1, <2>1, <2>2, <2>4
  <2> HIDE DEF o
  <2> QED BY <1>0, <2>3, <2>5, SocketStep
<1>5. ASSUME NEW copy, NEW h \in Handles, socks[x.to][h].linked,
             LET o == net_tcp_in(socks[x.to][h], x.seg, listening)
             IN  socks' = [socks EXCEPT ![x.to][h] = o.c] /\ Arrives(x, copy, o.out)
      PROVE  Conversation'
  <2> DEFINE o == net_tcp_in(socks[x.to][h], x.seg, listening)
             v == wire'
  <2>1. socks' = [socks EXCEPT ![x.to][h] = o.c] /\ v \subseteq wire \cup To(Peer(x.to), o.out)
    BY <1>1, <1>5
  <2> HIDE DEF v
  <2>2. \E j \in 0..MaxConns : Sound(j, [socks EXCEPT ![x.to][h] = o.c], v)
    BY <1>5, <2>1, HearsSound
  <2> QED BY <2>1, <2>2 DEF Conversation, v
<1>6. PICK copy \in BOOLEAN :
          IF \E h \in Handles : socks[x.to][h].linked
          THEN \E h \in Handles :
                 /\ socks[x.to][h].linked
                 /\ LET o == net_tcp_in(socks[x.to][h], x.seg, listening)
                    IN  socks' = [socks EXCEPT ![x.to][h] = o.c] /\ Arrives(x, copy, o.out)
          ELSE Ignored(x, copy) \/ Called(x, copy) \/ Refused(x, copy)
  BY DEF Receive
<1> QED BY <1>2, <1>3, <1>4, <1>5, <1>6

(* Every step keeps the invariant. *)
LEMMA NextSound ==
    ASSUME TcpInv, ~EarlyClose, [TcpNext]_tcpVars
    PROVE  TcpInv'
<1>1. PICK i \in 0..MaxConns : Sound(i, socks, wire)
  BY DEF TcpInv, Conversation
<1>2. listening \in BOOLEAN
  BY DEF TcpInv
<1>3. listening' \in BOOLEAN
  BY <1>2 DEF TcpNext, tcpVars, sys_socket_connect, CloseListener, sys_socket_accept, net_drop, sys_socket_send,
              sys_socket_close, net_tcp_timers, Receive, Lose, Do
<1>4. ASSUME NEW x \in wire, Receive(x) PROVE Conversation'
  BY <1>1, <1>2, <1>4, ReceiveSound
<1>5. ASSUME NEW x \in wire, Lose(x) PROVE Conversation'
  BY <1>1, <1>5, WireStep DEF Lose
<1>6. CASE UNCHANGED tcpVars
  <2>1. socks' = socks /\ wire' = wire
    BY <1>6 DEF tcpVars
  <2>2. Conversation'
    BY <1>1, <2>1, WireStep
  <2> QED BY <1>3, <2>2 DEF TcpInv
<1>7. 1 \in Handles /\ "client" \in Machines
  BY <1>1, Ends
<1>8. CASE TcpNext
  <2>1. ASSUME sys_socket_connect PROVE Conversation'
    BY <1>1, <1>7, <2>1, CommandsSound
  <2>2. ASSUME CloseListener PROVE Conversation'
    BY <1>1, <1>7, <2>2, CommandsSound
  <2>3. ASSUME NEW h \in Handles, sys_socket_accept(h) PROVE Conversation'
    BY <1>1, <1>7, <2>3, CommandsSound
  <2>4. ASSUME NEW m \in Machines, net_drop(m) PROVE Conversation'
    BY <1>1, <1>7, <2>4, CommandsSound
  <2>5. ASSUME NEW m \in Machines, NEW h \in Handles,
               sys_socket_send(m, h) \/ sys_socket_close(m, h) \/ net_tcp_timers(m, h)
        PROVE  Conversation'
    BY <1>1, <2>5, CommandsSound
  <2>6. Conversation'
    BY <1>4, <1>5, <1>8, <2>1, <2>2, <2>3, <2>4, <2>5 DEF TcpNext
  <2> QED BY <1>3, <2>6 DEF TcpInv
<1> QED BY <1>6, <1>8

-----------------------------------------------------------------------------
(* What the invariant says of the streams. *)
LEMMA AckedIs ==
    ASSUME NEW c \in Sockets, Streams(c)
    PROVE  Acked(c) = Run(0, Done(c))
<1> DEFINE L == Len(c.sent)
           D == Done(c)
<1>1. L \in Nat /\ D \in Nat /\ D <= L /\ D = L - Len(c.txq) /\ c.sent = Run(0, L)
  <2>1. Len(c.txq) \in Nat /\ L \in Nat /\ D \in Nat /\ D + Len(c.txq) = L
    BY Lengths, Constants
  <2>2. c.sent = Run(0, L)
    BY DEF Streams
  <2> HIDE DEF L, D
  <2> QED BY <2>1, <2>2
<1>2. Acked(c) = Cut(c.sent, 1, D)
  BY DEF Acked, Cut, Done
<1> HIDE DEF L, D
<1>3. 0 \in Int /\ 1 \in Nat \ {0} /\ 1 <= D + 1 /\ D \in Int /\ 0 = 0 + (1 - 1) /\ D = D - (1 - 1)
  BY <1>1
<1>4. Cut(Run(0, L), 1, D) = Run(0, D)
  BY <1>1, <1>3, CutIs
<1> QED BY <1>1, <1>2, <1>4 DEF D

(* What the invariant comes to for the two streams of a pair. *)
LEMMA PairedEnds ==
    ASSUME NEW c \in Sockets, NEW d \in Sockets, Streams(c), Streams(d), Pair(c, d)
    PROVE  OtherEnd(c, d)
<1>1. /\ c.rx = Run(0, Len(c.rx)) /\ d.rx = Run(0, Len(d.rx))
      /\ c.sent = Run(0, Len(c.sent)) /\ d.sent = Run(0, Len(d.sent)) /\ Acked(c) = Run(0, Done(c))
  BY AckedIs DEF Streams
<1>2. /\ Len(c.rx) \in Nat /\ Len(d.rx) \in Nat /\ Len(d.sent) \in Nat /\ Done(c) \in Nat
      /\ Len(c.rx) <= Len(d.sent) /\ Done(c) <= Len(d.rx)
  BY Lengths, SocketTypes DEF Pair
<1>3. IsPrefix(c.rx, d.sent) /\ IsPrefix(Acked(c), d.rx)
  BY <1>1, <1>2, RunPrefix
<1>4. c.fin_rcvd => c.rx = d.sent /\ d.closed
  BY <1>1 DEF Pair
<1>5. c.fin_acked => d.fin_rcvd /\ d.rx = c.sent
  BY <1>1 DEF Pair
<1> QED BY <1>3, <1>4, <1>5 DEF OtherEnd

LEMMA BlankEnds ==
    ASSUME NEW c \in Sockets, NEW d \in Sockets, Blank(c), Streams(d)
    PROVE  OtherEnd(c, d)
<1>1. Streams(c) /\ Len(c.rx) = 0 /\ Done(c) = 0 /\ ~c.fin_rcvd /\ ~c.fin_acked
  BY BlankStreams DEF Blank
<1>2. Len(d.sent) \in Nat /\ Len(d.rx) \in Nat
  BY SocketTypes
<1>3. Pair(c, d)
  BY <1>1, <1>2 DEF Pair
<1> QED BY <1>1, <1>3, PairedEnds

(* The invariant says all of ConversationSound. *)
LEMMA InvSays == TcpInv => ConversationSound
<1> SUFFICES ASSUME TcpInv, NEW m \in Machines, NEW h \in Handles
             PROVE  LET c == socks[m][h] IN
                    /\ \E i \in Handles : OtherEnd(c, socks[Peer(m)][i])
                    /\ c.linked /\ Owes(c) => c.rto
  BY DEF ConversationSound
<1> DEFINE c == socks[m][h]
<1>1. PICK i \in 0..MaxConns : Sound(i, socks, wire)
  BY DEF TcpInv, Conversation
<1>2. CASE IsEnd(i, m, h)
  <2> DEFINE p == At(i, Peer(m))
             d == socks[Peer(m)][p]
  <2>1. p \in Handles /\ c \in Sockets /\ End(m, h, p, c) /\ d \in Sockets /\ Streams(d) /\ Paired(c, d)
    BY <1>1, <1>2, AtEnd DEF Other
  <2> HIDE DEF c, d, p
  <2>2. Timed(c) /\ Streams(c)
    BY <2>1 DEF End, Follows
  <2>3. OtherEnd(c, d)
    BY <2>1, <2>2, PairedEnds DEF Paired
  <2> QED BY <2>1, <2>2, <2>3 DEF Timed, c, d
<1>3. CASE ~IsEnd(i, m, h)
  <2> DEFINE d == socks[Peer(m)][1]
  <2>1. c \in Sockets /\ Quiet(i, m, h, c)
    BY <1>1, <1>3, NotAtEnd
  <2>2. 1 \in Handles /\ Peer(m) \in Machines
    BY <1>1, Ends, Peers
  <2>3. d \in Sockets /\ Streams(d)
    <3>1. CASE IsEnd(i, Peer(m), 1)
      BY <1>1, <2>2, <3>1, AtEnd DEF End, Follows
    <3>2. CASE ~IsEnd(i, Peer(m), 1)
      BY <1>1, <2>2, <3>2, NotAtEnd, BlankStreams DEF Quiet
    <3> QED BY <3>1, <3>2
  <2> HIDE DEF c, d
  <2>4. Timed(c) /\ OtherEnd(c, d)
    BY <2>1, <2>3, BlankEnds DEF Quiet
  <2> QED BY <2>2, <2>4 DEF Timed, c, d
<1> QED BY <1>2, <1>3

\* At any time the client's socket is in conversation with at most one socket of the server.
\* These two agree on how much has gone each way, every segment under way is what one of
\* them said, a reset, a call or an answer to one, and all other sockets are blank
\* (net_tcp_in, net_tcp_output).  Holds unless a program closes while it still connects.
THEOREM TcpInvHolds ==
    ASSUME ~EarlyClose
    PROVE  TcpSpec => []TcpInv
<1>1. TcpInit => TcpInv
  BY InitSound
<1>2. TcpInv /\ [TcpNext]_tcpVars => TcpInv'
  BY NextSound
<1> QED BY <1>1, <1>2, PTL DEF TcpSpec

\* Whatever the network loses, repeats or reorders, both programs read what the other wrote,
\* in order and once, its end only after all of it; what is forgotten has arrived; and what
\* is still to be sent has a timer running (net_tcp_in, net_tcp_output, net_tcp_retransmit).
THEOREM ConversationIsSound ==
    ASSUME ~EarlyClose
    PROVE  TcpSpec => []ConversationSound
<1>1. TcpInv => ConversationSound
  BY InvSays
<1> QED BY <1>1, TcpInvHolds, PTL
=============================================================================
