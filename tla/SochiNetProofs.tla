--------------------------- MODULE SochiNetProofs ---------------------------
(***************************************************************************)
(* What Sochi's table protocol guarantees for any number of players, any   *)
(* datagrams lost, delayed or reordered, and any of the bounds.            *)
(***************************************************************************)
EXTENDS SochiNet, WellFoundedInduction, TLAPS

----------------------------------------------------------------------------
(* The inductive invariant *)

Active(c) == cstate[c] \in {"joining", "playing"}

(* Every variable has its type, and every datagram its fields.  What a *)
(* nickname is stays open.                                             *)
DatagramTyped(m) ==
    /\ m.peer \in Clients
    /\ m.no \in Nat
    /\ m.verb \in {"WELCOME", "VIEW"} => m.seat \in Remote
    /\ m.verb = "VIEW" => m.ids \in [Remote -> Nat]

HostTyped ==
    /\ open \in BOOLEAN
    /\ name = [s \in AllSeats |-> name[s]]
    /\ kind \in [AllSeats -> {"local", "bot", "remote", ""}]
    /\ addr \in [Remote -> Clients \cup {NoAddr}]
    /\ online \in [Remote -> BOOLEAN]
    /\ acked \in [Remote -> Nat]
    /\ actid \in [Remote -> Nat]
    /\ seq \in Nat

ClientsTyped ==
    /\ cstate \in [Clients -> {"off", "joining", "playing", "left"}]
    /\ tries \in [Clients -> Nat]
    /\ seat \in [Clients -> AllSeats]
    /\ su_actid \in [Clients -> Nat]
    /\ pending \in [Clients -> Seq(Nat)]
    /\ view \in [Clients -> [seq : Nat, seat : AllSeats]]
    /\ base \in [Clients -> Nat]
    /\ applied \in [Clients -> Seq(Nat)]

TypeOK == HostTyped /\ ClientsTyped /\ \A m \in net : DatagramTyped(m)

(* A seat is free, a bot's or a client's, and carries that one's nickname; *)
(* no two clients' seats carry the same.                                   *)
SeatsNamed ==
    /\ name[0] = HostNick
    /\ \A s \in Remote :
          \/ kind[s] = "" /\ name[s] = NoName /\ addr[s] = NoAddr
          \/ kind[s] = "bot" /\ s <= Bots /\ name[s] = BotNick[s] /\ addr[s] = NoAddr
          \/ kind[s] = "remote" /\ addr[s] \in Clients /\ name[s] = Nick[addr[s]]
    /\ \A s, t \in Remote :
          kind[s] = "remote" /\ kind[t] = "remote" /\ name[s] = name[t] => s = t

(* A client that has been seated keeps its seat while it runs, and the last *)
(* action id the host has of that seat is the client's own.                 *)
OneRun ==
    \A c, d \in Clients : Nick[c] = Nick[d] /\ Active(c) /\ Active(d) => c = d

SeatKept ==
    \A c \in Clients :
        /\ cstate[c] \in {"off", "joining"} => seat[c] = 0
        /\ cstate[c] = "playing" => seat[c] # 0 /\ addr[seat[c]] = c
        /\ \A s \in Remote : addr[s] = c /\ seat[c] # 0 =>
              s = seat[c] /\ actid[s] = base[c] + Len(applied[c])

(* The queue holds the ids above those shown as applied, all of which are; *)
(* the host has applied the ids after base, in order.                      *)
Shown(c) == su_actid[c] - Len(pending[c])

QueueInOrder ==
    \A c \in Clients :
        /\ seat[c] = 0 => su_actid[c] = 0 /\ base[c] = 0 /\ pending[c] = <<>> /\ applied[c] = <<>>
        /\ base[c] <= Shown(c)
        /\ Shown(c) <= base[c] + Len(applied[c])
        /\ base[c] + Len(applied[c]) <= su_actid[c]
        /\ \A i \in 1..Len(pending[c]) : pending[c][i] = Shown(c) + i
        /\ \A i \in 1..Len(applied[c]) : applied[c][i] = base[c] + i

(* What a datagram under way may still do. *)
DatagramSound(m) ==
    /\ m.verb = "JOIN" => Active(m.peer)
    /\ m.verb = "BYE" => cstate[m.peer] = "left"
    /\ m.verb = "ACT" =>
          /\ seat[m.peer] # 0
          /\ base[m.peer] < m.no
          /\ m.no <= base[m.peer] + Len(applied[m.peer]) + 1
          /\ m.no <= su_actid[m.peer]
    /\ m.verb = "WELCOME" =>
          /\ cstate[m.peer] = "joining"
          /\ addr[m.seat] = m.peer
          /\ m.no = actid[m.seat]
    /\ m.verb = "VIEW" =>
          /\ Active(m.peer)
          /\ addr[m.seat] = m.peer
          /\ m.ids[m.seat] <= actid[m.seat]

DatagramsSound == \A m \in net : DatagramSound(m)

(* An acknowledgement under way is of a version its client has seen. *)
AckSound(m) == m.verb = "ACK" => m.no <= view[m.peer].seq
AcksSound == AckMeansSeen /\ \A m \in net : AckSound(m)

TInv == TypeOK /\ AcksSound
IInv == SeatsNamed /\ OneRun /\ SeatKept /\ QueueInOrder /\ DatagramsSound

----------------------------------------------------------------------------
(* The operators of the model *)

(* The greatest of a set of seats is one of them. *)
LEMMA MaxIn ==
    ASSUME NEW S, S \subseteq Remote, S # {}
    PROVE  Max(S) \in S
<1>1. \A x \in S : x = 1 \/ x = 2
  BY DEF Remote
<1>2. \E x \in S : \A y \in S : x >= y
  <2>1. CASE 2 \in S
    BY <1>1, <2>1
  <2>2. CASE 2 \notin S
    BY <1>1, <2>2
  <2> QED BY <2>1, <2>2
<1> QED BY <1>2 DEF Max

(* Every set of numbers has a least one. *)
LEMMA MinIn ==
    ASSUME NEW S, S \subseteq Nat, S # {}
    PROVE  Min(S) \in S
<1> DEFINE R == OpToRel(<, Nat)
<1>1. \E x \in S : \A y \in S : <<y, x>> \notin R
  <2>1. IsWellFoundedOn(R, Nat)
    BY NatLessThanWellFounded
  <2> HIDE DEF R
  <2> QED BY <2>1, WFMin
<1>2. \A x \in S, y \in S : <<y, x>> \in R <=> y < x
  BY DEF OpToRel
<1> HIDE DEF R
<1>3. \A x \in S, y \in S : ~(y < x) => x <= y
  OBVIOUS
<1>4. \E x \in S : \A y \in S : x <= y
  BY <1>1, <1>2, <1>3
<1> QED BY <1>4 DEF Min

(* A member no other is below is the least. *)
LEMMA MinIs ==
    ASSUME NEW S, S \subseteq Nat, NEW k \in S, \A i \in S : k <= i
    PROVE  Min(S) = k
<1>1. k \in S /\ \A i \in S : k <= i
  OBVIOUS
<1>2. Min(S) \in S /\ \A i \in S : Min(S) <= i
  BY ONLY <1>1 DEF Min
<1>3. Min(S) \in Nat /\ k \in Nat /\ Min(S) <= k /\ k <= Min(S)
  BY <1>1, <1>2
<1> QED BY <1>3

(* What is left of a queue of consecutive ids is its end; what has left it *)
(* was applied.                                                            *)
LEMMA PendingLeft ==
    ASSUME NEW queue \in Seq(Nat), NEW from \in Nat, NEW done \in Nat,
           \A i \in 1..Len(queue) : queue[i] = from + i
    PROVE  LET left == StillPending(queue, done)
               shown == from + Len(queue) - Len(left)
           IN  /\ left \in Seq(Nat)
               /\ Len(left) <= Len(queue)
               /\ shown <= done \/ shown = from
               /\ \A i \in 1..Len(left) : left[i] = shown + i
<1> DEFINE waiting == {i \in DOMAIN queue : queue[i] > done}
           left == StillPending(queue, done)
<1>0. DOMAIN queue = 1..Len(queue) /\ Len(queue) \in Nat
  OBVIOUS
<1>1. CASE waiting = {}
  <2>1. left = <<>>
    BY <1>1 DEF StillPending
  <2>2. Len(queue) = 0 \/ from + Len(queue) <= done
    <3>1. \A i \in 1..Len(queue) : ~(from + i > done)
      BY <1>0, <1>1
    <3> QED BY <1>0, <3>1
  <2> QED BY <1>0, <2>1, <2>2
<1>2. CASE waiting # {}
  <2>0. PICK k \in Nat : k = IF done >= from THEN done - from + 1 ELSE 1
    <3>1. (IF done >= from THEN done - from + 1 ELSE 1) \in Nat
      OBVIOUS
    <3> QED BY <3>1
  <2>1. k \in 1..Len(queue) /\ from + k > done
    <3>1. PICK i \in 1..Len(queue) : from + i > done
      BY <1>0, <1>2
    <3> QED BY <1>0, <2>0, <3>1
  <2>2. \A j \in waiting : j \in Nat /\ k <= j
    <3>1. \A j \in waiting : j \in Nat /\ j >= 1 /\ from + j > done
      BY <1>0
    <3> QED BY <2>0, <3>1
  <2>3. k \in waiting
    BY <1>0, <2>1
  <2>4. left = SubSeq(queue, k, Len(queue))
    <3>1. waiting \subseteq Nat
      BY <1>0
    <3>2. Min(waiting) = k
      BY ONLY <2>2, <2>3, <3>1, MinIs
    <3> QED BY <1>2, <3>2 DEF StillPending
  <2> HIDE DEF left
  <2>5. /\ left \in Seq(Nat)
        /\ Len(left) = Len(queue) - k + 1
    BY <1>0, <2>1, <2>4
  <2>6. \A i \in 1..Len(left) : left[i] = from + (k - 1) + i
    <3> SUFFICES ASSUME NEW i \in 1..Len(left) PROVE left[i] = from + (k - 1) + i
      OBVIOUS
    <3>1. left[i] = queue[k + i - 1] /\ k + i - 1 \in 1..Len(queue)
      BY <1>0, <2>1, <2>4, <2>5
    <3> QED BY <1>0, <2>1, <3>1
  <2>7. from + Len(queue) - Len(left) = from + (k - 1)
    BY <1>0, <2>1, <2>5
  <2>8. from + (k - 1) <= done \/ from + (k - 1) = from
    BY <2>0
  <2>9. Len(left) <= Len(queue)
    BY <1>0, <2>1, <2>5
  <2> QED BY <2>5, <2>6, <2>7, <2>8, <2>9 DEF left
<1> QED BY <1>1, <1>2

(* The seat of an address is one that has it, if there is one. *)
LEMMA SeatOfIs ==
    ASSUME NEW a
    PROVE  \/ SeatOf(a) = 0 /\ \A s \in Remote : addr[s] # a
           \/ SeatOf(a) \in Remote /\ addr[SeatOf(a)] = a
<1> DEFINE held == {s \in Remote : addr[s] = a}
<1>1. CASE held = {}
  BY <1>1 DEF SeatOf
<1>2. CASE held # {}
  <2>1. Max(held) \in held
    BY <1>2, MaxIn
  <2> QED BY <1>2, <2>1 DEF SeatOf
<1> QED BY <1>1, <1>2

(* The seat of a nickname is the remote one that carries it, or a free one. *)
LEMMA SeatForIs ==
    ASSUME NEW nick
    PROVE  \/ SeatFor(nick) = 0
           \/ /\ SeatFor(nick) \in Remote
              /\ IF IsNew(nick) THEN name[SeatFor(nick)] = NoName
                 ELSE name[SeatFor(nick)] = nick /\ kind[SeatFor(nick)] = "remote"
<1> DEFINE held == {s \in Remote : name[s] = nick /\ kind[s] = "remote"}
           free == {s \in Remote : name[s] = NoName}
<1>1. CASE held # {}
  <2>1. Max(held) \in held
    BY <1>1, MaxIn
  <2> QED BY <1>1, <2>1 DEF SeatFor, IsNew
<1>2. CASE held = {} /\ free # {} /\ phase = "lobby"
  <2>1. Min(free) \in free
    BY <1>2, MinIn DEF Remote
  <2> QED BY <1>2, <2>1 DEF SeatFor, IsNew
<1>3. CASE held = {} /\ ~(free # {} /\ phase = "lobby")
  BY <1>3 DEF SeatFor
<1> QED BY <1>1, <1>2, <1>3

(* The network carries no datagram that was not sent. *)
LEMMA CarriedIn ==
    ASSUME NEW ms, NEW m \in Carried(ms)
    PROVE  /\ m \in ms
           /\ m.verb \in ToHost => open
           /\ m.verb \notin ToHost => Reads(m.peer, m.verb)
BY DEF Carried

(* The views sent are to clients that have the seats they are about. *)
LEMMA ViewsSent ==
    ASSUME HostTyped, NEW ss, ss \subseteq Remote, NEW m \in SendViews(ss)
    PROVE  /\ m.verb = "VIEW" /\ m.peer \in Clients /\ m.no = seq
           /\ m.seat \in ss /\ addr[m.seat] = m.peer /\ m.ids = actid
<1>1. PICK s \in ss : addr[s] # NoAddr /\ m = View(addr[s], s, seq, actid)
  BY DEF SendViews
<1> QED BY <1>1 DEF View, HostTyped

----------------------------------------------------------------------------
(* Types and acknowledgements *)

DatagramGood(m) == DatagramTyped(m) /\ AckSound(m)

(* Being heard of leaves the kinds of the values as they are. *)
LEMMA SeenTyped ==
    ASSUME HostTyped, NEW a
    PROVE  Seen(a) \in [Remote -> BOOLEAN] /\ SeqSeen(a) \in Nat
<1>1. Seen(a) \in [Remote -> BOOLEAN]
  BY DEF HostTyped, Seen
<1>2. SeqSeen(a) \in Nat
  <2>1. seq \in Nat
    BY DEF HostTyped
  <2>2. SeqSeen(a) = seq + 1 \/ SeqSeen(a) = seq
    BY DEF SeqSeen
  <2> QED BY <2>1, <2>2
<1> QED BY <1>1, <1>2

(* A step that leaves a client's variables keeps what is said of them. *)
LEMMA ClientsKept ==
    ASSUME ClientsTyped, UNCHANGED clientVars, UNCHANGED applied
    PROVE  ClientsTyped' /\ view' = view
<1>1. /\ cstate' = cstate /\ tries' = tries /\ seat' = seat /\ su_actid' = su_actid
      /\ pending' = pending /\ view' = view /\ base' = base /\ applied' = applied
  BY DEF clientVars
<1> QED BY <1>1 DEF ClientsTyped

(* An open table starts well typed, with nothing acknowledged. *)
LEMMA GoodInit == Init => TInv
<1> SUFFICES ASSUME Init PROVE TInv
  OBVIOUS
<1>1. HostTyped
  BY DEF Init, HostTyped
<1>2. ClientsTyped
  <2>1. <<>> \in Seq(Nat) /\ [seq |-> 0, seat |-> 0] \in [seq : Nat, seat : AllSeats]
    BY DEF AllSeats
  <2> QED BY <2>1 DEF Init, ClientsTyped, AllSeats
<1>3. AckMeansSeen
  BY DEF Init, AckMeansSeen
<1>4. net = {}
  BY DEF Init
<1> QED BY <1>1, <1>2, <1>3, <1>4 DEF TInv, TypeOK, AcksSound

(* What the host does with what it receives. *)
LEMMA GoodJoin ==
    ASSUME TInv, NEW m \in Received("JOIN"), RecvJoin(m)
    PROVE  TInv'
<1> DEFINE c == m.peer
           s == SeatFor(Nick[c])
<1>1. /\ HostTyped /\ ClientsTyped /\ AckMeansSeen
      /\ \A n \in net : DatagramGood(n)
  BY DEF TInv, TypeOK, AcksSound, DatagramGood
<1>2. m \in net /\ c \in Clients
  BY <1>1 DEF Received, DatagramGood, DatagramTyped
<1>3. ClientsTyped' /\ view' = view /\ Seen(c) \in [Remote -> BOOLEAN] /\ SeqSeen(c) \in Nat
  BY <1>1, ClientsKept, SeenTyped DEF RecvJoin
<1>4. CASE s = 0
  <2>1. HostTyped' /\ AckMeansSeen'
    BY <1>1, <1>3, <1>4 DEF RecvJoin, HostTyped, AckMeansSeen
  <2>2. \A n \in net' : DatagramGood(n)'
    <3>1. net' = Carried((net \ {m}) \cup {Full(c)})
      BY <1>4 DEF RecvJoin
    <3>2. DatagramGood(Full(c))
      BY <1>2 DEF Full, DatagramGood, DatagramTyped, AckSound
    <3>3. \A n \in net' : DatagramGood(n)
      BY <1>1, <3>1, <3>2, CarriedIn
    <3> QED BY <1>3, <3>3 DEF DatagramGood, DatagramTyped, AckSound
  <2> QED BY <1>3, <2>1, <2>2 DEF TInv, TypeOK, AcksSound, DatagramGood
<1>5. CASE s # 0
  <2>1. s \in Remote
    BY <1>5, SeatForIs
  <2>2. HostTyped'
    <3>1. /\ name' = [t \in AllSeats |-> name'[t]]
          /\ kind' = [kind EXCEPT ![s] = "remote"]
          /\ addr' = [addr EXCEPT ![s] = c]
          /\ acked' = [acked EXCEPT ![s] = 0]
          /\ online' = [Seen(c) EXCEPT ![s] = TRUE]
          /\ actid' = actid \/ actid' = [actid EXCEPT ![s] = 0]
          /\ seq' = SeqSeen(c) + 1
          /\ open' = open
      BY <1>1, <1>5 DEF RecvJoin, AckedAnew, HostTyped
    <3>2. name' = [t \in AllSeats |-> name'[t]]
      BY <3>1
    <3>3. /\ kind' \in [AllSeats -> {"local", "bot", "remote", ""}]
          /\ addr' \in [Remote -> Clients \cup {NoAddr}]
          /\ acked' \in [Remote -> Nat] /\ actid' \in [Remote -> Nat]
      <4>1. kind' \in [AllSeats -> {"local", "bot", "remote", ""}]
        BY <1>1, <3>1 DEF HostTyped
      <4>2. addr' \in [Remote -> Clients \cup {NoAddr}]
        BY <1>1, <1>2, <3>1 DEF HostTyped
      <4>3. acked' \in [Remote -> Nat] /\ actid' \in [Remote -> Nat]
        <5>1. acked \in [Remote -> Nat] /\ actid \in [Remote -> Nat] /\ 0 \in Nat
          BY <1>1 DEF HostTyped
        <5> QED BY <3>1, <5>1
      <4> QED BY <4>1, <4>2, <4>3
    <3>4. online' \in [Remote -> BOOLEAN]
      BY <1>3, <3>1
    <3>5. seq' \in Nat
      BY <1>3, <3>1
    <3>6. open' \in BOOLEAN
      BY <1>1, <3>1 DEF HostTyped
    <3> QED BY <3>2, <3>3, <3>4, <3>5, <3>6 DEF HostTyped
  <2>3. AckMeansSeen'
    <3>1. addr' = [addr EXCEPT ![s] = c] /\ acked' = [acked EXCEPT ![s] = 0]
      BY <1>5 DEF RecvJoin, AckedAnew
    <3>2. view[c].seq \in Nat
      BY <1>1, <1>2 DEF ClientsTyped
    <3> SUFFICES ASSUME NEW t \in Remote, addr'[t] # NoAddr
                 PROVE  acked'[t] <= view'[addr'[t]].seq
      BY DEF AckMeansSeen
    <3>3. CASE t = s
      <4>1. addr'[t] = c /\ acked'[t] = 0
        BY <1>1, <3>1, <3>3 DEF HostTyped
      <4> QED BY <1>3, <3>2, <4>1
    <3>4. CASE t # s
      BY <1>1, <1>3, <3>1, <3>4 DEF HostTyped, AckMeansSeen
    <3> QED BY <3>3, <3>4
  <2>4. \A n \in net' : DatagramGood(n)'
    <3>1. net' = Carried((net \ {m}) \cup {Welcome(c, s, actid'[s])})
      BY <1>5 DEF RecvJoin
    <3>2. DatagramGood(Welcome(c, s, actid'[s]))
      BY <1>2, <2>1, <2>2 DEF Welcome, DatagramGood, DatagramTyped, AckSound, HostTyped
    <3>3. \A n \in net' : DatagramGood(n)
      BY <1>1, <3>1, <3>2, CarriedIn
    <3> QED BY <1>3, <3>3 DEF DatagramGood, DatagramTyped, AckSound
  <2> QED BY <1>3, <2>2, <2>3, <2>4 DEF TInv, TypeOK, AcksSound, DatagramGood
<1> QED BY <1>4, <1>5

(* An ACK of a seat: the version its client says it has seen, it has seen. *)
LEMMA GoodAck ==
    ASSUME TInv, NEW m \in Received("ACK"), RecvAck(m)
    PROVE  TInv'
<1> DEFINE c == m.peer
           s == SeatOf(c)
<1>1. /\ HostTyped /\ ClientsTyped /\ AckMeansSeen
      /\ \A n \in net : DatagramGood(n)
  BY DEF TInv, TypeOK, AcksSound, DatagramGood
<1>2. m \in net /\ c \in Clients /\ m.no \in Nat /\ m.no <= view[c].seq
  BY <1>1 DEF Received, DatagramGood, DatagramTyped, AckSound
<1>3. ClientsTyped' /\ view' = view /\ Seen(c) \in [Remote -> BOOLEAN] /\ SeqSeen(c) \in Nat
  BY <1>1, ClientsKept, SeenTyped DEF RecvAck
<1>4. HostTyped' /\ AckMeansSeen'
  <2>1. CASE s = 0
    BY <1>1, <1>3, <2>1 DEF RecvAck, HostTyped, AckMeansSeen
  <2>2. CASE s # 0
    <3>1. s \in Remote /\ addr[s] = c
      BY <2>2, SeatOfIs
    <3>2. /\ acked' = [acked EXCEPT ![s] = IF m.no > @ THEN m.no ELSE @]
          /\ addr' = addr
      BY <2>2 DEF RecvAck, Acknowledged
    <3>3. HostTyped'
      BY <1>1, <1>2, <1>3, <3>1, <3>2 DEF RecvAck, HostTyped
    <3>4. AckMeansSeen'
      BY <1>1, <1>2, <1>3, <3>1, <3>2 DEF AckMeansSeen, HostTyped
    <3> QED BY <3>3, <3>4
  <2> QED BY <2>1, <2>2
<1>5. \A n \in net' : DatagramGood(n)'
  <2>1. net' \subseteq net
    BY DEF RecvAck
  <2> QED BY <1>1, <1>3, <2>1 DEF DatagramGood, DatagramTyped, AckSound
<1> QED BY <1>3, <1>4, <1>5 DEF TInv, TypeOK, AcksSound, DatagramGood

(* An ACT: its id becomes the newest of its seat, or the view goes back. *)
LEMMA GoodAct ==
    ASSUME TInv, NEW m \in Received("ACT"), RecvAct(m)
    PROVE  TInv'
<1> DEFINE c == m.peer
           s == SeatOf(c)
           fresh == s # 0 /\ Fresh(s, m.no)
<1>1. /\ HostTyped /\ ClientsTyped /\ AckMeansSeen
      /\ \A n \in net : DatagramGood(n)
  BY DEF TInv, TypeOK, AcksSound, DatagramGood
<1>2. m \in net /\ c \in Clients /\ m.no \in Nat
  BY <1>1 DEF Received, DatagramGood, DatagramTyped
<1>3. view' = view /\ Seen(c) \in [Remote -> BOOLEAN] /\ SeqSeen(c) \in Nat
  BY <1>1, SeenTyped DEF RecvAct, clientVars
<1>4. s = 0 \/ s \in Remote
  BY SeatOfIs
<1>5. ClientsTyped'
  <2>1. applied' \in [Clients -> Seq(Nat)]
    BY <1>1, <1>2 DEF RecvAct, ClientsTyped
  <2> QED BY <1>1, <2>1 DEF RecvAct, clientVars, ClientsTyped
<1>6. HostTyped' /\ AckMeansSeen'
  <2>1. actid' \in [Remote -> Nat]
    BY <1>1, <1>2, <1>4 DEF RecvAct, HostTyped
  <2>2. seq' \in Nat
    BY <1>3 DEF RecvAct, SeqActed
  <2> QED BY <1>1, <1>3, <2>1, <2>2 DEF RecvAct, HostTyped, AckMeansSeen
<1>7. \A n \in net' : DatagramGood(n)
  <2>1. s \in Remote => DatagramGood(View(c, s, seq', actid))
    BY <1>1, <1>2, <1>6 DEF View, DatagramGood, DatagramTyped, AckSound, HostTyped
  <2>2. net' \subseteq net \cup (IF s # 0 THEN {View(c, s, seq', actid)} ELSE {})
    BY CarriedIn DEF RecvAct
  <2> QED BY <1>1, <1>4, <2>1, <2>2
<1>8. \A n \in net' : DatagramGood(n)'
  BY <1>3, <1>7 DEF DatagramGood, DatagramTyped, AckSound
<1> QED BY <1>5, <1>6, <1>8 DEF TInv, TypeOK, AcksSound, DatagramGood

(* A PING, and a BYE that frees its seat before the game. *)
LEMMA GoodPingBye ==
    ASSUME TInv, NEW m, \/ m \in Received("PING") /\ RecvPing(m)
                        \/ m \in Received("BYE") /\ RecvBye(m)
    PROVE  TInv'
<1> DEFINE c == m.peer
           s == SeatOf(c)
<1>1. /\ HostTyped /\ ClientsTyped /\ AckMeansSeen
      /\ \A n \in net : DatagramGood(n)
  BY DEF TInv, TypeOK, AcksSound, DatagramGood
<1>2. s = 0 \/ s \in Remote
  BY SeatOfIs
<1>3. /\ ClientsTyped' /\ view' = view /\ acked' = acked /\ net' \subseteq net
      /\ Seen(c) \in [Remote -> BOOLEAN] /\ SeqSeen(c) \in Nat
  <2>1. UNCHANGED clientVars /\ UNCHANGED applied /\ acked' = acked /\ net' \subseteq net
    BY DEF RecvPing, RecvBye
  <2> QED BY <1>1, <2>1, ClientsKept, SeenTyped
<1>4. HostTyped' /\ AckMeansSeen'
  <2>1. CASE RecvPing(m)
    BY <1>1, <1>3, <2>1 DEF RecvPing, HostTyped, AckMeansSeen
  <2>2. CASE RecvBye(m)
    <3>1. HostTyped'
      <4>1. /\ name' = name \/ name' = [name EXCEPT ![s] = NoName]
            /\ kind' = kind \/ kind' = [kind EXCEPT ![s] = ""]
            /\ addr' = addr \/ addr' = [addr EXCEPT ![s] = NoAddr]
            /\ online' = online \/ online' = [online EXCEPT ![s] = FALSE]
            /\ seq' \in {seq, SeqSeen(c) + 1}
            /\ open' = open /\ actid' = actid
        BY <2>2 DEF RecvBye
      <4>2. name' = [t \in AllSeats |-> name'[t]]
        BY <1>1, <4>1 DEF HostTyped
      <4>3. /\ kind' \in [AllSeats -> {"local", "bot", "remote", ""}]
            /\ addr' \in [Remote -> Clients \cup {NoAddr}]
            /\ acked' \in [Remote -> Nat] /\ actid' \in [Remote -> Nat]
            /\ online' \in [Remote -> BOOLEAN]
        BY <1>1, <1>3, <4>1 DEF HostTyped
      <4>4. seq' \in Nat
        <5>1. seq \in Nat /\ SeqSeen(c) \in Nat
          BY <1>1, <1>3 DEF HostTyped
        <5>2. seq' = seq \/ seq' = SeqSeen(c) + 1
          BY <4>1
        <5> HIDE DEF s, c
        <5> QED BY <5>1, <5>2
      <4>5. open' \in BOOLEAN
        BY <1>1, <4>1 DEF HostTyped
      <4> QED BY <4>2, <4>3, <4>4, <4>5 DEF HostTyped
    <3>2. \A t \in Remote : addr'[t] = addr[t] \/ addr'[t] = NoAddr
      BY <1>1, <1>2, <2>2 DEF RecvBye, HostTyped
    <3> QED BY <1>1, <1>3, <3>1, <3>2 DEF AckMeansSeen
  <2> QED BY <2>1, <2>2
<1>5. \A n \in net' : DatagramGood(n)'
  BY <1>1, <1>3 DEF DatagramGood, DatagramTyped, AckSound
<1> QED BY <1>3, <1>4, <1>5 DEF TInv, TypeOK, AcksSound, DatagramGood

(* A step that leaves the host's variables keeps what is said of them. *)
LEMMA HostKept ==
    ASSUME HostTyped, UNCHANGED hostVars
    PROVE  /\ HostTyped' /\ name' = name /\ kind' = kind /\ addr' = addr /\ acked' = acked
           /\ actid' = actid /\ open' = open /\ phase' = phase /\ seq' = seq
<1>1. /\ open' = open /\ name' = name /\ kind' = kind /\ addr' = addr /\ online' = online
      /\ acked' = acked /\ actid' = actid /\ seq' = seq /\ phase' = phase
  BY DEF hostVars
<1> QED BY <1>1 DEF HostTyped

(* A step that adds only good datagrams keeps all of them good. *)
LEMMA GoodNet ==
    ASSUME TInv, HostTyped', ClientsTyped', AckMeansSeen', view' = view,
           \A n \in net' : n \in net \/ DatagramGood(n)
    PROVE  TInv'
<1>1. \A n \in net' : DatagramGood(n)
  BY DEF TInv, TypeOK, AcksSound, DatagramGood
<1>2. \A n \in net' : DatagramGood(n)'
  BY <1>1 DEF DatagramGood, DatagramTyped, AckSound
<1> QED BY <1>2 DEF TInv, TypeOK, AcksSound, DatagramGood

(* What the host does by itself. *)
LEMMA GoodHost ==
    ASSUME TInv, \/ HostMove \/ HostSendViews \/ HostResend \/ HostQuit
                 \/ \E s \in Remote : HostSilence(s)
    PROVE  TInv'
<1>1. HostTyped /\ ClientsTyped /\ AckMeansSeen
  BY DEF TInv, TypeOK, AcksSound
<1>2. /\ UNCHANGED clientVars /\ UNCHANGED applied
      /\ addr' = addr /\ acked' = acked /\ actid' = actid /\ kind' = kind /\ name' = name
  BY DEF HostMove, HostSendViews, HostResend, HostSilence, HostQuit, hostVars
<1>3. ClientsTyped' /\ view' = view
  BY <1>1, <1>2, ClientsKept
<1>4. seq' \in Nat
  <2>1. seq' = seq \/ seq' = seq + 1
    BY DEF HostMove, HostSendViews, HostResend, HostSilence, HostQuit, hostVars
  <2>2. seq \in Nat
    BY <1>1 DEF HostTyped
  <2> QED BY <2>1, <2>2
<1>5. open' \in BOOLEAN
  <2>1. open' = open \/ open' = FALSE
    BY DEF HostMove, HostSendViews, HostResend, HostSilence, HostQuit, hostVars
  <2> QED BY <1>1, <2>1 DEF HostTyped
<1>6. online' \in [Remote -> BOOLEAN]
  <2>1. online' = online \/ \E s \in Remote : online' = [online EXCEPT ![s] = FALSE]
    BY DEF HostMove, HostSendViews, HostResend, HostSilence, HostQuit, hostVars
  <2> QED BY <1>1, <2>1 DEF HostTyped
<1>7. HostTyped' /\ AckMeansSeen'
  BY <1>1, <1>2, <1>3, <1>4, <1>5, <1>6 DEF HostTyped, AckMeansSeen
<1>8. CASE HostMove \/ \E s \in Remote : HostSilence(s)
  <2>1. net' = net
    BY <1>8 DEF HostMove, HostSilence
  <2> QED BY <1>3, <1>7, <2>1, GoodNet
<1>9. CASE HostSendViews \/ HostResend
  <2>1. \A n \in net' : n \in net \/ n \in SendViews(Remote)
    <3>1. ASSUME NEW ss, ss \subseteq Remote, NEW n \in SendViews(ss)
          PROVE  n \in SendViews(Remote)
      <4>1. PICK s \in ss : addr[s] # NoAddr /\ n = View(addr[s], s, seq, actid)
        BY DEF SendViews
      <4> QED BY <3>1, <4>1 DEF SendViews
    <3>2. CASE HostSendViews
      BY <3>2, CarriedIn DEF HostSendViews
    <3>3. CASE HostResend
      <4> DEFINE late == {s \in Remote : acked[s] < seq}
      <4>1. net' = Carried(net \cup SendViews(late))
        BY <3>3 DEF HostResend
      <4>2. late \subseteq Remote
        OBVIOUS
      <4> HIDE DEF late
      <4>3. \A n \in SendViews(late) : n \in SendViews(Remote)
        BY <3>1, <4>2
      <4> QED BY <4>1, <4>3, CarriedIn
    <3> QED BY <1>9, <3>2, <3>3
  <2>2. \A n \in SendViews(Remote) : DatagramGood(n)
    <3> SUFFICES ASSUME NEW n \in SendViews(Remote) PROVE DatagramGood(n)
      OBVIOUS
    <3>1. /\ n.verb = "VIEW" /\ n.peer \in Clients /\ n.no = seq
          /\ n.seat \in Remote /\ n.ids = actid
      BY <1>1, ViewsSent
    <3> QED BY <1>1, <3>1 DEF DatagramGood, DatagramTyped, AckSound, HostTyped
  <2> QED BY <1>3, <1>7, <2>1, <2>2, GoodNet
<1>10. CASE HostQuit
  <2> DEFINE byes == {HostBye(addr[s]) : s \in {t \in Remote : addr[t] # NoAddr}}
  <2>1. net' \subseteq net \cup byes
    BY <1>10, CarriedIn DEF HostQuit
  <2>2. \A n \in byes : DatagramGood(n)
    <3>1. \A a \in Clients : DatagramGood(HostBye(a))
      BY DEF HostBye, DatagramGood, DatagramTyped, AckSound
    <3>2. \A t \in Remote : addr[t] # NoAddr => addr[t] \in Clients
      BY <1>1 DEF HostTyped
    <3> QED BY <3>1, <3>2
  <2> QED BY <1>3, <1>7, <2>1, <2>2, GoodNet
<1> QED BY <1>8, <1>9, <1>10

(* What a client does. *)
LEMMA EndedIn ==
    ASSUME NEW c
    PROVE  /\ Ended(c) \subseteq net
           /\ \A m \in Ended(c) : m.peer = c => m.verb \notin ToClient
           /\ ~LateJoins => \A m \in Ended(c) : m.peer = c => m.verb # "JOIN"
BY DEF Ended, Without

(* What a client does of its own accord: no view goes back. *)
LEMMA GoodClient ==
    ASSUME TInv, NEW c \in Clients,
           \/ Start(c) \/ JoinTry(c) \/ GiveUp(c) \/ QueueAct(c)
           \/ SendAct(c) \/ SendPing(c) \/ Quit(c) \/ Crash(c)
    PROVE  TInv'
<1>1. HostTyped /\ ClientsTyped /\ AckMeansSeen
  BY DEF TInv, TypeOK, AcksSound
<1>2. /\ UNCHANGED hostVars /\ seat' = seat /\ view' = view /\ base' = base /\ applied' = applied
  BY DEF Start, JoinTry, GiveUp, QueueAct, SendAct, SendPing, Quit, Crash, clientVars
<1>3. HostTyped' /\ AckMeansSeen'
  BY <1>1, <1>2, HostKept DEF AckMeansSeen
<1>4. cstate' \in [Clients -> {"off", "joining", "playing", "left"}]
  <2>1. \/ cstate' = cstate \/ cstate' = [cstate EXCEPT ![c] = "joining"]
        \/ cstate' = [cstate EXCEPT ![c] = "left"]
    BY DEF Start, JoinTry, GiveUp, QueueAct, SendAct, SendPing, Quit, Crash, clientVars
  <2> QED BY <1>1, <2>1 DEF ClientsTyped
<1>5. tries' \in [Clients -> Nat]
  <2>1. tries' = tries \/ tries' = [tries EXCEPT ![c] = @ + 1]
    BY DEF Start, JoinTry, GiveUp, QueueAct, SendAct, SendPing, Quit, Crash, clientVars
  <2>2. tries \in [Clients -> Nat]
    BY <1>1 DEF ClientsTyped
  <2>3. tries[c] + 1 \in Nat
    BY <2>2
  <2> QED BY <2>1, <2>2, <2>3
<1>6. su_actid' \in [Clients -> Nat] /\ pending' \in [Clients -> Seq(Nat)]
  <2>1. CASE UNCHANGED <<su_actid, pending>>
    BY <1>1, <2>1 DEF ClientsTyped
  <2>2. CASE QueueAct(c)
    <3>1. /\ su_actid' = [su_actid EXCEPT ![c] = @ + 1]
          /\ pending' = [pending EXCEPT ![c] = Append(@, su_actid[c] + 1)]
      BY <2>2 DEF QueueAct
    <3> QED BY <1>1, <3>1 DEF ClientsTyped
  <2> QED BY <2>1, <2>2 DEF Start, JoinTry, GiveUp, SendAct, SendPing, Quit, Crash, clientVars
<1>7. ClientsTyped'
  BY <1>1, <1>2, <1>4, <1>5, <1>6 DEF ClientsTyped
<1>8. CASE Start(c) \/ GiveUp(c) \/ QueueAct(c) \/ Crash(c)
  <2>1. net' \subseteq net
    BY <1>8, EndedIn DEF Start, GiveUp, QueueAct, Crash
  <2> QED BY <1>2, <1>3, <1>7, <2>1, GoodNet
<1>9. CASE JoinTry(c)
  <2>1. net' \subseteq net \cup {Join(c, tries[c] + 1)}
    BY <1>9, CarriedIn DEF JoinTry
  <2>2. DatagramGood(Join(c, tries[c] + 1))
    BY <1>1 DEF Join, DatagramGood, DatagramTyped, AckSound, ClientsTyped
  <2> QED BY <1>2, <1>3, <1>7, <2>1, <2>2, GoodNet
<1>10. CASE SendAct(c)
  <2>1. net' \subseteq net \cup {Act(c, Head(pending[c]))}
    BY <1>10, CarriedIn DEF SendAct
  <2>2. Head(pending[c]) \in Nat
    BY <1>1, <1>10 DEF SendAct, ClientsTyped
  <2>3. DatagramGood(Act(c, Head(pending[c])))
    BY <2>2 DEF Act, DatagramGood, DatagramTyped, AckSound
  <2> QED BY <1>2, <1>3, <1>7, <2>1, <2>3, GoodNet
<1>11. CASE SendPing(c) \/ Quit(c)
  <2>1. net' \subseteq net \cup {Ping(c), Bye(c)}
    BY <1>11, CarriedIn, EndedIn DEF SendPing, Quit
  <2>2. DatagramGood(Ping(c)) /\ DatagramGood(Bye(c))
    BY DEF Ping, Bye, DatagramGood, DatagramTyped, AckSound
  <2> QED BY <1>2, <1>3, <1>7, <2>1, <2>2, GoodNet
<1> QED BY <1>8, <1>9, <1>10, <1>11

(* What a client does with what it receives. *)
LEMMA GoodWelcome ==
    ASSUME TInv, NEW m \in Received("WELCOME"), RecvWelcome(m)
    PROVE  TInv'
<1> DEFINE c == m.peer
<1>1. HostTyped /\ ClientsTyped /\ AckMeansSeen /\ DatagramTyped(m)
  BY DEF TInv, TypeOK, AcksSound, Received
<1>2. c \in Clients /\ m.no \in Nat /\ m.seat \in AllSeats
  BY <1>1 DEF DatagramTyped, Received, Remote, AllSeats
<1>3. UNCHANGED hostVars /\ view' = view
  BY DEF RecvWelcome
<1>4. HostTyped' /\ AckMeansSeen'
  BY <1>1, <1>3, HostKept DEF AckMeansSeen
<1>5. ClientsTyped'
  BY <1>1, <1>2 DEF RecvWelcome, FirstId, ClientsTyped
<1>6. net' \subseteq net
  BY DEF RecvWelcome, Without
<1> QED BY <1>3, <1>4, <1>5, <1>6, GoodNet

(* A client is refused, or told that the host is gone. *)
LEMMA GoodFullBye ==
    ASSUME TInv, NEW m, \/ m \in Received("FULL") /\ RecvFull(m)
                        \/ m \in Received("HOSTBYE") /\ RecvHostBye(m)
    PROVE  TInv'
<1>1. HostTyped /\ ClientsTyped /\ AckMeansSeen
  BY DEF TInv, TypeOK, AcksSound
<1>2. /\ UNCHANGED hostVars /\ view' = view /\ tries' = tries /\ seat' = seat
      /\ su_actid' = su_actid /\ pending' = pending /\ base' = base /\ applied' = applied
  BY DEF RecvFull, RecvHostBye
<1>3. HostTyped' /\ AckMeansSeen'
  BY <1>1, <1>2, HostKept DEF AckMeansSeen
<1>4. cstate' = cstate \/ cstate' = [cstate EXCEPT ![m.peer] = "left"]
  BY DEF RecvFull, RecvHostBye
<1>5. ClientsTyped'
  BY <1>1, <1>2, <1>4 DEF ClientsTyped
<1>6. net' \subseteq net
  BY EndedIn DEF RecvFull, RecvHostBye
<1> QED BY <1>2, <1>3, <1>5, <1>6, GoodNet

(* A client's view only gets newer. *)
LEMMA GoodView ==
    ASSUME TInv, NEW m \in Received("VIEW"), RecvView(m)
    PROVE  TInv' /\ \A d \in Clients : view[d].seq <= view'[d].seq
<1> DEFINE c == m.peer
<1>1. /\ HostTyped /\ ClientsTyped /\ AckMeansSeen
      /\ \A n \in net : DatagramGood(n)
  BY DEF TInv, TypeOK, AcksSound, DatagramGood
<1>2. /\ c \in Clients /\ m.no \in Nat /\ m.seat \in AllSeats /\ m.ids \in [Remote -> Nat]
  <2>1. DatagramTyped(m) /\ m.verb = "VIEW"
    BY <1>1 DEF Received, DatagramGood
  <2> QED BY <2>1 DEF DatagramTyped, Remote, AllSeats
<1>3. /\ UNCHANGED hostVars /\ cstate' = cstate /\ tries' = tries /\ seat' = seat
      /\ su_actid' = su_actid /\ base' = base /\ applied' = applied
  BY DEF RecvView
<1>4. HostTyped' /\ addr' = addr /\ acked' = acked
  BY <1>1, <1>3, HostKept
<1>5. /\ view' \in [Clients -> [seq : Nat, seat : AllSeats]]
      /\ \A d \in Clients : view[d].seq <= view'[d].seq
      /\ m.no <= view'[c].seq
  <2>1. \A d \in Clients : view[d].seq \in Nat
    BY <1>1 DEF ClientsTyped
  <2>2. CASE m.no > view[c].seq
    <3>1. view' = [view EXCEPT ![c] = [seq |-> m.no, seat |-> m.seat]]
      BY <2>2 DEF RecvView
    <3> QED BY <1>1, <1>2, <2>1, <2>2, <3>1 DEF ClientsTyped
  <2>3. CASE ~(m.no > view[c].seq)
    <3>1. view' = view
      BY <2>3 DEF RecvView
    <3> QED BY <1>1, <1>2, <2>1, <2>3, <3>1 DEF ClientsTyped
  <2> QED BY <2>2, <2>3
<1>6. AckMeansSeen'
  <2> SUFFICES ASSUME NEW s \in Remote, addr[s] # NoAddr
               PROVE  acked[s] <= view'[addr[s]].seq
    BY <1>4 DEF AckMeansSeen
  <2>1. addr[s] \in Clients /\ acked[s] \in Nat
    BY <1>1 DEF HostTyped
  <2>2. acked[s] <= view[addr[s]].seq /\ view[addr[s]].seq <= view'[addr[s]].seq
    BY <1>1, <1>5, <2>1 DEF AckMeansSeen
  <2>3. view[addr[s]].seq \in Nat /\ view'[addr[s]].seq \in Nat
    BY <1>1, <1>5, <2>1 DEF ClientsTyped
  <2> QED BY <2>1, <2>2, <2>3
<1>7. pending' \in [Clients -> Seq(Nat)]
  <2>1. CASE pending' = pending
    BY <1>1, <2>1 DEF ClientsTyped
  <2>2. CASE pending' = [pending EXCEPT ![c] = StillPending(@, m.ids[seat[c]])]
    <3>1. StillPending(pending[c], m.ids[seat[c]]) \in Seq(Nat)
      <4>1. pending[c] \in Seq(Nat)
        BY <1>1, <1>2 DEF ClientsTyped
      <4>2. ASSUME NEW queue \in Seq(Nat), NEW done
            PROVE  StillPending(queue, done) \in Seq(Nat)
        <5>1. CASE {i \in DOMAIN queue : queue[i] > done} = {}
          BY <5>1 DEF StillPending
        <5>2. CASE {i \in DOMAIN queue : queue[i] > done} # {}
          <6> DEFINE waiting == {i \in DOMAIN queue : queue[i] > done}
          <6>1. waiting \subseteq 1..Len(queue) /\ waiting \subseteq Nat
            OBVIOUS
          <6>2. Min(waiting) \in waiting
            BY <5>2, <6>1, MinIn
          <6>3. Min(waiting) \in 1..Len(queue)
            BY <6>1, <6>2
          <6>4. StillPending(queue, done) = SubSeq(queue, Min(waiting), Len(queue))
            BY <5>2 DEF StillPending
          <6> HIDE DEF waiting
          <6> QED BY <6>3, <6>4
        <5> QED BY <5>1, <5>2
      <4> QED BY <4>1, <4>2
    <3> QED BY <1>1, <1>2, <2>2, <3>1 DEF ClientsTyped
  <2> QED BY <2>1, <2>2 DEF RecvView
<1>8. ClientsTyped'
  BY <1>1, <1>3, <1>5, <1>7 DEF ClientsTyped
<1>9. \A n \in net' : DatagramGood(n)'
  <2> SUFFICES ASSUME NEW n \in net' PROVE DatagramGood(n)'
    OBVIOUS
  <2>1. n \in net \/ n = Ack(c, m.no)
    BY CarriedIn DEF RecvView
  <2>2. CASE n \in net
    <3>1. DatagramTyped(n) /\ AckSound(n)
      BY <1>1, <2>2 DEF DatagramGood
    <3>2. n.verb = "ACK" => n.no <= view'[n.peer].seq
      <4> SUFFICES ASSUME n.verb = "ACK" PROVE n.no <= view'[n.peer].seq
        OBVIOUS
      <4>1. n.peer \in Clients /\ n.no \in Nat /\ n.no <= view[n.peer].seq
        BY <3>1 DEF DatagramTyped, AckSound
      <4>2. view[n.peer].seq \in Nat /\ view'[n.peer].seq \in Nat
        BY <1>1, <1>5, <4>1 DEF ClientsTyped
      <4> QED BY <1>5, <4>1, <4>2
    <3> QED BY <3>1, <3>2 DEF DatagramGood, DatagramTyped, AckSound
  <2>3. CASE n = Ack(c, m.no)
    BY <1>2, <1>5, <2>3 DEF Ack, DatagramGood, DatagramTyped, AckSound
  <2> QED BY <2>1, <2>2, <2>3
<1> QED BY <1>4, <1>5, <1>6, <1>8, <1>9 DEF TInv, TypeOK, AcksSound, DatagramGood

(* A datagram is lost. *)
LEMMA GoodLose ==
    ASSUME TInv, NEW m \in net, Lose(m)
    PROVE  TInv'
<1>1. HostTyped /\ ClientsTyped /\ AckMeansSeen
  BY DEF TInv, TypeOK, AcksSound
<1>2. UNCHANGED hostVars /\ UNCHANGED clientVars /\ UNCHANGED applied /\ net' \subseteq net
  BY DEF Lose
<1> QED BY <1>1, <1>2, HostKept, ClientsKept, GoodNet DEF AckMeansSeen

(* Every step keeps the types and the acknowledgements. *)
LEMMA GoodNext == TInv /\ [Next]_vars => TInv'
<1> SUFFICES ASSUME TInv, [Next]_vars PROVE TInv'
  OBVIOUS
<1>1. CASE HostStep
  BY <1>1, GoodJoin, GoodAck, GoodAct, GoodPingBye, GoodHost DEF HostStep
<1>2. CASE ClientStep
  BY <1>2, GoodWelcome, GoodFullBye, GoodView, GoodClient DEF ClientStep
<1>3. CASE \E m \in net : Lose(m)
  BY <1>3, GoodLose
<1>4. CASE UNCHANGED vars
  <2>1. HostTyped /\ ClientsTyped /\ AckMeansSeen
    BY DEF TInv, TypeOK, AcksSound
  <2>2. UNCHANGED hostVars /\ UNCHANGED clientVars /\ UNCHANGED applied /\ net' = net
    BY <1>4 DEF vars
  <2> QED BY <2>1, <2>2, HostKept, ClientsKept, GoodNet DEF AckMeansSeen
<1> QED BY <1>1, <1>2, <1>3, <1>4 DEF Next

(* The types and the acknowledgements hold in every state. *)
LEMMA TypesAndAcks == Spec => []TInv
<1> QED BY GoodInit, GoodNext, PTL DEF Spec

(* Every variable of the host and of its clients keeps its type. *)
THEOREM TypeCorrect == Spec => []TypeOK
<1>1. TInv => TypeOK
  BY DEF TInv
<1> QED BY <1>1, TypesAndAcks, PTL

(* The host never stops sending a version to a client that has not seen it, *)
(* whatever acknowledgements of a seat's former owners are still under way. *)
THEOREM AcknowledgedWasSeen == Spec => []AckMeansSeen
<1>1. TInv => AckMeansSeen
  BY DEF TInv, AcksSound
<1> QED BY <1>1, TypesAndAcks, PTL

----------------------------------------------------------------------------
(***************************************************************************)
(* Seats, runs and queues.  No player has the nickname of the host or of   *)
(* one of its bots: sn_host_join would seat it under another one and not   *)
(* know it when its JOIN comes again.                                      *)
(***************************************************************************)
NoNamesake ==
    \A c \in Clients :
        /\ Nick[c] # HostNick
        /\ \A i \in Remote : i <= Bots => Nick[c] # BotNick[i]

(* The types the arguments about seats and queues use, client by client. *)
LEMMA Typed ==
    ASSUME TInv
    PROVE  /\ \A s \in Remote : actid[s] \in Nat /\ addr[s] \in Clients \cup {NoAddr}
           /\ \A c \in Clients :
                 /\ seat[c] \in AllSeats
                 /\ su_actid[c] \in Nat /\ base[c] \in Nat
                 /\ pending[c] \in Seq(Nat) /\ Len(pending[c]) \in Nat
                 /\ applied[c] \in Seq(Nat) /\ Len(applied[c]) \in Nat
           /\ \A m \in net : m.peer \in Clients /\ m.no \in Nat
<1>1. HostTyped /\ ClientsTyped /\ \A m \in net : DatagramTyped(m)
  BY DEF TInv, TypeOK
<1>2. \A s \in Remote : actid[s] \in Nat /\ addr[s] \in Clients \cup {NoAddr}
  BY <1>1 DEF HostTyped
<1>3. \A c \in Clients :
         /\ seat[c] \in AllSeats /\ su_actid[c] \in Nat /\ base[c] \in Nat
         /\ pending[c] \in Seq(Nat) /\ applied[c] \in Seq(Nat)
  BY <1>1 DEF ClientsTyped
<1>4. \A q \in Seq(Nat) : Len(q) \in Nat
  OBVIOUS
<1> QED BY <1>1, <1>2, <1>3, <1>4 DEF DatagramTyped

(* A nickname has one client's seat, and an address has one seat. *)
LEMMA OneOfName ==
    ASSUME SeatsNamed, NEW s \in Remote, NEW t \in Remote,
           kind[s] = "remote", kind[t] = "remote", name[s] = name[t]
    PROVE  s = t
BY DEF SeatsNamed

(* A client's seat is a remote one with its nickname, and there is only one. *)
LEMMA OneSeatOf ==
    ASSUME SeatsNamed
    PROVE  /\ OneSeatEach
           /\ \A s \in Remote :
                 addr[s] \in Clients => kind[s] = "remote" /\ name[s] = Nick[addr[s]]
<1>1. \A s \in Remote : addr[s] \in Clients => kind[s] = "remote" /\ name[s] = Nick[addr[s]]
  BY SochiNetAssumption DEF SeatsNamed
<1>2. \A s \in Remote : addr[s] # NoAddr => addr[s] \in Clients
  BY DEF SeatsNamed
<1>3. ASSUME NEW s \in Remote, NEW t \in Remote, addr[s] # NoAddr, addr[s] = addr[t]
      PROVE  s = t
  <2>1. addr[s] \in Clients /\ addr[t] \in Clients
    BY <1>2, <1>3
  <2>2. kind[s] = "remote" /\ kind[t] = "remote" /\ name[s] = name[t]
    BY <1>1, <1>3, <2>1
  <2> QED BY <2>2 DEF SeatsNamed
<1> QED BY <1>1, <1>3 DEF OneSeatEach

(* A nickname no client's seat carries stays as it is, and gets a free seat. *)
LEMMA JoinSeat ==
    ASSUME NoNamesake, SeatsNamed, NEW c \in Clients, SeatFor(Nick[c]) # 0
    PROVE  LET s == SeatFor(Nick[c])
           IN  /\ s \in Remote
               /\ IF IsNew(Nick[c])
                  THEN addr[s] = NoAddr /\ Distinct(Nick[c]) = Nick[c]
                  ELSE kind[s] = "remote" /\ name[s] = Nick[c]
<1> DEFINE s == SeatFor(Nick[c])
<1>1. /\ s \in Remote
      /\ IF IsNew(Nick[c]) THEN name[s] = NoName
         ELSE name[s] = Nick[c] /\ kind[s] = "remote"
  BY SeatForIs
<1>2. CASE IsNew(Nick[c])
  <2>1. Nick[c] # HostNick /\ Nick[c] # NoName
    BY SochiNetAssumption DEF NoNamesake
  <2>2. \A t \in Remote : name[t] # Nick[c]
    BY <1>2, <2>1 DEF SeatsNamed, IsNew, NoNamesake
  <2>3. Distinct(Nick[c]) = Nick[c]
    <3>1. name[0] # Nick[c] /\ name[1] # Nick[c] /\ name[2] # Nick[c]
      <4>1. name[0] # Nick[c]
        BY <2>1 DEF SeatsNamed
      <4>2. 1 \in Remote /\ 2 \in Remote
        BY DEF Remote
      <4> QED BY <2>2, <4>1, <4>2
    <3> QED BY ONLY <3>1 DEF Distinct
  <2>4. addr[s] = NoAddr
    <3>1. s \in Remote /\ name[s] = NoName
      BY <1>1, <1>2
    <3>2. \A t \in Remote : addr[t] # NoAddr => addr[t] \in Clients /\ name[t] = Nick[addr[t]]
      BY DEF SeatsNamed
    <3>3. \A d \in Clients : Nick[d] # NoName
      BY SochiNetAssumption
    <3> HIDE DEF s
    <3> QED BY ONLY <3>1, <3>2, <3>3
  <2> QED BY <1>1, <1>2, <2>3, <2>4
<1>3. CASE ~IsNew(Nick[c])
  BY <1>1, <1>3
<1> QED BY <1>2, <1>3

(* A JOIN names one seat after its client and leaves the others. *)
LEMMA NamedJoin ==
    ASSUME NoNamesake, TInv, SeatsNamed, NEW c \in Clients, NEW s \in Remote,
           s = SeatFor(Nick[c]),
           name' = IF IsNew(Nick[c]) THEN [name EXCEPT ![s] = Distinct(Nick[c])] ELSE name,
           kind' = [kind EXCEPT ![s] = "remote"], addr' = [addr EXCEPT ![s] = c]
    PROVE  SeatsNamed'
<1>1. IF IsNew(Nick[c])
      THEN addr[s] = NoAddr /\ Distinct(Nick[c]) = Nick[c]
      ELSE kind[s] = "remote" /\ name[s] = Nick[c]
  <2>1. s # 0
    BY DEF Remote
  <2> QED BY <2>1, JoinSeat
<1>2. HostTyped
  BY DEF TInv, TypeOK
<1>3. /\ name'[s] = Nick[c] /\ kind'[s] = "remote" /\ addr'[s] = c
      /\ \A t \in Remote : t # s => name'[t] = name[t] /\ kind'[t] = kind[t] /\ addr'[t] = addr[t]
      /\ name'[0] = name[0]
  <2>1. s \in AllSeats /\ s # 0 /\ 0 \in AllSeats /\ Remote \subseteq AllSeats
    BY DEF Remote, AllSeats
  <2>2. /\ addr'[s] = c /\ kind'[s] = "remote"
        /\ \A t \in Remote : t # s => kind'[t] = kind[t] /\ addr'[t] = addr[t]
    BY <1>2, <2>1 DEF HostTyped
  <2>3. /\ name'[s] = Nick[c] /\ name'[0] = name[0]
        /\ \A t \in Remote : t # s => name'[t] = name[t]
    BY <1>1, <1>2, <2>1 DEF HostTyped
  <2> QED BY <2>2, <2>3
<1>4. \A t \in Remote : t # s => ~(kind[t] = "remote" /\ name[t] = Nick[c])
  BY <1>1 DEF IsNew, SeatsNamed
<1>5. name'[0] = HostNick
  BY <1>3 DEF SeatsNamed
<1>6. ASSUME NEW t \in Remote
      PROVE  \/ kind'[t] = "" /\ name'[t] = NoName /\ addr'[t] = NoAddr
             \/ kind'[t] = "bot" /\ t <= Bots /\ name'[t] = BotNick[t] /\ addr'[t] = NoAddr
             \/ kind'[t] = "remote" /\ addr'[t] \in Clients /\ name'[t] = Nick[addr'[t]]
  <2>1. CASE t = s
    BY <1>3, <2>1
  <2>2. CASE t # s
    <3>1. \/ kind[t] = "" /\ name[t] = NoName /\ addr[t] = NoAddr
          \/ kind[t] = "bot" /\ t <= Bots /\ name[t] = BotNick[t] /\ addr[t] = NoAddr
          \/ kind[t] = "remote" /\ addr[t] \in Clients /\ name[t] = Nick[addr[t]]
      BY DEF SeatsNamed
    <3>2. kind'[t] = kind[t] /\ name'[t] = name[t] /\ addr'[t] = addr[t]
      BY <1>3, <2>2
    <3> QED BY <3>1, <3>2
  <2> QED BY <2>1, <2>2
<1>7. ASSUME NEW t \in Remote, NEW u \in Remote,
             kind'[t] = "remote", kind'[u] = "remote", name'[t] = name'[u]
      PROVE  t = u
  <2>1. CASE t = s \/ u = s
    <3>1. \A v \in Remote : v # s => ~(kind'[v] = "remote" /\ name'[v] = Nick[c])
      BY <1>3, <1>4
    <3>2. name'[s] = Nick[c]
      BY <1>3
    <3> QED BY ONLY <1>7, <2>1, <3>1, <3>2, t \in Remote, u \in Remote
  <2>2. CASE t # s /\ u # s
    <3>1. kind[t] = "remote" /\ kind[u] = "remote" /\ name[t] = name[u]
      BY <1>3, <1>7, <2>2
    <3> QED BY <3>1, OneOfName
  <2> QED BY <2>1, <2>2
<1> QED BY <1>5, <1>6, <1>7 DEF SeatsNamed

(* Nothing but datagrams that are sound is new. *)
LEMMA Inert ==
    ASSUME IInv, UNCHANGED <<name, kind, addr, actid>>,
           UNCHANGED <<cstate, seat, su_actid, pending, base, applied>>,
           \A n \in net' : n \in net \/ DatagramSound(n)
    PROVE  IInv'
<1>1. SeatsNamed'
  BY DEF IInv, SeatsNamed
<1>2. OneRun' /\ SeatKept'
  BY DEF IInv, OneRun, SeatKept, Active
<1>3. QueueInOrder'
  BY DEF IInv, QueueInOrder, Shown
<1>4. \A n \in net' : DatagramSound(n)
  BY DEF IInv, DatagramsSound
<1>5. DatagramsSound'
  BY <1>4 DEF DatagramsSound, DatagramSound, Active
<1> QED BY <1>1, <1>2, <1>3, <1>5 DEF IInv

(* A client ends: nothing of what it was to read or to join with is left. *)
LEMMA Leaving ==
    ASSUME TInv, IInv, ~LateJoins, NEW c \in Clients, cstate[c] # "left",
           cstate' = [cstate EXCEPT ![c] = "left"],
           UNCHANGED <<name, kind, addr, actid>>,
           UNCHANGED <<seat, su_actid, pending, base, applied>>,
           \A n \in net' : n \in Ended(c) \/ n = Bye(c)
    PROVE  IInv'
<1>1. /\ cstate'[c] = "left"
      /\ \A d \in Clients : d # c => cstate'[d] = cstate[d]
  BY DEF TInv, TypeOK, ClientsTyped
<1>2. SeatsNamed'
  BY DEF IInv, SeatsNamed
<1>3. OneRun'
  BY <1>1 DEF IInv, OneRun, Active
<1>4. SeatKept'
  BY <1>1 DEF IInv, SeatKept
<1>5. QueueInOrder'
  BY DEF IInv, QueueInOrder, Shown
<1>6. ASSUME NEW n \in net' PROVE DatagramSound(n)'
  <2>1. CASE n = Bye(c)
    BY <1>1, <2>1 DEF Bye, DatagramSound
  <2>2. CASE n \in Ended(c)
    <3>1. /\ n \in net /\ n.peer \in Clients
          /\ n.peer = c => n.verb \notin {"WELCOME", "FULL", "VIEW", "HOSTBYE", "JOIN"}
      BY <2>2, EndedIn, Typed DEF ToClient
    <3>2. DatagramSound(n)
      BY <3>1 DEF IInv, DatagramsSound
    <3>3. CASE n.peer = c
      BY <1>1, <3>1, <3>2, <3>3 DEF DatagramSound
    <3>4. CASE n.peer # c
      BY <1>1, <3>1, <3>2, <3>4 DEF DatagramSound, Active
    <3> QED BY <3>3, <3>4
  <2> QED BY <1>6, <2>1, <2>2
<1> QED BY <1>2, <1>3, <1>4, <1>5, <1>6 DEF IInv, DatagramsSound

(* A JOIN that is given a seat. *)
LEMMA SoundJoin ==
    ASSUME NoNamesake, TInv, IInv, NEW m \in Received("JOIN"), RecvJoin(m)
    PROVE  IInv'
<1> DEFINE c == m.peer
           s == SeatFor(Nick[c])
           new == IsNew(Nick[c])
<1>1. /\ m \in net /\ c \in Clients /\ Active(c)
  BY Typed DEF Received, IInv, DatagramsSound, DatagramSound
<1>2. UNCHANGED <<cstate, seat, su_actid, pending, base, applied>>
  BY DEF RecvJoin, clientVars
<1>3. CASE s = 0
  <2>1. UNCHANGED <<name, kind, addr, actid>>
    BY <1>3 DEF RecvJoin
  <2>2. \A n \in net' : n \in net \/ n = Full(c)
    BY <1>3, CarriedIn DEF RecvJoin
  <2>3. DatagramSound(Full(c))
    BY DEF Full, DatagramSound
  <2> QED BY <1>2, <2>1, <2>2, <2>3, Inert
<1>4. CASE s # 0
  <2>1. /\ s \in Remote
        /\ IF new THEN addr[s] = NoAddr ELSE kind[s] = "remote" /\ name[s] = Nick[c]
    BY <1>1, <1>4, JoinSeat DEF IInv
  <2>2. /\ name' = IF new THEN [name EXCEPT ![s] = Distinct(Nick[c])] ELSE name
        /\ kind' = [kind EXCEPT ![s] = "remote"] /\ addr' = [addr EXCEPT ![s] = c]
        /\ actid' = IF new THEN [actid EXCEPT ![s] = 0] ELSE actid
        /\ net' = Carried((net \ {m}) \cup {Welcome(c, s, actid'[s])})
    BY <1>4 DEF RecvJoin
  <2>3. /\ addr'[s] = c
        /\ ~new => actid' = actid
        /\ \A t \in Remote : t # s => addr'[t] = addr[t] /\ actid'[t] = actid[t]
    BY <2>1, <2>2 DEF TInv, TypeOK, HostTyped
  <2>4. SeatsNamed'
    BY <1>1, <2>1, <2>2, NamedJoin DEF IInv
  <2>5. ASSUME NEW d \in Clients, Active(d), addr[s] = d
        PROVE  d = c /\ ~new
    <3>1. ~new
      BY <2>1, <2>5, SochiNetAssumption
    <3>2. Nick[d] = Nick[c]
      BY <2>1, <2>5, <3>1, OneSeatOf DEF IInv
    <3> QED BY <1>1, <2>5, <3>1, <3>2 DEF IInv, OneRun
  <2>6. OneRun' /\ QueueInOrder'
    BY <1>2 DEF IInv, OneRun, QueueInOrder, Active, Shown
  <2>7. SeatKept'
    <3> SUFFICES ASSUME NEW d \in Clients
                 PROVE  /\ cstate[d] \in {"off", "joining"} => seat[d] = 0
                        /\ cstate[d] = "playing" => seat[d] # 0 /\ addr'[seat[d]] = d
                        /\ \A t \in Remote : addr'[t] = d /\ seat[d] # 0 =>
                              t = seat[d] /\ actid'[t] = base[d] + Len(applied[d])
      BY <1>2 DEF SeatKept
    <3>1. /\ cstate[d] \in {"off", "joining"} => seat[d] = 0
          /\ cstate[d] = "playing" => seat[d] # 0 /\ addr[seat[d]] = d
          /\ \A t \in Remote : addr[t] = d /\ seat[d] # 0 =>
                t = seat[d] /\ actid[t] = base[d] + Len(applied[d])
      BY DEF IInv, SeatKept
    <3>2. ASSUME cstate[d] = "playing" PROVE addr'[seat[d]] = d
      <4>1. seat[d] \in Remote
        BY <3>1, <3>2, Typed DEF AllSeats, Remote
      <4> QED BY <2>3, <2>5, <3>1, <3>2, <4>1 DEF Active
    <3>3. ASSUME NEW t \in Remote, addr'[t] = d, seat[d] # 0
          PROVE  t = seat[d] /\ actid'[t] = base[d] + Len(applied[d])
      <4>1. CASE t # s
        BY <2>3, <3>1, <3>3, <4>1
      <4>2. CASE t = s
        <5>1. d = c /\ cstate[c] = "playing" /\ seat[c] \in Remote /\ addr[seat[c]] = c
          BY <1>1, <2>3, <3>1, <3>3, <4>2, Typed DEF Active, AllSeats, Remote
        <5>2. kind[seat[c]] = "remote" /\ name[seat[c]] = Nick[c]
          BY <5>1, OneSeatOf DEF IInv
        <5>3. ~new
          BY <5>1, <5>2 DEF IsNew
        <5>4. s = seat[c]
          <6>1. kind[s] = "remote" /\ name[s] = Nick[c]
            BY <2>1, <5>3
          <6>2. SeatsNamed
            BY DEF IInv
          <6> HIDE DEF s
          <6> QED BY <2>1, <5>1, <5>2, <6>1, <6>2, OneOfName
        <5> QED BY <2>3, <3>1, <4>2, <5>1, <5>3, <5>4
      <4> QED BY <4>1, <4>2
    <3> QED BY <3>1, <3>2, <3>3
  <2>8. ASSUME NEW n \in net' PROVE DatagramSound(n)'
    <3>1. \/ n \in net
          \/ n = Welcome(c, s, actid'[s]) /\ Reads(c, "WELCOME")
      <4>1. n \in net \/ n = Welcome(c, s, actid'[s])
        BY <2>2, <2>8, CarriedIn
      <4>2. n = Welcome(c, s, actid'[s]) => Reads(c, "WELCOME")
        <5>1. n.verb \notin ToHost => Reads(n.peer, n.verb)
          BY <2>2, <2>8, CarriedIn
        <5> QED BY <5>1 DEF Welcome, ToHost
      <4> QED BY <4>1, <4>2
    <3>2. CASE n = Welcome(c, s, actid'[s]) /\ Reads(c, "WELCOME")
      <4>1. cstate[c] = "joining"
        BY <3>2 DEF Reads
      <4> QED BY <1>2, <2>3, <3>2, <4>1 DEF Welcome, DatagramSound
    <3>3. CASE n \in net
      <4>1. DatagramSound(n) /\ n.peer \in Clients
        BY <3>3, Typed DEF IInv, DatagramsSound
      <4>2. n.verb \in {"WELCOME", "VIEW"} => n.seat \in Remote
        BY <3>3 DEF TInv, TypeOK, DatagramTyped
      <4>3. ASSUME n.verb \in {"WELCOME", "VIEW"}
            PROVE  addr'[n.seat] = n.peer /\ actid'[n.seat] = actid[n.seat]
        <5>1. Active(n.peer) /\ addr[n.seat] = n.peer
          BY <4>1, <4>3 DEF DatagramSound, Active
        <5>2. CASE n.seat = s
          BY <2>3, <2>5, <4>1, <5>1, <5>2
        <5>3. CASE n.seat # s
          BY <2>3, <4>2, <4>3, <5>1, <5>3
        <5> QED BY <5>2, <5>3
      <4> QED BY <1>2, <4>1, <4>3 DEF DatagramSound, Active
    <3> QED BY <3>1, <3>2, <3>3
  <2> QED BY <2>4, <2>6, <2>7, <2>8 DEF IInv, DatagramsSound
<1> QED BY <1>3, <1>4

(* An ACT is the client's next action or one the host has had. *)
LEMMA SoundAct ==
    ASSUME NoNamesake, TInv, IInv, NEW m \in Received("ACT"), RecvAct(m)
    PROVE  IInv'
<1> DEFINE c == m.peer
           s == SeatOf(c)
           fresh == s # 0 /\ Fresh(s, m.no)
<1>1. /\ m \in net /\ c \in Clients /\ m.no \in Nat
      /\ seat[c] # 0 /\ base[c] < m.no /\ m.no <= base[c] + Len(applied[c]) + 1
      /\ m.no <= su_actid[c]
  BY Typed DEF Received, IInv, DatagramsSound, DatagramSound
<1>2. UNCHANGED <<name, kind, addr>> /\ UNCHANGED <<cstate, seat, su_actid, pending, base>>
  BY DEF RecvAct, clientVars
<1>3. s = 0 \/ (s \in Remote /\ addr[s] = c)
  BY SeatOfIs
<1>4. CASE ~fresh
  <2>1. actid' = actid /\ applied' = applied
    BY <1>4 DEF RecvAct
  <2>2. ASSUME NEW n \in net' PROVE n \in net \/ DatagramSound(n)
    <3>1. /\ n \in net \/ (s # 0 /\ n = View(c, s, seq', actid))
          /\ n.verb \notin ToHost => Reads(n.peer, n.verb)
      BY <1>4, <2>2, CarriedIn DEF RecvAct
    <3>2. ASSUME s # 0, n = View(c, s, seq', actid) PROVE DatagramSound(n)
      <4>1. Reads(c, "VIEW") /\ n.verb = "VIEW" /\ n.peer = c /\ n.seat = s /\ n.ids = actid
        BY <3>1, <3>2 DEF View, ToHost
      <4>2. actid[s] \in Nat
        BY <1>3, <3>2, Typed
      <4> QED BY <1>3, <3>2, <4>1, <4>2 DEF DatagramSound, Reads, Active
    <3> QED BY <3>1, <3>2
  <2> QED BY <1>2, <2>1, <2>2, Inert
<1>5. CASE fresh
  <2>1. s \in Remote /\ addr[s] = c
    BY <1>3, <1>5
  <2>2. s = seat[c] /\ actid[s] = base[c] + Len(applied[c])
    BY <1>1, <2>1 DEF IInv, SeatKept
  <2>3. m.no = base[c] + Len(applied[c]) + 1
    BY <1>1, <1>5, <2>2, Typed, SMTT(30) DEF Fresh
  <2>4. /\ actid' = [actid EXCEPT ![s] = m.no]
        /\ applied' = [applied EXCEPT ![c] = Append(@, m.no)]
        /\ net' \subseteq net
    BY <1>5, CarriedIn DEF RecvAct
  <2>5. /\ actid'[s] = m.no /\ \A t \in Remote : t # s => actid'[t] = actid[t]
        /\ applied'[c] = Append(applied[c], m.no)
        /\ \A d \in Clients : d # c => applied'[d] = applied[d]
    BY <1>1, <2>1, <2>4 DEF TInv, TypeOK, HostTyped, ClientsTyped
  <2>6. /\ Len(applied'[c]) = Len(applied[c]) + 1
        /\ applied'[c][Len(applied[c]) + 1] = m.no
        /\ \A i \in 1..Len(applied[c]) : applied'[c][i] = applied[c][i]
    BY <1>1, <2>5, Typed
  <2>a. /\ base[c] \in Nat /\ Len(applied[c]) \in Nat /\ Len(applied'[c]) \in Nat
        /\ m.no = base[c] + Len(applied'[c])
    <3>1. base[c] \in Nat /\ Len(applied[c]) \in Nat
      BY <1>1, Typed
    <3> HIDE DEF c
    <3> QED BY ONLY <2>3, <2>6, <3>1
  <2>7. SeatsNamed' /\ OneRun'
    BY <1>2 DEF IInv, SeatsNamed, OneRun, Active
  <2>8. SeatKept'
    <3>1. ASSUME NEW d \in Clients, NEW t \in Remote, addr[t] = d, seat[d] # 0
          PROVE  t = seat[d] /\ actid'[t] = base[d] + Len(applied'[d])
      <4>1. t = seat[d] /\ actid[t] = base[d] + Len(applied[d])
        BY <3>1 DEF IInv, SeatKept
      <4>2. CASE d = c
        BY <2>2, <2>5, <2>a, <4>1, <4>2
      <4>3. CASE d # c
        BY <2>1, <2>5, <3>1, <4>1, <4>3
      <4> QED BY <4>2, <4>3
    <3>2. \A d \in Clients :
             /\ cstate[d] \in {"off", "joining"} => seat[d] = 0
             /\ cstate[d] = "playing" => seat[d] # 0 /\ addr[seat[d]] = d
      BY DEF IInv, SeatKept
    <3> QED BY <1>2, <3>1, <3>2 DEF SeatKept
  <2>9. QueueInOrder'
    <3> SUFFICES ASSUME NEW d \in Clients
                 PROVE  /\ seat[d] = 0 => su_actid[d] = 0 /\ base[d] = 0
                                          /\ pending[d] = <<>> /\ applied'[d] = <<>>
                        /\ base[d] <= Shown(d)
                        /\ Shown(d) <= base[d] + Len(applied'[d])
                        /\ base[d] + Len(applied'[d]) <= su_actid[d]
                        /\ \A i \in 1..Len(pending[d]) : pending[d][i] = Shown(d) + i
                        /\ \A i \in 1..Len(applied'[d]) : applied'[d][i] = base[d] + i
      BY <1>2 DEF QueueInOrder, Shown
    <3>1. /\ seat[d] = 0 => su_actid[d] = 0 /\ base[d] = 0
                            /\ pending[d] = <<>> /\ applied[d] = <<>>
          /\ base[d] <= Shown(d)
          /\ Shown(d) <= base[d] + Len(applied[d])
          /\ base[d] + Len(applied[d]) <= su_actid[d]
          /\ \A i \in 1..Len(pending[d]) : pending[d][i] = Shown(d) + i
          /\ \A i \in 1..Len(applied[d]) : applied[d][i] = base[d] + i
      BY DEF IInv, QueueInOrder
    <3>2. Shown(d) \in Int
      BY Typed DEF Shown
    <3>3. CASE d = c
      <4>1. \A i \in 1..Len(applied'[c]) : applied'[c][i] = base[c] + i
        <5> SUFFICES ASSUME NEW i \in 1..Len(applied'[c])
                     PROVE  applied'[c][i] = base[c] + i
          OBVIOUS
        <5>1. i \in 1..Len(applied[c]) \/ i = Len(applied[c]) + 1
          BY <2>6, <2>a
        <5>2. CASE i \in 1..Len(applied[c])
          BY <2>6, <3>1, <3>3, <5>2
        <5>3. CASE i = Len(applied[c]) + 1
          BY <2>3, <2>6, <2>a, <5>3
        <5> QED BY <5>1, <5>2, <5>3
      <4>2. /\ Shown(c) <= base[c] + Len(applied'[c])
            /\ base[c] + Len(applied'[c]) <= su_actid[c]
        <5>1. base[c] + Len(applied'[c]) <= su_actid[c]
          BY <1>1, <2>a
        <5>2. Shown(c) <= base[c] + Len(applied[c]) /\ Shown(c) \in Int
          BY <3>1, <3>2, <3>3
        <5>3. Shown(c) <= base[c] + (Len(applied[c]) + 1)
          <6> HIDE DEF c
          <6> QED BY ONLY <2>a, <5>2
        <5> QED BY <2>6, <5>1, <5>3
      <4> QED BY <1>1, <3>1, <3>3, <4>1, <4>2
    <3>4. CASE d # c
      BY <2>5, <3>1, <3>4
    <3> QED BY <3>3, <3>4
  <2>10. ASSUME NEW n \in net' PROVE DatagramSound(n)'
    <3>1. n \in net /\ DatagramSound(n) /\ n.peer \in Clients
      BY <2>4, <2>10, Typed DEF IInv, DatagramsSound
    <3>2. n.verb \in {"WELCOME", "VIEW"} => n.seat \in Remote
      BY <3>1 DEF TInv, TypeOK, DatagramTyped
    <3>3. CASE n.verb = "ACT"
      <4>1. Len(applied[n.peer]) <= Len(applied'[n.peer])
        <5>1. CASE n.peer = c
          BY <2>6, <2>a, <5>1
        <5>2. CASE n.peer # c
          <6>1. applied'[n.peer] = applied[n.peer] /\ Len(applied[n.peer]) \in Nat
            BY <2>5, <3>1, <5>2, Typed
          <6> QED BY <6>1
        <5> QED BY <5>1, <5>2
      <4>2. Len(applied'[n.peer]) \in Nat
        BY <2>5, <2>a, <3>1, Typed
      <4> QED BY <1>2, <3>1, <3>3, <4>1, <4>2, Typed, SMTT(30) DEF DatagramSound
    <3>4. CASE n.verb = "WELCOME"
      <4>1. n.seat # s
        BY <1>1, <2>1, <3>1, <3>4 DEF DatagramSound, IInv, SeatKept
      <4> QED BY <1>2, <2>5, <3>1, <3>2, <3>4, <4>1 DEF DatagramSound
    <3>5. CASE n.verb = "VIEW"
      <4>1. n.ids[n.seat] \in Nat
        BY <3>1, <3>2, <3>5 DEF TInv, TypeOK, DatagramTyped
      <4>2. n.ids[n.seat] <= actid'[n.seat]
        <5>1. n.ids[n.seat] <= actid[n.seat] /\ actid[n.seat] \in Nat
          BY <3>1, <3>2, <3>5, Typed DEF DatagramSound
        <5>2. CASE n.seat = s
          BY <1>1, <2>2, <2>3, <2>5, <4>1, <5>1, <5>2, Typed
        <5>3. CASE n.seat # s
          BY <2>5, <3>2, <3>5, <5>1, <5>3
        <5> QED BY <5>2, <5>3
      <4> QED BY <1>2, <3>1, <3>5, <4>2 DEF DatagramSound, Active
    <3>6. CASE n.verb \notin {"ACT", "WELCOME", "VIEW"}
      BY <1>2, <3>1, <3>6 DEF DatagramSound, Active
    <3> QED BY <3>3, <3>4, <3>5, <3>6
  <2> QED BY <2>7, <2>8, <2>9, <2>10 DEF IInv, DatagramsSound
<1> QED BY <1>4, <1>5

(* A client that has ended gives its seat back. *)
LEMMA SoundBye ==
    ASSUME TInv, IInv, NEW m \in Received("BYE"), RecvBye(m)
    PROVE  IInv'
<1> DEFINE c == m.peer
           s == SeatOf(c)
           frees == s # 0 /\ phase = "lobby"
<1>1. m \in net /\ c \in Clients /\ cstate[c] = "left"
  BY Typed DEF Received, IInv, DatagramsSound, DatagramSound
<1>2. /\ UNCHANGED <<cstate, seat, su_actid, pending, base, applied>>
      /\ actid' = actid /\ net' \subseteq net
  BY DEF RecvBye, clientVars
<1>3. CASE ~frees
  <2>1. UNCHANGED <<name, kind, addr, actid>>
    BY <1>3 DEF RecvBye
  <2> QED BY <1>2, <2>1, Inert
<1>4. CASE frees
  <2>1. s \in Remote /\ addr[s] = c
    BY <1>4, SeatOfIs
  <2>2. /\ name' = [name EXCEPT ![s] = NoName] /\ kind' = [kind EXCEPT ![s] = ""]
        /\ addr' = [addr EXCEPT ![s] = NoAddr]
    BY <1>4 DEF RecvBye
  <2>3. /\ name'[s] = NoName /\ kind'[s] = "" /\ addr'[s] = NoAddr /\ name'[0] = name[0]
        /\ \A t \in Remote : t # s =>
              name'[t] = name[t] /\ kind'[t] = kind[t] /\ addr'[t] = addr[t]
    <3>1. s \in AllSeats /\ s # 0 /\ 0 \in AllSeats /\ Remote \subseteq AllSeats
      BY <2>1 DEF Remote, AllSeats
    <3>2. HostTyped
      BY DEF TInv, TypeOK
    <3>3. /\ addr'[s] = NoAddr /\ kind'[s] = ""
          /\ \A t \in Remote : t # s => kind'[t] = kind[t] /\ addr'[t] = addr[t]
      BY <2>1, <2>2, <3>1, <3>2 DEF HostTyped
    <3>4. /\ name'[s] = NoName /\ name'[0] = name[0]
          /\ \A t \in Remote : t # s => name'[t] = name[t]
      BY <2>1, <2>2, <3>1, <3>2 DEF HostTyped
    <3> QED BY <3>3, <3>4
  <2>4. SeatsNamed'
    <3>1. name'[0] = HostNick
      BY <2>3 DEF IInv, SeatsNamed
    <3>2. ASSUME NEW t \in Remote
          PROVE  \/ kind'[t] = "" /\ name'[t] = NoName /\ addr'[t] = NoAddr
                 \/ kind'[t] = "bot" /\ t <= Bots /\ name'[t] = BotNick[t] /\ addr'[t] = NoAddr
                 \/ kind'[t] = "remote" /\ addr'[t] \in Clients /\ name'[t] = Nick[addr'[t]]
      <4>1. \/ kind[t] = "" /\ name[t] = NoName /\ addr[t] = NoAddr
            \/ kind[t] = "bot" /\ t <= Bots /\ name[t] = BotNick[t] /\ addr[t] = NoAddr
            \/ kind[t] = "remote" /\ addr[t] \in Clients /\ name[t] = Nick[addr[t]]
        BY DEF IInv, SeatsNamed
      <4>2. CASE t = s
        BY <2>3, <4>2
      <4>3. CASE t # s
        BY <2>3, <4>1, <4>3
      <4> QED BY <4>2, <4>3
    <3>3. ASSUME NEW t \in Remote, NEW u \in Remote,
                 kind'[t] = "remote", kind'[u] = "remote", name'[t] = name'[u]
          PROVE  t = u
      <4>1. t # s /\ u # s
        BY <2>3, <3>3
      <4>2. kind[t] = "remote" /\ kind[u] = "remote" /\ name[t] = name[u]
        BY <2>3, <3>3, <4>1
      <4> QED BY <4>2, OneOfName DEF IInv
    <3> QED BY <3>1, <3>2, <3>3 DEF SeatsNamed
  <2>5. OneRun' /\ QueueInOrder'
    BY <1>2 DEF IInv, OneRun, QueueInOrder, Active, Shown
  <2>6. \A d \in Clients : Active(d) => d # c
    BY <1>1 DEF Active
  <2>7. SeatKept'
    <3> SUFFICES ASSUME NEW d \in Clients
                 PROVE  /\ cstate[d] \in {"off", "joining"} => seat[d] = 0
                        /\ cstate[d] = "playing" => seat[d] # 0 /\ addr'[seat[d]] = d
                        /\ \A t \in Remote : addr'[t] = d /\ seat[d] # 0 =>
                              t = seat[d] /\ actid[t] = base[d] + Len(applied[d])
      BY <1>2 DEF SeatKept
    <3>1. /\ cstate[d] \in {"off", "joining"} => seat[d] = 0
          /\ cstate[d] = "playing" => seat[d] # 0 /\ addr[seat[d]] = d
          /\ \A t \in Remote : addr[t] = d /\ seat[d] # 0 =>
                t = seat[d] /\ actid[t] = base[d] + Len(applied[d])
      BY DEF IInv, SeatKept
    <3>2. ASSUME cstate[d] = "playing" PROVE addr'[seat[d]] = d
      <4>1. seat[d] \in Remote /\ seat[d] # s
        BY <2>1, <2>6, <3>1, <3>2, Typed DEF AllSeats, Remote, Active
      <4> QED BY <2>3, <3>1, <3>2, <4>1
    <3>3. \A t \in Remote : addr'[t] = d => addr[t] = d
      BY <2>3, SochiNetAssumption
    <3> QED BY <3>1, <3>2, <3>3
  <2>8. ASSUME NEW n \in net' PROVE DatagramSound(n)'
    <3>1. n \in net /\ DatagramSound(n) /\ n.peer \in Clients
      BY <1>2, <2>8, Typed DEF IInv, DatagramsSound
    <3>2. n.verb \in {"WELCOME", "VIEW"} => n.seat \in Remote
      BY <3>1 DEF TInv, TypeOK, DatagramTyped
    <3>3. ASSUME n.verb \in {"WELCOME", "VIEW"} PROVE addr'[n.seat] = n.peer
      <4>1. Active(n.peer) /\ addr[n.seat] = n.peer
        BY <3>1, <3>3 DEF DatagramSound, Active
      <4>2. n.seat # s
        BY <2>1, <2>6, <3>1, <4>1
      <4> QED BY <2>3, <3>2, <3>3, <4>1, <4>2
    <3> QED BY <1>2, <3>1, <3>3 DEF DatagramSound, Active
  <2> QED BY <2>4, <2>5, <2>7, <2>8 DEF IInv, DatagramsSound
<1> QED BY <1>3, <1>4

(* What the invariant says of one client. *)
ClientInOrder(c) ==
    /\ seat[c] = 0 => su_actid[c] = 0 /\ base[c] = 0 /\ pending[c] = <<>> /\ applied[c] = <<>>
    /\ base[c] <= Shown(c)
    /\ Shown(c) <= base[c] + Len(applied[c])
    /\ base[c] + Len(applied[c]) <= su_actid[c]
    /\ \A i \in 1..Len(pending[c]) : pending[c][i] = Shown(c) + i
    /\ \A i \in 1..Len(applied[c]) : applied[c][i] = base[c] + i

ClientKept(c) ==
    /\ cstate[c] \in {"off", "joining"} => seat[c] = 0
    /\ cstate[c] = "playing" => seat[c] # 0 /\ addr[seat[c]] = c
    /\ \A s \in Remote : addr[s] = c /\ seat[c] # 0 =>
          s = seat[c] /\ actid[s] = base[c] + Len(applied[c])

(* What is said of every client, for one client. *)
LEMMA OfClient ==
    /\ QueueInOrder <=> \A c \in Clients : ClientInOrder(c)
    /\ SeatKept <=> \A c \in Clients : ClientKept(c)
BY DEF QueueInOrder, SeatKept, ClientInOrder, ClientKept

(* A step of one client, the host unchanged. *)
LEMMA OneClient ==
    ASSUME IInv, NEW c \in Clients, UNCHANGED hostVars, ClientInOrder(c)', ClientKept(c)',
           \A d \in Clients : d # c =>
              /\ cstate'[d] = cstate[d] /\ seat'[d] = seat[d] /\ su_actid'[d] = su_actid[d]
              /\ pending'[d] = pending[d] /\ base'[d] = base[d] /\ applied'[d] = applied[d],
           OneRun', DatagramsSound'
    PROVE  IInv'
<1>1. name' = name /\ kind' = kind /\ addr' = addr /\ actid' = actid
  BY DEF hostVars
<1>2. SeatsNamed'
  BY <1>1 DEF IInv, SeatsNamed
<1>3. ASSUME NEW d \in Clients PROVE ClientInOrder(d)'
  <2>1. CASE d = c
    BY <2>1
  <2>2. CASE d # c
    <3>1. ClientInOrder(d)
      BY OfClient DEF IInv
    <3> QED BY <2>2, <3>1 DEF ClientInOrder, Shown
  <2> QED BY <2>1, <2>2
<1>4. ASSUME NEW d \in Clients PROVE ClientKept(d)'
  <2>1. CASE d = c
    BY <2>1
  <2>2. CASE d # c
    <3>1. ClientKept(d)
      BY OfClient DEF IInv
    <3> QED BY <1>1, <2>2, <3>1 DEF ClientKept
  <2> QED BY <2>1, <2>2
<1>5. QueueInOrder' /\ SeatKept'
  BY <1>3, <1>4 DEF QueueInOrder, SeatKept, ClientInOrder, ClientKept
<1> QED BY <1>2, <1>5 DEF IInv

(* A WELCOME seats a client that waits for one: its ids go on from the host's. *)
LEMMA SoundWelcome ==
    ASSUME TInv, IInv, NEW m \in Received("WELCOME"), RecvWelcome(m)
    PROVE  IInv'
<1> DEFINE c == m.peer
<1>1. /\ m \in net /\ c \in Clients /\ m.no \in Nat /\ m.seat \in Remote
      /\ cstate[c] = "joining" /\ addr[m.seat] = c /\ m.no = actid[m.seat]
  <2>1. m \in net /\ m.verb = "WELCOME" /\ DatagramTyped(m) /\ DatagramSound(m)
    BY DEF Received, TInv, TypeOK, IInv, DatagramsSound
  <2> QED BY <2>1 DEF DatagramTyped, DatagramSound
<1>2. ClientInOrder(c) /\ ClientKept(c)
  BY <1>1, OfClient DEF IInv
<1>3. /\ seat[c] = 0 /\ pending[c] = <<>> /\ applied[c] = <<>>
  BY <1>1, <1>2 DEF ClientInOrder, ClientKept
<1>4. /\ cstate' = [cstate EXCEPT ![c] = "playing"]
      /\ seat' = [seat EXCEPT ![c] = m.seat]
      /\ su_actid' = [su_actid EXCEPT ![c] = m.no] /\ base' = [base EXCEPT ![c] = m.no]
      /\ UNCHANGED hostVars /\ pending' = pending /\ applied' = applied
  BY DEF RecvWelcome, FirstId
<1>5. /\ cstate'[c] = "playing" /\ seat'[c] = m.seat /\ su_actid'[c] = m.no /\ base'[c] = m.no
      /\ \A d \in Clients : d # c =>
            /\ cstate'[d] = cstate[d] /\ seat'[d] = seat[d]
            /\ su_actid'[d] = su_actid[d] /\ base'[d] = base[d]
  BY <1>1, <1>4 DEF TInv, TypeOK, ClientsTyped
<1>6. addr' = addr /\ actid' = actid
  BY <1>4 DEF hostVars
<1>7. ClientInOrder(c)'
  <2>1. Len(<<>>) = 0 /\ m.no - 0 = m.no /\ m.no + 0 = m.no /\ m.no <= m.no
    BY <1>1
  <2>2. seat'[c] # 0
    BY <1>1, <1>5 DEF Remote
  <2>3. Shown(c)' = m.no
    BY <1>3, <1>4, <1>5, <2>1 DEF Shown
  <2>4. pending'[c] = <<>> /\ applied'[c] = <<>>
    BY <1>3, <1>4
  <2> QED BY <1>5, <2>1, <2>2, <2>3, <2>4 DEF ClientInOrder
<1>8. ClientKept(c)'
  <2>1. \A s \in Remote : addr[s] = c => s = m.seat
    BY <1>1, OneSeatOf, SochiNetAssumption DEF IInv, OneSeatEach
  <2>2. m.no = m.no + Len(applied'[c])
    BY <1>1, <1>3, <1>4
  <2>3. m.seat # 0
    BY <1>1 DEF Remote
  <2> QED BY <1>1, <1>5, <1>6, <2>1, <2>2, <2>3 DEF ClientKept
<1>9. OneRun'
  BY <1>1, <1>5 DEF IInv, OneRun, Active
<1>10. ASSUME NEW n \in net' PROVE DatagramSound(n)'
  <2>1. n \in net /\ DatagramSound(n) /\ n.peer \in Clients
        /\ ~(n.peer = c /\ n.verb = "WELCOME")
    BY <1>10, Typed DEF RecvWelcome, Without, IInv, DatagramsSound
  <2>2. CASE n.peer = c
    <3>1. n.verb # "ACT" /\ n.verb # "BYE"
      BY <1>1, <1>3, <2>1, <2>2 DEF DatagramSound
    <3> QED BY <1>5, <1>6, <2>1, <2>2, <3>1 DEF DatagramSound, Active
  <2>3. CASE n.peer # c
    BY <1>4, <1>5, <1>6, <2>1, <2>3 DEF DatagramSound, Active
  <2> QED BY <2>2, <2>3
<1> QED BY <1>1, <1>4, <1>5, <1>7, <1>8, <1>9, <1>10, OneClient DEF DatagramsSound

(* A newer view drops from the queue what the host has applied. *)
LEMMA SoundView ==
    ASSUME TInv, IInv, NEW m \in Received("VIEW"), RecvView(m)
    PROVE  IInv' /\ \A c \in Clients : Shown(c) <= Shown(c)'
<1> DEFINE c == m.peer
           q == pending[c]
           done == m.ids[seat[c]]
           from == Shown(c)
<1>1. /\ m \in net /\ c \in Clients /\ m.seat \in Remote /\ m.ids \in [Remote -> Nat]
      /\ cstate[c] = "playing" /\ addr[m.seat] = c /\ m.ids[m.seat] <= actid[m.seat]
  <2>1. m \in net /\ m.verb = "VIEW" /\ DatagramTyped(m) /\ DatagramSound(m)
    BY DEF Received, TInv, TypeOK, IInv, DatagramsSound
  <2> QED BY <2>1 DEF DatagramTyped, DatagramSound, RecvView
<1>2. ClientInOrder(c) /\ ClientKept(c)
  BY <1>1, OfClient DEF IInv
<1>3. /\ m.seat = seat[c] /\ seat[c] # 0 /\ done \in Nat /\ done <= base[c] + Len(applied[c])
  BY <1>1, <1>2 DEF ClientKept
<1>4. /\ UNCHANGED hostVars /\ cstate' = cstate /\ seat' = seat
      /\ su_actid' = su_actid /\ base' = base /\ applied' = applied
  BY DEF RecvView
<1>5. /\ base[c] \in Nat /\ su_actid[c] \in Nat /\ Len(applied[c]) \in Nat
      /\ q \in Seq(Nat) /\ Len(q) \in Nat
  BY <1>1, Typed
<1>6. from \in Nat /\ from + Len(q) = su_actid[c]
  <2>1. base[c] <= from
    BY <1>2 DEF ClientInOrder
  <2>2. from = su_actid[c] - Len(q)
    BY DEF Shown
  <2> HIDE DEF from, q, c
  <2> QED BY <1>5, <2>1, <2>2
<1>7. \A i \in 1..Len(q) : q[i] = from + i
  BY <1>2 DEF ClientInOrder
<1>8. /\ \A d \in Clients : d # c => pending'[d] = pending[d]
      /\ pending'[c] = q \/ pending'[c] = StillPending(q, done)
  BY <1>1 DEF RecvView, TInv, TypeOK, ClientsTyped
<1>9. PICK shown \in Nat :
         /\ shown = su_actid[c] - Len(pending'[c])
         /\ from <= shown /\ shown <= base[c] + Len(applied[c])
         /\ \A i \in 1..Len(pending'[c]) : pending'[c][i] = shown + i
  <2>1. CASE pending'[c] = q
    <3>1. from = su_actid[c] - Len(pending'[c]) /\ from <= from
      BY <1>5, <1>6, <2>1
    <3> QED BY <1>2, <1>6, <1>7, <2>1, <3>1 DEF ClientInOrder
  <2>2. CASE pending'[c] = StillPending(q, done)
    <3> DEFINE left == StillPending(q, done)
               shown == from + Len(q) - Len(left)
    <3>1. /\ left \in Seq(Nat) /\ Len(left) <= Len(q)
          /\ shown <= done \/ shown = from
          /\ \A i \in 1..Len(left) : left[i] = shown + i
      <4>1. /\ q \in Seq(Nat) /\ from \in Nat /\ done \in Nat
            /\ \A i \in 1..Len(q) : q[i] = from + i
        BY <1>3, <1>5, <1>6, <1>7
      <4> HIDE DEF from, q, done
      <4> QED BY ONLY <4>1, PendingLeft
    <3>2. Len(left) \in Nat
      BY <3>1
    <3> HIDE DEF left, from, q, done
    <3>3. shown \in Nat /\ shown = su_actid[c] - Len(left) /\ from <= shown
      BY <1>5, <1>6, <3>1, <3>2
    <3>4. from <= base[c] + Len(applied[c])
      BY <1>2 DEF ClientInOrder, from
    <3>5. shown <= base[c] + Len(applied[c])
      BY <1>3, <1>5, <1>6, <3>1, <3>3, <3>4, SMTT(30)
    <3> QED BY <2>2, <3>1, <3>3, <3>5 DEF left
  <2> QED BY <1>8, <2>1, <2>2
<1>10. Shown(c)' = shown
  BY <1>4, <1>9 DEF Shown
<1>11. ClientInOrder(c)'
  <2>1. base[c] <= shown
    BY <1>2, <1>5, <1>6, <1>9 DEF ClientInOrder
  <2>2. /\ base[c] + Len(applied[c]) <= su_actid[c]
        /\ \A i \in 1..Len(applied[c]) : applied[c][i] = base[c] + i
    BY <1>2 DEF ClientInOrder
  <2> QED BY <1>3, <1>4, <1>9, <1>10, <2>1, <2>2 DEF ClientInOrder
<1>12. ClientKept(c)'
  BY <1>2, <1>4 DEF ClientKept, hostVars
<1>13. OneRun'
  BY <1>4 DEF IInv, OneRun, Active
<1>14. ASSUME NEW n \in net' PROVE DatagramSound(n)'
  <2>1. n \in net \/ n = Ack(c, m.no)
    BY <1>14, CarriedIn DEF RecvView
  <2>2. DatagramSound(n)
    <3>1. DatagramSound(Ack(c, m.no))
      BY DEF Ack, DatagramSound
    <3> QED BY <2>1, <3>1 DEF IInv, DatagramsSound
  <2> QED BY <1>4, <2>2 DEF DatagramSound, Active, hostVars
<1>15. IInv'
  BY <1>1, <1>4, <1>8, <1>11, <1>12, <1>13, <1>14, OneClient DEF DatagramsSound
<1>16. ASSUME NEW d \in Clients PROVE Shown(d) <= Shown(d)'
  <2>1. CASE d = c
    BY <1>9, <1>10, <2>1
  <2>2. CASE d # c
    <3>1. Shown(d)' = Shown(d) /\ Shown(d) \in Int
      BY <1>4, <1>8, <2>2, Typed DEF Shown
    <3> QED BY <3>1
  <2> QED BY <2>1, <2>2
<1> QED BY <1>15, <1>16

(* A new action gets the next id. *)
LEMMA SoundQueue ==
    ASSUME TInv, IInv, NEW c \in Clients, QueueAct(c)
    PROVE  IInv'
<1>1. ClientInOrder(c) /\ ClientKept(c) /\ cstate[c] = "playing"
  BY OfClient DEF IInv, QueueAct
<1>2. /\ UNCHANGED hostVars /\ cstate' = cstate /\ seat' = seat /\ base' = base
      /\ applied' = applied /\ net' = net
      /\ su_actid' = [su_actid EXCEPT ![c] = @ + 1]
      /\ pending' = [pending EXCEPT ![c] = Append(@, su_actid[c] + 1)]
  BY DEF QueueAct
<1>3. /\ su_actid'[c] = su_actid[c] + 1 /\ pending'[c] = Append(pending[c], su_actid[c] + 1)
      /\ \A d \in Clients : d # c => su_actid'[d] = su_actid[d] /\ pending'[d] = pending[d]
  BY <1>2 DEF TInv, TypeOK, ClientsTyped
<1>4. /\ base[c] \in Nat /\ su_actid[c] \in Nat /\ Len(applied[c]) \in Nat
      /\ pending[c] \in Seq(Nat) /\ Len(pending[c]) \in Nat
  BY Typed
<1>5. /\ Len(pending'[c]) = Len(pending[c]) + 1
      /\ pending'[c][Len(pending[c]) + 1] = su_actid[c] + 1
      /\ \A i \in 1..Len(pending[c]) : pending'[c][i] = pending[c][i]
  BY <1>3, <1>4
<1>6. Shown(c)' = Shown(c) /\ Shown(c) = su_actid[c] - Len(pending[c])
  <2>1. su_actid'[c] = su_actid[c] + 1 /\ Len(pending'[c]) = Len(pending[c]) + 1
    BY <1>3, <1>5
  <2>2. su_actid[c] \in Nat /\ Len(pending[c]) \in Nat
    BY <1>4
  <2>3. Shown(c)' = Shown(c)
    BY ONLY <2>1, <2>2 DEF Shown
  <2> QED BY <2>3 DEF Shown
<1>7. ClientInOrder(c)'
  <2>1. \A i \in 1..Len(pending'[c]) : pending'[c][i] = Shown(c) + i
    <3> SUFFICES ASSUME NEW i \in 1..Len(pending'[c])
                 PROVE  pending'[c][i] = Shown(c) + i
      OBVIOUS
    <3>1. i \in 1..Len(pending[c]) \/ i = Len(pending[c]) + 1
      BY <1>4, <1>5
    <3>2. CASE i \in 1..Len(pending[c])
      BY <1>1, <1>5, <3>2 DEF ClientInOrder
    <3>3. CASE i = Len(pending[c]) + 1
      BY <1>4, <1>5, <1>6, <3>3
    <3> QED BY <3>1, <3>2, <3>3
  <2>2. /\ seat[c] # 0 /\ base[c] <= Shown(c) /\ Shown(c) <= base[c] + Len(applied[c])
        /\ base[c] + Len(applied[c]) <= su_actid[c]
        /\ \A i \in 1..Len(applied[c]) : applied[c][i] = base[c] + i
    BY <1>1 DEF ClientInOrder, ClientKept
  <2>3. base[c] + Len(applied[c]) <= su_actid[c] + 1
    BY <1>4, <2>2
  <2> QED BY <1>2, <1>3, <1>6, <2>1, <2>2, <2>3 DEF ClientInOrder
<1>8. ClientKept(c)'
  BY <1>1, <1>2 DEF ClientKept, hostVars
<1>9. OneRun'
  BY <1>2 DEF IInv, OneRun, Active
<1>10. ASSUME NEW n \in net' PROVE DatagramSound(n)'
  <2>1. n \in net /\ DatagramSound(n) /\ n.peer \in Clients /\ n.no \in Nat
    BY <1>2, <1>10, Typed DEF IInv, DatagramsSound
  <2>2. n.no <= su_actid[n.peer] => n.no <= su_actid'[n.peer]
    BY <1>3, <1>4, <2>1
  <2> QED BY <1>2, <2>1, <2>2 DEF DatagramSound, Active, hostVars
<1> QED BY <1>2, <1>3, <1>7, <1>8, <1>9, <1>10, OneClient DEF DatagramsSound

(* A client starts when no other of its player runs. *)
LEMMA SoundStart ==
    ASSUME TInv, IInv, NEW c \in Clients, Start(c)
    PROVE  IInv'
<1>1. ClientInOrder(c) /\ ClientKept(c) /\ cstate[c] = "off"
  BY OfClient DEF IInv, Start
<1>2. /\ UNCHANGED hostVars /\ seat' = seat /\ base' = base /\ su_actid' = su_actid
      /\ pending' = pending /\ applied' = applied /\ net' = net
      /\ cstate' = [cstate EXCEPT ![c] = "joining"]
  BY DEF Start
<1>3. cstate'[c] = "joining" /\ \A d \in Clients : d # c => cstate'[d] = cstate[d]
  BY <1>2 DEF TInv, TypeOK, ClientsTyped
<1>4. ClientInOrder(c)' /\ ClientKept(c)'
  BY <1>1, <1>2, <1>3 DEF ClientInOrder, ClientKept, Shown, hostVars
<1>5. OneRun'
  <2>1. \A d \in Clients : d # c /\ Nick[d] = Nick[c] => ~Active(d)
    BY DEF Start, Active
  <2> QED BY <1>3, <2>1 DEF IInv, OneRun, Active
<1>6. ASSUME NEW n \in net' PROVE DatagramSound(n)'
  <2>1. n \in net /\ DatagramSound(n) /\ n.peer \in Clients
    BY <1>2, <1>6, Typed DEF IInv, DatagramsSound
  <2>2. CASE n.peer = c
    <3>1. n.verb \notin {"JOIN", "BYE", "WELCOME", "VIEW"}
      BY <1>1, <2>1, <2>2 DEF DatagramSound, Active
    <3> QED BY <1>2, <2>1, <3>1 DEF DatagramSound
  <2>3. CASE n.peer # c
    BY <1>2, <1>3, <2>1, <2>3 DEF DatagramSound, Active, hostVars
  <2> QED BY <2>2, <2>3
<1> QED BY <1>2, <1>3, <1>4, <1>5, <1>6, OneClient DEF DatagramsSound

(* The host by itself. *)
LEMMA SoundHost ==
    ASSUME TInv, IInv, \/ HostMove \/ HostSendViews \/ HostResend \/ HostQuit
                       \/ \E s \in Remote : HostSilence(s)
    PROVE  IInv'
<1>1. /\ UNCHANGED <<name, kind, addr, actid>>
      /\ UNCHANGED <<cstate, seat, su_actid, pending, base, applied>>
  BY DEF HostMove, HostSendViews, HostResend, HostSilence, HostQuit, hostVars, clientVars
<1>2. CASE HostMove \/ \E s \in Remote : HostSilence(s)
  <2>1. net' = net
    BY <1>2 DEF HostMove, HostSilence
  <2> QED BY <1>1, <2>1, Inert
<1>3. CASE HostSendViews \/ HostResend
  <2>1. PICK ss : ss \subseteq Remote /\ net' = Carried(net \cup SendViews(ss))
    BY <1>3 DEF HostSendViews, HostResend
  <2>2. ASSUME NEW n \in net' PROVE n \in net \/ DatagramSound(n)
    <3>1. n \in net \/ n \in SendViews(ss)
      BY <2>1, <2>2, CarriedIn
    <3>2. n.verb \notin ToHost => Reads(n.peer, n.verb)
      BY <2>1, <2>2, CarriedIn
    <3>3. ASSUME n \in SendViews(ss) PROVE DatagramSound(n)
      <4>1. HostTyped
        BY DEF TInv, TypeOK
      <4>2. /\ n.verb = "VIEW" /\ n.seat \in Remote
            /\ addr[n.seat] = n.peer /\ n.ids = actid
        BY <2>1, <3>3, <4>1, ViewsSent
      <4>3. Active(n.peer)
        BY <3>2, <4>2 DEF ToHost, Reads, Active
      <4>4. n.ids[n.seat] <= actid[n.seat]
        BY <4>2, Typed
      <4> QED BY <4>2, <4>3, <4>4 DEF DatagramSound
    <3> QED BY <3>1, <3>3
  <2> QED BY <1>1, <2>2, Inert
<1>4. CASE HostQuit
  <2>1. ASSUME NEW n \in net' PROVE n \in net \/ DatagramSound(n)
    <3>1. n \in net \/ \E s \in Remote : n = HostBye(addr[s])
      BY <1>4, <2>1, CarriedIn DEF HostQuit
    <3>2. \A a : DatagramSound(HostBye(a))
      BY DEF HostBye, DatagramSound
    <3> QED BY <3>1, <3>2
  <2> QED BY <1>1, <2>1, Inert
<1> QED BY <1>2, <1>3, <1>4

(* What a client sends while it runs. *)
LEMMA SoundSend ==
    ASSUME TInv, IInv, NEW c \in Clients, JoinTry(c) \/ SendAct(c) \/ SendPing(c)
    PROVE  IInv'
<1>1. /\ UNCHANGED <<name, kind, addr, actid>>
      /\ UNCHANGED <<cstate, seat, su_actid, pending, base, applied>>
  BY DEF JoinTry, SendAct, SendPing, hostVars, clientVars
<1>2. ASSUME NEW n \in net' PROVE n \in net \/ DatagramSound(n)
  <2>1. CASE JoinTry(c)
    <3>1. n \in net \/ n = Join(c, tries[c] + 1)
      BY <1>2, <2>1, CarriedIn DEF JoinTry
    <3>2. DatagramSound(Join(c, tries[c] + 1))
      BY <2>1 DEF JoinTry, Join, DatagramSound, Active
    <3> QED BY <3>1, <3>2
  <2>2. CASE SendAct(c)
    <3>1. n \in net \/ n = Act(c, Head(pending[c]))
      BY <1>2, <2>2, CarriedIn DEF SendAct
    <3>2. ClientInOrder(c) /\ ClientKept(c) /\ cstate[c] = "playing" /\ pending[c] # <<>>
      BY <2>2, OfClient DEF IInv, SendAct
    <3>3. /\ base[c] \in Nat /\ su_actid[c] \in Nat /\ Len(applied[c]) \in Nat
          /\ pending[c] \in Seq(Nat) /\ Len(pending[c]) \in Nat
      BY Typed
    <3>4. Len(pending[c]) >= 1 /\ Head(pending[c]) = pending[c][1]
      BY <3>2, <3>3
    <3>5. Head(pending[c]) = Shown(c) + 1 /\ Shown(c) = su_actid[c] - Len(pending[c])
      BY <3>2, <3>3, <3>4 DEF ClientInOrder, Shown
    <3>6. base[c] <= Shown(c) /\ Shown(c) <= base[c] + Len(applied[c])
      BY <3>2 DEF ClientInOrder
    <3>7. /\ base[c] < Head(pending[c])
          /\ Head(pending[c]) <= base[c] + Len(applied[c]) + 1
          /\ Head(pending[c]) <= su_actid[c]
      BY ONLY <3>3, <3>4, <3>5, <3>6, SMTT(30)
    <3>8. DatagramSound(Act(c, Head(pending[c])))
      BY <3>2, <3>7, SMTT(30) DEF Act, DatagramSound, ClientKept
    <3> QED BY <3>1, <3>8
  <2>3. CASE SendPing(c)
    <3>1. n \in net \/ n = Ping(c)
      BY <1>2, <2>3, CarriedIn DEF SendPing
    <3>2. DatagramSound(Ping(c))
      BY DEF Ping, DatagramSound
    <3> QED BY <3>1, <3>2
  <2> QED BY <2>1, <2>2, <2>3
<1> QED BY <1>1, <1>2, Inert

(* A client ends: nothing of it but its BYE is left on the network. *)
LEMMA SoundQuit ==
    ASSUME TInv, IInv, ~LateJoins, NEW c \in Clients, GiveUp(c) \/ Quit(c) \/ Crash(c)
    PROVE  IInv'
<1>1. /\ cstate[c] # "left" /\ cstate' = [cstate EXCEPT ![c] = "left"]
      /\ UNCHANGED <<name, kind, addr, actid>>
      /\ UNCHANGED <<seat, su_actid, pending, base, applied>>
  BY DEF GiveUp, Quit, Crash, hostVars
<1>2. \A n \in net' : n \in Ended(c) \/ n = Bye(c)
  BY CarriedIn DEF GiveUp, Quit, Crash
<1> QED BY <1>1, <1>2, Leaving

(* A client that is refused, or told that the host is gone, ends or goes on. *)
LEMMA SoundTold ==
    ASSUME TInv, IInv, ~LateJoins, NEW m, \/ m \in Received("FULL") /\ RecvFull(m)
                                          \/ m \in Received("HOSTBYE") /\ RecvHostBye(m)
    PROVE  IInv'
<1> DEFINE c == m.peer
<1>1. c \in Clients
  BY Typed DEF Received
<1>2. /\ UNCHANGED <<name, kind, addr, actid>>
      /\ UNCHANGED <<seat, su_actid, pending, base, applied>>
  BY DEF RecvFull, RecvHostBye, hostVars
<1>3. cstate[c] # "left"
  BY DEF RecvFull, RecvHostBye
<1>4. CASE cstate' = [cstate EXCEPT ![c] = "left"] /\ net' = Ended(c)
  BY <1>1, <1>2, <1>3, <1>4, Leaving
<1>5. CASE cstate' = cstate /\ net' = net \ {m}
  BY <1>2, <1>5, Inert
<1> QED BY <1>4, <1>5 DEF RecvFull, RecvHostBye

(* At an open table nobody is seated and no queue has begun. *)
LEMMA SoundInit == Init => IInv
<1> SUFFICES ASSUME Init PROVE IInv
  OBVIOUS
<1>1. SeatsNamed
  <2>1. /\ name[0] = HostNick
        /\ \A s \in Remote :
              IF s <= Bots THEN kind[s] = "bot" /\ name[s] = BotNick[s] /\ addr[s] = NoAddr
              ELSE kind[s] = "" /\ name[s] = NoName /\ addr[s] = NoAddr
    <3>1. 0 \in AllSeats /\ \A s \in Remote : s \in AllSeats /\ s # 0
      BY DEF AllSeats, Remote
    <3>2. name[0] = HostNick
      BY <3>1 DEF Init
    <3>3. ASSUME NEW s \in Remote
          PROVE  IF s <= Bots THEN kind[s] = "bot" /\ name[s] = BotNick[s] /\ addr[s] = NoAddr
                 ELSE kind[s] = "" /\ name[s] = NoName /\ addr[s] = NoAddr
      BY <3>1 DEF Init
    <3> QED BY <3>2, <3>3
  <2> QED BY <2>1 DEF SeatsNamed
<1>2. OneRun /\ SeatKept
  BY DEF Init, OneRun, SeatKept, Active
<1>3. QueueInOrder
  <2> SUFFICES ASSUME NEW c \in Clients PROVE ClientInOrder(c)
    BY OfClient
  <2>1. /\ su_actid[c] = 0 /\ base[c] = 0 /\ pending[c] = <<>> /\ applied[c] = <<>>
        /\ Len(<<>>) = 0
    BY DEF Init
  <2>2. Shown(c) = 0
    <3>1. su_actid[c] = 0 /\ Len(pending[c]) = 0
      BY <2>1
    <3> QED BY ONLY <3>1 DEF Shown
  <2> QED BY <2>1, <2>2 DEF ClientInOrder
<1>4. DatagramsSound
  BY DEF Init, DatagramsSound
<1> QED BY <1>1, <1>2, <1>3, <1>4 DEF IInv

(* What takes a datagram off the network and gives nothing for it. *)
LEMMA SoundLose ==
    ASSUME IInv, NEW m, RecvAck(m) \/ RecvPing(m) \/ Lose(m)
    PROVE  IInv'
<1>1. /\ UNCHANGED <<name, kind, addr, actid>>
      /\ UNCHANGED <<cstate, seat, su_actid, pending, base, applied>>
  BY DEF RecvAck, RecvPing, Lose, hostVars, clientVars
<1>2. \A n \in net' : n \in net
  BY DEF RecvAck, RecvPing, Lose
<1> QED BY <1>1, <1>2, Inert

(* Every step keeps it. *)
LEMMA SoundNext ==
    ASSUME NoNamesake, ~LateJoins
    PROVE  TInv /\ IInv /\ [Next]_vars => IInv'
<1> SUFFICES ASSUME TInv, IInv, [Next]_vars PROVE IInv'
  OBVIOUS
<1>1. CASE HostStep
  <2>1. CASE \E m \in Received("JOIN") : RecvJoin(m)
    BY <2>1, SoundJoin
  <2>2. CASE \E m \in Received("ACK") : RecvAck(m)
    BY <2>2, SoundLose
  <2>3. CASE \E m \in Received("ACT") : RecvAct(m)
    BY <2>3, SoundAct
  <2>4. CASE \E m \in Received("PING") : RecvPing(m)
    BY <2>4, SoundLose
  <2>5. CASE \E m \in Received("BYE") : RecvBye(m)
    BY <2>5, SoundBye
  <2> QED BY <1>1, <2>1, <2>2, <2>3, <2>4, <2>5, SoundHost DEF HostStep
<1>2. CASE ClientStep
  BY <1>2, SoundWelcome, SoundTold, SoundView, SoundStart, SoundSend, SoundQueue, SoundQuit
  DEF ClientStep
<1>3. CASE \E m \in net : Lose(m)
  BY <1>3, SoundLose
<1>4. CASE UNCHANGED vars
  <2>1. /\ UNCHANGED <<name, kind, addr, actid>> /\ net' = net
        /\ UNCHANGED <<cstate, seat, su_actid, pending, base, applied>>
    BY <1>4 DEF vars, hostVars, clientVars
  <2> QED BY <2>1, Inert
<1> QED BY <1>1, <1>2, <1>3, <1>4 DEF Next

(* The inductive invariant holds in every state. *)
LEMMA Invariant ==
    ASSUME NoNamesake, ~LateJoins
    PROVE  Spec => [](TInv /\ IInv)
<1>1. Init => TInv /\ IInv
  BY GoodInit, SoundInit
<1>2. TInv /\ IInv /\ [Next]_vars => (TInv /\ IInv)'
  BY GoodNext, SoundNext
<1> QED BY <1>1, <1>2, PTL DEF Spec

(* However often a JOIN is sent again, by a client or by its player's next  *)
(* client, no address has two seats.                                        *)
THEOREM OneSeatForEach ==
    ASSUME NoNamesake, ~LateJoins
    PROVE  Spec => []OneSeatEach
<1>1. IInv => OneSeatEach
  BY OneSeatOf DEF IInv
<1> QED BY <1>1, Invariant, PTL

(* The n-th action the host applies for a client is the n-th it queued. *)
THEOREM ActionsAppliedInOrder ==
    ASSUME NoNamesake, ~LateJoins
    PROVE  Spec => []AppliedInOrder
<1>1. TInv /\ IInv => AppliedInOrder
  <2> SUFFICES ASSUME TInv, IInv, NEW c \in Clients
               PROVE  applied[c] = [i \in 1..Len(applied[c]) |-> base[c] + i]
    BY DEF AppliedInOrder
  <2>1. applied[c] \in Seq(Nat) /\ \A i \in 1..Len(applied[c]) : applied[c][i] = base[c] + i
    BY Typed DEF IInv, QueueInOrder
  <2> QED BY <2>1
<1> QED BY <1>1, Invariant, PTL

(* What has left su_pending is what the host has applied for this client. *)
THEOREM WhatLeftWasApplied ==
    ASSUME NoNamesake, ~LateJoins
    PROVE  Spec => []DroppedWasApplied
<1>1. TInv /\ IInv => DroppedWasApplied
  <2> SUFFICES ASSUME TInv, IInv, NEW c \in Clients, NEW id \in (base[c] + 1)..su_actid[c],
                      id \notin Range(applied[c])
               PROVE  id \in Range(pending[c])
    BY DEF DroppedWasApplied
  <2>1. ClientInOrder(c)
    BY OfClient DEF IInv
  <2>2. /\ base[c] \in Nat /\ su_actid[c] \in Nat /\ id \in Nat
        /\ pending[c] \in Seq(Nat) /\ Len(pending[c]) \in Nat
        /\ applied[c] \in Seq(Nat) /\ Len(applied[c]) \in Nat
    BY Typed
  <2>3. id > base[c] + Len(applied[c])
    <3> SUFFICES ASSUME id <= base[c] + Len(applied[c]) PROVE FALSE
      BY <2>2
    <3>1. id - base[c] \in 1..Len(applied[c]) /\ base[c] + (id - base[c]) = id
      BY <2>2
    <3>2. applied[c][id - base[c]] = id /\ id - base[c] \in DOMAIN applied[c]
      BY <2>1, <2>2, <3>1, SMTT(30) DEF ClientInOrder
    <3> QED BY <3>2 DEF Range
  <2>4. PICK shown \in Int : shown = su_actid[c] - Len(pending[c])
    BY <2>2
  <2>5. /\ shown <= base[c] + Len(applied[c])
        /\ \A i \in 1..Len(pending[c]) : pending[c][i] = shown + i
    BY <2>1, <2>4 DEF ClientInOrder, Shown
  <2>6. id - shown \in 1..Len(pending[c]) /\ shown + (id - shown) = id
    <3>1. id <= su_actid[c]
      BY <2>2
    <3>2. id > shown /\ id <= shown + Len(pending[c])
      <4>1. shown <= base[c] + Len(applied[c])
        BY <2>5
      <4> QED BY ONLY <2>2, <2>3, <2>4, <3>1, <4>1, shown \in Int, SMTT(30)
    <3> QED BY ONLY <2>2, <3>2, shown \in Int, SMTT(30)
  <2>7. pending[c][id - shown] = id /\ id - shown \in DOMAIN pending[c]
    BY <2>2, <2>5, <2>6
  <2> QED BY <2>7 DEF Range
<1> QED BY <1>1, Invariant, PTL

----------------------------------------------------------------------------
(***************************************************************************)
(* The protocol implements SochiPromise: an ACT that is applied is the     *)
(* promise's Apply, a line that is typed its Issue, a newer view its Learn *)
(* or nothing, and everything else is nothing.                             *)
(***************************************************************************)
LEMMA PromiseInit == Init => Promise!Init
<1> SUFFICES ASSUME Init PROVE Promise!Init
  OBVIOUS
<1>1. \A c \in Clients :
         /\ su_actid[c] = 0 /\ base[c] = 0 /\ Len(pending[c]) = 0 /\ Len(applied[c]) = 0
  BY DEF Init
<1>2. \A c \in Clients :
         /\ su_actid[c] - base[c] = 0 /\ su_actid[c] - base[c] - Len(pending[c]) = 0
         /\ Len(applied[c]) = 0
  BY ONLY <1>1
<1> QED BY <1>2 DEF Promise!Init

(* The three functions change as their values for each client do. *)
LEMMA PromiseSame ==
    ASSUME \A c \in Clients :
              /\ su_actid'[c] - base'[c] = su_actid[c] - base[c]
              /\ su_actid'[c] - base'[c] - Len(pending'[c]) = su_actid[c] - base[c] - Len(pending[c]),
           \A c \in Clients : Len(applied'[c]) = Len(applied[c])
    PROVE  UNCHANGED Promise!vars
BY DEF Promise!vars

(* An ACT that is applied is the promise's Apply, an old one is nothing. *)
LEMMA PromiseAct ==
    ASSUME TInv, IInv, NEW m \in Received("ACT"), RecvAct(m)
    PROVE  [Promise!Next]_(Promise!vars)
<1> DEFINE c == m.peer
           s == SeatOf(c)
           fresh == s # 0 /\ Fresh(s, m.no)
<1>1. su_actid' = su_actid /\ base' = base /\ pending' = pending
  BY DEF RecvAct, clientVars
<1>2. CASE ~fresh
  <2>1. applied' = applied
    BY <1>2 DEF RecvAct
  <2> QED BY <1>1, <2>1 DEF Promise!vars
<1>3. CASE fresh
  <2>1. /\ c \in Clients /\ m.no \in Nat /\ seat[c] # 0
        /\ m.no <= su_actid[c]
    BY Typed DEF Received, IInv, DatagramsSound, DatagramSound
  <2>2. actid[s] = base[c] + Len(applied[c]) /\ m.no > actid[s]
    <3>1. s \in Remote /\ addr[s] = c
      BY <1>3, SeatOfIs
    <3> QED BY <1>3, <2>1, <3>1 DEF IInv, SeatKept, Fresh
  <2>3. /\ base[c] \in Nat /\ su_actid[c] \in Nat
        /\ applied[c] \in Seq(Nat) /\ Len(applied[c]) \in Nat
    BY <2>1, Typed
  <2>4. Len(applied[c]) < su_actid[c] - base[c]
    <3> HIDE DEF s
    <3> QED BY ONLY <2>1, <2>2, <2>3
  <2>5. applied' = [applied EXCEPT ![c] = Append(@, m.no)]
    BY <1>3 DEF RecvAct
  <2>6. /\ Len(applied'[c]) = Len(applied[c]) + 1
        /\ \A d \in Clients : d # c => applied'[d] = applied[d]
    BY <2>1, <2>3, <2>5 DEF TInv, TypeOK, ClientsTyped
  <2>7. [d \in Clients |-> Len(applied'[d])]
            = [[d \in Clients |-> Len(applied[d])] EXCEPT ![c] = @ + 1]
    BY <2>1, <2>6
  <2>8. Promise!Apply(c)
    BY <1>1, <2>1, <2>4, <2>7 DEF Promise!Apply
  <2> QED BY <2>1, <2>8 DEF Promise!Next
<1> QED BY <1>2, <1>3

(* A line that is typed is its Issue. *)
LEMMA PromiseQueue ==
    ASSUME TInv, NEW c \in Clients, QueueAct(c)
    PROVE  [Promise!Next]_(Promise!vars)
<1>1. /\ base' = base /\ applied' = applied
      /\ su_actid' = [su_actid EXCEPT ![c] = @ + 1]
      /\ pending' = [pending EXCEPT ![c] = Append(@, su_actid[c] + 1)]
  BY DEF QueueAct
<1>2. /\ base[c] \in Nat /\ su_actid[c] \in Nat
      /\ pending[c] \in Seq(Nat) /\ Len(pending[c]) \in Nat
  BY Typed
<1>3. /\ su_actid'[c] = su_actid[c] + 1 /\ Len(pending'[c]) = Len(pending[c]) + 1
      /\ \A d \in Clients : d # c => su_actid'[d] = su_actid[d] /\ pending'[d] = pending[d]
  BY <1>1, <1>2 DEF TInv, TypeOK, ClientsTyped
<1>4. /\ su_actid'[c] - base[c] = (su_actid[c] - base[c]) + 1
      /\ su_actid'[c] - base[c] - Len(pending'[c]) = su_actid[c] - base[c] - Len(pending[c])
  <2>1. su_actid'[c] = su_actid[c] + 1 /\ Len(pending'[c]) = Len(pending[c]) + 1
    BY <1>3
  <2>2. base[c] \in Nat /\ su_actid[c] \in Nat /\ Len(pending[c]) \in Nat
    BY <1>2
  <2>3. \A i, j, n \in Nat : (i + 1) - j = (i - j) + 1 /\ (i + 1) - j - (n + 1) = i - j - n
    OBVIOUS
  <2>4. /\ (su_actid[c] + 1) - base[c] = (su_actid[c] - base[c]) + 1
        /\ (su_actid[c] + 1) - base[c] - (Len(pending[c]) + 1)
               = su_actid[c] - base[c] - Len(pending[c])
    BY ONLY <2>2, <2>3
  <2> QED BY ONLY <2>1, <2>4
<1>5. [d \in Clients |-> su_actid'[d] - base'[d]]
          = [[d \in Clients |-> su_actid[d] - base[d]] EXCEPT ![c] = @ + 1]
  <2>1. \A d \in Clients : su_actid'[d] - base'[d]
            = IF d = c THEN (su_actid[d] - base[d]) + 1 ELSE su_actid[d] - base[d]
    BY <1>1, <1>3, <1>4
  <2> QED BY <2>1
<1>6. [d \in Clients |-> su_actid'[d] - base'[d] - Len(pending'[d])]
          = [d \in Clients |-> su_actid[d] - base[d] - Len(pending[d])]
  BY <1>1, <1>3, <1>4
<1>7. Promise!Issue(c)
  BY <1>1, <1>5, <1>6 DEF Promise!Issue
<1> QED BY <1>7 DEF Promise!Next

(* A client that starts from the id in its WELCOME has issued nothing yet. *)
LEMMA PromiseWelcome ==
    ASSUME TInv, IInv, NEW m \in Received("WELCOME"), RecvWelcome(m)
    PROVE  UNCHANGED Promise!vars
<1> DEFINE c == m.peer
<1>1. m.no \in Nat /\ c \in Clients
  BY Typed DEF Received
<1>2. ClientInOrder(c) /\ ClientKept(c) /\ cstate[c] = "joining"
  BY <1>1, OfClient DEF IInv, RecvWelcome
<1>3. su_actid[c] = 0 /\ base[c] = 0 /\ Len(pending[c]) = 0
  BY <1>2 DEF ClientInOrder, ClientKept
<1>4. /\ su_actid' = [su_actid EXCEPT ![c] = m.no] /\ base' = [base EXCEPT ![c] = m.no]
      /\ pending' = pending /\ applied' = applied
  BY DEF RecvWelcome, FirstId
<1>5. /\ su_actid'[c] = m.no /\ base'[c] = m.no
      /\ \A d \in Clients : d # c => su_actid'[d] = su_actid[d] /\ base'[d] = base[d]
  BY <1>1, <1>4 DEF TInv, TypeOK, ClientsTyped
<1>6. /\ su_actid'[c] - base'[c] = su_actid[c] - base[c]
      /\ su_actid'[c] - base'[c] - Len(pending[c]) = su_actid[c] - base[c] - Len(pending[c])
  <2>1. su_actid'[c] = m.no /\ base'[c] = m.no
    BY <1>5
  <2> HIDE DEF c
  <2> QED BY ONLY <1>1, <1>3, <2>1
<1> QED BY <1>4, <1>5, <1>6, PromiseSame

(* A view that shows more as applied is its Learn, another view nothing. *)
LEMMA PromiseView ==
    ASSUME TInv, IInv, NEW m \in Received("VIEW"), RecvView(m)
    PROVE  [Promise!Next]_(Promise!vars)
<1> DEFINE c == m.peer
           old == su_actid[c] - base[c] - Len(pending[c])
           new == su_actid[c] - base[c] - Len(pending'[c])
<1>1. c \in Clients /\ su_actid' = su_actid /\ base' = base /\ applied' = applied
  BY Typed DEF Received, RecvView
<1>2. \A d \in Clients : d # c => pending'[d] = pending[d]
  BY <1>1 DEF RecvView, TInv, TypeOK, ClientsTyped
<1>3. /\ base[c] \in Nat /\ su_actid[c] \in Nat /\ Len(applied[c]) \in Nat
      /\ Len(pending[c]) \in Nat
  BY <1>1, Typed
<1>4. Len(pending'[c]) \in Nat
  <2>1. pending'[c] \in Seq(Nat)
    BY <1>1, GoodView DEF TInv, TypeOK, ClientsTyped
  <2> QED BY <2>1
<1>5. /\ su_actid[c] - Len(pending[c]) <= su_actid[c] - Len(pending'[c])
      /\ su_actid[c] - Len(pending'[c]) <= base[c] + Len(applied[c])
  <2>1. IInv' /\ Shown(c) <= Shown(c)'
    BY <1>1, SoundView
  <2>2. Shown(c)' <= (base[c] + Len(applied[c]))'
    BY <1>1, <2>1 DEF IInv, QueueInOrder
  <2>3. Shown(c) = su_actid[c] - Len(pending[c])
    BY DEF Shown
  <2>4. Shown(c)' = su_actid[c] - Len(pending'[c])
    BY <1>1 DEF Shown
  <2> QED BY <1>1, <2>1, <2>2, <2>3, <2>4
<1>6. /\ old \in Int /\ new \in Int /\ old <= new
      /\ new <= Len(applied[c])
  <2> DEFINE a == su_actid[c]
             b == base[c]
             p == Len(pending[c])
             r == Len(pending'[c])
             n == Len(applied[c])
  <2>1. a \in Nat /\ b \in Nat /\ p \in Nat /\ r \in Nat /\ n \in Nat
    BY <1>3, <1>4
  <2>2. a - p <= a - r /\ a - r <= b + n
    BY <1>5
  <2>3. old = a - b - p /\ new = a - b - r
    OBVIOUS
  <2> HIDE DEF old, new, a, b, p, r
  <2>4. old \in Int /\ new \in Int /\ old <= new /\ new <= n
    <3> HIDE DEF n
    <3> QED BY ONLY <2>1, <2>2, <2>3
  <2> QED BY <2>4
<1>7. [d \in Clients |-> su_actid'[d] - base'[d] - Len(pending'[d])]
          = [[d \in Clients |-> su_actid[d] - base[d] - Len(pending[d])] EXCEPT ![c] = new]
  BY <1>1, <1>2
<1>8. CASE new = old
  <2>1. [d \in Clients |-> su_actid'[d] - base'[d] - Len(pending'[d])]
            = [d \in Clients |-> su_actid[d] - base[d] - Len(pending[d])]
    BY <1>1, <1>2, <1>8
  <2> QED BY <1>1, <2>1 DEF Promise!vars
<1>9. CASE new # old
  <2>1. new \in (old + 1)..Len(applied[c])
    <3>1. Len(applied[c]) \in Int
      BY <1>3
    <3> HIDE DEF old, new, c
    <3> QED BY <1>6, <1>9, <3>1
  <2>2. Promise!Learn(c)
    BY <1>1, <1>7, <2>1 DEF Promise!Learn
  <2> QED BY <1>1, <2>2 DEF Promise!Next
<1> QED BY <1>8, <1>9

(* The host's steps but an ACT, and a player's but a line and a view, are *)
(* nothing to the promise.                                                *)
LEMMA PromiseHost ==
    ASSUME \/ HostMove \/ HostSendViews \/ HostResend \/ HostQuit
           \/ \E s \in Remote : HostSilence(s)
           \/ \E m : RecvJoin(m) \/ RecvAck(m) \/ RecvPing(m) \/ RecvBye(m) \/ Lose(m)
    PROVE  UNCHANGED Promise!vars
<1>1. UNCHANGED <<su_actid, base, pending, applied>>
  <2>1. CASE \E m : RecvJoin(m) \/ RecvAck(m) \/ RecvPing(m) \/ RecvBye(m) \/ Lose(m)
    BY <2>1 DEF RecvJoin, RecvAck, RecvPing, RecvBye, Lose, clientVars
  <2>2. CASE \/ HostMove \/ HostSendViews \/ HostResend \/ HostQuit
             \/ \E s \in Remote : HostSilence(s)
    BY <2>2 DEF HostMove, HostSendViews, HostResend, HostQuit, HostSilence, clientVars
  <2> QED BY <2>1, <2>2
<1> QED BY <1>1 DEF Promise!vars

(* A client that joins, sends, is refused or ends does nothing to the promise. *)
LEMMA PromiseClient ==
    ASSUME \/ \E m : RecvFull(m) \/ RecvHostBye(m)
           \/ \E c \in Clients : \/ Start(c) \/ JoinTry(c) \/ GiveUp(c) \/ SendAct(c)
                                \/ SendPing(c) \/ Quit(c) \/ Crash(c)
    PROVE  UNCHANGED Promise!vars
<1>1. UNCHANGED <<su_actid, base, pending, applied>>
  BY DEF RecvFull, RecvHostBye, Start, JoinTry, GiveUp, SendAct, SendPing, Quit, Crash, clientVars
<1> QED BY <1>1 DEF Promise!vars

(* Every step of the protocol is a step of the promise or none. *)
LEMMA PromiseNext ==
    ASSUME TInv, IInv, [Next]_vars
    PROVE  [Promise!Next]_(Promise!vars)
<1>1. CASE HostStep
  <2>1. CASE \E m \in Received("ACT") : RecvAct(m)
    BY <2>1, PromiseAct
  <2>2. CASE ~ \E m \in Received("ACT") : RecvAct(m)
    BY <1>1, <2>2, PromiseHost DEF HostStep
  <2> QED BY <2>1, <2>2
<1>2. CASE ClientStep
  <2>1. CASE \E m \in Received("WELCOME") : RecvWelcome(m)
    BY <2>1, PromiseWelcome
  <2>2. CASE \E m \in Received("VIEW") : RecvView(m)
    BY <2>2, PromiseView
  <2>3. CASE \E c \in Clients : QueueAct(c)
    BY <2>3, PromiseQueue
  <2> QED BY <1>2, <2>1, <2>2, <2>3, PromiseClient DEF ClientStep
<1>3. CASE \E m \in net : Lose(m)
  BY <1>3, PromiseHost
<1>4. CASE UNCHANGED vars
  BY <1>4 DEF vars, hostVars, clientVars, Promise!vars
<1> QED BY <1>1, <1>2, <1>3, <1>4 DEF Next

(* A player's lines reach the game exactly once and in order, and the       *)
(* player's program forgets one only after the game has it: the protocol    *)
(* implements SochiPromise.                                                 *)
THEOREM PromiseKept ==
    ASSUME NoNamesake, ~LateJoins
    PROVE  Spec => KeepsPromise
<1>1. Init => Promise!Init
  BY PromiseInit
<1>2. TInv /\ IInv /\ [Next]_vars => [Promise!Next]_(Promise!vars)
  BY PromiseNext
<1> QED BY <1>1, <1>2, Invariant, PTL DEF Spec, KeepsPromise, Promise!Spec
=============================================================================
