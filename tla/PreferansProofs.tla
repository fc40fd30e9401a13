-------------------------- MODULE PreferansProofs ---------------------------
(***************************************************************************)
(* What the rules of Preferans guarantee for every deck, hand size and     *)
(* number of hands, as long as no discard arrives after its phase.         *)
(***************************************************************************)
EXTENDS Preferans, FiniteSetTheorems, SequenceTheorems, TLAPS

----------------------------------------------------------------------------
(* The inductive invariant *)

InHand == {"bid", "discard", "contract", "whist", "whist2", "play"}
Says == {"", "whist", "pass", "half"}

(* Cards are the deck's, seats are seats, and what is counted is a number. *)
Typed ==
    /\ phase \in InHand \cup {"lobby", "done", "over"}
    /\ dealer \in Seats
    /\ hands \in [Seats -> SUBSET Deck]
    /\ bids \in [Seats -> Int]
    /\ wst \in [Seats -> Says]
    /\ tricks \in [Seats -> Nat]
    /\ handno \in Nat /\ trickno \in Nat
    /\ high \in Int /\ contract \in Int /\ open \in -2..2
    /\ phase \in InHand => turn \in Seats

(* The highest bid is nobody's or a seat's, within the game and no odd *)
(* number but misere.                                                  *)
HighBid ==
    high = -1 \/ (high \in 0..TopBid /\ hseat \in Seats /\ (high % 2 = 0 \/ high = MisereBid))

(* Before the play nothing is won, and nothing lies on the table. *)
Unbegun == trick = <<>> /\ tseats = <<>> /\ trickno = 0 /\ tricks = None3
Silent == wst = [s \in Seats |-> ""]

Lobby == phase = "lobby" => streak = 0 /\ sheet = EmptySheet /\ final = None3

Bidding ==
    phase = "bid" =>
        /\ decl = NoOne /\ open = NoOne /\ Unbegun /\ Silent /\ discard = {}
        /\ talon[1] # talon[2]
        /\ \A i \in 1..2 : talon[i] \in Deck /\ \A s \in Seats : talon[i] \notin hands[s]

Declaring ==
    phase \in {"discard", "contract", "whist", "whist2"} =>
        /\ decl \in Seats /\ open = NoOne /\ Unbegun /\ high >= 0
        /\ phase \in {"discard", "contract"} => turn = decl /\ Silent
        /\ phase = "contract" => high # MisereBid

(* What the defenders have said is what so_act asked them. *)
Whisting ==
    phase \in {"whist", "whist2"} =>
        /\ contract \in 0..TopBid /\ contract % 2 = 0
        /\ wst[decl] = ""
        /\ \/ phase = "whist" /\ turn = First /\ Silent
           \/ /\ phase = "whist" /\ turn = Second
              /\ wst[First] \in {"whist", "pass"} /\ wst[Second] = ""
           \/ /\ phase = "whist2" /\ turn = First
              /\ wst[First] = "pass" /\ wst[Second] = "half"
              /\ so_level(contract) = MinLevel

(* The trick on the table: the lead and who plays after it, in turn. *)
OnTable ==
    \/ trick = <<>> /\ tseats = <<>> /\ turn = lead
    \/ /\ \E a \in Deck : trick = <<a>>
       /\ tseats = <<lead>> /\ turn = so_next(lead)
    \/ /\ \E a, b \in Deck : a # b /\ trick = <<a, b>>
       /\ tseats = <<lead, so_next(lead)>> /\ turn = so_next(so_next(lead))

(* Every trick is somebody's, but for the talon's two in raspasy. *)
Won ==
    LET n == AsTable!SumOf(tricks)
    IN  IF decl = NoOne THEN n <= trickno /\ trickno <= n + AtMost(2, trickno)
        ELSE n = trickno

Playing ==
    phase = "play" =>
        /\ lead \in Seats /\ OnTable
        /\ trickno < HandSize /\ Won
        /\ decl = NoOne => open = NoOne
        /\ decl # NoOne =>
              /\ decl \in Seats
              /\ open \in {NoOne, MisereOpen, First, Second}
              /\ contract # MisereBid =>
                    /\ so_level(contract) \in Levels
                    /\ wst \in AsTable!Replies(decl, so_level(contract))
                    /\ Whisters(decl, wst) # {}

Inv == /\ Typed /\ HighBid /\ Lobby /\ Bidding /\ Declaring /\ Whisting /\ Playing
       /\ HandsMatchTable

----------------------------------------------------------------------------
(***************************************************************************)
(* PrefTable counts and scores as Preferans does: both use PrefScore.      *)
(***************************************************************************)

(* Seats, levels and values. *)
LEMMA SameCounts ==
    /\ AsTable!Seats = Seats /\ AsTable!Levels = Levels /\ AsTable!EmptySheet = EmptySheet
    /\ AsTable!MisereValue = MisereValue
    /\ \A s : AsTable!so_next(s) = so_next(s)
    /\ \A n, m : AsTable!AtMost(n, m) = AtMost(n, m)
    /\ \A n : AsTable!so_value(n) = so_value(n) /\ AsTable!so_obligation(n) = so_obligation(n)
BY DEF AsTable!Seats, Seats, AsTable!Levels, Levels, AsTable!EmptySheet, EmptySheet,
       AsTable!MisereValue, MisereValue, AsTable!so_next, so_next, AsTable!AtMost, AtMost,
       AsTable!so_value, so_value, AsTable!so_obligation, so_obligation

(* The room in a pool, and what is written on a mountain or as whists. *)
LEMMA SameRoom ==
    /\ \A sh, s : AsTable!Room(sh, s) = Room(sh, s)
    /\ \A sh, s, n : AsTable!MountAdd(sh, s, n) = MountAdd(sh, s, n)
    /\ \A sh, a, b, n : AsTable!so_whist_add(sh, a, b, n) = so_whist_add(sh, a, b, n)
BY DEF AsTable!Room, Room, AsTable!MountAdd, MountAdd, AsTable!so_whist_add, so_whist_add

(* How points beyond a pool's room are passed on. *)
LEMMA SameHelp ==
    /\ \A sh, s, n : AsTable!Own(sh, s, n) = Own(sh, s, n)
    /\ \A sh, j, n : AsTable!Helped(sh, j, n) = Helped(sh, j, n)
    /\ \A sh, s, j, n : AsTable!Help(sh, s, j, n) = Help(sh, s, j, n)
    /\ \A sh, s, n : AsTable!Leftover(sh, s, n) = Leftover(sh, s, n)
<1>1. \A sh, s, n : AsTable!Own(sh, s, n) = Own(sh, s, n)
  BY SameCounts, SameRoom DEF AsTable!Own, Own
<1>2. \A sh, j, n : AsTable!Helped(sh, j, n) = Helped(sh, j, n)
  BY SameCounts, SameRoom DEF AsTable!Helped, Helped
<1>3. \A sh, s, j, n : AsTable!Help(sh, s, j, n) = Help(sh, s, j, n)
  BY <1>2, SameRoom DEF AsTable!Help, Help
<1>4. \A sh, s, n : AsTable!Leftover(sh, s, n) = Leftover(sh, s, n)
  BY SameCounts, SameRoom DEF AsTable!Leftover, Leftover
<1> QED BY <1>1, <1>2, <1>3, <1>4

(* Points for a pool. *)
LEMMA SamePoints == \A sh, s, n : AsTable!so_pool_add(sh, s, n) = so_pool_add(sh, s, n)
BY SameCounts, SameRoom, SameHelp DEF AsTable!so_pool_add, so_pool_add

(* The score of raspasy. *)
LEMMA SameRaspasy ==
    \A sh, t, n : AsTable!so_score_raspasy(sh, t, n) = so_score_raspasy(sh, t, n)
<1>1. \A sh, s, t, n : AsTable!RaspasySeat(sh, s, t, n) = RaspasySeat(sh, s, t, n)
  BY SameCounts, SameRoom, SamePoints DEF AsTable!RaspasySeat, RaspasySeat
<1> QED BY <1>1 DEF AsTable!so_score_raspasy, so_score_raspasy

(* The score of misere. *)
LEMMA SameMisere ==
    \A sh, d, t : AsTable!so_score_misere(sh, d, t) = so_score_misere(sh, d, t)
BY SameCounts, SameRoom, SamePoints DEF AsTable!so_score_misere, so_score_misere

(* Who whists. *)
LEMMA SameWhisters == \A d, w : AsTable!Whisters(d, w) = Whisters(d, w)
BY SameCounts DEF AsTable!Whisters, Whisters

(* The score of a contract. *)
LEMMA SameContract ==
    \A sh, d, l, t, w : AsTable!so_score_contract(sh, d, l, t, w) = so_score_contract(sh, d, l, t, w)
<1>1. \A d, w : AsTable!Lone(d, w) = Lone(d, w)
  BY SameCounts, SameWhisters DEF AsTable!Lone, Lone
<1>2. \A sh, s, d, l, t, w : AsTable!Defence(sh, s, d, l, t, w) = Defence(sh, s, d, l, t, w)
  BY <1>1, SameCounts, SameRoom, SameWhisters DEF AsTable!Defence, Defence
<1>3. \A sh, d, l, w : AsTable!Unplayed(sh, d, l, w) = Unplayed(sh, d, l, w)
  BY SameCounts, SameRoom, SamePoints DEF AsTable!Unplayed, Unplayed
<1> QED BY <1>2, <1>3, SameCounts, SameRoom, SamePoints, SameWhisters
    DEF AsTable!so_score_contract, so_score_contract

(* Full pools, and the balances they end a game with. *)
LEMMA SameEnd ==
    /\ \A sh : AsTable!AllFull(sh) <=> AllFull(sh)
    /\ \A sh : AsTable!so_settle(sh) = so_settle(sh)
<1>1. \A sh : AsTable!AllFull(sh) <=> AllFull(sh)
  BY SameCounts DEF AsTable!AllFull, AllFull
<1>2. \A sh, s : AsTable!Owed(sh, s) = Owed(sh, s)
  BY SameRoom DEF AsTable!Owed, Owed
<1>3. \A sh : AsTable!TotalOwed(sh) = TotalOwed(sh)
  BY <1>2 DEF AsTable!TotalOwed, TotalOwed
<1>4. \A sh, s, t : AsTable!WhistsOver(sh, s, t) = WhistsOver(sh, s, t)
  BY DEF AsTable!WhistsOver, WhistsOver
<1>5. \A sh, s : AsTable!Balance(sh, s) = Balance(sh, s)
  BY <1>2, <1>3, <1>4, SameCounts DEF AsTable!Balance, Balance
<1>6. \A sh : AsTable!so_settle(sh) = so_settle(sh)
  BY <1>5, SameCounts DEF AsTable!so_settle, so_settle
<1> QED BY <1>1, <1>6

(* The answers PrefTable allows. *)
LEMMA RepliesAre ==
    \A d, l : AsTable!Replies(d, l) =
        {w \in [Seats -> {"", "whist", "pass", "half"}] :
            /\ w[d] = ""
            /\ w[so_next(d)] \in {"whist", "pass"}
            /\ \/ w[so_next(so_next(d))] \in {"whist", "pass"}
               \/ /\ w[so_next(so_next(d))] = "half" /\ w[so_next(d)] = "pass"
                  /\ l = MinLevel}
BY SameCounts DEF AsTable!Replies

----------------------------------------------------------------------------
(* Seats, cards and hands *)

(* Three seats in a ring. *)
LEMMA NextSeat ==
    /\ so_next(0) = 1 /\ so_next(1) = 2 /\ so_next(2) = 0 /\ so_next(-1) = 0
    /\ \A s \in Seats :
          LET n == so_next(s)
          IN  /\ n \in Seats /\ so_next(n) \in Seats
              /\ n # s /\ so_next(n) # s /\ so_next(n) # n
              /\ \A t \in Seats : t = s \/ t = n \/ t = so_next(n)
<1>1. (0 + 1) % 3 = 1 /\ (1 + 1) % 3 = 2 /\ (2 + 1) % 3 = 0 /\ (-1 + 1) % 3 = 0
  OBVIOUS
<1>2. so_next(0) = 1 /\ so_next(1) = 2 /\ so_next(2) = 0 /\ so_next(-1) = 0
  BY <1>1 DEF so_next
<1>3. \A s \in Seats : s = 0 \/ s = 1 \/ s = 2
  BY DEF Seats
<1>4. 0 \in Seats /\ 1 \in Seats /\ 2 \in Seats
  BY DEF Seats
<1> QED BY ONLY <1>2, <1>3, <1>4

(* A hand is a set of cards. *)
LEMMA HandFinite ==
    ASSUME NEW S, S \subseteq Deck
    PROVE  IsFiniteSet(S) /\ Cardinality(S) \in Nat
BY PreferansAssumption, FS_Subset, FS_CardinalityType

(* Every card of the deck is dealt once. *)
LEMMA DealtOnce ==
    ASSUME NEW deck \in Shuffles
    PROVE  /\ \A i \in 1..(3 * HandSize + 2) : deck[i] \in Deck
           /\ \A i, j \in 1..(3 * HandSize + 2) : deck[i] = deck[j] => i = j
<1> DEFINE N == 3 * HandSize + 2
           f == [i \in 1..N |-> deck[i]]
<1>1. DOMAIN deck = 1..N /\ {deck[i] : i \in DOMAIN deck} = Deck
  BY PreferansAssumption
<1>2. N \in Nat /\ Cardinality(Deck) = N
  BY PrefScoreAssumption, PreferansAssumption
<1>3. IsFiniteSet(1..N) /\ Cardinality(1..N) = N
  <2> HIDE DEF N
  <2> QED BY <1>2, FS_Interval
<1>4. f \in Surjection(1..N, Deck)
  BY <1>1 DEF Surjection
<1>5. f \in Injection(1..N, Deck)
  <2> HIDE DEF N, f
  <2> QED BY <1>2, <1>3, <1>4, FS_SurjSameCardinalityImpliesInj
<1> QED BY <1>1, <1>5 DEF Injection, IsInjective

(* A seat's cards: HandSize of the deck's, none of them another's. *)
LEMMA HandDealt ==
    ASSUME NEW deck \in Shuffles, NEW s \in Seats
    PROVE  /\ HandOf(deck, s) \subseteq Deck
           /\ Cardinality(HandOf(deck, s)) = HandSize
<1> DEFINE f == [i \in 1..HandSize |-> deck[s * HandSize + i]]
<1>1. HandSize \in Nat
  BY PrefScoreAssumption
<1>2. \A i \in 1..HandSize : s * HandSize + i \in 1..(3 * HandSize + 2)
  <2>1. s = 0 \/ s = 1 \/ s = 2
    BY DEF Seats
  <2>2. s * HandSize \in {0, HandSize, HandSize + HandSize}
    BY <1>1, <2>1
  <2>3. 3 * HandSize + 2 = HandSize + HandSize + HandSize + 2
    BY <1>1
  <2> QED BY <1>1, <2>2, <2>3
<1>3. \A i, j \in 1..HandSize : s * HandSize + i = s * HandSize + j => i = j
  <2>1. s * HandSize \in Int
    BY <1>1 DEF Seats
  <2> QED BY ONLY <1>1, <2>1
<1>4. f \in Bijection(1..HandSize, HandOf(deck, s))
  <2>1. \A i \in 1..HandSize : f[i] \in HandOf(deck, s)
    BY DEF HandOf
  <2>2. \A c \in HandOf(deck, s) : \E i \in 1..HandSize : f[i] = c
    BY DEF HandOf
  <2>3. \A i, j \in 1..HandSize : f[i] = f[j] => i = j
    BY <1>2, <1>3, DealtOnce
  <2> QED BY <2>1, <2>2, <2>3 DEF Bijection, Injection, Surjection, IsInjective
<1>5. IsFiniteSet(1..HandSize) /\ Cardinality(1..HandSize) = HandSize
  BY <1>1, FS_Interval
<1>6. Cardinality(HandOf(deck, s)) = HandSize
  <2> HIDE DEF f
  <2> QED BY <1>4, <1>5, FS_Bijection DEF ExistsBijection
<1>7. HandOf(deck, s) \subseteq Deck
  BY <1>2, DealtOnce DEF HandOf
<1> QED BY <1>6, <1>7

(* No card is dealt to two hands, or to a hand and the talon. *)
LEMMA HandsApart ==
    ASSUME NEW deck \in Shuffles, NEW s \in Seats
    PROVE  /\ \A t \in Seats : s # t => HandOf(deck, s) \cap HandOf(deck, t) = {}
           /\ \A k \in 1..2 : deck[3 * HandSize + k] \notin HandOf(deck, s)
<1>1. HandSize \in Nat
  BY PrefScoreAssumption
<1>2. \A t \in Seats : t * HandSize \in {0, HandSize, HandSize + HandSize}
                       /\ (t = 0 => t * HandSize = 0) /\ (t = 1 => t * HandSize = HandSize)
                       /\ (t = 2 => t * HandSize = HandSize + HandSize)
  BY <1>1 DEF Seats
<1>3. \A t \in Seats : t = 0 \/ t = 1 \/ t = 2
  BY DEF Seats
<1>4. 3 * HandSize = HandSize + HandSize + HandSize
  BY <1>1
<1>5. \A t \in Seats : \A i \in 1..HandSize : t * HandSize + i \in 1..(3 * HandSize + 2)
  BY <1>1, <1>2, <1>4
<1>6. ASSUME NEW t \in Seats, s # t, NEW i \in 1..HandSize, NEW j \in 1..HandSize
      PROVE  deck[s * HandSize + i] # deck[t * HandSize + j]
  <2>1. s * HandSize + i # t * HandSize + j
    BY ONLY <1>1, <1>2, <1>3, <1>6
  <2> QED BY <1>5, <2>1, DealtOnce
<1>7. ASSUME NEW k \in 1..2, NEW i \in 1..HandSize
      PROVE  deck[s * HandSize + i] # deck[3 * HandSize + k]
  <2>1. s * HandSize + i # 3 * HandSize + k /\ 3 * HandSize + k \in 1..(3 * HandSize + 2)
    BY ONLY <1>1, <1>2, <1>3, <1>4, <1>7
  <2> QED BY <1>5, <2>1, DealtOnce
<1> QED BY <1>6, <1>7 DEF HandOf

(* Two cards more, and two cards less. *)
LEMMA TwoMore ==
    ASSUME NEW S, IsFiniteSet(S), NEW a, NEW b, a # b, a \notin S, b \notin S
    PROVE  Cardinality((S \cup {a}) \cup {b}) = Cardinality(S) + 2
<1>1. IsFiniteSet(S \cup {a}) /\ Cardinality(S \cup {a}) = Cardinality(S) + 1
  BY FS_AddElement
<1>2. b \notin S \cup {a}
  OBVIOUS
<1>3. Cardinality((S \cup {a}) \cup {b}) = Cardinality(S \cup {a}) + 1
  BY <1>1, <1>2, FS_AddElement
<1> QED BY <1>1, <1>3, FS_CardinalityType

(* A hand without two of its cards. *)
LEMMA TwoLess ==
    ASSUME NEW S, IsFiniteSet(S), NEW a \in S, NEW b \in S, a # b
    PROVE  Cardinality((S \ {a}) \ {b}) = Cardinality(S) - 2
<1>1. IsFiniteSet(S \ {a}) /\ Cardinality(S \ {a}) = Cardinality(S) - 1
  BY FS_RemoveElement
<1>2. b \in S \ {a}
  OBVIOUS
<1>3. Cardinality((S \ {a}) \ {b}) = Cardinality(S \ {a}) - 1
  BY <1>1, <1>2, FS_RemoveElement
<1> QED BY <1>1, <1>3, FS_CardinalityType

----------------------------------------------------------------------------
(* The deal *)

(* An empty trick on the table holds no card of a hand. *)
LEMMA EmptyTrick == {<<>>[i] : i \in 1..Len(<<>>)} = {}
OBVIOUS

(* The opening of a table. *)
LEMMA InvInit == Init => Inv
<1> SUFFICES ASSUME Init PROVE Inv
  OBVIOUS
<1>1. Typed
  <2>1. /\ hands = [s \in Seats |-> {}] /\ bids = [s \in Seats |-> NoBid]
        /\ tricks = [s \in Seats |-> 0]
    BY DEF Init, None3
  <2>2. /\ hands \in [Seats -> SUBSET Deck] /\ bids \in [Seats -> Int]
        /\ wst \in [Seats -> Says] /\ tricks \in [Seats -> Nat]
    <3>1. wst \in [Seats -> Says]
      BY DEF Init, Says
    <3>2. bids \in [Seats -> Int]
      BY ONLY <2>1 DEF NoBid
    <3> QED BY <2>1, <3>1, <3>2
  <2>3. dealer = 2 /\ phase = "lobby" /\ handno = 0 /\ trickno = 0 /\ high = -1
        /\ contract = -1 /\ open = -1
    BY DEF Init, NoOne
  <2>4. dealer \in Seats
    BY <2>3 DEF Seats
  <2> QED BY <2>2, <2>3, <2>4 DEF Typed, InHand
<1>2. HighBid /\ Lobby /\ Bidding /\ Declaring /\ Whisting /\ Playing /\ HandsMatchTable
  BY DEF Init, HighBid, Lobby, Bidding, Declaring, Whisting, Playing, HandsMatchTable
<1> QED BY <1>1, <1>2 DEF Inv

(* A new hand: every seat has its cards, and the talon has two more. *)
LEMMA NewHand ==
    ASSUME StartHand, dealer \in Seats, handno \in Nat
    PROVE  Inv'
<1>1. /\ phase' = "bid" /\ handno' = handno + 1 /\ dealer' = so_next(dealer)
      /\ discard' = {} /\ bids' = [s \in Seats |-> NoBid] /\ high' = -1
      /\ decl' = NoOne /\ contract' = -1 /\ open' = NoOne
      /\ trick' = <<>> /\ tseats' = <<>> /\ tricks' = None3 /\ trickno' = 0
      /\ turn' = so_next(so_next(dealer))
  BY DEF StartHand
<1>s. wst' = [s \in Seats |-> ""]
  BY DEF StartHand
<1>2. PICK deck \in Shuffles :
         /\ hands' = [s \in Seats |-> HandOf(deck, s)]
         /\ talon' = <<deck[3 * HandSize + 1], deck[3 * HandSize + 2]>>
  BY DEF StartHand
<1>3. \A s \in Seats : hands'[s] = HandOf(deck, s)
  BY <1>2
<1>4. Typed'
  <2>1. hands' \in [Seats -> SUBSET Deck]
    BY <1>2, HandDealt
  <2>2. dealer' \in Seats /\ turn' \in Seats
    BY <1>1, NextSeat
  <2>3. tricks' \in [Seats -> Nat] /\ wst' \in [Seats -> Says] /\ bids' \in [Seats -> Int]
    <3>1. wst' \in [Seats -> Says]
      BY ONLY <1>s DEF Says
    <3>2. bids' \in [Seats -> Int] /\ tricks' \in [Seats -> Nat]
      BY ONLY <1>1 DEF NoBid, None3
    <3> QED BY <3>1, <3>2
  <2>4. phase' = "bid" /\ handno' \in Nat /\ trickno' = 0 /\ high' = -1
        /\ contract' = -1 /\ open' = -1
    <3>1. handno' \in Nat
      BY <1>1
    <3> QED BY <1>1, <3>1 DEF NoOne
  <2> QED BY <2>1, <2>2, <2>3, <2>4 DEF Typed, InHand
<1>5. HighBid' /\ Lobby' /\ Declaring' /\ Whisting' /\ Playing'
  BY <1>1 DEF HighBid, Lobby, Declaring, Whisting, Playing
<1>6. Bidding'
  <2>1. HandSize \in Nat
    BY PrefScoreAssumption
  <2>2. \A i \in 1..2 : talon'[i] = deck[3 * HandSize + i]
    BY <1>2
  <2>3. \A i \in 1..2 : 3 * HandSize + i \in 1..(3 * HandSize + 2)
    BY <2>1
  <2>4. talon'[1] # talon'[2] /\ \A i \in 1..2 : talon'[i] \in Deck
    <3>1. 3 * HandSize + 1 # 3 * HandSize + 2 /\ 1 \in 1..2 /\ 2 \in 1..2
      BY <2>1
    <3> QED BY <2>2, <2>3, <3>1, DealtOnce
  <2>5. \A i \in 1..2 : \A s \in Seats : talon'[i] \notin hands'[s]
    BY <1>3, <2>2, HandsApart
  <2> QED BY <1>1, <1>s, <2>4, <2>5 DEF Bidding, Unbegun, Silent
<1>7. HandsMatchTable'
  <2>1. \A s \in Seats : HandShould(s)' = HandSize
    BY <1>1 DEF HandShould
  <2>2. \A s \in Seats : Cardinality(hands'[s]) = HandSize
    BY <1>3, HandDealt
  <2>3. \A s, t \in Seats : s # t => hands'[s] \cap hands'[t] = {}
    BY <1>3, HandsApart
  <2>4. discard' \cup {trick'[i] : i \in 1..Len(trick')} = {}
    BY <1>1, EmptyTrick
  <2> QED BY <2>1, <2>2, <2>3, <2>4 DEF HandsMatchTable
<1> QED BY <1>4, <1>5, <1>6, <1>7 DEF Inv

(* The first hand of a game, and the next one when all three are ready. *)
LEMMA InvNewGame == ASSUME Inv, NewGame PROVE Inv'
BY NewHand DEF NewGame, Inv, Typed

(* A player is ready; the third one has the next hand dealt. *)
LEMMA InvReady ==
    ASSUME Inv, NEW s \in Seats, Ready(s)
    PROVE  Inv'
<1>1. CASE StartHand
  BY <1>1, NewHand DEF Inv, Typed
<1>2. CASE UNCHANGED <<phase, dealer, handno, cards, auction, contractVars, table,
                       streak, scores>>
  <2>1. phase = "done"
    BY DEF Ready
  <2>2. Typed' /\ HighBid' /\ Lobby' /\ Bidding' /\ Declaring' /\ Whisting' /\ Playing'
    BY <1>2, <2>1 DEF Inv, Typed, HighBid, Lobby, Bidding, Declaring, Whisting, Playing,
                      cards, auction, contractVars, table, scores, InHand
  <2>3. HandsMatchTable'
    BY <1>2, <2>1 DEF HandsMatchTable
  <2> QED BY <2>2, <2>3 DEF Inv
<1> QED BY <1>1, <1>2 DEF Ready

(* The score of a hand ends it: what is left is the talk of the next. *)
LEMMA InvScored ==
    ASSUME Inv, phase' \in {"done", "over"},
           UNCHANGED <<dealer, handno, bids, high, hseat, contract>>,
           hands' \in [Seats -> SUBSET Deck], tricks' \in [Seats -> Nat], trickno' \in Nat,
           wst' \in [Seats -> Says], open' \in -2..2
    PROVE  Inv'
<1>1. Typed'
  BY DEF Inv, Typed, InHand
<1>2. HighBid' /\ Lobby' /\ Bidding' /\ Declaring' /\ Whisting' /\ Playing' /\ HandsMatchTable'
  BY DEF Inv, HighBid, Lobby, Bidding, Declaring, Whisting, Playing, HandsMatchTable
<1> QED BY <1>1, <1>2 DEF Inv

----------------------------------------------------------------------------
(* The auction *)

(* The highest bid is a number. *)
LEMMA TopBidNat == TopBid \in Nat
<1>1. HandSize - MinLevel \in Nat /\ SuitCount \in Nat
  BY PrefScoreAssumption, PreferansAssumption
<1>2. \A a, b \in Nat : 2 * (a * (b + 1) + b) \in Nat
  OBVIOUS
<1> QED BY ONLY <1>1, <1>2 DEF TopBid, Strains, NoTrump

(* Until a card is played every hand but the declarer's first is full. *)
LEMMA FullHands ==
    ASSUME \/ phase' \in {"bid", "contract", "whist", "whist2"}
           \/ phase' = "play" /\ tseats' = <<>> /\ trickno' = 0
    PROVE  \A s \in Seats : HandShould(s)' = HandSize
<1> SUFFICES ASSUME NEW s \in Seats PROVE HandShould(s)' = HandSize
  OBVIOUS
<1>1. CASE phase' # "play"
  BY <1>1 DEF HandShould
<1>2. CASE phase' = "play"
  <2>1. {i \in 1..Len(<<>>) : <<>>[i] = s} = {}
    OBVIOUS
  <2>2. HandShould(s)' = HandSize - 0 - Cardinality({})
    BY <1>2, <2>1 DEF HandShould
  <2> QED BY <2>2, FS_EmptySet, PrefScoreAssumption
<1> QED BY <1>1, <1>2

(* Where no card is played, drawn or laid away the hands stay right. *)
LEMMA CardsKept ==
    ASSUME HandsMatchTable, phase \in {"bid", "contract", "whist", "whist2"},
           UNCHANGED <<hands, discard>>,
           \/ phase' \in {"bid", "contract", "whist", "whist2"} /\ UNCHANGED trick
           \/ phase' = "play" /\ trick' = <<>> /\ tseats' = <<>> /\ trickno' = 0
    PROVE  HandsMatchTable'
<1>1. /\ \A s \in Seats : Cardinality(hands[s]) = HandSize
      /\ \A s, t \in Seats : s # t => hands[s] \cap hands[t] = {}
      /\ \A s \in Seats : hands[s] \cap (discard \cup {trick[i] : i \in 1..Len(trick)}) = {}
  BY DEF HandsMatchTable, HandShould
<1>2. \A s \in Seats : hands'[s] \cap (discard' \cup {trick'[i] : i \in 1..Len(trick')}) = {}
  <2>1. CASE trick' = trick
    BY <1>1, <2>1
  <2>2. CASE trick' = <<>>
    BY <1>1, <2>2, EmptyTrick
  <2> QED BY <2>1, <2>2
<1>3. \A s \in Seats : HandShould(s)' = HandSize
  BY FullHands
<1> QED BY <1>1, <1>2, <1>3 DEF HandsMatchTable

(* A play that begins: nothing on the table and nothing won. *)
LEMMA PlayBegins ==
    ASSUME StartPlay, dealer \in Seats
    PROVE  /\ phase' = "play" /\ trick' = <<>> /\ tseats' = <<>> /\ trickno' = 0
           /\ tricks' \in [Seats -> Nat] /\ lead' \in Seats /\ turn' \in Seats
           /\ OnTable' /\ Won' /\ trickno' < HandSize
<1>1. /\ phase' = "play" /\ trick' = <<>> /\ tseats' = <<>> /\ trickno' = 0
      /\ tricks' = None3 /\ lead' = so_next(dealer) /\ turn' = so_next(dealer)
  BY DEF StartPlay
<1>2. lead' \in Seats /\ turn' = lead'
  BY <1>1, NextSeat
<1>3. OnTable'
  BY <1>1, <1>2 DEF OnTable
<1>4. Won'
  <2>1. tricks'[0] = 0 /\ tricks'[1] = 0 /\ tricks'[2] = 0
    BY <1>1 DEF None3, Seats
  <2>2. AsTable!SumOf(tricks)' = 0
    BY <2>1 DEF AsTable!SumOf
  <2> QED BY <1>1, <2>2 DEF Won, AtMost
<1>5. tricks' \in [Seats -> Nat] /\ 0 < HandSize
  BY <1>1, PrefScoreAssumption DEF None3
<1> QED BY <1>1, <1>2, <1>3, <1>4, <1>5

(* The declarer takes the talon: two cards more than the others. *)
LEMMA TalonTaken ==
    ASSUME Inv, phase = "bid", NEW d \in Seats, TakeTalon(d), UNCHANGED <<discard, trick>>
    PROVE  HandsMatchTable' /\ hands' \in [Seats -> SUBSET Deck]
<1> DEFINE a == talon[1]
           b == talon[2]
<1>1. /\ hands' = [hands EXCEPT ![d] = @ \cup {a, b}]
      /\ decl' = d /\ phase' = "discard"
  BY DEF TakeTalon
<1>2. /\ a # b /\ {a, b} \subseteq Deck /\ discard = {} /\ trick = <<>>
      /\ \A s \in Seats : a \notin hands[s] /\ b \notin hands[s]
  BY DEF Inv, Bidding, Unbegun
<1>3. hands \in [Seats -> SUBSET Deck]
  BY DEF Inv, Typed
<1>4. /\ \A s \in Seats : Cardinality(hands[s]) = HandSize
      /\ \A s, t \in Seats : s # t => hands[s] \cap hands[t] = {}
  BY DEF Inv, HandsMatchTable, HandShould
<1>5. hands'[d] = (hands[d] \cup {a}) \cup {b} /\ \A s \in Seats : s # d => hands'[s] = hands[s]
  BY <1>1, <1>3
<1>6. Cardinality(hands'[d]) = HandSize + 2
  <2>1. IsFiniteSet(hands[d])
    BY <1>3, HandFinite
  <2>2. a # b /\ a \notin hands[d] /\ b \notin hands[d]
    BY <1>2
  <2> HIDE DEF a, b
  <2>3. Cardinality((hands[d] \cup {a}) \cup {b}) = Cardinality(hands[d]) + 2
    BY <2>1, <2>2, TwoMore
  <2> QED BY <1>4, <1>5, <2>3
<1>7. \A s \in Seats : HandShould(s)' = IF s = d THEN HandSize + 2 ELSE HandSize
  BY <1>1 DEF HandShould
<1>8. \A s, t \in Seats : s # t => hands'[s] \cap hands'[t] = {}
  BY <1>2, <1>4, <1>5
<1>9. \A s \in Seats : hands'[s] \cap (discard' \cup {trick'[i] : i \in 1..Len(trick')}) = {}
  BY <1>2, EmptyTrick
<1>10. hands' \in [Seats -> SUBSET Deck]
  BY <1>1, <1>2, <1>3
<1> QED BY <1>4, <1>5, <1>6, <1>7, <1>8, <1>9, <1>10 DEF HandsMatchTable

(* A bid: the auction goes on, or all have passed, or one bidder is left. *)
LEMMA InvBid ==
    ASSUME Inv, NEW s \in Seats, NEW o \in LegalBids(s), Bid(s, o)
    PROVE  Inv'
<1>1. /\ phase = "bid" /\ bids' = [bids EXCEPT ![s] = o]
      /\ high' = (IF o >= 0 THEN o ELSE high) /\ hseat' = HighSeat(s, o)
      /\ UNCHANGED <<dealer, handno, talon, discard, wst, open>>
  BY DEF Bid
<1>2. o \in Int /\ (o >= 0 => o \in 0..TopBid /\ (o % 2 = 0 \/ o = MisereBid))
  BY TopBidNat DEF LegalBids, Pass, Inv, Typed
<1>3. HighBid'
  BY <1>1, <1>2 DEF Inv, HighBid, HighSeat
<1>4. /\ dealer' \in Seats /\ bids' \in [Seats -> Int] /\ wst' \in [Seats -> Says]
      /\ handno' \in Nat /\ high' \in Int /\ open' = NoOne /\ Silent'
  BY <1>1, <1>2 DEF Inv, Typed, Bidding, Silent
<1>5. Unbegun /\ decl = NoOne /\ contract \in Int /\ HandsMatchTable /\ tricks \in [Seats -> Nat]
      /\ hands \in [Seats -> SUBSET Deck]
  BY <1>1 DEF Inv, Bidding, Typed
<1>6. CASE StartRaspasy
  <2>1. decl' = NoOne /\ contract' = -1 /\ hands' = hands /\ StartPlay
    BY <1>6 DEF StartRaspasy
  <2>2. /\ phase' = "play" /\ trick' = <<>> /\ tseats' = <<>> /\ trickno' = 0
        /\ tricks' \in [Seats -> Nat] /\ lead' \in Seats /\ turn' \in Seats
        /\ OnTable' /\ Won' /\ trickno' < HandSize
    BY <2>1, PlayBegins DEF Inv, Typed
  <2>3. HandsMatchTable'
    BY <1>1, <1>5, <2>1, <2>2, CardsKept
  <2>4. Typed'
    BY <1>4, <1>5, <2>1, <2>2, SMTT(30) DEF Typed, InHand, NoOne
  <2>5. Lobby' /\ Bidding' /\ Declaring' /\ Whisting' /\ Playing'
    BY <1>4, <2>1, <2>2 DEF Lobby, Bidding, Declaring, Whisting, Playing
  <2> QED BY <1>3, <2>3, <2>4, <2>5 DEF Inv
<1>7. CASE high' >= 0 /\ TakeTalon(hseat')
  <2>1. hseat' \in Seats
    BY <1>3, <1>7 DEF HighBid
  <2>2. /\ decl' = hseat' /\ phase' = "discard" /\ turn' = hseat'
        /\ UNCHANGED <<contract, trick, tseats, tricks, trickno>>
    BY <1>7 DEF TakeTalon
  <2>3. HandsMatchTable' /\ hands' \in [Seats -> SUBSET Deck]
    BY <1>1, <1>7, <2>1, <2>2, TalonTaken
  <2>4. Typed'
    BY <1>4, <1>5, <2>1, <2>2, <2>3 DEF Typed, InHand, NoOne, Unbegun
  <2>5. Lobby' /\ Bidding' /\ Declaring' /\ Whisting' /\ Playing'
    BY <1>4, <1>5, <1>7, <2>1, <2>2
    DEF Lobby, Bidding, Declaring, Whisting, Playing, Unbegun, Silent
  <2> QED BY <1>3, <2>3, <2>4, <2>5 DEF Inv
<1>8. CASE /\ turn' = NextBidder(s, bids')
           /\ UNCHANGED <<phase, hands, streak, decl, contract, trump, trick,
                          tseats, lead, tricks, trickno>>
  <2>1. turn' \in Seats
    BY <1>8, NextSeat DEF NextBidder
  <2>2. HandsMatchTable'
    BY <1>1, <1>5, <1>8, CardsKept
  <2>3. Typed'
    BY <1>1, <1>4, <1>5, <1>8, <2>1 DEF Typed, InHand, NoOne, Unbegun, Inv
  <2>4. Bidding'
    BY <1>1, <1>8 DEF Inv, Bidding, Unbegun, Silent
  <2>5. Lobby' /\ Declaring' /\ Whisting' /\ Playing'
    BY <1>1, <1>8 DEF Lobby, Declaring, Whisting, Playing
  <2> QED BY <1>3, <2>2, <2>3, <2>4, <2>5 DEF Inv
<1> QED BY <1>6, <1>7, <1>8 DEF Bid

----------------------------------------------------------------------------
(* The contract *)

(* A contract within the bids is one of the game's levels. *)
LEMMA LevelIs ==
    ASSUME NEW o \in 0..TopBid
    PROVE  so_level(o) \in Levels
<1> DEFINE q == HandSize - MinLevel
           n == o \div 2
<1>1. q \in Nat /\ Strains \in Nat \ {0} /\ Strains = NoTrump + 1 /\ NoTrump \in Nat
      /\ MinLevel \in Nat /\ o \in Nat
  BY PrefScoreAssumption, PreferansAssumption, TopBidNat DEF Strains, NoTrump
<1>2. q * Strains + NoTrump \in Nat /\ o <= 2 * (q * Strains + NoTrump)
  <2>1. q * Strains \in Nat
    <3> HIDE DEF q
    <3> QED BY <1>1
  <2>2. o <= TopBid
    BY TopBidNat
  <2> QED BY <1>1, <2>1, <2>2 DEF TopBid
<1>3. n \in Nat /\ n <= q * Strains + NoTrump
  <2>1. \A a, m \in Nat : a <= 2 * m => a \div 2 \in Nat /\ a \div 2 <= m
    OBVIOUS
  <2> QED BY ONLY <1>1, <1>2, <2>1
<1>4. n < (q + 1) * Strains
  <2>1. \A a, b \in Nat : (a + 1) * b = a * b + b /\ a * b \in Nat
    OBVIOUS
  <2> HIDE DEF n, q
  <2>2. (q + 1) * Strains = q * Strains + Strains /\ q * Strains \in Nat
    BY <1>1, <2>1
  <2> QED BY ONLY <1>1, <1>3, <2>2
<1>5. n \div Strains \in Nat /\ n \div Strains <= q
  <2> HIDE DEF n, q
  <2> QED BY ONLY <1>1, <1>3, <1>4
<1>6. n \div Strains + MinLevel \in MinLevel..HandSize
  <2> HIDE DEF n
  <2> QED BY <1>5, PrefScoreAssumption
<1> QED BY <1>6 DEF so_level, Levels

(* A discard: the declarer is back to a full hand, without those two cards. *)
LEMMA Discarded ==
    ASSUME Inv, phase = "discard", NEW a \in hands[decl], NEW b \in hands[decl], a # b,
           hands' = [hands EXCEPT ![decl] = @ \ {a, b}], discard' = {a, b}, trick' = <<>>,
           phase' = "contract" \/ (phase' = "play" /\ tseats' = <<>> /\ trickno' = 0)
    PROVE  HandsMatchTable' /\ hands' \in [Seats -> SUBSET Deck]
<1>1. decl \in Seats /\ hands \in [Seats -> SUBSET Deck]
  BY DEF Inv, Declaring, Typed
<1>2. /\ \A s \in Seats : Cardinality(hands[s]) = IF s = decl THEN HandSize + 2 ELSE HandSize
      /\ \A s, t \in Seats : s # t => hands[s] \cap hands[t] = {}
  BY DEF Inv, HandsMatchTable, HandShould
<1>3. hands'[decl] = (hands[decl] \ {a}) \ {b} /\ \A s \in Seats : s # decl => hands'[s] = hands[s]
  BY <1>1
<1>4. Cardinality(hands'[decl]) = HandSize
  <2>1. Cardinality((hands[decl] \ {a}) \ {b}) = Cardinality(hands[decl]) - 2
    BY <1>1, HandFinite, TwoLess
  <2>2. Cardinality(hands[decl]) = HandSize + 2
    BY <1>1, <1>2
  <2>3. HandSize \in Nat
    BY PrefScoreAssumption
  <2> QED BY ONLY <1>3, <2>1, <2>2, <2>3
<1>5. \A s \in Seats : Cardinality(hands'[s]) = HandShould(s)'
  BY <1>2, <1>3, <1>4, FullHands
<1>6. \A s, t \in Seats : s # t => hands'[s] \cap hands'[t] = {}
  BY <1>2, <1>3
<1>7. \A s \in Seats : hands'[s] \cap (discard' \cup {trick'[i] : i \in 1..Len(trick')}) = {}
  BY <1>1, <1>2, <1>3, EmptyTrick
<1>8. hands' \in [Seats -> SUBSET Deck]
  BY <1>1
<1> QED BY <1>5, <1>6, <1>7, <1>8 DEF HandsMatchTable

(* The declarer lays two cards away: misere is played, else a contract named. *)
LEMMA InvDiscard ==
    ASSUME ~StaleDiscards, Inv, NEW s \in Seats, NEW a \in hands[s], NEW b \in hands[s],
           Discard(s, a, b)
    PROVE  Inv'
<1>1. /\ s = decl /\ phase = "discard" /\ a # b
      /\ hands' = [hands EXCEPT ![decl] = @ \ {a, b}] /\ discard' = {a, b}
      /\ UNCHANGED <<dealer, handno, bids, high, hseat, decl, wst>>
  BY DEF Discard, auction
<1>2. /\ decl \in Seats /\ open = NoOne /\ Unbegun /\ high >= 0 /\ Silent
  BY <1>1 DEF Inv, Declaring
<1>3. HighBid' /\ dealer' \in Seats /\ decl' # NoOne
  BY <1>1, <1>2 DEF Inv, HighBid, Typed, NoOne, Seats
<1>4. CASE contract' = MisereBid /\ open' = MisereOpen /\ StartPlay
  <2>1. /\ phase' = "play" /\ trick' = <<>> /\ tseats' = <<>> /\ trickno' = 0
        /\ tricks' \in [Seats -> Nat] /\ lead' \in Seats /\ turn' \in Seats
        /\ OnTable' /\ Won' /\ trickno' < HandSize
    BY <1>4, PlayBegins DEF Inv, Typed
  <2>2. HandsMatchTable' /\ hands' \in [Seats -> SUBSET Deck]
    BY <1>1, <2>1, Discarded
  <2>3. Typed'
    <3>1. /\ dealer' \in Seats /\ bids' \in [Seats -> Int] /\ wst' \in [Seats -> Says]
          /\ handno' \in Nat /\ high' \in Int
      BY <1>1 DEF Inv, Typed
    <3>2. contract' \in Int /\ open' \in -2..2 /\ trickno' \in Nat
      BY <1>4, <2>1, PreferansAssumption DEF MisereOpen
    <3> QED BY <2>1, <2>2, <3>1, <3>2 DEF Typed, InHand
  <2>4. Lobby' /\ Bidding' /\ Declaring' /\ Whisting' /\ Playing'
    BY <1>1, <1>2, <1>3, <1>4, <2>1 DEF Lobby, Bidding, Declaring, Whisting, Playing
  <2> QED BY <1>3, <2>2, <2>3, <2>4 DEF Inv
<1>5. CASE /\ high # MisereBid /\ phase' = "contract" /\ turn' = decl
           /\ UNCHANGED <<contract, trump, open, trick, tseats, lead, tricks, trickno>>
  <2>1. HandsMatchTable' /\ hands' \in [Seats -> SUBSET Deck]
    BY <1>1, <1>2, <1>5, Discarded DEF Unbegun
  <2>2. Typed'
    BY <1>1, <1>2, <1>5, <2>1 DEF Inv, Typed, InHand
  <2>3. Lobby' /\ Bidding' /\ Declaring' /\ Whisting' /\ Playing'
    BY <1>1, <1>2, <1>5 DEF Lobby, Bidding, Declaring, Whisting, Playing, Unbegun, Silent
  <2> QED BY <1>3, <2>1, <2>2, <2>3 DEF Inv
<1> QED BY <1>4, <1>5 DEF Discard

(* The declarer names the contract: no misere, and none above the highest. *)
LEMMA InvName ==
    ASSUME Inv, NEW s \in Seats, NEW o \in 0..TopBid, NameContract(s, o)
    PROVE  Inv'
<1>1. /\ phase = "contract" /\ o \in high..TopBid /\ (o - high) % 2 = 0
      /\ contract' = o /\ phase' = "whist" /\ turn' = First
      /\ UNCHANGED <<dealer, handno, cards, auction, decl, wst, open, trick, tseats,
                     lead, tricks, trickno>>
  BY DEF NameContract
<1>2. decl \in Seats /\ open = NoOne /\ Unbegun /\ high >= 0 /\ Silent /\ high # MisereBid
  BY <1>1 DEF Inv, Declaring
<1>3. HighBid' /\ dealer' \in Seats /\ First' = First /\ First \in Seats
  BY <1>1, <1>2, NextSeat DEF Inv, HighBid, Typed, auction, First
<1>4. o \in Int /\ o % 2 = 0
  <2>1. high \in Int /\ high % 2 = 0 /\ o \in Int
    BY <1>2, TopBidNat DEF Inv, HighBid, Typed
  <2> QED BY ONLY <1>1, <2>1
<1>5. HandsMatchTable'
  BY <1>1, CardsKept DEF Inv, cards
<1>6. Typed'
  BY <1>1, <1>3, <1>4 DEF Inv, Typed, InHand, cards, auction
<1>7. Declaring'
  BY <1>1, <1>2 DEF Declaring, Unbegun, auction
<1>8. Whisting'
  <2>1. wst'[decl'] = ""
    BY <1>1, <1>2 DEF Silent
  <2>2. Silent'
    BY <1>1, <1>2 DEF Silent
  <2> QED BY <1>1, <1>3, <1>4, <2>1, <2>2 DEF Whisting
<1>9. Lobby' /\ Bidding' /\ Playing'
  BY <1>1 DEF Lobby, Bidding, Playing
<1> QED BY <1>3, <1>5, <1>6, <1>7, <1>8, <1>9 DEF Inv

----------------------------------------------------------------------------
(* The whists *)

(* Where the defenders sit. *)
LEMMA Defenders ==
    ASSUME decl \in Seats
    PROVE  /\ First \in Seats /\ Second \in Seats
           /\ First # decl /\ Second # decl /\ Second # First
           /\ Second = so_next(First) /\ First = so_next(decl)
           /\ \A t \in Seats : t = decl \/ t = First \/ t = Second
BY NextSeat DEF First, Second

(* What is said lies within what so_act asks for. *)
LEMMA Answered ==
    ASSUME Inv, NEW s \in Seats, NEW w \in LegalReplies(s), Whist(s, w),
           phase = "whist2" \/ (s # First /\ w # "half")
    PROVE  wst' \in AsTable!Replies(decl, so_level(contract))
<1>1. decl \in Seats /\ turn = s /\ wst \in [Seats -> Says]
  BY DEF Inv, Declaring, Typed, Whist, so_ctl
<1>2. /\ First \in Seats /\ Second \in Seats /\ First # decl /\ Second # decl /\ Second # First
      /\ Second = so_next(First) /\ First = so_next(decl)
  BY <1>1, Defenders
<1>3. w \in {"whist", "pass"}
  BY DEF LegalReplies
<1>4. wst' \in [Seats -> Says] /\ wst'[decl] = ""
  <2>1. wst[decl] = ""
    BY DEF Inv, Whisting, Whist
  <2>2. CASE phase = "whist2"
    <3>1. wst' = TakenBack(w)
      BY <2>2 DEF Whist
    <3> QED BY <1>1, <1>2, <1>3, <2>1, <3>1 DEF TakenBack, Says
  <2>3. CASE phase # "whist2"
    <3>1. wst' = [wst EXCEPT ![s] = w] /\ s = Second
      BY <1>1, <1>2, <2>3 DEF Whist, Inv, Whisting
    <3> QED BY <1>1, <1>2, <1>3, <2>1, <3>1 DEF Says
  <2> QED BY <2>2, <2>3
<1>5. wst'[First] \in {"whist", "pass"}
  <2>1. CASE phase = "whist2"
    <3>1. wst' = TakenBack(w)
      BY <2>1 DEF Whist
    <3> QED BY <1>1, <1>2, <1>3, <3>1 DEF TakenBack
  <2>2. CASE phase # "whist2"
    <3>1. wst' = [wst EXCEPT ![s] = w] /\ s = Second /\ wst[First] \in {"whist", "pass"}
      BY <1>1, <1>2, <2>2 DEF Whist, Inv, Whisting
    <3> QED BY <1>1, <1>2, <3>1
  <2> QED BY <2>1, <2>2
<1>6. \/ wst'[Second] \in {"whist", "pass"}
      \/ wst'[Second] = "half" /\ wst'[First] = "pass" /\ so_level(contract) = MinLevel
  <2>1. CASE phase = "whist2"
    <3>1. wst' = TakenBack(w) /\ wst[Second] = "half" /\ so_level(contract) = MinLevel
      BY <2>1 DEF Whist, Inv, Whisting
    <3> QED BY <1>1, <1>2, <1>3, <3>1 DEF TakenBack
  <2>2. CASE phase # "whist2"
    <3>1. wst' = [wst EXCEPT ![s] = w] /\ s = Second
      BY <1>1, <1>2, <2>2 DEF Whist, Inv, Whisting
    <3> QED BY <1>1, <1>2, <1>3, <3>1
  <2> QED BY <2>1, <2>2
<1> QED BY <1>2, <1>4, <1>5, <1>6, RepliesAre DEF Says

(* A defender's word: the other's turn, or the hand is played or scored. *)
LEMMA InvWhist ==
    ASSUME Inv, NEW s \in Seats, NEW w \in LegalReplies(s), Whist(s, w)
    PROVE  Inv'
<1>1. /\ phase \in {"whist", "whist2"} /\ turn = s
      /\ UNCHANGED <<dealer, handno, cards, auction, decl, contract, trump, streak>>
  BY DEF Whist, so_ctl
<1>2. /\ decl \in Seats /\ open = NoOne /\ Unbegun /\ high >= 0
      /\ contract \in 0..TopBid /\ contract % 2 = 0 /\ wst[decl] = ""
  BY <1>1 DEF Inv, Declaring, Whisting
<1>3. /\ First \in Seats /\ Second \in Seats /\ First # decl /\ Second # decl /\ Second # First
      /\ First' = First /\ Second' = Second /\ wst \in [Seats -> Says]
  BY <1>1, <1>2, Defenders DEF First, Second, Inv, Typed
<1>4. /\ HighBid' /\ dealer' \in Seats /\ hands' \in [Seats -> SUBSET Deck]
      /\ bids' \in [Seats -> Int] /\ handno' \in Nat /\ high' \in Int /\ contract' \in Int
  BY <1>1 DEF Inv, HighBid, Typed, auction, cards
<1>5. CASE /\ phase = "whist" /\ s = First /\ turn' = Second
           /\ UNCHANGED <<phase, open, trick, tseats, lead, tricks, trickno, ready, scores>>
  <2>1. w \in {"whist", "pass"} /\ wst' = [wst EXCEPT ![First] = w] /\ wst[Second] = ""
    BY <1>3, <1>5, <1>1 DEF LegalReplies, Whist, Inv, Whisting, Silent
  <2>2. /\ wst' \in [Seats -> Says] /\ wst'[First] \in {"whist", "pass"}
        /\ wst'[Second] = "" /\ wst'[decl] = ""
    BY <1>2, <1>3, <2>1 DEF Says
  <2>3. Whisting'
    BY <1>1, <1>2, <1>3, <1>5, <2>2 DEF Whisting
  <2>4. Declaring'
    BY <1>1, <1>2, <1>5 DEF Declaring, Unbegun, auction
  <2>5. Lobby' /\ Bidding' /\ Playing'
    BY <1>5 DEF Lobby, Bidding, Playing
  <2>6. HandsMatchTable'
    BY <1>1, <1>5, CardsKept DEF Inv, cards
  <2>7. tricks' \in [Seats -> Nat] /\ trickno' \in Nat /\ open' \in -2..2 /\ turn' \in Seats
    BY <1>3, <1>5 DEF Inv, Typed
  <2>8. Typed'
    BY <1>4, <1>5, <2>2, <2>7 DEF Typed, InHand
  <2> QED BY <1>4, <2>3, <2>4, <2>5, <2>6, <2>8 DEF Inv
<1>6. CASE /\ phase = "whist" /\ s # First /\ w = "half" /\ phase' = "whist2" /\ turn' = First
           /\ UNCHANGED <<open, trick, tseats, lead, tricks, trickno, ready, scores>>
  <2>1. /\ s = Second /\ wst' = [wst EXCEPT ![Second] = "half"]
        /\ wst[First] = "pass" /\ so_level(contract) = MinLevel
    BY <1>1, <1>3, <1>6 DEF LegalReplies, Whist, Inv, Whisting
  <2>2. /\ wst' \in [Seats -> Says] /\ wst'[First] = "pass"
        /\ wst'[Second] = "half" /\ wst'[decl] = ""
    BY <1>2, <1>3, <2>1 DEF Says
  <2>3. Whisting'
    <3>1. contract' = contract /\ decl' = decl /\ so_level(contract)' = MinLevel
      BY <1>1, <2>1 DEF so_level
    <3> QED BY <1>2, <1>3, <1>6, <2>2, <3>1 DEF Whisting
  <2>4. Declaring'
    BY <1>1, <1>2, <1>6 DEF Declaring, Unbegun, auction
  <2>5. Lobby' /\ Bidding' /\ Playing'
    BY <1>6 DEF Lobby, Bidding, Playing
  <2>6. HandsMatchTable'
    BY <1>1, <1>6, CardsKept DEF Inv, cards
  <2>7. tricks' \in [Seats -> Nat] /\ trickno' \in Nat /\ open' \in -2..2 /\ turn' \in Seats
    BY <1>3, <1>6 DEF Inv, Typed
  <2>8. Typed'
    BY <1>4, <1>6, <2>2, <2>7 DEF Typed, InHand
  <2> QED BY <1>4, <2>3, <2>4, <2>5, <2>6, <2>8 DEF Inv
<1>7. CASE (phase = "whist2" \/ (s # First /\ w # "half")) /\ WhistDone(wst')
  <2>1. wst' \in AsTable!Replies(decl, so_level(contract)) /\ wst' \in [Seats -> Says]
    <3>1. wst' \in AsTable!Replies(decl, so_level(contract))
      BY <1>7, Answered
    <3> QED BY <3>1, RepliesAre DEF Says
  <2>2. CASE ScoreHand(tricks, wst') /\ UNCHANGED <<open, table>>
    <3>1. phase' \in {"done", "over"}
      BY <2>2 DEF ScoreHand
    <3>2. tricks' \in [Seats -> Nat] /\ trickno' \in Nat /\ open' \in -2..2
      BY <2>2 DEF Inv, Typed, table
    <3> QED BY <1>1, <1>4, <2>1, <3>1, <3>2, InvScored DEF auction
  <2>3. CASE /\ Whisters(decl, wst') # {} /\ StartPlay
             /\ open' \in {NoOne, First, Second}
    <3>1. /\ phase' = "play" /\ trick' = <<>> /\ tseats' = <<>> /\ trickno' = 0
          /\ tricks' \in [Seats -> Nat] /\ lead' \in Seats /\ turn' \in Seats
          /\ OnTable' /\ Won' /\ trickno' < HandSize
      BY <2>3, PlayBegins DEF Inv, Typed
    <3>2. HandsMatchTable'
      BY <1>1, <3>1, CardsKept DEF Inv, cards
    <3>3. so_level(contract) \in Levels
      BY <1>2, LevelIs
    <3>4. Playing'
      <4>1. decl' = decl /\ contract' = contract /\ so_level(contract)' = so_level(contract)
            /\ decl \in Seats
        BY <1>1, <1>2 DEF so_level
      <4>2. /\ (wst \in AsTable!Replies(decl, so_level(contract)))'
            /\ (Whisters(decl, wst) # {})'
        BY <2>1, <2>3, <4>1 DEF AsTable!Replies, Whisters
      <4>3. decl # NoOne
        BY <4>1 DEF Seats, NoOne
      <4> QED BY <1>3, <2>3, <3>1, <3>3, <4>1, <4>2, <4>3 DEF Playing
    <3>5. Lobby' /\ Bidding' /\ Declaring' /\ Whisting'
      BY <3>1 DEF Lobby, Bidding, Declaring, Whisting
    <3>6. Typed'
      <4>1. open' \in -2..2 /\ trickno' \in Nat
        BY <1>3, <2>3, <3>1 DEF NoOne, Seats
      <4> QED BY <1>4, <2>1, <3>1, <4>1 DEF Typed, InHand
    <3> QED BY <1>4, <3>2, <3>4, <3>5, <3>6 DEF Inv
  <2>4. Whisters(decl, wst') # {} /\ open' = (IF Cardinality(Whisters(decl, wst')) = 1
                                             THEN IF First \in Whisters(decl, wst') THEN Second
                                                                                    ELSE First
                                             ELSE open)
            => open' \in {NoOne, First, Second}
    BY <1>2
  <2> QED BY <1>7, <2>2, <2>3, <2>4 DEF WhistDone
<1> QED BY <1>5, <1>6, <1>7 DEF Whist

----------------------------------------------------------------------------
(* The tricks *)

(* A legal card is one of the hand, and a hand with a card has a legal one. *)
LEMMA LegalInHand ==
    ASSUME NEW s
    PROVE  /\ so_legal_cards(s) \subseteq hands[s]
           /\ hands[s] # {} => so_legal_cards(s) # {}
<1> DEFINE led == IF TalonLeads THEN TalonSuit ELSE IF trick # <<>> THEN Suit(Head(trick)) ELSE -1
           follow == {c \in hands[s] : Suit(c) = led}
           ruff == {c \in hands[s] : Suit(c) = trump}
<1>1. so_legal_cards(s) = IF led = -1 THEN hands[s] ELSE IF follow # {} THEN follow
                          ELSE IF ruff # {} THEN ruff ELSE hands[s]
  BY DEF so_legal_cards
<1> HIDE DEF led
<1> QED BY <1>1

(* Of two cards that count in a trick exactly one beats the other, and what *)
(* beats the better one beats the other as well.                            *)
LEMMA Beats ==
    ASSUME NEW a \in Deck, NEW b \in Deck, NEW c \in Deck, NEW led,
           Suit(a) \in {led, trump}, Suit(b) \in {led, trump}, Suit(c) \in {led, trump}
    PROVE  /\ ~(so_beats(a, b) /\ so_beats(b, a))
           /\ a # b => so_beats(a, b) \/ so_beats(b, a)
           /\ so_beats(a, b) /\ so_beats(b, c) => so_beats(a, c)
<1>1. \A x \in Deck : x = <<Suit(x), Rank(x)>> /\ Rank(x) \in Nat
  BY PreferansAssumption DEF Suit, Rank
<1>2. Suit(a) = Suit(b) /\ Rank(a) = Rank(b) => a = b
  BY <1>1
<1>3. Rank(a) \in Nat /\ Rank(b) \in Nat /\ Rank(c) \in Nat
  BY <1>1
<1> QED BY ONLY <1>2, <1>3, Suit(a) \in {led, trump}, Suit(b) \in {led, trump},
                Suit(c) \in {led, trump} DEF so_beats

(* A trick of three different cards has one winner, or none when no card *)
(* counts; the card led counts when its suit is the one to follow.       *)
LEMMA OneWinner ==
    ASSUME NEW a \in Deck, NEW b \in Deck, NEW c \in Deck, a # b, a # c, b # c, NEW led
    PROVE  /\ \/ Winners(<<a, b, c>>, led) = {}
              \/ \E i \in 1..3 : Winners(<<a, b, c>>, led) = {i}
           /\ led = Suit(a) => Winners(<<a, b, c>>, led) # {}
<1> DEFINE t == <<a, b, c>>
           counts == {i \in 1..3 : Suit(t[i]) \in {led, trump}}
           beats(i, j) == so_beats(t[i], t[j])
<1>1. Winners(t, led) = {i \in counts : \A j \in counts : j = i \/ beats(i, j)}
  BY Len(t) = 3 DEF Winners
<1>2. \A i \in 1..3 : t[i] \in Deck
  OBVIOUS
<1>3. \A i, j \in 1..3 : i # j => t[i] # t[j]
  OBVIOUS
<1>4. \A i, j, k \in counts :
         /\ ~(beats(i, j) /\ beats(j, i))
         /\ i # j => beats(i, j) \/ beats(j, i)
         /\ beats(i, j) /\ beats(j, k) => beats(i, k)
  <2> SUFFICES ASSUME NEW i \in counts, NEW j \in counts, NEW k \in counts
               PROVE  /\ ~(beats(i, j) /\ beats(j, i))
                      /\ i # j => beats(i, j) \/ beats(j, i)
                      /\ beats(i, j) /\ beats(j, k) => beats(i, k)
    OBVIOUS
  <2>1. /\ t[i] \in Deck /\ t[j] \in Deck /\ t[k] \in Deck
        /\ Suit(t[i]) \in {led, trump} /\ Suit(t[j]) \in {led, trump}
        /\ Suit(t[k]) \in {led, trump} /\ (i # j => t[i] # t[j])
    BY <1>2, <1>3
  <2> DEFINE x == t[i]
             y == t[j]
             z == t[k]
  <2>2. x \in Deck /\ y \in Deck /\ z \in Deck
    BY ONLY <2>1
  <2>3. Suit(x) \in {led, trump} /\ Suit(y) \in {led, trump} /\ Suit(z) \in {led, trump}
    BY ONLY <2>1
  <2>4. (i # j => x # y) /\ (beats(i, j) <=> so_beats(x, y)) /\ (beats(j, i) <=> so_beats(y, x))
        /\ (beats(j, k) <=> so_beats(y, z)) /\ (beats(i, k) <=> so_beats(x, z))
    BY ONLY <2>1
  <2> HIDE DEF t, counts, beats, x, y, z
  <2>5. /\ ~(so_beats(x, y) /\ so_beats(y, x))
        /\ x # y => so_beats(x, y) \/ so_beats(y, x)
        /\ so_beats(x, y) /\ so_beats(y, z) => so_beats(x, z)
    BY <2>2, <2>3, Beats
  <2> QED BY ONLY <2>4, <2>5
<1>5. Suit(t[1]) = Suit(a) /\ counts \subseteq 1..3
  OBVIOUS
<1> HIDE DEF t, beats
<1>6. led = Suit(a) => 1 \in counts
  BY <1>5
<1> HIDE DEF counts
<1>7. \A i, j \in Winners(t, led) : i = j
  BY <1>1, <1>4
<1>8. 1 \in counts => Winners(t, led) # {}
  <2> SUFFICES ASSUME 1 \in counts, \A i \in counts : \E j \in counts : j # i /\ ~beats(i, j)
               PROVE  FALSE
    BY <1>1
  <2>1. PICK j \in counts : j # 1 /\ beats(j, 1)
    BY <1>4
  <2>2. PICK k \in counts : k # j /\ beats(k, j)
    BY <1>4
  <2>3. beats(k, 1) /\ k # 1
    BY <1>4, <2>1, <2>2
  <2>4. PICK l \in counts : l # k /\ beats(l, k)
    BY <1>4
  <2>5. l = 1 \/ l = j
    BY <1>5, <2>1, <2>2, <2>3, <2>4
  <2> QED BY <1>4, <2>2, <2>3, <2>4, <2>5
<1>9. Winners(t, led) \subseteq 1..3
  BY <1>1, <1>5
<1> QED BY <1>6, <1>7, <1>8, <1>9 DEF t

(* How many cards of a seat lie on the table. *)
LEMMA TableCount ==
    ASSUME NEW x
    PROVE  /\ Cardinality({i \in 1..Len(<<>>) : <<>>[i] = x}) = 0
           /\ \A a : Cardinality({i \in 1..Len(<<a>>) : <<a>>[i] = x}) = IF x = a THEN 1 ELSE 0
           /\ \A a, b : a # b =>
                 Cardinality({i \in 1..Len(<<a, b>>) : <<a, b>>[i] = x})
                     = IF x = a \/ x = b THEN 1 ELSE 0
<1>1. Cardinality({}) = 0 /\ Cardinality({1}) = 1 /\ Cardinality({2}) = 1
  BY FS_EmptySet, FS_Singleton
<1>2. {i \in 1..Len(<<>>) : <<>>[i] = x} = {}
  OBVIOUS
<1>3. \A a : {i \in 1..Len(<<a>>) : <<a>>[i] = x} = IF x = a THEN {1} ELSE {}
  <2> SUFFICES ASSUME NEW a PROVE {i \in 1..Len(<<a>>) : <<a>>[i] = x} = IF x = a THEN {1} ELSE {}
    OBVIOUS
  <2>1. Len(<<a>>) = 1 /\ <<a>>[1] = a /\ \A i \in 1..1 : i = 1
    OBVIOUS
  <2> QED BY <2>1
<1>4. \A a, b : a # b => {i \in 1..Len(<<a, b>>) : <<a, b>>[i] = x}
                           = IF x = a THEN {1} ELSE IF x = b THEN {2} ELSE {}
  <2> SUFFICES ASSUME NEW a, NEW b, a # b
               PROVE  {i \in 1..Len(<<a, b>>) : <<a, b>>[i] = x}
                           = IF x = a THEN {1} ELSE IF x = b THEN {2} ELSE {}
    OBVIOUS
  <2>1. Len(<<a, b>>) = 2 /\ <<a, b>>[1] = a /\ <<a, b>>[2] = b /\ \A i \in 1..2 : i = 1 \/ i = 2
    OBVIOUS
  <2> QED BY <2>1
<1> QED BY <1>1, <1>2, <1>3, <1>4

(* What a card played finds: whose it is and what lies on the table. *)
LEMMA PlayFound ==
    ASSUME Inv, NEW s \in Seats, NEW c \in Deck, Play(s, c)
    PROVE  /\ phase = "play" /\ lead \in Seats /\ turn \in Seats /\ c \in hands[turn]
           /\ trickno \in Nat /\ HandSize \in Nat /\ trickno < HandSize
           /\ hands' = [hands EXCEPT ![turn] = @ \ {c}] /\ hands \in [Seats -> SUBSET Deck]
           /\ hands' \in [Seats -> SUBSET Deck]
           /\ \A i \in 1..Len(trick) : trick[i] # c
           /\ UNCHANGED <<dealer, handno, talon, discard, auction, contractVars, streak>>
<1>1. /\ phase = "play" /\ c \in so_legal_cards(turn)
      /\ hands' = [hands EXCEPT ![turn] = @ \ {c}]
      /\ UNCHANGED <<dealer, handno, talon, discard, auction, contractVars, streak>>
  BY DEF Play, PlayedFrom
<1>2. /\ lead \in Seats /\ turn \in Seats /\ trickno \in Nat /\ trickno < HandSize
      /\ hands \in [Seats -> SUBSET Deck]
  BY <1>1 DEF Inv, Playing, Typed, InHand
<1>3. c \in hands[turn]
  BY <1>1, LegalInHand
<1>4. \A i \in 1..Len(trick) : trick[i] # c
  <2>1. hands[turn] \cap {trick[i] : i \in 1..Len(trick)} = {}
    BY <1>1, <1>2 DEF Inv, HandsMatchTable
  <2> QED BY <1>3, <2>1
<1>5. hands' \in [Seats -> SUBSET Deck] /\ HandSize \in Nat
  BY <1>1, <1>2, PrefScoreAssumption
<1> QED BY <1>1, <1>2, <1>3, <1>4, <1>5

(* The hands after a card: the player's is one card shorter. *)
LEMMA OneLess ==
    ASSUME Inv, NEW s \in Seats, NEW c \in Deck, Play(s, c)
    PROVE  /\ \A x \in Seats :
                 Cardinality(hands'[x]) = IF x = turn THEN HandShould(x) - 1 ELSE HandShould(x)
           /\ \A x, y \in Seats : x # y => hands'[x] \cap hands'[y] = {}
           /\ \A x \in Seats : c \notin hands'[x] /\ hands'[x] \subseteq hands[x]
           /\ \A x \in Seats : hands[x] \cap (discard \cup {trick[i] : i \in 1..Len(trick)}) = {}
<1>1. /\ phase = "play" /\ turn \in Seats /\ c \in hands[turn]
      /\ hands' = [hands EXCEPT ![turn] = @ \ {c}] /\ hands \in [Seats -> SUBSET Deck]
  BY PlayFound
<1>2. /\ \A x \in Seats : Cardinality(hands[x]) = HandShould(x)
      /\ \A x, y \in Seats : x # y => hands[x] \cap hands[y] = {}
      /\ \A x \in Seats : hands[x] \cap (discard \cup {trick[i] : i \in 1..Len(trick)}) = {}
  BY <1>1 DEF Inv, HandsMatchTable
<1>3. hands'[turn] = hands[turn] \ {c} /\ \A x \in Seats : x # turn => hands'[x] = hands[x]
  BY <1>1
<1>4. Cardinality(hands[turn] \ {c}) = Cardinality(hands[turn]) - 1
  BY <1>1, HandFinite, FS_RemoveElement
<1> QED BY <1>1, <1>2, <1>3, <1>4

(* A card put on another. *)
LEMMA SecondPut == ASSUME NEW S, NEW a \in S, NEW b \in S PROVE Append(<<a>>, b) = <<a, b>>
<1> DEFINE p == Append(<<a>>, b)
           q == <<a, b>>
<1>1. p \in Seq(S) /\ q \in Seq(S) /\ Len(p) = 2 /\ Len(q) = 2
  OBVIOUS
<1>2. p[1] = q[1] /\ p[2] = q[2]
  OBVIOUS
<1>3. \A i \in 1..2 : p[i] = q[i]
  BY ONLY <1>2
<1> HIDE DEF p, q
<1>4. p = q
  BY <1>1, <1>3, SeqEqual
<1> QED BY <1>4 DEF p, q

(* The third one, on two. *)
LEMMA ThirdPut ==
    ASSUME NEW S, NEW a \in S, NEW b \in S, NEW c \in S
    PROVE  Append(<<a, b>>, c) = <<a, b, c>>
<1> DEFINE p == Append(<<a, b>>, c)
           q == <<a, b, c>>
<1>1. p \in Seq(S) /\ q \in Seq(S) /\ Len(p) = 3 /\ Len(q) = 3
  OBVIOUS
<1>2. p[1] = q[1] /\ p[2] = q[2] /\ p[3] = q[3]
  OBVIOUS
<1>3. \A i \in 1..3 : p[i] = q[i]
  BY ONLY <1>2
<1> HIDE DEF p, q
<1>4. p = q
  BY <1>1, <1>3, SeqEqual
<1> QED BY <1>4 DEF p, q

(* The first or the second card of a trick. *)
LEMMA CardPlayed ==
    ASSUME Inv, NEW s \in Seats, NEW c \in Deck, Play(s, c), Len(trick) # 2
    PROVE  Inv'
<1>1. /\ phase = "play" /\ lead \in Seats /\ turn \in Seats
      /\ trickno \in Nat /\ HandSize \in Nat /\ trickno < HandSize
      /\ hands' \in [Seats -> SUBSET Deck] /\ \A i \in 1..Len(trick) : trick[i] # c
      /\ UNCHANGED <<dealer, handno, talon, discard, auction, contractVars, streak>>
  BY PlayFound
<1>2. /\ trick' = Append(trick, c) /\ tseats' = Append(tseats, turn)
      /\ turn' = so_next(turn)
      /\ UNCHANGED <<phase, lead, tricks, trickno, ready, scores>>
  BY DEF Play
<1>3. OnTable /\ Won
  BY <1>1 DEF Inv, Playing
<1>4. OnTable' /\ (\A x \in Seats : HandShould(x)' =
                       IF x = turn THEN HandShould(x) - 1 ELSE HandShould(x))
  <2>1. \A x \in Seats : HandShould(x) = HandSize - trickno
                             - Cardinality({i \in 1..Len(tseats) : tseats[i] = x})
    BY <1>1 DEF HandShould
  <2>2. \A x \in Seats : HandShould(x)' = HandSize - trickno
                             - Cardinality({i \in 1..Len(tseats') : tseats'[i] = x})
    BY <1>1, <1>2 DEF HandShould
  <2>3. CASE trick = <<>> /\ tseats = <<>> /\ turn = lead
    <3>1. trick' = <<c>> /\ tseats' = <<lead>>
      BY <1>2, <2>3
    <3>2. OnTable'
      BY <1>2, <2>3, <3>1 DEF OnTable
    <3>3. \A x \in Seats : HandShould(x) = HandSize - trickno - 0
      BY <2>1, <2>3, TableCount
    <3>4. \A x \in Seats : HandShould(x)' = HandSize - trickno - IF x = lead THEN 1 ELSE 0
      BY <2>2, <3>1, TableCount
    <3> QED BY <1>1, <2>3, <3>2, <3>3, <3>4
  <2>4. CASE /\ \E a \in Deck : trick = <<a>>
             /\ tseats = <<lead>> /\ turn = so_next(lead)
    <3>1. PICK a \in Deck : trick = <<a>>
      BY <2>4
    <3>2. a # c
      BY <1>1, <3>1
    <3>3. trick' = <<a, c>> /\ tseats' = <<lead, so_next(lead)>>
      BY <1>1, <1>2, <2>4, <3>1, SecondPut
    <3>4. OnTable'
      BY <1>2, <2>4, <3>2, <3>3 DEF OnTable
    <3>5. \A x \in Seats : HandShould(x) = HandSize - trickno - IF x = lead THEN 1 ELSE 0
      BY <2>1, <2>4, TableCount
    <3>6. lead # turn
      BY <1>1, <2>4, NextSeat
    <3>7. \A x \in Seats : HandShould(x)' = HandSize - trickno
                                               - IF x = lead \/ x = turn THEN 1 ELSE 0
      <4>1. tseats' = <<lead, turn>>
        BY <2>4, <3>3
      <4>2. \A x : Cardinality({i \in 1..Len(<<lead, turn>>) : <<lead, turn>>[i] = x})
                       = IF x = lead \/ x = turn THEN 1 ELSE 0
        BY <3>6, TableCount
      <4>3. \A x : Cardinality({i \in 1..Len(tseats') : tseats'[i] = x})
                       = IF x = lead \/ x = turn THEN 1 ELSE 0
        BY ONLY <4>1, <4>2
      <4> QED BY ONLY <2>2, <4>3
    <3> QED BY <1>1, <3>4, <3>5, <3>6, <3>7
  <2>5. ~(Len(trick) = 2) => ~ \E a, b \in Deck : a # b /\ trick = <<a, b>>
    OBVIOUS
  <2> QED BY <1>3, <2>3, <2>4, <2>5 DEF OnTable
<1>5. HandsMatchTable'
  <2>1. \A x \in Seats : Cardinality(hands'[x]) = HandShould(x)'
    BY <1>4, OneLess
  <2>2. \A x, y \in Seats : x # y => hands'[x] \cap hands'[y] = {}
    BY OneLess
  <2>3. {trick'[i] : i \in 1..Len(trick')} \subseteq {trick[i] : i \in 1..Len(trick)} \cup {c}
    <3>1. trick = <<>> \/ (\E a \in Deck : trick = <<a>>)
      BY <1>3 DEF OnTable
    <3> QED BY <1>2, <3>1
  <2>4. \A x \in Seats : hands'[x] \cap (discard' \cup {trick'[i] : i \in 1..Len(trick')}) = {}
    BY <1>1, <2>3, OneLess
  <2> QED BY <2>1, <2>2, <2>4 DEF HandsMatchTable
<1>6. turn' \in Seats
  BY <1>1, <1>2, NextSeat
<1>7. Typed'
  BY <1>1, <1>2, <1>6 DEF Inv, Typed, InHand, auction, contractVars
<1>8. Won'
  BY <1>1, <1>2, <1>3 DEF Won, contractVars, AsTable!SumOf
<1>9. Playing'
  <2>1. UNCHANGED <<phase, lead, trickno, decl, contract, trump, wst, open>>
    BY <1>1, <1>2 DEF contractVars
  <2> QED BY <1>4, <1>8, <2>1 DEF Inv, Playing, so_level, First, Second
<1>10. HighBid' /\ Lobby' /\ Bidding' /\ Declaring' /\ Whisting'
  BY <1>1, <1>2 DEF Inv, HighBid, Lobby, Bidding, Declaring, Whisting, auction
<1> QED BY <1>4, <1>5, <1>7, <1>9, <1>10 DEF Inv
(* The third card: what lies on the table, and from whom. *)
LEMMA ThirdFound ==
    ASSUME Inv, NEW s \in Seats, NEW c \in Deck, Play(s, c), Len(trick) = 2
    PROVE  \E a, b \in Deck :
              /\ a # b /\ a # c /\ b # c /\ Append(trick, c) = <<a, b, c>>
              /\ tseats = <<lead, so_next(lead)>> /\ turn = so_next(so_next(lead))
              /\ Append(tseats, turn) = <<lead, so_next(lead), turn>>
<1>1. phase = "play" /\ lead \in Seats /\ turn \in Seats /\ \A i \in 1..Len(trick) : trick[i] # c
  BY PlayFound
<1>2. OnTable
  BY <1>1 DEF Inv, Playing
<1>3. ~(trick = <<>>) /\ ~(\E a \in Deck : trick = <<a>>)
  OBVIOUS
<1>4. PICK a \in Deck, b \in Deck : a # b /\ trick = <<a, b>>
  BY <1>2, <1>3 DEF OnTable
<1>5. tseats = <<lead, so_next(lead)>> /\ turn = so_next(so_next(lead))
  BY <1>2, <1>3 DEF OnTable
<1>6. a # c /\ b # c
  BY <1>1, <1>4
<1>7. so_next(lead) \in Seats
  BY <1>1, NextSeat
<1>8. Append(trick, c) = <<a, b, c>>
  BY <1>4, ThirdPut
<1>9. Append(tseats, turn) = <<lead, so_next(lead), turn>>
  BY <1>1, <1>5, <1>7, ThirdPut
<1> QED BY <1>4, <1>5, <1>6, <1>8, <1>9

(* One more trick for one seat is one more trick in all. *)
LEMMA OneMore ==
    ASSUME NEW f \in [Seats -> Nat], NEW x \in Seats
    PROVE  /\ AsTable!SumOf(f) \in Nat
           /\ AsTable!SumOf([s \in Seats |-> IF s = x THEN f[s] + 1 ELSE f[s]])
                  = AsTable!SumOf(f) + 1
<1> DEFINE g == [s \in Seats |-> IF s = x THEN f[s] + 1 ELSE f[s]]
<1>1. 0 \in Seats /\ 1 \in Seats /\ 2 \in Seats /\ (x = 0 \/ x = 1 \/ x = 2)
  BY DEF Seats
<1>2. f[0] \in Nat /\ f[1] \in Nat /\ f[2] \in Nat
  BY <1>1
<1>3. /\ g[0] = (IF 0 = x THEN f[0] + 1 ELSE f[0])
      /\ g[1] = (IF 1 = x THEN f[1] + 1 ELSE f[1])
      /\ g[2] = (IF 2 = x THEN f[2] + 1 ELSE f[2])
  BY <1>1
<1> HIDE DEF g
<1>4. g[0] + g[1] + g[2] = f[0] + f[1] + f[2] + 1
  BY ONLY <1>1, <1>2, <1>3
<1>5. f[0] + f[1] + f[2] \in Nat
  BY ONLY <1>2
<1> QED BY <1>4, <1>5 DEF AsTable!SumOf, g

(* A trick is won by one seat, or in raspasy's first two perhaps by none. *)
LEMMA TrickWon ==
    ASSUME Inv, NEW s \in Seats, NEW c \in Deck, Play(s, c), Len(trick) = 2
    PROVE  /\ trick' = <<>> /\ tseats' = <<>> /\ trickno' = trickno + 1
           /\ lead' \in Seats /\ turn' = lead' /\ tricks' \in [Seats -> Nat]
           /\ AsTable!SumOf(tricks) \in Nat
           /\ AsTable!SumOf(tricks') \in {AsTable!SumOf(tricks), AsTable!SumOf(tricks) + 1}
           /\ ~TalonLeads => AsTable!SumOf(tricks') = AsTable!SumOf(tricks) + 1
           /\ \/ trickno' = HandSize /\ ScoreHand(tricks', wst)
              \/ trickno' # HandSize /\ UNCHANGED <<phase, ready, scores>>
<1>1. PICK a \in Deck, b \in Deck :
              /\ a # b /\ a # c /\ b # c /\ Append(trick, c) = <<a, b, c>>
              /\ tseats = <<lead, so_next(lead)>> /\ turn = so_next(so_next(lead))
              /\ Append(tseats, turn) = <<lead, so_next(lead), turn>>
  BY ThirdFound
<1> DEFINE ts == <<lead, so_next(lead), turn>>
           led == IF TalonLeads THEN TalonSuit ELSE Suit(Head(<<a, b, c>>))
           won == {ts[i] : i \in Winners(<<a, b, c>>, led)}
           leads == won # {} /\ (decl # NoOne \/ trickno + 1 >= 2)
<1>2. TrickDone(<<a, b, c>>, ts)
  BY <1>1 DEF Play
<1>3. /\ tricks' = [x \in Seats |-> IF x \in won THEN tricks[x] + 1 ELSE tricks[x]]
      /\ trick' = <<>> /\ tseats' = <<>> /\ trickno' = trickno + 1 /\ turn' = lead'
      /\ lead' = (IF leads THEN CHOOSE x \in won : TRUE ELSE so_next(dealer))
      /\ IF LastTrick(trickno + 1) THEN ScoreHand(tricks', wst)
                                   ELSE UNCHANGED <<phase, ready, scores>>
  BY <1>2 DEF TrickDone
<1>4. ts[1] \in Seats /\ ts[2] \in Seats /\ ts[3] \in Seats
  <2>1. lead \in Seats /\ turn \in Seats
    BY PlayFound
  <2> QED BY <2>1, NextSeat
<1>5. tricks \in [Seats -> Nat] /\ dealer \in Seats
  BY DEF Inv, Typed
<1>6. ~TalonLeads => led = Suit(a)
  BY Head(<<a, b, c>>) = a
<1> HIDE DEF led, ts
<1>7. /\ Winners(<<a, b, c>>, led) = {} \/ \E i \in 1..3 : Winners(<<a, b, c>>, led) = {i}
      /\ led = Suit(a) => Winners(<<a, b, c>>, led) # {}
  <2>1. a \in Deck /\ b \in Deck /\ c \in Deck /\ a # b /\ a # c /\ b # c
    BY <1>1
  <2> QED BY ONLY <2>1, OneWinner, SMTT(30)
<1>8. /\ won = {} \/ \E x \in Seats : won = {x}
      /\ ~TalonLeads => won # {}
  <2>1. \A i \in 1..3 : ts[i] \in Seats
    BY <1>4
  <2> QED BY <1>6, <1>7, <2>1
<1> HIDE DEF won
<1>9. lead' \in Seats
  <2>1. so_next(dealer) \in Seats
    BY <1>5, NextSeat
  <2>2. won \subseteq Seats
    BY <1>8
  <2> QED BY <1>3, <2>1, <2>2
<1>10. AsTable!SumOf(tricks) \in Nat
  BY <1>5, OneMore, 0 \in Seats DEF Seats
<1>11. /\ tricks' \in [Seats -> Nat]
       /\ won = {} => tricks' = tricks
       /\ won # {} => AsTable!SumOf(tricks') = AsTable!SumOf(tricks) + 1
  <2>1. CASE won = {}
    <3>1. tricks' = [x \in Seats |-> tricks[x]]
      BY <1>3, <2>1
    <3> QED BY <1>5, <2>1, <3>1
  <2>2. CASE won # {}
    <3>1. PICK x \in Seats : won = {x}
      BY <1>8, <2>2
    <3>2. tricks' = [y \in Seats |-> IF y = x THEN tricks[y] + 1 ELSE tricks[y]]
      BY <1>3, <3>1
    <3>3. tricks' \in [Seats -> Nat]
      BY <1>5, <3>2
    <3> QED BY <1>5, <2>2, <3>2, <3>3, OneMore
  <2> QED BY <2>1, <2>2
<1>12. trickno' = HandSize <=> LastTrick(trickno + 1)
  BY <1>3 DEF LastTrick
<1> QED BY <1>3, <1>8, <1>9, <1>10, <1>11, <1>12

(* The tricks of a hand stay counted. *)
LEMMA TrickCounted ==
    ASSUME Inv, NEW s \in Seats, NEW c \in Deck, Play(s, c), Len(trick) = 2
    PROVE  Won'
<1> DEFINE n == AsTable!SumOf(tricks)
           m == AsTable!SumOf(tricks')
<1>1. /\ n \in Nat /\ m \in {n, n + 1} /\ trickno' = trickno + 1
      /\ ~TalonLeads => m = n + 1
  BY TrickWon
<1>2. phase = "play" /\ trickno \in Nat /\ decl' = decl
  BY PlayFound DEF contractVars
<1>3. IF decl = NoOne THEN n <= trickno /\ trickno <= n + AtMost(2, trickno) ELSE n = trickno
  BY <1>2 DEF Inv, Playing, Won
<1>4. IF decl = NoOne THEN m <= trickno + 1 /\ trickno + 1 <= m + AtMost(2, trickno + 1)
                      ELSE m = trickno + 1
  <2> HIDE DEF n, m
  <2> QED BY <1>1, <1>2, <1>3 DEF AtMost, TalonLeads
<1>5. AsTable!SumOf(tricks)' = m
  BY DEF AsTable!SumOf
<1> QED BY <1>1, <1>2, <1>4, <1>5 DEF Won

(* The third card ends the trick, and the last trick the hand. *)
LEMMA TrickTaken ==
    ASSUME Inv, NEW s \in Seats, NEW c \in Deck, Play(s, c), Len(trick) = 2
    PROVE  Inv'
<1>1. /\ phase = "play" /\ lead \in Seats /\ turn \in Seats
      /\ trickno \in Nat /\ HandSize \in Nat /\ trickno < HandSize
      /\ hands' \in [Seats -> SUBSET Deck]
      /\ UNCHANGED <<dealer, handno, talon, discard, auction, contractVars, streak>>
  BY PlayFound
<1>2. /\ trick' = <<>> /\ tseats' = <<>> /\ trickno' = trickno + 1
      /\ lead' \in Seats /\ turn' = lead' /\ tricks' \in [Seats -> Nat]
      /\ \/ trickno' = HandSize /\ ScoreHand(tricks', wst)
         \/ trickno' # HandSize /\ UNCHANGED <<phase, ready, scores>>
  BY TrickWon
<1>3. /\ dealer' \in Seats /\ bids' \in [Seats -> Int] /\ wst' \in [Seats -> Says]
      /\ handno' \in Nat /\ high' \in Int /\ contract' \in Int /\ open' \in -2..2
  BY <1>1 DEF Inv, Typed, auction, contractVars
<1>4. trickno' \in Nat
  BY <1>1, <1>2
<1>5. CASE trickno' = HandSize /\ ScoreHand(tricks', wst)
  <2>1. phase' \in {"done", "over"}
    BY <1>5 DEF ScoreHand
  <2> QED BY <1>1, <1>2, <1>3, <1>4, <2>1, InvScored DEF auction, contractVars
<1>6. CASE trickno' # HandSize /\ UNCHANGED <<phase, ready, scores>>
  <2>1. OnTable' /\ Won' /\ trickno' < HandSize
    <3>1. OnTable'
      BY <1>2 DEF OnTable
    <3>2. Won'
      BY TrickCounted
    <3> QED BY <1>1, <1>2, <1>6, <3>1, <3>2
  <2>2. Typed'
    BY <1>1, <1>2, <1>3, <1>4, <1>6 DEF Typed, InHand
  <2>3. HighBid'
    BY <1>1 DEF Inv, HighBid, auction
  <2>4. Lobby' /\ Bidding' /\ Declaring' /\ Whisting'
    BY <1>1, <1>6 DEF Lobby, Bidding, Declaring, Whisting
  <2>5. Playing'
    <3>1. /\ decl = NoOne => open = NoOne
          /\ decl # NoOne =>
              /\ decl \in Seats
              /\ open \in {NoOne, MisereOpen, First, Second}
              /\ contract # MisereBid =>
                    /\ so_level(contract) \in Levels
                    /\ wst \in AsTable!Replies(decl, so_level(contract))
                    /\ Whisters(decl, wst) # {}
      BY <1>1 DEF Inv, Playing
    <3>2. decl' = decl /\ open' = open /\ contract' = contract /\ wst' = wst
      BY <1>1 DEF contractVars
    <3>3. /\ First' = First /\ Second' = Second
          /\ so_level(contract)' = so_level(contract)
          /\ AsTable!Replies(decl, so_level(contract))' = AsTable!Replies(decl, so_level(contract))
          /\ Whisters(decl, wst)' = Whisters(decl, wst)
      BY <3>2 DEF First, Second, so_level, AsTable!Replies, Whisters
    <3> QED BY <1>2, <2>1, <3>1, <3>2, <3>3 DEF Playing
  <2>6. HandsMatchTable'
    <3>1. PICK a \in Deck, b \in Deck :
              /\ tseats = <<lead, so_next(lead)>> /\ turn = so_next(so_next(lead))
      BY ThirdFound
    <3>2. /\ lead # so_next(lead) /\ turn # lead /\ turn # so_next(lead)
          /\ \A x \in Seats : x = lead \/ x = so_next(lead) \/ x = turn
      BY <1>1, <3>1, NextSeat
    <3>3. \A x \in Seats : HandShould(x) = HandSize - trickno - IF x = turn THEN 0 ELSE 1
      <4>1. \A x \in Seats : HandShould(x) = HandSize - trickno
                             - Cardinality({i \in 1..Len(tseats) : tseats[i] = x})
        BY <1>1 DEF HandShould
      <4>2. \A x : Cardinality({i \in 1..Len(<<lead, so_next(lead)>>) :
                                   <<lead, so_next(lead)>>[i] = x})
                       = IF x = lead \/ x = so_next(lead) THEN 1 ELSE 0
        BY <3>2, TableCount
      <4>3. \A x : Cardinality({i \in 1..Len(tseats) : tseats[i] = x})
                       = IF x = lead \/ x = so_next(lead) THEN 1 ELSE 0
        BY ONLY <3>1, <4>2
      <4> QED BY ONLY <3>2, <4>1, <4>3
    <3>4. \A x \in Seats : HandShould(x)' = HandSize - (trickno + 1) - 0
      <4>1. \A x : Cardinality({i \in 1..Len(tseats') : tseats'[i] = x}) = 0
        BY <1>2, TableCount
      <4> QED BY <1>1, <1>2, <1>6, <4>1 DEF HandShould
    <3>5. \A x \in Seats : Cardinality(hands'[x]) =
                               IF x = turn THEN HandShould(x) - 1 ELSE HandShould(x)
      BY OneLess
    <3>6. \A x \in Seats : Cardinality(hands'[x]) = HandShould(x)'
      BY ONLY <1>1, <3>3, <3>4, <3>5
    <3>7. \A x, y \in Seats : x # y => hands'[x] \cap hands'[y] = {}
      BY OneLess
    <3>8. \A x \in Seats : hands'[x] \cap (discard' \cup {trick'[i] : i \in 1..Len(trick')}) = {}
      BY <1>1, <1>2, OneLess, EmptyTrick
    <3> QED BY <3>6, <3>7, <3>8 DEF HandsMatchTable
  <2> QED BY <2>2, <2>3, <2>4, <2>5, <2>6 DEF Inv
<1> QED BY <1>2, <1>5, <1>6

(* A stutter changes nothing. *)
LEMMA InvKept == ASSUME Inv, UNCHANGED vars PROVE Inv'
<1>1. UNCHANGED <<phase, dealer, handno, hands, talon, discard, bids, high, hseat, decl,
                  contract, trump, wst, open, trick, tseats, lead, turn, tricks, trickno,
                  ready, streak, sheet, final>>
  BY DEF vars, cards, auction, contractVars, table, scores
<1>2. Typed' /\ HighBid' /\ Lobby' /\ Bidding' /\ Declaring' /\ Whisting'
  BY <1>1 DEF Inv, Typed, HighBid, Lobby, Bidding, Declaring, Whisting, Unbegun, Silent,
              First, Second, so_level
<1>3. OnTable' <=> OnTable
  BY <1>1 DEF OnTable
<1>4. Won' <=> Won
  BY <1>1 DEF Won, AsTable!SumOf
<1>5. Playing'
  BY <1>1, <1>3, <1>4 DEF Inv, Playing, First, Second, so_level, AsTable!Replies, Whisters
<1>6. HandsMatchTable'
  <2>1. \A x \in Seats : HandShould(x)' = HandShould(x)
    BY <1>1 DEF HandShould
  <2> QED BY <1>1, <2>1 DEF Inv, HandsMatchTable
<1> QED BY <1>2, <1>5, <1>6 DEF Inv

(* Every step keeps the invariant. *)
LEMMA InvNext == ASSUME ~StaleDiscards, Inv, [Next]_vars PROVE Inv'
<1>1. ASSUME NewGame PROVE Inv'
  BY <1>1, InvNewGame
<1>2. ASSUME NEW s \in Seats, NEW o \in LegalBids(s), Bid(s, o) PROVE Inv'
  BY <1>2, InvBid
<1>3. ASSUME NEW s \in Seats, NEW a \in hands[s], NEW b \in hands[s], Discard(s, a, b) PROVE Inv'
  BY <1>3, InvDiscard
<1>4. ASSUME NEW s \in Seats, NEW o \in 0..TopBid, NameContract(s, o) PROVE Inv'
  BY <1>4, InvName
<1>5. ASSUME NEW s \in Seats, NEW w \in LegalReplies(s), Whist(s, w) PROVE Inv'
  BY <1>5, InvWhist
<1>6. ASSUME NEW s \in Seats, NEW c \in Deck, Play(s, c) PROVE Inv'
  BY <1>6, CardPlayed, TrickTaken
<1>7. ASSUME NEW s \in Seats, Ready(s) PROVE Inv'
  BY <1>7, InvReady
<1>8. ASSUME UNCHANGED vars PROVE Inv'
  BY <1>8, InvKept
<1> QED BY <1>1, <1>2, <1>3, <1>4, <1>5, <1>6, <1>7, <1>8 DEF Next

(* The rules keep the invariant through a game. *)
LEMMA RulesInvariant == ASSUME ~StaleDiscards PROVE Spec => []Inv
<1>1. Init => Inv
  BY InvInit
<1>2. Inv /\ [Next]_vars => Inv'
  BY InvNext
<1> QED BY <1>1, <1>2, PTL DEF Spec

(* Every player holds the cards the count of tricks says, and no card is in *)
(* two places (so_act's "d:", "b:" and "p:" verbs, so_trick_done).          *)
THEOREM HandsAreRight == ASSUME ~StaleDiscards PROVE Spec => []HandsMatchTable
<1>1. Inv => HandsMatchTable
  BY DEF Inv
<1> QED BY <1>1, RulesInvariant, PTL

(* Nobody is asked for a move that cannot be made (so_ctl, so_legal_cards, *)
(* the contract after the talon).                                          *)
THEOREM MovesExist == ASSUME ~StaleDiscards PROVE Spec => []MoverCanMove
<1>1. ASSUME Inv PROVE MoverCanMove
  <2>1. CASE phase = "play"
    <3>1. turn \in Seats /\ lead \in Seats /\ OnTable /\ trickno \in Nat /\ trickno < HandSize
          /\ HandSize \in Nat
      BY <1>1, <2>1, PrefScoreAssumption DEF Inv, Typed, Playing, InHand
    <3>2. so_legal_cards(turn) # {}
      <4>1. Cardinality(hands[turn]) = HandSize - trickno
                             - Cardinality({i \in 1..Len(tseats) : tseats[i] = turn})
        BY <1>1, <2>1, <3>1 DEF Inv, HandsMatchTable, HandShould
      <4>2. Cardinality({i \in 1..Len(tseats) : tseats[i] = turn}) = 0
        <5>1. CASE tseats = <<>>
          BY <5>1, TableCount
        <5>2. CASE tseats = <<lead>> /\ turn = so_next(lead)
          <6>1. turn # lead
            BY <3>1, <5>2, NextSeat
          <6> QED BY <5>2, <6>1, TableCount
        <5>3. CASE tseats = <<lead, so_next(lead)>> /\ turn = so_next(so_next(lead))
          <6>1. turn # lead /\ turn # so_next(lead) /\ lead # so_next(lead)
            BY <3>1, <5>3, NextSeat
          <6> QED BY <5>3, <6>1, TableCount
        <5> QED BY <3>1, <5>1, <5>2, <5>3 DEF OnTable
      <4>3. Cardinality(hands[turn]) # 0
        BY ONLY <3>1, <4>1, <4>2
      <4>4. hands[turn] # {}
        BY <4>3, FS_EmptySet
      <4> QED BY <4>4, LegalInHand
    <3>3. so_ctl \in Seats \ {open}
      <4>1. CASE open >= 0 /\ turn = open
        <5>1. decl \in Seats
          BY <1>1, <2>1, <4>1 DEF Inv, Playing, NoOne
        <5>2. First \in Seats /\ Second \in Seats /\ Second # First
          BY <5>1, Defenders
        <5> QED BY <2>1, <4>1, <5>2 DEF so_ctl
      <4>2. CASE ~(open >= 0 /\ turn = open)
        <5>1. so_ctl = turn
          BY <2>1, <4>2 DEF so_ctl
        <5>2. turn # open
          <6>1. turn >= 0
            BY <3>1 DEF Seats
          <6> QED BY <4>2, <6>1
        <5> QED BY <3>1, <5>1, <5>2
      <4> QED BY <4>1, <4>2
    <3> QED BY <2>1, <3>2, <3>3 DEF MoverCanMove
  <2>2. CASE phase = "contract"
    <3>1. high >= 0 /\ high # MisereBid
      BY <1>1, <2>2 DEF Inv, Declaring
    <3>2. high <= TopBid
      BY <1>1, <3>1, TopBidNat DEF Inv, HighBid
    <3> QED BY <2>2, <3>1, <3>2 DEF MoverCanMove
  <2> QED BY <2>1, <2>2 DEF MoverCanMove
<1> QED BY <1>1, RulesInvariant, PTL

----------------------------------------------------------------------------
(***************************************************************************)
(* The rules implement PrefTable: every deal, every end of the bidding and *)
(* every score is one of its steps, every other move a stutter.            *)
(***************************************************************************)

(* What the score sheet sees of the phase. *)
LEMMA StageIs ==
    /\ phase = "lobby" => Stage = "lobby"
    /\ phase = "bid" => Stage = "auction"
    /\ phase \in InHand \ {"bid"} => Stage = IF decl = NoOne THEN "raspasy" ELSE "contract"
    /\ phase \in {"done", "over"} => Stage = phase
BY DEF Stage, InHand

(* The same after a step. *)
LEMMA NextStageIs ==
    /\ phase' = "bid" => Stage' = "auction"
    /\ phase' \in InHand \ {"bid"} => Stage' = IF decl' = NoOne THEN "raspasy" ELSE "contract"
    /\ phase' \in {"done", "over"} => Stage' = phase'
BY DEF Stage, InHand

(* The hand on the table is of the game's stage. *)
LEMMA SameStage ==
    ASSUME phase \in InHand, phase' \in InHand, phase = "bid" <=> phase' = "bid",
           UNCHANGED <<handno, decl, streak, sheet, final>>
    PROVE  UNCHANGED AsTable!sheetVars
<1>1. Stage' = Stage
  BY StageIs, NextStageIs
<1> QED BY <1>1 DEF AsTable!sheetVars

(* The table is the lobby's at first. *)
LEMMA TableInit == Init => AsTable!SheetInit
<1> SUFFICES ASSUME Init PROVE AsTable!SheetInit
  OBVIOUS
<1>1. phase = "lobby" /\ handno = 0 /\ decl = -1 /\ streak = 0
  BY DEF Init, NoOne
<1>2. sheet = EmptySheet /\ final = None3
  BY DEF Init
<1>3. None3 = AsTable!NoBalance /\ AsTable!EmptySheet = EmptySheet
  BY SameCounts DEF None3, AsTable!NoBalance
<1> QED BY <1>1, <1>2, <1>3, StageIs DEF AsTable!SheetInit

(* A deal. *)
LEMMA TableDeal ==
    ASSUME StartHand, phase \in {"lobby", "done"}, UNCHANGED <<streak, sheet, final>>
    PROVE  AsTable!SheetNext
<1>1. handno < MaxHands /\ handno' = handno + 1 /\ decl' = -1 /\ phase' = "bid"
  BY DEF StartHand, NoOne
<1>2. Stage \in {"lobby", "done"} /\ Stage' = "auction"
  BY <1>1, StageIs, NextStageIs
<1>3. AsTable!Deal
  BY <1>1, <1>2 DEF AsTable!Deal
<1> QED BY <1>3 DEF AsTable!SheetNext

(* The score of a hand. *)
LEMMA TableScore ==
    ASSUME NEW t, NEW w, ScoreHand(t, w), UNCHANGED <<handno, decl, streak>>
    PROVE  AsTable!Score(Scored(t, w)) /\ Stage' \in AsTable!HandOver
<1> DEFINE sh == Scored(t, w)
<1>1. /\ sheet' = sh /\ phase' = (IF AllFull(sh) THEN "over" ELSE "done")
      /\ final' = (IF AllFull(sh) THEN so_settle(sh) ELSE final)
  BY DEF ScoreHand
<1> HIDE DEF sh
<1>2. Stage' = (IF AsTable!AllFull(sh) THEN "over" ELSE "done")
  BY <1>1, NextStageIs, SameEnd
<1>3. final' = (IF AsTable!AllFull(sh) THEN AsTable!so_settle(sh) ELSE final)
  BY <1>1, SameEnd
<1>4. AsTable!Score(sh)
  BY <1>1, <1>2, <1>3 DEF AsTable!Score
<1> QED BY <1>2, <1>4 DEF sh, AsTable!HandOver

(* A hand's tricks are shared out. *)
LEMMA SharedOut ==
    ASSUME NEW t \in [Seats -> Nat], AsTable!SumOf(t) \in 0..HandSize
    PROVE  t \in AsTable!Shares(AsTable!SumOf(t))
<1>1. 0 \in Seats /\ 1 \in Seats /\ 2 \in Seats /\ \A s \in Seats : s = 0 \/ s = 1 \/ s = 2
  BY DEF Seats
<1>2. t[0] \in Nat /\ t[1] \in Nat /\ t[2] \in Nat /\ t[0] + t[1] + t[2] \in 0..HandSize
  BY <1>1 DEF AsTable!SumOf
<1>3. HandSize \in Nat
  BY PrefScoreAssumption
<1>4. t[0] \in 0..HandSize /\ t[1] \in 0..HandSize /\ t[2] \in 0..HandSize
  BY ONLY <1>2, <1>3
<1>5. t \in [Seats -> 0..HandSize]
  BY <1>1, <1>4
<1> QED BY <1>5, SameCounts DEF AsTable!Shares, AsTable!TrickCounts

(* The contract named is none of misere's. *)
LEMMA NoMisere == ASSUME NEW o, o % 2 = 0 PROVE o # MisereBid
BY PreferansAssumption

(* A whist: no whister, and the hand is scored; else the talk goes on. *)
LEMMA TableWhist ==
    ASSUME Inv, NEW s \in Seats, NEW w \in LegalReplies(s), Whist(s, w)
    PROVE  AsTable!SheetNext \/ UNCHANGED AsTable!sheetVars
<1>1. /\ phase \in {"whist", "whist2"}
      /\ UNCHANGED <<dealer, handno, cards, auction, decl, contract, trump, streak>>
  BY DEF Whist
<1>2. decl \in Seats /\ contract \in 0..TopBid /\ contract % 2 = 0 /\ tricks = None3
  BY <1>1 DEF Inv, Declaring, Whisting, Unbegun
<1>3. CASE phase' \in {"whist", "whist2", "play"} /\ UNCHANGED scores
  BY <1>1, <1>3, SameStage DEF InHand, scores
<1>4. CASE /\ phase = "whist2" \/ (s # First /\ w # "half")
           /\ Whisters(decl, wst') = {} /\ ScoreHand(tricks, wst')
  <2>1. wst' \in AsTable!Replies(decl, so_level(contract))
    BY <1>4, Answered
  <2>2. AsTable!Whisters(decl, wst') = {} /\ so_level(contract) \in AsTable!Levels
    BY <1>2, <1>4, LevelIs, SameCounts, SameWhisters
  <2>3. tricks \in AsTable!Shares(0)
    <3>1. tricks \in [Seats -> Nat] /\ tricks[0] = 0 /\ tricks[1] = 0 /\ tricks[2] = 0
      BY <1>2 DEF None3, Seats
    <3>2. AsTable!SumOf(tricks) = 0
      BY <3>1 DEF AsTable!SumOf
    <3>3. 0 \in 0..HandSize
      BY PrefScoreAssumption
    <3> QED BY <3>1, <3>2, <3>3, SharedOut
  <2>4. Scored(tricks, wst')
          = AsTable!so_score_contract(sheet, decl, so_level(contract), tricks, wst')
    <3>1. decl # NoOne /\ contract # MisereBid
      BY <1>2, NoMisere DEF Seats, NoOne
    <3> QED BY <3>1, SameContract DEF Scored
  <2>5. AsTable!Score(Scored(tricks, wst')) /\ Stage' \in AsTable!HandOver
    BY <1>1, <1>4, TableScore
  <2>6. Stage = "contract"
    BY <1>1, <1>2, StageIs DEF InHand, Seats, NoOne
  <2>7. AsTable!Contract
    BY <2>1, <2>2, <2>3, <2>4, <2>5, <2>6 DEF AsTable!Contract
  <2> QED BY <2>7 DEF AsTable!SheetNext
<1>5. \/ phase' \in {"whist", "whist2", "play"} /\ UNCHANGED scores
      \/ /\ phase = "whist2" \/ (s # First /\ w # "half")
         /\ Whisters(decl, wst') = {} /\ ScoreHand(tricks, wst')
  BY <1>1 DEF Whist, WhistDone, StartPlay
<1> QED BY <1>3, <1>4, <1>5

(* A card: the last one of the hand has it scored. *)
LEMMA TablePlay ==
    ASSUME Inv, NEW s \in Seats, NEW c \in Deck, Play(s, c)
    PROVE  AsTable!SheetNext \/ UNCHANGED AsTable!sheetVars
<1>1. /\ phase = "play" /\ HandSize \in Nat
      /\ UNCHANGED <<dealer, handno, talon, discard, auction, contractVars, streak>>
  BY PlayFound
<1>2. UNCHANGED <<decl, contract, open, wst>>
  BY <1>1 DEF contractVars
<1>3. CASE UNCHANGED <<phase, scores>>
  BY <1>1, <1>2, <1>3, SameStage DEF InHand, scores
<1>4. CASE Len(trick) = 2 /\ trickno' = HandSize /\ ScoreHand(tricks', wst)
  <2> DEFINE n == AsTable!SumOf(tricks')
  <2>1. tricks' \in [Seats -> Nat] /\ n \in Nat
    BY <1>4, TrickWon
  <2>2. IF decl = NoOne THEN n <= HandSize /\ HandSize <= n + AtMost(2, HandSize)
                        ELSE n = HandSize
    <3>1. Won'
      BY <1>4, TrickCounted
    <3>2. AsTable!SumOf(tricks)' = n
      BY DEF AsTable!SumOf
    <3> QED BY <1>2, <1>4, <3>1, <3>2 DEF Won
  <2>3. n \in 0..HandSize
    BY <1>1, <2>1, <2>2
  <2>4. tricks' \in AsTable!Shares(n)
    BY <2>1, <2>3, SharedOut
  <2>5. AsTable!Score(Scored(tricks', wst)) /\ Stage' \in AsTable!HandOver
    BY <1>1, <1>2, <1>4, TableScore
  <2> HIDE DEF n
  <2>6. CASE decl = NoOne
    <3>1. Stage = "raspasy"
      BY <1>1, <2>6, StageIs DEF InHand
    <3>2. Scored(tricks', wst) = AsTable!so_score_raspasy(sheet, tricks', streak)
      BY <2>6, SameRaspasy DEF Scored
    <3>3. n \in (HandSize - AsTable!AtMost(2, HandSize))..HandSize
      <4>1. AsTable!AtMost(2, HandSize) = AtMost(2, HandSize) /\ AtMost(2, HandSize) \in Int
        BY <1>1, SameCounts DEF AtMost
      <4> QED BY <1>1, <2>1, <2>2, <2>6, <4>1
    <3>4. AsTable!Raspasy
      BY <2>4, <2>5, <3>1, <3>2, <3>3 DEF AsTable!Raspasy
    <3> QED BY <3>4 DEF AsTable!SheetNext
  <2>7. CASE decl # NoOne
    <3>1. /\ Stage = "contract" /\ n = HandSize
      BY <1>1, <2>2, <2>7, StageIs DEF InHand
    <3>2. CASE contract = MisereBid
      <4>1. Scored(tricks', wst) = AsTable!so_score_misere(sheet, decl, tricks')
        BY <2>7, <3>2, SameMisere DEF Scored
      <4>2. AsTable!Misere
        BY <2>4, <2>5, <3>1, <4>1 DEF AsTable!Misere
      <4> QED BY <4>2 DEF AsTable!SheetNext
    <3>3. CASE contract # MisereBid
      <4>1. /\ so_level(contract) \in Levels
            /\ wst \in AsTable!Replies(decl, so_level(contract))
            /\ Whisters(decl, wst) # {}
        BY <1>1, <2>7, <3>3 DEF Inv, Playing
      <4>2. AsTable!Whisters(decl, wst) # {} /\ so_level(contract) \in AsTable!Levels
        BY <4>1, SameCounts, SameWhisters
      <4>3. Scored(tricks', wst)
              = AsTable!so_score_contract(sheet, decl, so_level(contract), tricks', wst)
        BY <2>7, <3>3, SameContract DEF Scored
      <4>4. AsTable!Contract
        BY <2>4, <2>5, <3>1, <4>1, <4>2, <4>3 DEF AsTable!Contract
      <4> QED BY <4>4 DEF AsTable!SheetNext
    <3> QED BY <3>2, <3>3
  <2> QED BY <2>6, <2>7
<1>5. \/ UNCHANGED <<phase, scores>>
      \/ Len(trick) = 2 /\ trickno' = HandSize /\ ScoreHand(tricks', wst)
  <2>1. CASE Len(trick) = 2
    <3>1. \/ trickno' = HandSize /\ ScoreHand(tricks', wst)
          \/ trickno' # HandSize /\ UNCHANGED <<phase, ready, scores>>
      BY <2>1, TrickWon
    <3> QED BY <2>1, <3>1
  <2>2. CASE Len(trick) # 2
    BY <2>2 DEF Play
  <2> QED BY <2>1, <2>2
<1> QED BY <1>3, <1>4, <1>5

(* A bid: the last one decides between raspasy and a declarer. *)
LEMMA TableBid ==
    ASSUME Inv, NEW s \in Seats, NEW o \in LegalBids(s), Bid(s, o)
    PROVE  AsTable!SheetNext \/ UNCHANGED AsTable!sheetVars
<1>1. phase = "bid" /\ UNCHANGED <<handno, sheet, final>> /\ Inv'
  BY InvBid DEF Bid, scores
<1>2. Stage = "auction" /\ decl = NoOne
  BY <1>1, StageIs DEF Inv, Bidding
<1>3. CASE StartRaspasy
  <2>1. decl' = NoOne /\ streak' = streak + 1 /\ phase' = "play"
    BY <1>3 DEF StartRaspasy, StartPlay
  <2>2. Stage' = "raspasy"
    BY <2>1, NextStageIs DEF InHand
  <2>3. AsTable!AllPass
    BY <1>1, <1>2, <2>1, <2>2 DEF AsTable!AllPass
  <2> QED BY <2>3 DEF AsTable!SheetNext
<1>4. CASE TakeTalon(hseat')
  <2>1. decl' = hseat' /\ streak' = 0 /\ phase' = "discard"
    BY <1>4 DEF TakeTalon, StreakBroken
  <2>2. decl' \in Seats
    BY <1>1, <2>1 DEF Inv, Declaring
  <2>3. Stage' = "contract"
    BY <2>1, <2>2, NextStageIs DEF InHand, Seats, NoOne
  <2>4. AsTable!Declare(decl')
    BY <1>1, <1>2, <2>1, <2>3 DEF AsTable!Declare
  <2> QED BY <2>2, <2>4, SameCounts DEF AsTable!SheetNext
<1>5. CASE UNCHANGED <<phase, streak, decl>>
  BY <1>1, <1>5, SameStage DEF InHand
<1> QED BY <1>3, <1>4, <1>5 DEF Bid

(* Every step is one of PrefTable's, or none. *)
LEMMA TableStep ==
    ASSUME ~StaleDiscards, Inv, [Next]_vars
    PROVE  [AsTable!SheetNext]_AsTable!sheetVars
<1>1. ASSUME NewGame PROVE AsTable!SheetNext
  <2>1. phase = "lobby" /\ StartHand /\ UNCHANGED <<streak, sheet, final>>
    BY <1>1 DEF NewGame, Inv, Lobby
  <2> QED BY <2>1, TableDeal
<1>2. ASSUME NEW s \in Seats, NEW o \in LegalBids(s), Bid(s, o)
      PROVE  AsTable!SheetNext \/ UNCHANGED AsTable!sheetVars
  BY <1>2, TableBid
<1>3. ASSUME NEW s \in Seats, NEW a \in hands[s], NEW b \in hands[s], Discard(s, a, b)
      PROVE  UNCHANGED AsTable!sheetVars
  <2>1. phase = "discard" /\ phase' \in {"play", "contract"}
        /\ UNCHANGED <<handno, decl, streak, sheet, final>>
    BY <1>3 DEF Discard, StartPlay, scores
  <2> QED BY <2>1, SameStage DEF InHand
<1>4. ASSUME NEW s \in Seats, NEW o \in 0..TopBid, NameContract(s, o)
      PROVE  UNCHANGED AsTable!sheetVars
  <2>1. phase = "contract" /\ phase' = "whist"
        /\ UNCHANGED <<handno, decl, streak, sheet, final>>
    BY <1>4 DEF NameContract, scores
  <2> QED BY <2>1, SameStage DEF InHand
<1>5. ASSUME NEW s \in Seats, NEW w \in LegalReplies(s), Whist(s, w)
      PROVE  AsTable!SheetNext \/ UNCHANGED AsTable!sheetVars
  BY <1>5, TableWhist
<1>6. ASSUME NEW s \in Seats, NEW c \in Deck, Play(s, c)
      PROVE  AsTable!SheetNext \/ UNCHANGED AsTable!sheetVars
  BY <1>6, TablePlay
<1>7. ASSUME NEW s \in Seats, Ready(s)
      PROVE  AsTable!SheetNext \/ UNCHANGED AsTable!sheetVars
  <2>1. phase = "done"
    BY <1>7 DEF Ready
  <2>2. CASE StartHand /\ UNCHANGED <<streak, scores>>
    BY <2>1, <2>2, TableDeal DEF scores
  <2>3. CASE UNCHANGED <<phase, dealer, handno, cards, auction, contractVars, table,
                         streak, scores>>
    <3>1. UNCHANGED <<phase, handno, decl, streak, sheet, final>>
      BY <2>3 DEF contractVars, scores
    <3>2. Stage' = Stage
      BY <2>1, <3>1, StageIs, NextStageIs
    <3> QED BY <3>1, <3>2 DEF AsTable!sheetVars
  <2> QED BY <1>7, <2>2, <2>3 DEF Ready
<1>8. ASSUME UNCHANGED vars PROVE UNCHANGED AsTable!sheetVars
  <2>1. UNCHANGED <<phase, handno, decl, streak, sheet, final>>
    BY <1>8 DEF vars, contractVars, scores
  <2>2. Stage' = Stage
    BY <2>1 DEF Stage
  <2> QED BY <2>1, <2>2 DEF AsTable!sheetVars
<1> QED BY <1>1, <1>2, <1>3, <1>4, <1>5, <1>6, <1>7, <1>8 DEF Next

(* The rules, move by move, implement the score sheet's game: each hand is *)
(* dealt, bid for and scored by so_score_hand for a result it can have.    *)
THEOREM RulesKeepTable == ASSUME ~StaleDiscards PROVE Spec => IsPrefTable
<1>1. Init => AsTable!SheetInit
  BY TableInit
<1>2. Inv /\ [Next]_vars => [AsTable!SheetNext]_AsTable!sheetVars
  BY TableStep
<1> QED BY <1>1, <1>2, RulesInvariant, PTL DEF Spec, IsPrefTable, AsTable!SheetSpec

=============================================================================
