----------------------------- MODULE Preferans ------------------------------
(***************************************************************************)
(* The rules of Preferans as Sochi's host applies them (src/sochi/sochi.su,*)
(* so_table to so_settle): dealing, bidding, the talon, the contract, the  *)
(* whists, the tricks and the scores.  Each verb of so_act is an action; a *)
(* refused move and a chat line change nothing here.  The texts a player   *)
(* is shown (log, last trick, result, error) are left out, and so is       *)
(* sg_tshow, which only says whether the talon is shown.                   *)
(***************************************************************************)
EXTENDS PrefScore, Sequences, FiniteSets, FiniteSetsExt

CONSTANTS
    SuitCount,      \* 4 in the code: suits are 0..SuitCount - 1
    Deck,           \* 32 cards <<suit, rank>> in the code
    Shuffles,       \* the decks so_start_hand may make of them, as sequences
    MisereBid,      \* 29 in the code: an odd order number
    StaleDiscards,  \* may a discard typed for an older view arrive?
    MaxHands        \* bound: hands dealt in a game

NoTrump == SuitCount
Pass == -1
NoBid == -2
MisereOpen == -2    \* sg_open in a misere: both defenders lay their cards open

ASSUME PreferansAssumption ==
    /\ SuitCount \in Nat \ {0}
    /\ Deck \subseteq (0..(SuitCount - 1)) \X Nat
    /\ IsFiniteSet(Deck)
    /\ Cardinality(Deck) = 3 * HandSize + 2
    /\ \A d \in Shuffles : /\ DOMAIN d = 1..(3 * HandSize + 2)
                           /\ {d[i] : i \in DOMAIN d} = Deck
    /\ MisereBid \in Nat /\ MisereBid % 2 = 1
    /\ StaleDiscards \in BOOLEAN
    /\ MaxHands \in Nat

VARIABLES
    phase, dealer, handno, hands, talon, discard,
    bids, high, hseat,                  \* the auction: last bids, the highest, whose
    decl, contract, trump, wst, open,   \* sg_decl .. sg_open
    trick, tseats, lead, turn,          \* the trick on the table, who is next
    tricks, trickno,                    \* tricks won, tricks played
    ready, streak, sheet, final

auction == <<bids, high, hseat>>
contractVars == <<decl, contract, trump, wst, open>>
table == <<trick, tseats, lead, turn, tricks, trickno>>
cards == <<hands, talon, discard>>
scores == <<sheet, final>>
vars == <<phase, dealer, handno, cards, auction, contractVars, table, ready,
          streak, scores>>

NoOne == -1
None3 == [s \in Seats |-> 0]

----------------------------------------------------------------------------
(* Bids: order number 2 * ((level - 6) * 5 + strain), misere in between *)

Strains == SuitCount + 1
TopBid == 2 * ((HandSize - MinLevel) * Strains + NoTrump)
so_level(o) == (o \div 2) \div Strains + MinLevel
so_strain(o) == (o \div 2) % Strains

----------------------------------------------------------------------------
(* Tricks *)

Suit(c) == c[1]
Rank(c) == c[2]

so_beats(a, b) ==
    IF Suit(a) = Suit(b) THEN Rank(a) > Rank(b) ELSE Suit(a) = trump

(* so_trick_best: the cards of the suit led or of the trump suit that no *)
(* other such card beats; empty when there is none.                      *)
Winners(t, led) ==
    LET counts == {i \in 1..Len(t) : Suit(t[i]) \in {led, trump}}
    IN  {i \in counts : \A j \in counts : j = i \/ so_beats(t[i], t[j])}

(* The talon card that sets the suit of the first two tricks of raspasy. *)
TalonLeads == decl = NoOne /\ trickno < 2
TalonSuit == Suit(talon[trickno + 1])

----------------------------------------------------------------------------
(* A new hand: so_start_hand *)

HandOf(deck, s) == {deck[s * HandSize + i] : i \in 1..HandSize}

StartHand ==
    /\ handno < MaxHands
    /\ handno' = handno + 1
    /\ dealer' = so_next(dealer)
    /\ \E deck \in Shuffles :
          /\ hands' = [s \in Seats |-> HandOf(deck, s)]
          /\ talon' = <<deck[3 * HandSize + 1], deck[3 * HandSize + 2]>>
    /\ discard' = {}
    /\ bids' = [s \in Seats |-> NoBid]
    /\ high' = -1
    /\ hseat' = NoOne
    /\ decl' = NoOne
    /\ contract' = -1
    /\ trump' = NoTrump
    /\ wst' = [s \in Seats |-> ""]
    /\ open' = NoOne
    /\ trick' = <<>>
    /\ tseats' = <<>>
    /\ tricks' = None3
    /\ trickno' = 0
    /\ ready' = {}
    /\ phase' = "bid"
    /\ turn' = so_next(so_next(dealer))
    /\ lead' = turn'

(* so_table *)
Init ==
    /\ phase = "lobby"
    /\ dealer = 2
    /\ handno = 0
    /\ hands = [s \in Seats |-> {}]
    /\ talon = <<>>
    /\ discard = {}
    /\ bids = [s \in Seats |-> NoBid]
    /\ high = -1
    /\ hseat = NoOne
    /\ decl = NoOne
    /\ contract = -1
    /\ trump = NoTrump
    /\ wst = [s \in Seats |-> ""]
    /\ open = NoOne
    /\ trick = <<>>
    /\ tseats = <<>>
    /\ lead = NoOne
    /\ turn = NoOne
    /\ tricks = None3
    /\ trickno = 0
    /\ ready = {}
    /\ streak = 0
    /\ sheet = EmptySheet
    /\ final = None3

(* so_new_game: the table is full. *)
NewGame ==
    /\ phase = "lobby"
    /\ StartHand
    /\ streak' = 0
    /\ sheet' = EmptySheet
    /\ final' = None3

----------------------------------------------------------------------------
(* Whose move it is: so_ctl, so_legal *)

First == so_next(decl)
Second == so_next(First)

so_ctl ==
    IF phase \notin {"bid", "discard", "contract", "whist", "whist2", "play"} THEN NoOne
    ELSE IF phase = "play" /\ open >= 0 /\ turn = open
         THEN IF First = open THEN Second ELSE First
    ELSE turn

(* The cards the seat may play: of the suit led, else trumps, else any. *)
so_legal_cards(s) ==
    LET led == IF TalonLeads THEN TalonSuit
               ELSE IF trick # <<>> THEN Suit(Head(trick)) ELSE -1
        follow == {c \in hands[s] : Suit(c) = led}
        ruff == {c \in hands[s] : Suit(c) = trump}
    IN  IF led = -1 THEN hands[s]
        ELSE IF follow # {} THEN follow
        ELSE IF ruff # {} THEN ruff
        ELSE hands[s]

(* A bid beats the highest; misere is a first bid and the bidder's last. *)
LegalBids(s) ==
    {Pass} \cup
    {o \in (high + 1)..TopBid :
        bids[s] # MisereBid /\ (o % 2 = 0 \/ (o = MisereBid /\ bids[s] = NoBid))}

LegalReplies(s) ==
    {"whist", "pass"} \cup
    IF phase = "whist" /\ s = Second /\ wst[First] = "pass" /\ so_level(contract) = MinLevel
    THEN {"half"} ELSE {}

----------------------------------------------------------------------------
(* The end of a hand: so_score_hand *)

(* The sheet of a hand that ends with these tricks and replies. *)
Scored(t, w) ==
    IF decl = NoOne THEN so_score_raspasy(sheet, t, streak)
    ELSE IF contract = MisereBid THEN so_score_misere(sheet, decl, t)
    ELSE so_score_contract(sheet, decl, so_level(contract), t, w)

ScoreHand(t, w) ==
    LET sh == Scored(t, w)
    IN  /\ sheet' = sh
        /\ ready' = {}
        /\ phase' = IF AllFull(sh) THEN "over" ELSE "done"
        /\ final' = IF AllFull(sh) THEN so_settle(sh) ELSE final

(* so_start_play *)
StartPlay ==
    /\ phase' = "play"
    /\ trick' = <<>>
    /\ tseats' = <<>>
    /\ tricks' = None3
    /\ trickno' = 0
    /\ lead' = so_next(dealer)
    /\ turn' = so_next(dealer)

----------------------------------------------------------------------------
(* The moves *)

(* The next bidder: the next seat, or the one after if that has passed. *)
NextBidder(s, b) ==
    IF b[so_next(s)] = Pass THEN so_next(so_next(s)) ELSE so_next(s)

(* Whose bid is the highest after s bids o. *)
HighSeat(s, o) == IF o >= 0 THEN s ELSE hseat

(* Mutant: a contract does not end a row of raspasy. *)
StreakKept == streak

StreakBroken == 0

TakeTalon(d) ==
    /\ decl' = d
    /\ streak' = StreakBroken
    /\ hands' = [hands EXCEPT ![d] = @ \cup {talon[1], talon[2]}]
    /\ phase' = "discard"
    /\ turn' = d
    /\ UNCHANGED <<contract, trump, trick, tseats, lead, tricks, trickno>>

StartRaspasy ==
    /\ streak' = streak + 1
    /\ decl' = NoOne
    /\ contract' = -1
    /\ trump' = NoTrump
    /\ StartPlay
    /\ UNCHANGED hands

Bid(s, o) ==
    /\ phase = "bid"
    /\ so_ctl = s
    /\ o \in LegalBids(s)
    /\ bids' = [bids EXCEPT ![s] = o]
    /\ high' = IF o >= 0 THEN o ELSE high
    /\ hseat' = HighSeat(s, o)
    /\ LET passes == Cardinality({t \in Seats : bids'[t] = Pass})
       IN  \/ passes = 3 /\ StartRaspasy
           \/ passes = 2 /\ high' >= 0 /\ TakeTalon(hseat')
           \/ /\ passes < 2 \/ (passes = 2 /\ high' < 0)
              /\ turn' = NextBidder(s, bids')
              /\ UNCHANGED <<phase, hands, streak, decl, contract, trump, trick,
                             tseats, lead, tricks, trickno>>
    /\ UNCHANGED <<dealer, handno, talon, discard, wst, open, ready, scores>>

(***************************************************************************)
(* A discard.  so_act looks at the turn and at the cards, not at the       *)
(* phase; so_line_action makes one only from a view of the discard phase,  *)
(* so its sender is the declarer, but by the time it arrives (a second     *)
(* discard typed before the first one's view) the phase may be a later one.*)
(***************************************************************************)
Discard(s, a, b) ==
    /\ so_ctl = s
    /\ s = decl
    /\ phase = "discard" \/ StaleDiscards
    /\ a # b
    /\ {a, b} \subseteq hands[s]
    /\ hands' = [hands EXCEPT ![decl] = @ \ {a, b}]
    /\ discard' = {a, b}
    /\ IF high = MisereBid
       THEN /\ contract' = MisereBid
            /\ trump' = NoTrump
            /\ open' = MisereOpen
            /\ StartPlay
       ELSE /\ phase' = "contract"
            /\ turn' = decl
            /\ UNCHANGED <<contract, trump, open, trick, tseats, lead, tricks, trickno>>
    /\ UNCHANGED <<dealer, handno, talon, auction, decl, wst, ready, streak, scores>>

(* The contract: a suit or no trumps, no lower than the bid. *)
NameContract(s, o) ==
    /\ phase = "contract"
    /\ so_ctl = s
    /\ o \in high..TopBid /\ (o - high) % 2 = 0
    /\ contract' = o
    /\ trump' = so_strain(o)
    /\ phase' = "whist"
    /\ turn' = First
    /\ UNCHANGED <<dealer, handno, cards, auction, decl, wst, open, trick, tseats,
                   lead, tricks, trickno, ready, streak, scores>>

(* so_whist_done: without a whister the hand is scored at once; beside a *)
(* lone one the other defender lays the cards open.                      *)
WhistDone(w) ==
    LET ws == Whisters(decl, w)
    IN  \/ /\ ws = {}
           /\ ScoreHand(tricks, w)
           /\ UNCHANGED <<open, table>>
        \/ /\ ws # {}
           /\ open' = IF Cardinality(ws) = 1
                      THEN IF First \in ws THEN Second ELSE First
                      ELSE open
           /\ StartPlay
           /\ UNCHANGED <<ready, scores>>

(* The first defender's second word: a whist turns the half-whist off. *)
TakenBack(w) ==
    [wst EXCEPT ![First] = w, ![Second] = IF w = "whist" THEN "pass" ELSE @]

Whist(s, w) ==
    /\ phase \in {"whist", "whist2"}
    /\ so_ctl = s
    /\ w \in LegalReplies(s)
    /\ wst' = IF phase = "whist2" THEN TakenBack(w) ELSE [wst EXCEPT ![s] = w]
    /\ \/ /\ phase = "whist" /\ s = First
          /\ turn' = Second
          /\ UNCHANGED <<phase, open, trick, tseats, lead, tricks, trickno, ready, scores>>
       \/ /\ phase = "whist" /\ s # First /\ w = "half"
          /\ phase' = "whist2"
          /\ turn' = First
          /\ UNCHANGED <<open, trick, tseats, lead, tricks, trickno, ready, scores>>
       \/ /\ phase = "whist2" \/ (s # First /\ w # "half")
          /\ WhistDone(wst')
    /\ UNCHANGED <<dealer, handno, cards, auction, decl, contract, trump, streak>>

(* Mutants: the hand ends a trick too early, or never. *)
LastTrickEarly(n) == n + 1 >= HandSize
LastTrickLate(n) == n > HandSize

LastTrick(n) == n = HandSize

(***************************************************************************)
(* so_trick_done: the winner's trick, and the lead: the winner's, or       *)
(* forehand's while the talon leads.  The last trick ends the hand.        *)
(***************************************************************************)
TrickDone(t, ts) ==
    LET led == IF TalonLeads THEN TalonSuit ELSE Suit(Head(t))
        won == {ts[i] : i \in Winners(t, led)}
        winnerLeads == won # {} /\ (decl # NoOne \/ trickno + 1 >= 2)
    IN  /\ tricks' = [s \in Seats |-> IF s \in won THEN tricks[s] + 1 ELSE tricks[s]]
        /\ trick' = <<>>
        /\ tseats' = <<>>
        /\ trickno' = trickno + 1
        /\ lead' = IF winnerLeads THEN CHOOSE s \in won : TRUE ELSE so_next(dealer)
        /\ turn' = lead'
        /\ IF LastTrick(trickno + 1)
           THEN ScoreHand(tricks', wst)
           ELSE UNCHANGED <<phase, ready, scores>>

(* Mutant: a lone whister's card for the open hand leaves the whister's own. *)
PlayedFromOwn(s) == s

(* The hand a card played by s comes from. *)
PlayedFrom(s) == turn

Play(s, c) ==
    /\ phase = "play"
    /\ so_ctl = s
    /\ c \in so_legal_cards(turn)
    /\ hands' = [hands EXCEPT ![PlayedFrom(s)] = @ \ {c}]
    /\ IF Len(trick) = 2
       THEN TrickDone(Append(trick, c), Append(tseats, turn))
       ELSE /\ trick' = Append(trick, c)
            /\ tseats' = Append(tseats, turn)
            /\ turn' = so_next(turn)
            /\ UNCHANGED <<phase, lead, tricks, trickno, ready, scores>>
    /\ UNCHANGED <<dealer, handno, talon, discard, auction, contractVars, streak>>

(* "n:": the third player ready deals the next hand. *)
Ready(s) ==
    /\ phase = "done"
    /\ IF ready \cup {s} = Seats
       THEN /\ StartHand
            /\ UNCHANGED <<streak, scores>>
       ELSE /\ s \notin ready
            /\ ready' = ready \cup {s}
            /\ UNCHANGED <<phase, dealer, handno, cards, auction, contractVars, table,
                           streak, scores>>

Next ==
    \/ NewGame
    \/ \E s \in Seats :
          \/ \E o \in LegalBids(s) : Bid(s, o)
          \/ \E a, b \in hands[s] : Discard(s, a, b)
          \/ \E o \in 0..TopBid : NameContract(s, o)
          \/ \E w \in LegalReplies(s) : Whist(s, w)
          \/ \E c \in Deck : Play(s, c)
          \/ Ready(s)

Spec == Init /\ [][Next]_vars

(* Players and bots whose move it is make one in the end, and players who *)
(* are asked say they are ready.                                          *)
FairSpec == Spec /\ WF_vars(Next)

----------------------------------------------------------------------------
(* Properties *)

(* How many cards a seat must hold, from what lies on the table: HandSize, *)
(* two more for the declarer with the talon, one less for every trick      *)
(* played and for the card in the present one.                             *)
HandShould(s) ==
    CASE phase = "discard" /\ s = decl -> HandSize + 2
      [] phase = "play" ->
            HandSize - trickno - Cardinality({i \in 1..Len(tseats) : tseats[i] = s})
      [] OTHER -> HandSize

(* Through the whole hand every player holds exactly the cards the count   *)
(* of tricks says, and no card is in two places: a discard, a trick or a   *)
(* lone whister's move for the open hand takes the right cards from the    *)
(* right hand, once.                                                       *)
HandsMatchTable ==
    phase \in {"bid", "discard", "contract", "whist", "whist2", "play"} =>
        /\ \A s \in Seats : Cardinality(hands[s]) = HandShould(s)
        /\ \A s, t \in Seats : s # t => hands[s] \cap hands[t] = {}
        /\ \A s \in Seats : hands[s] \cap (discard \cup {trick[i] : i \in 1..Len(trick)}) = {}

(* Nobody is asked for a move that cannot be made: the seat to play has a   *)
(* card it may play and the declarer a contract to name.                    *)
MoverCanMove ==
    /\ phase = "play" => so_legal_cards(turn) # {} /\ so_ctl \in Seats \ {open}
    /\ phase = "contract" => high <= TopBid /\ high # MisereBid

(* The score sheet sees a game of PrefTable: each hand played card by card  *)
(* comes to one of the results that PrefTable scores.                       *)
Stage ==
    CASE phase = "bid" -> "auction"
      [] phase \in {"discard", "contract", "whist", "whist2", "play"} ->
            IF decl = NoOne THEN "raspasy" ELSE "contract"
      [] OTHER -> phase
AsTable == INSTANCE PrefTable WITH stage <- Stage, hand <- handno
IsPrefTable == AsTable!SheetSpec

(* Every hand that is dealt is scored. *)
HandEnds == phase = "bid" ~> phase \in {"done", "over"}
=============================================================================
