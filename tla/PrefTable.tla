----------------------------- MODULE PrefTable ------------------------------
(***************************************************************************)
(* A game of Preferans as its score sheet sees it: hand after hand is      *)
(* dealt, bid for, played and scored by so_score_hand, until every pool is *)
(* full.  How a hand comes to its result is left open; Preferans shows how *)
(* it does, and implements this specification.                             *)
(***************************************************************************)
EXTENDS PrefScore

CONSTANT MaxHands       \* bound: hands dealt in a game

VARIABLES
    stage,      \* "lobby", "auction", "raspasy", "contract", "done" or "over"
    hand,       \* sg_handno
    decl,       \* sg_decl: the declarer, -1 for none
    streak,     \* sg_streak: raspasy in a row
    sheet,      \* sg_pool, sg_mount, sg_whist
    final       \* sg_final: the balances, all 0 before the end

sheetVars == <<stage, hand, decl, streak, sheet, final>>

NoBalance == [s \in Seats |-> 0]

(* Tricks that add up to n. *)
TrickCounts == [Seats -> 0..HandSize]
SumOf(f) == f[0] + f[1] + f[2]
Shares(n) == {t \in TrickCounts : SumOf(t) = n}

(***************************************************************************)
(* What the defenders may have said: on the lowest contract, when the      *)
(* first defender passes, the second may half-whist; the first may whist   *)
(* after all, which turns the half-whist into a pass.                      *)
(***************************************************************************)
Replies(d, level) ==
    LET f == so_next(d)
        g == so_next(f)
    IN  {w \in [Seats -> {"", "whist", "pass", "half"}] :
            /\ w[d] = ""
            /\ w[f] \in {"whist", "pass"}
            /\ w[g] \in {"whist", "pass"} \/ (w[g] = "half" /\ w[f] = "pass" /\ level = MinLevel)}

SheetInit ==
    /\ stage = "lobby"
    /\ hand = 0
    /\ decl = -1
    /\ streak = 0
    /\ sheet = EmptySheet
    /\ final = NoBalance

Deal ==
    /\ stage \in {"lobby", "done"}
    /\ hand < MaxHands
    /\ stage' = "auction"
    /\ hand' = hand + 1
    /\ decl' = -1
    /\ UNCHANGED <<streak, sheet, final>>

AllPass ==
    /\ stage = "auction"
    /\ stage' = "raspasy"
    /\ streak' = streak + 1
    /\ UNCHANGED <<hand, decl, sheet, final>>

Declare(d) ==
    /\ stage = "auction"
    /\ stage' = "contract"
    /\ decl' = d
    /\ streak' = 0
    /\ UNCHANGED <<hand, sheet, final>>

(* so_score_hand: the sheet is written; three full pools end the game. *)
HandOver == {"done", "over"}
Score(sh) ==
    /\ sheet' = sh
    /\ stage' = IF AllFull(sh) THEN "over" ELSE "done"
    /\ final' = IF AllFull(sh) THEN so_settle(sh) ELSE final
    /\ UNCHANGED <<hand, decl, streak>>

(* In raspasy the talon's two tricks may be nobody's. *)
Raspasy ==
    /\ stage = "raspasy" /\ stage' \in HandOver
    /\ \E n \in (HandSize - AtMost(2, HandSize))..HandSize : \E t \in Shares(n) :
          Score(so_score_raspasy(sheet, t, streak))

Misere ==
    /\ stage = "contract" /\ stage' \in HandOver
    /\ \E t \in Shares(HandSize) : Score(so_score_misere(sheet, decl, t))

Contract ==
    /\ stage = "contract" /\ stage' \in HandOver
    /\ \E level \in Levels : \E w \in Replies(decl, level) :
          \E t \in IF Whisters(decl, w) = {} THEN Shares(0) ELSE Shares(HandSize) :
              Score(so_score_contract(sheet, decl, level, t, w))

SheetNext ==
    \/ Deal
    \/ AllPass
    \/ \E d \in Seats : Declare(d)
    \/ Raspasy
    \/ Misere
    \/ Contract

SheetSpec == SheetInit /\ [][SheetNext]_sheetVars

----------------------------------------------------------------------------
(* Properties *)

(* The state is what the declarations say. *)
SheetTyped ==
    /\ stage \in {"lobby", "auction", "raspasy", "contract", "done", "over"}
    /\ hand \in Nat
    /\ decl \in -1..2
    /\ streak \in Nat
    /\ sheet \in Sheet
    /\ final \in [Seats -> Int]

(* No pool ever holds more than its size, whatever a hand was worth and    *)
(* however many points were passed on to a player by the others.           *)
PoolsBounded == \A s \in Seats : sheet.pool[s] \in 0..PSize

(* What one player wins the others lose: at any time the balances of the   *)
(* sheet add up to nothing, and so do the ones announced at the end.       *)
ZeroSum == SumOf(so_settle(sheet)) = 0 /\ SumOf(final) = 0

(* The room left in the three pools. *)
AllRoom(sh) == Room(sh, 0) + Room(sh, 1) + Room(sh, 2)

(* A point is worth the same to everyone whether the pool of the player    *)
(* who earns it has room or it helps another pool against 10 whists: as    *)
(* long as there is room somewhere, n points bring 2n/3 of a mountain      *)
(* point of 10 whists from the other two, half of it from each.            *)
HelpIsFair ==
    \A s \in Seats, n \in 1..MisereValue :
        n <= AllRoom(sheet) =>
            so_settle(so_pool_add(sheet, s, n)) =
                [t \in Seats |-> so_settle(sheet)[t] + IF t = s THEN 20 * n ELSE -10 * n]
=============================================================================
