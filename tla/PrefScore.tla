----------------------------- MODULE PrefScore ------------------------------
(***************************************************************************)
(* How Sochi scores Preferans (src/sochi/sochi.su, "scores"): the pools,   *)
(* the mountains and the whists the three players write on each other, as  *)
(* operators on a score sheet [pool, mount, whist].                        *)
(***************************************************************************)
EXTENDS Integers

CONSTANTS
    PSize,          \* sg_psize: the size of a pool
    HandSize,       \* 10 in the code: tricks of a hand
    MinLevel        \* 6 in the code: the lowest contract

ASSUME PrefScoreAssumption ==
    /\ PSize \in Nat \ {0}
    /\ HandSize \in Nat \ {0}
    /\ MinLevel \in 1..HandSize

Seats == 0..2
so_next(s) == (s + 1) % 3

Levels == MinLevel..HandSize

(* The value of a contract: 2 for the lowest, 2 more for each level. *)
so_value(level) == 2 * (level - MinLevel + 1)
MisereValue == 10

(* The tricks the whisters owe together: 4, 2, then 1. *)
so_obligation(level) ==
    IF level = MinLevel THEN 4 ELSE IF level = MinLevel + 1 THEN 2 ELSE 1

Sheet == [pool : [Seats -> Int], mount : [Seats -> Int],
          whist : [Seats -> [Seats -> Int]]]

EmptySheet == [pool |-> [s \in Seats |-> 0], mount |-> [s \in Seats |-> 0],
               whist |-> [s \in Seats |-> [t \in Seats |-> 0]]]

MountAdd(sh, s, n) == [sh EXCEPT !.mount[s] = @ + n]

so_whist_add(sh, a, b, n) == [sh EXCEPT !.whist[a][b] = @ + n]

(***************************************************************************)
(* n points to the pool of s.  A full pool takes what it has room for; the *)
(* next players' pools are filled with the rest, at 10 whists a point, and *)
(* what nobody has room for is 5 whists on each of them a point.           *)
(***************************************************************************)
AtMost(n, most) == IF n > most THEN most ELSE n
Room(sh, s) == IF PSize - sh.pool[s] < 0 THEN 0 ELSE PSize - sh.pool[s]

Own(sh, s, n) == [sh EXCEPT !.pool[s] = @ + AtMost(n, Room(sh, s))]

(* What j's pool takes of extra points that s has no room for. *)
Helped(sh, j, extra) == AtMost(Room(sh, j), extra)

(* Mutant: the whists for a helped point are forgotten. *)
HelpForFree(sh, s, j, extra) == [sh EXCEPT !.pool[j] = @ + Helped(sh, j, extra)]

Help(sh, s, j, extra) ==
    so_whist_add([sh EXCEPT !.pool[j] = @ + Helped(sh, j, extra)],
                 s, j, 10 * Helped(sh, j, extra))

Leftover(sh, s, extra) ==
    so_whist_add(so_whist_add(sh, s, so_next(s), 5 * extra),
                 s, so_next(so_next(s)), 5 * extra)

(* Mutant: a pool takes all the points it is given. *)
PoolAddAll(sh, s, n) == [sh EXCEPT !.pool[s] = @ + n]

so_pool_add(sh, s, n) ==
    LET j == so_next(s)
        k == so_next(j)
        sh0 == Own(sh, s, n)
        extra == n - AtMost(n, Room(sh, s))
        sh1 == Help(sh0, s, j, extra)
        extra1 == extra - Helped(sh0, j, extra)
        sh2 == Help(sh1, s, k, extra1)
        extra2 == extra1 - Helped(sh1, k, extra1)
    IN  Leftover(sh2, s, extra2)

----------------------------------------------------------------------------
(* Raspasy: each trick costs 1, 2 or 3 by the streak; no trick is a point. *)
RaspasySeat(sh, s, tricks, streak) ==
    LET paid == MountAdd(sh, s, tricks[s] * AtMost(streak, 3))
    IN  IF tricks[s] = 0 THEN so_pool_add(paid, s, 1) ELSE paid

so_score_raspasy(sh, tricks, streak) ==
    RaspasySeat(RaspasySeat(RaspasySeat(sh, 0, tricks, streak),
                            1, tricks, streak), 2, tricks, streak)

so_score_misere(sh, decl, tricks) ==
    IF tricks[decl] = 0 THEN so_pool_add(sh, decl, MisereValue)
    ELSE MountAdd(sh, decl, MisereValue * tricks[decl])

(***************************************************************************)
(* A contract.  wst[s] is what a defender said.  Nobody whists: it counts  *)
(* as made, and a half-whister writes half the whists owed.  Otherwise the *)
(* declarer's result, then each whister's: whists for the tricks (a lone   *)
(* whister has those of both defenders) and for the declarer's undertricks,*)
(* and half the value on the mountain per trick short of the share.        *)
(***************************************************************************)
Whisters(decl, wst) == {s \in Seats \ {decl} : wst[s] = "whist"}
Lone(decl, wst) == \E s \in Seats : Whisters(decl, wst) = {s}

Defence(sh, s, decl, level, tricks, wst) ==
    LET v == so_value(level)
        o == so_obligation(level)
        d == tricks[decl]
        w == HandSize - d
        took == IF Lone(decl, wst) THEN w ELSE tricks[s]
        share == IF Lone(decl, wst) THEN o ELSE o \div 2
        down == IF d < level THEN v * (level - d) ELSE 0
        written == so_whist_add(sh, s, decl, v * took + down)
        short == d >= level /\ w < o /\ took < share
    IN  IF s \notin Whisters(decl, wst) THEN sh
        ELSE IF short THEN MountAdd(written, s, (v \div 2) * (share - took))
        ELSE written

Unplayed(sh, decl, level, wst) ==
    LET made == so_pool_add(sh, decl, so_value(level))
        s == so_next(so_next(decl))
    IN  IF wst[s] = "half"
        THEN so_whist_add(made, s, decl, so_value(level) * (so_obligation(level) \div 2))
        ELSE made

so_score_contract(sh, decl, level, tricks, wst) ==
    LET d == tricks[decl]
        f == so_next(decl)
        declared == IF d >= level THEN so_pool_add(sh, decl, so_value(level))
                    ELSE MountAdd(sh, decl, so_value(level) * (level - d))
    IN  IF Whisters(decl, wst) = {} THEN Unplayed(sh, decl, level, wst)
        ELSE Defence(Defence(declared, f, decl, level, tricks, wst),
                     so_next(f), decl, level, tricks, wst)

----------------------------------------------------------------------------
(* The end: balances in thirds of a whist *)

(* A mountain with what is missing in the pool. *)
Owed(sh, s) == sh.mount[s] + Room(sh, s)

TotalOwed(sh) == Owed(sh, 0) + Owed(sh, 1) + Owed(sh, 2)

WhistsOver(sh, s, t) == sh.whist[s][t] - sh.whist[t][s]

(* Mutant: mountains are evened out over two players, not three. *)
BalanceOfTwo(sh, s) ==
    10 * (TotalOwed(sh) - 2 * Owed(sh, s))
    + 3 * (WhistsOver(sh, s, so_next(s)) + WhistsOver(sh, s, so_next(so_next(s))))

Balance(sh, s) ==
    10 * (TotalOwed(sh) - 3 * Owed(sh, s))
    + 3 * (WhistsOver(sh, s, so_next(s)) + WhistsOver(sh, s, so_next(so_next(s))))

so_settle(sh) == [s \in Seats |-> Balance(sh, s)]

AllFull(sh) == \A s \in Seats : sh.pool[s] >= PSize
=============================================================================
