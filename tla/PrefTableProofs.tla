-------------------------- MODULE PrefTableProofs ---------------------------
(***************************************************************************)
(* Proofs about the score sheet of Preferans, for every pool size, hand    *)
(* size and number of hands.                                               *)
(***************************************************************************)
EXTENDS PrefTable, TLAPS

(* A sheet whose pools are within their size. *)
Good(sh) == sh \in Sheet /\ \A s \in Seats : sh.pool[s] \in 0..PSize

(* so_next walks round the three seats. *)
LEMMA NextSeat ==
    /\ so_next(0) = 1 /\ so_next(1) = 2 /\ so_next(2) = 0
    /\ \A s \in Seats : so_next(s) \in Seats
  BY DEF so_next, Seats

(* Whists do not touch the pools. *)
LEMMA WhistAddGood ==
    ASSUME NEW sh, Good(sh), NEW a \in Seats, NEW b \in Seats, NEW n \in Int
    PROVE  Good(so_whist_add(sh, a, b, n))
  <1> DEFINE row == [sh.whist[a] EXCEPT ![b] = @ + n]
             w == [sh.whist EXCEPT ![a] = row]
  <1>1. sh.whist \in [Seats -> [Seats -> Int]]
    BY DEF Good, Sheet
  <1>2. row \in [Seats -> Int]
    BY <1>1
  <1> HIDE DEF row
  <1>3. w \in [Seats -> [Seats -> Int]]
    BY <1>1, <1>2
  <1>4. so_whist_add(sh, a, b, n) = [sh EXCEPT !.whist = w]
    BY DEF so_whist_add, Good, Sheet, row
  <1> HIDE DEF w
  <1> QED BY <1>3, <1>4 DEF Good, Sheet

(* Mountain points do not touch the pools. *)
LEMMA MountAddGood ==
    ASSUME NEW sh, Good(sh), NEW s \in Seats, NEW n \in Int
    PROVE  Good(MountAdd(sh, s, n))
  BY SMTT(30) DEF Good, Sheet, MountAdd

(* The room of a pool is what is missing in it. *)
LEMMA RoomIs ==
    ASSUME NEW sh, Good(sh), NEW s \in Seats
    PROVE  Room(sh, s) = PSize - sh.pool[s] /\ Room(sh, s) \in 0..PSize
  BY PrefScoreAssumption DEF Good, Room

(* A pool takes no more than it has room for. *)
LEMMA OwnGood ==
    ASSUME NEW sh, Good(sh), NEW s \in Seats, NEW n \in Nat
    PROVE  /\ Good(Own(sh, s, n))
           /\ n - AtMost(n, Room(sh, s)) \in Nat
  <1>1. Room(sh, s) = PSize - sh.pool[s] /\ Room(sh, s) \in 0..PSize
    BY RoomIs
  <1>2. AtMost(n, Room(sh, s)) \in 0..Room(sh, s) /\ AtMost(n, Room(sh, s)) <= n
    BY <1>1, PrefScoreAssumption DEF AtMost
  <1>3. sh.pool[s] \in 0..PSize /\ PSize \in Nat
    BY PrefScoreAssumption DEF Good
  <1>4. sh.pool[s] + AtMost(n, Room(sh, s)) \in 0..PSize
    BY <1>1, <1>2, <1>3
  <1>5. Good(Own(sh, s, n))
    <2>1. sh \in Sheet /\ \A t \in Seats : sh.pool[t] \in 0..PSize
      BY DEF Good
    <2>2. Own(sh, s, n) = [sh EXCEPT !.pool[s] = sh.pool[s] + AtMost(n, Room(sh, s))]
      BY DEF Own
    <2> HIDE DEF Own
    <2>3. Own(sh, s, n) \in Sheet
      BY <1>4, <2>1, <2>2 DEF Sheet
    <2>4. \A t \in Seats : Own(sh, s, n).pool[t] \in 0..PSize
      BY <1>4, <2>1, <2>2 DEF Sheet
    <2> QED BY <2>3, <2>4 DEF Good
  <1> QED BY <1>1, <1>2, <1>3, <1>5

(* A helped pool takes no more than it has room for either. *)
LEMMA HelpGood ==
    ASSUME NEW sh, Good(sh), NEW s \in Seats, NEW j \in Seats, NEW extra \in Nat
    PROVE  /\ Good(Help(sh, s, j, extra))
           /\ extra - Helped(sh, j, extra) \in Nat
  <1>1. Room(sh, j) = PSize - sh.pool[j] /\ Room(sh, j) \in 0..PSize
    BY RoomIs
  <1>2. Helped(sh, j, extra) \in 0..Room(sh, j) /\ Helped(sh, j, extra) <= extra
    BY <1>1, PrefScoreAssumption DEF AtMost, Helped
  <1>3. sh.pool[j] \in 0..PSize /\ PSize \in Nat
    BY PrefScoreAssumption DEF Good
  <1>4. sh.pool[j] + Helped(sh, j, extra) \in 0..PSize
    BY <1>1, <1>2, <1>3
  <1>5. Good([sh EXCEPT !.pool[j] = @ + Helped(sh, j, extra)])
    BY <1>4, SMTT(30) DEF Good, Sheet
  <1>6. 10 * Helped(sh, j, extra) \in Int
    BY <1>1, <1>2, <1>3
  <1>7. Good(Help(sh, s, j, extra))
    BY <1>5, <1>6, WhistAddGood DEF Help
  <1> QED BY <1>1, <1>2, <1>3, <1>7

(* Points never overfill a pool, the earner's or another's. *)
LEMMA PoolAddGood ==
    ASSUME NEW sh, Good(sh), NEW s \in Seats, NEW n \in Nat
    PROVE  Good(so_pool_add(sh, s, n))
  <1> DEFINE j == so_next(s)
             k == so_next(j)
             sh0 == Own(sh, s, n)
             e0 == n - AtMost(n, Room(sh, s))
             sh1 == Help(sh0, s, j, e0)
             e1 == e0 - Helped(sh0, j, e0)
             sh2 == Help(sh1, s, k, e1)
             e2 == e1 - Helped(sh1, k, e1)
  <1>1. j \in Seats /\ k \in Seats
    BY NextSeat
  <1>2. Good(sh0) /\ e0 \in Nat
    BY OwnGood
  <1> HIDE DEF sh0, e0
  <1>3. Good(sh1) /\ e1 \in Nat
    BY <1>1, <1>2, HelpGood
  <1> HIDE DEF sh1, e1
  <1>4. Good(sh2) /\ e2 \in Nat
    BY <1>1, <1>3, HelpGood
  <1> HIDE DEF sh2, e2
  <1>5. 5 * e2 \in Int
    BY <1>4
  <1>6. Good(so_whist_add(sh2, s, j, 5 * e2))
    BY <1>1, <1>4, <1>5, WhistAddGood
  <1>7. Good(Leftover(sh2, s, e2))
    BY <1>1, <1>5, <1>6, WhistAddGood DEF Leftover
  <1>8. so_pool_add(sh, s, n) = Leftover(sh2, s, e2)
    BY DEF so_pool_add, sh0, sh1, sh2, e0, e1, e2
  <1> QED BY <1>7, <1>8
----------------------------------------------------------------------------
(* The three ways to score a hand keep a sheet good *)

(* Values, obligations and trick costs are whole numbers. *)
LEMMA Values ==
    /\ MisereValue \in Nat
    /\ \A level \in Levels : /\ so_value(level) \in Nat
                             /\ so_value(level) \div 2 \in Nat
                             /\ so_obligation(level) \in Nat
                             /\ so_obligation(level) \div 2 \in Nat
                             /\ level \in Nat
  BY PrefScoreAssumption DEF MisereValue, Levels, so_value, so_obligation

(* Scoring one player of a raspasy hand keeps the pools within their size. *)
LEMMA RaspasySeatGood ==
    ASSUME NEW sh, Good(sh), NEW s \in Seats, NEW t \in TrickCounts, NEW k \in Nat
    PROVE  Good(RaspasySeat(sh, s, t, k))
  <1>1. t[s] \in Nat /\ AtMost(k, 3) \in Nat
    BY PrefScoreAssumption DEF TrickCounts, AtMost
  <1>2. t[s] * AtMost(k, 3) \in Int
    BY <1>1
  <1>3. Good(MountAdd(sh, s, t[s] * AtMost(k, 3)))
    BY <1>2, MountAddGood
  <1> QED BY <1>3, PoolAddGood DEF RaspasySeat

(* So does scoring the three of them. *)
LEMMA RaspasyGood ==
    ASSUME NEW sh, Good(sh), NEW t \in TrickCounts, NEW k \in Nat
    PROVE  Good(so_score_raspasy(sh, t, k))
  <1>1. {0, 1, 2} \subseteq Seats
    BY DEF Seats
  <1>2. Good(RaspasySeat(sh, 0, t, k))
    BY <1>1, RaspasySeatGood
  <1>3. Good(RaspasySeat(RaspasySeat(sh, 0, t, k), 1, t, k))
    BY <1>1, <1>2, RaspasySeatGood
  <1> QED BY <1>1, <1>3, RaspasySeatGood DEF so_score_raspasy

(* So does scoring a misere. *)
LEMMA MisereGood ==
    ASSUME NEW sh, Good(sh), NEW d \in Seats, NEW t \in TrickCounts
    PROVE  Good(so_score_misere(sh, d, t))
  <1>1. t[d] \in Nat
    BY PrefScoreAssumption DEF TrickCounts
  <1>2. MisereValue * t[d] \in Int
    BY <1>1, Values
  <1> QED BY <1>2, Values, PoolAddGood, MountAddGood DEF so_score_misere

(* So does scoring a whister, who gets whists and mountain points only. *)
LEMMA DefenceGood ==
    ASSUME NEW sh, Good(sh), NEW s \in Seats, NEW d \in Seats, NEW level \in Levels,
           NEW t \in TrickCounts, NEW w
    PROVE  Good(Defence(sh, s, d, level, t, w))
  <1> DEFINE v == so_value(level)
             o == so_obligation(level)
             took == IF Lone(d, w) THEN HandSize - t[d] ELSE t[s]
             share == IF Lone(d, w) THEN o ELSE o \div 2
             down == IF t[d] < level THEN v * (level - t[d]) ELSE 0
             written == so_whist_add(sh, s, d, v * took + down)
  <1>1. t[d] \in Int /\ t[s] \in Int /\ HandSize \in Int
    BY PrefScoreAssumption DEF TrickCounts
  <1>2. v \in Int /\ o \in Int /\ o \div 2 \in Int /\ v \div 2 \in Int /\ level \in Int
    BY Values
  <1>3. took \in Int /\ share \in Int
    BY <1>1, <1>2
  <1> HIDE DEF v, o
  <1>4. down \in Int
    BY <1>1, <1>2
  <1> HIDE DEF took, share, down
  <1>5. v * took + down \in Int
    BY <1>2, <1>3, <1>4
  <1>6. Good(written)
    BY <1>5, WhistAddGood
  <1> HIDE DEF written
  <1>7. (v \div 2) * (share - took) \in Int
    BY <1>2, <1>3
  <1>8. Good(MountAdd(written, s, (v \div 2) * (share - took)))
    BY <1>6, <1>7, MountAddGood
  <1>9. Defence(sh, s, d, level, t, w) \in
            {sh, written, MountAdd(written, s, (v \div 2) * (share - took))}
    BY DEF Defence, v, o, took, share, down, written
  <1> QED BY <1>6, <1>8, <1>9

(* So does scoring a contract, played or not. *)
LEMMA ContractGood ==
    ASSUME NEW sh, Good(sh), NEW d \in Seats, NEW level \in Levels,
           NEW t \in TrickCounts, NEW w
    PROVE  Good(so_score_contract(sh, d, level, t, w))
  <1> DEFINE f == so_next(d)
             g == so_next(f)
             half == so_value(level) * (so_obligation(level) \div 2)
             made == so_pool_add(sh, d, so_value(level))
             down == MountAdd(sh, d, so_value(level) * (level - t[d]))
             declared == IF t[d] >= level THEN made ELSE down
  <1>1. f \in Seats /\ g \in Seats
    BY NextSeat
  <1>2. so_value(level) \in Nat /\ so_obligation(level) \div 2 \in Nat /\ level \in Nat
    BY Values
  <1>3. t[d] \in Int
    BY PrefScoreAssumption DEF TrickCounts
  <1>4. half \in Int /\ so_value(level) * (level - t[d]) \in Int
    BY <1>2, <1>3
  <1>5. Good(made)
    BY <1>2, PoolAddGood
  <1>6. Good(down)
    BY <1>4, MountAddGood
  <1> HIDE DEF made, down, half
  <1>7. Good(so_whist_add(made, g, d, half))
    BY <1>1, <1>4, <1>5, WhistAddGood
  <1>8. Good(Unplayed(sh, d, level, w))
    BY <1>5, <1>7 DEF Unplayed, made, half
  <1>9. Good(declared)
    BY <1>5, <1>6
  <1>10. declared = IF t[d] >= level THEN so_pool_add(sh, d, so_value(level))
                    ELSE MountAdd(sh, d, so_value(level) * (level - t[d]))
    BY DEF made, down
  <1> HIDE DEF declared
  <1>11. Good(Defence(declared, f, d, level, t, w))
    BY <1>1, <1>9, DefenceGood
  <1>12. Good(Defence(Defence(declared, f, d, level, t, w), g, d, level, t, w))
    BY <1>1, <1>11, DefenceGood
  <1> QED BY <1>8, <1>10, <1>12 DEF so_score_contract

----------------------------------------------------------------------------
(* Balances *)

(* Balances are whole numbers and what one player wins the others lose. *)
LEMMA SettleZero ==
    ASSUME NEW sh, Good(sh)
    PROVE  so_settle(sh) \in [Seats -> Int] /\ SumOf(so_settle(sh)) = 0
  <1>1. /\ 0 \in Seats /\ 1 \in Seats /\ 2 \in Seats
        /\ \A s \in Seats : s = 0 \/ s = 1 \/ s = 2
    BY DEF Seats
  <1>2. \A s \in Seats : Owed(sh, s) \in Int
    <2>1. \A s \in Seats : Room(sh, s) \in Int /\ sh.mount[s] \in Int
      BY RoomIs DEF Good, Sheet
    <2> QED BY <2>1 DEF Owed
  <1>3. \A a, b \in Seats : sh.whist[a][b] \in Int
    BY DEF Good, Sheet
  <1>4. Balance(sh, 0) = 10 * (TotalOwed(sh) - 3 * Owed(sh, 0))
                         + 3 * (WhistsOver(sh, 0, 1) + WhistsOver(sh, 0, 2))
    BY NextSeat DEF Balance
  <1>5. Balance(sh, 1) = 10 * (TotalOwed(sh) - 3 * Owed(sh, 1))
                         + 3 * (WhistsOver(sh, 1, 2) + WhistsOver(sh, 1, 0))
    BY NextSeat DEF Balance
  <1>6. Balance(sh, 2) = 10 * (TotalOwed(sh) - 3 * Owed(sh, 2))
                         + 3 * (WhistsOver(sh, 2, 0) + WhistsOver(sh, 2, 1))
    BY NextSeat DEF Balance
  <1>7. \A s \in Seats : Balance(sh, s) \in Int
    BY <1>1, <1>2, <1>3, <1>4, <1>5, <1>6 DEF TotalOwed, WhistsOver
  <1>8. Balance(sh, 0) + Balance(sh, 1) + Balance(sh, 2) = 0
    BY <1>1, <1>2, <1>3, <1>4, <1>5, <1>6 DEF TotalOwed, WhistsOver
  <1> QED BY <1>1, <1>7, <1>8 DEF so_settle, SumOf

----------------------------------------------------------------------------
(* What points do to a sheet *)

(* The sheet r is sh with p more in the pool of j, m more whists of a on b. *)
Becomes(r, sh, j, p, a, b, m) ==
    /\ r.mount = sh.mount
    /\ \A t \in Seats : r.pool[t] = sh.pool[t] + IF t = j THEN p ELSE 0
    /\ \A t, u \in Seats :
          r.whist[t][u] = sh.whist[t][u] + IF t = a /\ u = b THEN m ELSE 0

(* Whists change one entry of the sheet. *)
LEMMA WhistAddEffect ==
    ASSUME NEW sh, Good(sh), NEW a \in Seats, NEW b \in Seats, NEW n \in Int
    PROVE  Becomes(so_whist_add(sh, a, b, n), sh, a, 0, a, b, n)
  <1> DEFINE r == so_whist_add(sh, a, b, n)
  <1>1. \A t \in Seats : sh.pool[t] \in Int
    BY PrefScoreAssumption DEF Good
  <1>2. sh.whist \in [Seats -> [Seats -> Int]]
    BY DEF Good, Sheet
  <1>3. r.mount = sh.mount /\ r.pool = sh.pool
    BY DEF so_whist_add, Good, Sheet
  <1>4. r.whist = [sh.whist EXCEPT ![a] = [sh.whist[a] EXCEPT ![b] = @ + n]]
    BY DEF so_whist_add, Good, Sheet
  <1> HIDE DEF r
  <1>5. ASSUME NEW t \in Seats, NEW u \in Seats
        PROVE  r.whist[t][u] = sh.whist[t][u] + IF t = a /\ u = b THEN n ELSE 0
    <2>1. sh.whist[t] \in [Seats -> Int] /\ sh.whist[t][u] \in Int
      BY <1>2
    <2>2. CASE t = a /\ u = b
      BY <1>2, <1>4, <2>1, <2>2
    <2>3. CASE t = a /\ u # b
      BY <1>2, <1>4, <2>1, <2>3
    <2>4. CASE t # a
      BY <1>2, <1>4, <2>1, <2>4
    <2> QED BY <2>2, <2>3, <2>4
  <1>6. \A t \in Seats : r.pool[t] = sh.pool[t] + IF t = a THEN 0 ELSE 0
    BY <1>1, <1>3
  <1> QED BY <1>3, <1>5, <1>6 DEF Becomes, r

(* Help changes one pool and pays for it in whists. *)
LEMMA HelpEffect ==
    ASSUME NEW sh, Good(sh), NEW s \in Seats, NEW j \in Seats, NEW extra \in Nat
    PROVE  LET h == Helped(sh, j, extra)
           IN  /\ h \in Nat
               /\ Becomes(Help(sh, s, j, extra), sh, j, h, s, j, 10 * h)
  <1> DEFINE h == Helped(sh, j, extra)
             q == [sh EXCEPT !.pool[j] = @ + h]
  <1>1. Room(sh, j) = PSize - sh.pool[j] /\ Room(sh, j) \in 0..PSize /\ PSize \in Nat
    BY RoomIs, PrefScoreAssumption
  <1>2. h \in 0..Room(sh, j)
    BY <1>1 DEF AtMost, Helped
  <1>3. h \in Nat /\ 10 * h \in Int
    BY <1>1, <1>2
  <1>4. sh.pool \in [Seats -> Int] /\ sh.pool[j] \in 0..PSize
    BY DEF Good, Sheet
  <1>5. Help(sh, s, j, extra) = so_whist_add(q, s, j, 10 * h)
    BY DEF Help
  <1>6. sh.pool[j] + h \in 0..PSize
    BY <1>1, <1>2, <1>4
  <1> HIDE DEF h
  <1>7. Good(q)
    BY <1>6, SMTT(30) DEF Good, Sheet
  <1>8. /\ q.mount = sh.mount /\ q.whist = sh.whist
        /\ q.pool = [sh.pool EXCEPT ![j] = @ + h]
    BY DEF Good, Sheet
  <1> HIDE DEF q
  <1>9. Becomes(so_whist_add(q, s, j, 10 * h), q, s, 0, s, j, 10 * h)
    BY <1>3, <1>7, WhistAddEffect
  <1>10. \A t \in Seats : q.pool[t] = sh.pool[t] + IF t = j THEN h ELSE 0
    BY <1>3, <1>4, <1>8
  <1>11. \A t \in Seats : q.pool[t] \in Int
    BY <1>3, <1>4, <1>8
  <1>12. Becomes(so_whist_add(q, s, j, 10 * h), sh, j, h, s, j, 10 * h)
    BY <1>8, <1>9, <1>10, <1>11 DEF Becomes
  <1> QED BY <1>3, <1>5, <1>12 DEF h

(* As long as there is room somewhere, the points of so_pool_add are shared *)
(* between the pools, and those in another's pool are paid for in whists.   *)
LEMMA PoolAddEffect ==
    ASSUME NEW sh, Good(sh), NEW s \in Seats, NEW n \in Nat, n <= AllRoom(sh)
    PROVE  LET j == so_next(s)
               k == so_next(j)
               r == so_pool_add(sh, s, n)
           IN  \E own, a, b \in Nat :
                  /\ own + a + b = n
                  /\ r.mount = sh.mount
                  /\ r.pool[s] = sh.pool[s] + own
                  /\ r.pool[j] = sh.pool[j] + a
                  /\ r.pool[k] = sh.pool[k] + b
                  /\ \A t, u \in Seats :
                        r.whist[t][u] = sh.whist[t][u] +
                            IF t = s /\ u = j THEN 10 * a
                            ELSE IF t = s /\ u = k THEN 10 * b ELSE 0
  <1> DEFINE j == so_next(s)
             k == so_next(j)
             own == AtMost(n, Room(sh, s))
             sh0 == Own(sh, s, n)
             e0 == n - own
             a == Helped(sh0, j, e0)
             sh1 == Help(sh0, s, j, e0)
             e1 == e0 - a
             b == Helped(sh1, k, e1)
             sh2 == Help(sh1, s, k, e1)
             e2 == e1 - b
             sh3 == so_whist_add(sh2, s, j, 5 * e2)
             sh4 == so_whist_add(sh3, s, k, 5 * e2)
  <1>1. /\ j \in Seats /\ k \in Seats /\ s # j /\ s # k /\ j # k
        /\ \A t \in Seats : t = s \/ t = j \/ t = k
    BY DEF so_next, Seats
  <1>2. AllRoom(sh) = Room(sh, s) + Room(sh, j) + Room(sh, k)
    <2>1. Room(sh, 0) \in Int /\ Room(sh, 1) \in Int /\ Room(sh, 2) \in Int
      BY RoomIs, PrefScoreAssumption DEF Seats
    <2> QED BY <2>1 DEF AllRoom, so_next, Seats
  <1>3. so_pool_add(sh, s, n) = sh4
    BY DEF so_pool_add, Leftover
  <1>4. Good(sh0) /\ e0 \in Nat
    BY OwnGood
  <1>5. \A t \in Seats : Room(sh, t) = PSize - sh.pool[t] /\ Room(sh, t) \in Nat
    BY RoomIs, PrefScoreAssumption
  <1>6. own \in Nat /\ own <= n /\ (own = n \/ own = Room(sh, s))
    BY <1>5 DEF AtMost
  <1>7. /\ sh0.mount = sh.mount /\ sh0.whist = sh.whist
        /\ sh0.pool = [sh.pool EXCEPT ![s] = @ + own]
    BY DEF Own, Good, Sheet
  <1> HIDE DEF j, k, own, sh0, e0
  <1>8. Good(sh1) /\ e1 \in Nat
    BY <1>1, <1>4, HelpGood
  <1>9. a \in Nat /\ Becomes(sh1, sh0, j, a, s, j, 10 * a)
    BY <1>1, <1>4, HelpEffect
  <1>10. a = e0 \/ a = Room(sh0, j)
    BY DEF Helped, AtMost
  <1> HIDE DEF sh1, e1, a
  <1>11. Good(sh2) /\ e2 \in Nat
    BY <1>1, <1>8, HelpGood
  <1>12. b \in Nat /\ Becomes(sh2, sh1, k, b, s, k, 10 * b)
    BY <1>1, <1>8, HelpEffect
  <1>13. b = e1 \/ b = Room(sh1, k)
    BY DEF Helped, AtMost
  <1> HIDE DEF sh2, e2, b
  <1>14. sh.pool \in [Seats -> Int]
    BY DEF Good, Sheet
  <1>15. sh0.pool[j] = sh.pool[j] /\ sh0.pool[k] = sh.pool[k] /\ sh0.pool[s] = sh.pool[s] + own
    BY <1>1, <1>7, <1>14
  <1>16. /\ sh1.pool[j] = sh0.pool[j] + a /\ sh1.pool[k] = sh0.pool[k] + 0
         /\ sh1.pool[s] = sh0.pool[s] + 0
    BY <1>1, <1>9 DEF Becomes
  <1>17. /\ sh2.pool[j] = sh1.pool[j] + 0 /\ sh2.pool[k] = sh1.pool[k] + b
         /\ sh2.pool[s] = sh1.pool[s] + 0
    BY <1>1, <1>12 DEF Becomes
  <1>18. sh.pool[s] \in Int /\ sh.pool[j] \in Int /\ sh.pool[k] \in Int
    BY <1>1, <1>14
  <1>19. Room(sh0, j) = Room(sh, j)
    BY <1>1, <1>4, <1>5, <1>15, RoomIs
  <1>20. Room(sh1, k) = Room(sh, k)
    BY <1>1, <1>5, <1>8, <1>15, <1>16, <1>18, RoomIs
  <1>21. e0 = n - own /\ e1 = e0 - a /\ e2 = e1 - b
    BY DEF e0, e1, e2
  <1>22. e2 = 0
    <2>1. /\ Room(sh, s) \in Nat /\ Room(sh, j) \in Nat /\ Room(sh, k) \in Nat
          /\ n <= Room(sh, s) + Room(sh, j) + Room(sh, k)
      BY <1>1, <1>2, <1>5
    <2>2. (own = n \/ own = Room(sh, s)) /\ (a = e0 \/ a = Room(sh, j))
          /\ (b = e1 \/ b = Room(sh, k))
      BY <1>6, <1>10, <1>13, <1>19, <1>20
    <2> QED BY <1>4, <1>6, <1>8, <1>9, <1>11, <1>12, <1>21, <2>1, <2>2
  <1>23. own + a + b = n
    BY <1>6, <1>9, <1>12, <1>21, <1>22
  <1>24. Good(sh3) /\ Becomes(sh3, sh2, s, 0, s, j, 5 * e2)
    BY <1>1, <1>11, <1>22, WhistAddGood, WhistAddEffect
  <1> HIDE DEF sh3
  <1>25. Becomes(sh4, sh3, s, 0, s, k, 5 * e2)
    BY <1>1, <1>22, <1>24, WhistAddEffect
  <1> HIDE DEF sh4
  <1>26. sh4.mount = sh.mount
    BY <1>7, <1>9, <1>12, <1>24, <1>25 DEF Becomes
  <1>27. \A t \in Seats : sh4.pool[t] = sh2.pool[t]
    <2>1. \A t \in Seats : sh2.pool[t] \in Int
      BY <1>11 DEF Good, Sheet
    <2>2. \A t \in Seats : sh3.pool[t] = sh2.pool[t] + 0
      BY <1>24 DEF Becomes
    <2>3. \A t \in Seats : sh4.pool[t] = sh3.pool[t] + 0
      BY <1>25 DEF Becomes
    <2> QED BY <2>1, <2>2, <2>3
  <1>28. /\ sh4.pool[s] = sh.pool[s] + own /\ sh4.pool[j] = sh.pool[j] + a
         /\ sh4.pool[k] = sh.pool[k] + b
    BY <1>1, <1>6, <1>9, <1>12, <1>15, <1>16, <1>17, <1>18, <1>27
  <1>29. ASSUME NEW t \in Seats, NEW u \in Seats
         PROVE  sh4.whist[t][u] = sh.whist[t][u] +
                    IF t = s /\ u = j THEN 10 * a
                    ELSE IF t = s /\ u = k THEN 10 * b ELSE 0
    <2>1. sh.whist[t][u] \in Int
      BY DEF Good, Sheet
    <2>2. sh1.whist[t][u] = sh.whist[t][u] + IF t = s /\ u = j THEN 10 * a ELSE 0
      BY <1>7, <1>9 DEF Becomes
    <2>3. sh2.whist[t][u] = sh1.whist[t][u] + IF t = s /\ u = k THEN 10 * b ELSE 0
      BY <1>12 DEF Becomes
    <2>4. sh3.whist[t][u] = sh2.whist[t][u] + 0
      BY <1>22, <1>24 DEF Becomes
    <2>5. sh4.whist[t][u] = sh3.whist[t][u] + 0
      BY <1>22, <1>25 DEF Becomes
    <2> QED BY <1>1, <1>9, <1>12, <2>1, <2>2, <2>3, <2>4, <2>5
  <1> QED BY <1>3, <1>6, <1>9, <1>12, <1>23, <1>26, <1>28, <1>29, SMTT(30) DEF j, k

(* A balance, spelled out from the pools, mountains and whists. *)
LEMMA BalanceIs ==
    ASSUME NEW sh, Good(sh), NEW s \in Seats
    PROVE  LET j == so_next(s)
               k == so_next(j)
               m(t) == sh.mount[t] + (PSize - sh.pool[t])
           IN  Balance(sh, s) =
                 10 * (m(j) + m(k) - 2 * m(s))
                 + 3 * (sh.whist[s][j] - sh.whist[j][s] + sh.whist[s][k] - sh.whist[k][s])
  <1> DEFINE j == so_next(s)
             k == so_next(j)
             m(t) == sh.mount[t] + (PSize - sh.pool[t])
  <1>1. j \in Seats /\ k \in Seats
    BY NextSeat
  <1>2. \A t \in Seats : Owed(sh, t) = m(t) /\ m(t) \in Int
    <2>1. \A t \in Seats : /\ Room(sh, t) = PSize - sh.pool[t]
                           /\ sh.mount[t] \in Int /\ sh.pool[t] \in Int
      BY RoomIs DEF Good, Sheet
    <2> QED BY <2>1, PrefScoreAssumption DEF Owed
  <1>3. TotalOwed(sh) = m(s) + m(j) + m(k)
    <2>1. m(0) \in Int /\ m(1) \in Int /\ m(2) \in Int
      BY <1>2 DEF Seats
    <2>2. TotalOwed(sh) = m(0) + m(1) + m(2)
      BY <1>2 DEF TotalOwed, Seats
    <2>3. s = 0 \/ s = 1 \/ s = 2
      BY DEF Seats
    <2> HIDE DEF m
    <2> QED BY <2>1, <2>2, <2>3, NextSeat
  <1>4. \A t, u \in Seats : sh.whist[t][u] \in Int
    BY DEF Good, Sheet
  <1>5. m(s) \in Int /\ m(j) \in Int /\ m(k) \in Int
    BY <1>1, <1>2
  <1>6. /\ sh.whist[s][j] \in Int /\ sh.whist[j][s] \in Int
        /\ sh.whist[s][k] \in Int /\ sh.whist[k][s] \in Int
    BY <1>1, <1>4
  <1>7. Balance(sh, s) = 10 * (m(s) + m(j) + m(k) - 3 * m(s))
            + 3 * ((sh.whist[s][j] - sh.whist[j][s]) + (sh.whist[s][k] - sh.whist[k][s]))
    <2>1. Owed(sh, s) = m(s)
      BY <1>2
    <2>2. Balance(sh, s) = 10 * (TotalOwed(sh) - 3 * Owed(sh, s))
              + 3 * (WhistsOver(sh, s, j) + WhistsOver(sh, s, k))
      BY DEF Balance
    <2>3. /\ WhistsOver(sh, s, j) = sh.whist[s][j] - sh.whist[j][s]
          /\ WhistsOver(sh, s, k) = sh.whist[s][k] - sh.whist[k][s]
      BY DEF WhistsOver
    <2> HIDE DEF m, j, k
    <2> QED BY <1>3, <1>5, <1>6, <2>1, <2>2, <2>3
  <1> HIDE DEF m, j, k
  <1>8. Balance(sh, s) =
            10 * (m(j) + m(k) - 2 * m(s))
            + 3 * (sh.whist[s][j] - sh.whist[j][s] + sh.whist[s][k] - sh.whist[k][s])
    BY <1>5, <1>6, <1>7
  <1> QED BY <1>8 DEF m, j, k

(* The arithmetic of a balance when own points went to the earner's pool, a *)
(* to the next player's and b to the last one's: what the earner gains.     *)
LEMMA EarnersGain ==
    \A ms, mj, mk, sj, js, sk, ks, own, a, b \in Int :
        10 * ((mj - a) + (mk - b) - 2 * (ms - own))
            + 3 * ((sj + 10 * a) - js + (sk + 10 * b) - ks)
        = 10 * (mj + mk - 2 * ms) + 3 * (sj - js + sk - ks) + 20 * (own + a + b)
  OBVIOUS

(* What the next player loses. *)
LEMMA NextsLoss ==
    \A ms, mj, mk, jk, kj, js, sj, own, a, b \in Int :
        10 * ((mk - b) + (ms - own) - 2 * (mj - a))
            + 3 * (jk - kj + js - (sj + 10 * a))
        = 10 * (mk + ms - 2 * mj) + 3 * (jk - kj + js - sj) + -10 * (own + a + b)
  OBVIOUS

(* What the last player loses. *)
LEMMA LastsLoss ==
    \A ms, mj, mk, ks, sk, kj, jk, own, a, b \in Int :
        10 * ((ms - own) + (mj - a) - 2 * (mk - b))
            + 3 * (ks - (sk + 10 * b) + kj - jk)
        = 10 * (ms + mj - 2 * mk) + 3 * (ks - sk + kj - jk) + -10 * (own + a + b)
  OBVIOUS

(* Points are worth the same in the earner's pool and in another's. *)
LEMMA HelpFair ==
    ASSUME NEW sh, Good(sh), NEW s \in Seats, NEW n \in Nat, n <= AllRoom(sh)
    PROVE  so_settle(so_pool_add(sh, s, n)) =
               [t \in Seats |-> so_settle(sh)[t] + IF t = s THEN 20 * n ELSE -10 * n]
  <1> DEFINE j == so_next(s)
             k == so_next(j)
             r == so_pool_add(sh, s, n)
  <1>1. /\ j \in Seats /\ k \in Seats /\ s # j /\ s # k /\ j # k
        /\ \A t \in Seats : t = s \/ t = j \/ t = k
        /\ so_next(k) = s
    BY DEF so_next, Seats
  <1>2. Good(r)
    BY PoolAddGood
  <1>3. PICK own \in Nat, a \in Nat, b \in Nat :
            /\ own + a + b = n
            /\ r.mount = sh.mount
            /\ r.pool[s] = sh.pool[s] + own
            /\ r.pool[j] = sh.pool[j] + a
            /\ r.pool[k] = sh.pool[k] + b
            /\ \A t, u \in Seats :
                  r.whist[t][u] = sh.whist[t][u] +
                      IF t = s /\ u = j THEN 10 * a
                      ELSE IF t = s /\ u = k THEN 10 * b ELSE 0
    BY PoolAddEffect
  <1> HIDE DEF j, k, r
  <1>4. \A t, u \in Seats : sh.whist[t][u] \in Int
    BY DEF Good, Sheet
  <1>5. \A t \in Seats : sh.mount[t] \in Int /\ sh.pool[t] \in Int
    BY DEF Good, Sheet
  <1>6. PSize \in Int
    BY PrefScoreAssumption
  <1>7. /\ r.whist[s][j] = sh.whist[s][j] + 10 * a
        /\ r.whist[s][k] = sh.whist[s][k] + 10 * b
        /\ r.whist[j][s] = sh.whist[j][s] /\ r.whist[k][s] = sh.whist[k][s]
        /\ r.whist[j][k] = sh.whist[j][k] /\ r.whist[k][j] = sh.whist[k][j]
    BY <1>1, <1>3, <1>4
  <1> DEFINE M(x, t) == x.mount[t] + (PSize - x.pool[t])
  <1>8. \A x : Good(x) =>
            /\ Balance(x, s) = 10 * (M(x, j) + M(x, k) - 2 * M(x, s))
                 + 3 * (x.whist[s][j] - x.whist[j][s] + x.whist[s][k] - x.whist[k][s])
            /\ Balance(x, j) = 10 * (M(x, k) + M(x, s) - 2 * M(x, j))
                 + 3 * (x.whist[j][k] - x.whist[k][j] + x.whist[j][s] - x.whist[s][j])
            /\ Balance(x, k) = 10 * (M(x, s) + M(x, j) - 2 * M(x, k))
                 + 3 * (x.whist[k][s] - x.whist[s][k] + x.whist[k][j] - x.whist[j][k])
    BY <1>1, BalanceIs DEF j, k
  <1>9. /\ M(r, s) = M(sh, s) - own /\ M(r, j) = M(sh, j) - a /\ M(r, k) = M(sh, k) - b
        /\ M(sh, s) \in Int /\ M(sh, j) \in Int /\ M(sh, k) \in Int
    BY <1>1, <1>3, <1>5, <1>6
  <1> HIDE DEF M
  <1>10. /\ sh.whist[s][j] \in Int /\ sh.whist[s][k] \in Int /\ sh.whist[j][s] \in Int
         /\ sh.whist[k][s] \in Int /\ sh.whist[j][k] \in Int /\ sh.whist[k][j] \in Int
    BY <1>1, <1>4
  <1>11. Balance(r, s) = Balance(sh, s) + 20 * n
    <2>1. Balance(r, s) = 10 * ((M(sh, j) - a) + (M(sh, k) - b) - 2 * (M(sh, s) - own))
            + 3 * ((sh.whist[s][j] + 10 * a) - sh.whist[j][s]
                   + (sh.whist[s][k] + 10 * b) - sh.whist[k][s])
      BY <1>2, <1>7, <1>8, <1>9
    <2>2. Balance(sh, s) = 10 * (M(sh, j) + M(sh, k) - 2 * M(sh, s))
            + 3 * (sh.whist[s][j] - sh.whist[j][s] + sh.whist[s][k] - sh.whist[k][s])
      BY <1>8
    <2>3. n = own + a + b
      BY <1>3
    <2> QED BY <1>9, <1>10, <2>1, <2>2, <2>3, EarnersGain
  <1>12. Balance(r, j) = Balance(sh, j) + -10 * n
    <2>1. Balance(r, j) = 10 * ((M(sh, k) - b) + (M(sh, s) - own) - 2 * (M(sh, j) - a))
            + 3 * (sh.whist[j][k] - sh.whist[k][j]
                   + sh.whist[j][s] - (sh.whist[s][j] + 10 * a))
      BY <1>2, <1>7, <1>8, <1>9
    <2>2. Balance(sh, j) = 10 * (M(sh, k) + M(sh, s) - 2 * M(sh, j))
            + 3 * (sh.whist[j][k] - sh.whist[k][j] + sh.whist[j][s] - sh.whist[s][j])
      BY <1>8
    <2>3. n = own + a + b
      BY <1>3
    <2> QED BY <1>9, <1>10, <2>1, <2>2, <2>3, NextsLoss
  <1>13. Balance(r, k) = Balance(sh, k) + -10 * n
    <2>1. Balance(r, k) = 10 * ((M(sh, s) - own) + (M(sh, j) - a) - 2 * (M(sh, k) - b))
            + 3 * (sh.whist[k][s] - (sh.whist[s][k] + 10 * b)
                   + sh.whist[k][j] - sh.whist[j][k])
      BY <1>2, <1>7, <1>8, <1>9
    <2>2. Balance(sh, k) = 10 * (M(sh, s) + M(sh, j) - 2 * M(sh, k))
            + 3 * (sh.whist[k][s] - sh.whist[s][k] + sh.whist[k][j] - sh.whist[j][k])
      BY <1>8
    <2>3. n = own + a + b
      BY <1>3
    <2> QED BY <1>9, <1>10, <2>1, <2>2, <2>3, LastsLoss
  <1>14. \A t \in Seats : Balance(r, t) = so_settle(sh)[t] + IF t = s THEN 20 * n ELSE -10 * n
    BY <1>1, <1>11, <1>12, <1>13 DEF so_settle
  <1> QED BY <1>14 DEF so_settle, r

----------------------------------------------------------------------------
(* The game *)

(* The inductive invariant: the types, a declarer when there is a contract, *)
(* pools within their size, and final balances that add up to nothing.      *)
Inv ==
    /\ SheetTyped
    /\ stage = "contract" => decl \in Seats
    /\ Good(sheet)
    /\ SumOf(final) = 0

(* The empty sheet satisfies the invariant. *)
LEMMA InvInit == SheetInit => Inv
  <1> SUFFICES ASSUME SheetInit PROVE Inv
    OBVIOUS
  <1>1. EmptySheet \in Sheet /\ \A s \in Seats : EmptySheet.pool[s] = 0
    BY DEF EmptySheet, Sheet
  <1>2. Good(sheet)
    BY <1>1, PrefScoreAssumption DEF SheetInit, Good
  <1>3. SumOf(final) = 0
    BY DEF SheetInit, NoBalance, SumOf, Seats
  <1> QED BY <1>2, <1>3 DEF SheetInit, Inv, SheetTyped, Good, NoBalance

(* Writing a good sheet, as so_score_hand does, keeps the invariant. *)
LEMMA ScoreKeeps ==
    ASSUME Inv, NEW sh, Good(sh), Score(sh)
    PROVE  Inv'
  <1>1. so_settle(sh) \in [Seats -> Int] /\ SumOf(so_settle(sh)) = 0
    BY SettleZero
  <1>2. final' \in [Seats -> Int] /\ SumOf(final') = 0
    BY <1>1 DEF Score, Inv, SheetTyped
  <1>3. sheet' \in Sheet /\ Good(sheet')
    BY DEF Score, Good
  <1> QED BY <1>2, <1>3 DEF Score, Inv, SheetTyped

(* Every step keeps the invariant. *)
LEMMA InvNext == Inv /\ [SheetNext]_sheetVars => Inv'
  <1> SUFFICES ASSUME Inv, [SheetNext]_sheetVars PROVE Inv'
    OBVIOUS
  <1>0. Good(sheet) /\ streak \in Nat /\ (stage = "contract" => decl \in Seats)
    BY DEF Inv, SheetTyped
  <1>1. CASE Deal
    BY <1>1 DEF Deal, Inv, SheetTyped, Good
  <1>2. CASE AllPass
    BY <1>2 DEF AllPass, Inv, SheetTyped, Good
  <1>3. ASSUME NEW d \in Seats, Declare(d) PROVE Inv'
    BY <1>3 DEF Declare, Inv, SheetTyped, Good, Seats
  <1>4. CASE Raspasy
    <2>1. PICK t \in TrickCounts : Score(so_score_raspasy(sheet, t, streak))
      BY <1>4 DEF Raspasy, Shares
    <2>2. Good(so_score_raspasy(sheet, t, streak))
      BY <1>0, RaspasyGood
    <2> QED BY <2>1, <2>2, ScoreKeeps
  <1>5. CASE Misere
    <2>1. PICK t \in Shares(HandSize) : Score(so_score_misere(sheet, decl, t))
      BY <1>5 DEF Misere
    <2>2. t \in TrickCounts
      BY DEF Shares
    <2>3. Good(so_score_misere(sheet, decl, t))
      BY <1>0, <1>5, <2>2, MisereGood DEF Misere
    <2> QED BY <2>1, <2>3, ScoreKeeps
  <1>6. CASE Contract
    <2>1. PICK level \in Levels : \E w \in Replies(decl, level) :
              \E t \in TrickCounts : Score(so_score_contract(sheet, decl, level, t, w))
      BY <1>6 DEF Contract, Shares
    <2>2. PICK w \in Replies(decl, level) : \E t \in TrickCounts : Score(so_score_contract(sheet, decl, level, t, w))
      BY <2>1
    <2>3. PICK t \in TrickCounts : Score(so_score_contract(sheet, decl, level, t, w))
      BY <2>2
    <2>4. Good(so_score_contract(sheet, decl, level, t, w))
      BY <1>0, <1>6, ContractGood DEF Contract
    <2> QED BY <2>3, <2>4, ScoreKeeps
  <1>7. CASE UNCHANGED sheetVars
    BY <1>7 DEF sheetVars, Inv, SheetTyped, Good
  <1> QED BY <1>1, <1>2, <1>3, <1>4, <1>5, <1>6, <1>7 DEF SheetNext

(* The invariant holds in every game. *)
LEMMA Invariant == SheetSpec => []Inv
  <1> QED BY InvInit, InvNext, PTL DEF SheetSpec

(* The variables of PrefTable keep their types. *)
THEOREM TypesHold == SheetSpec => []SheetTyped
  <1>1. Inv => SheetTyped
    BY DEF Inv
  <1> QED BY <1>1, Invariant, PTL

(* so_pool_add never fills a pool beyond its size, whatever the hands bring *)
(* and whoever helps whom.                                                  *)
THEOREM PoolsHold == SheetSpec => []PoolsBounded
  <1>1. Inv => PoolsBounded
    BY DEF Inv, Good, PoolsBounded
  <1> QED BY <1>1, Invariant, PTL

(* so_settle's balances add up to nothing at every point of every game. *)
THEOREM NothingWonOrLost == SheetSpec => []ZeroSum
  <1>1. Inv => ZeroSum
    BY SettleZero DEF Inv, ZeroSum
  <1> QED BY <1>1, Invariant, PTL

(* so_pool_add passes points on at a price that leaves every balance as it *)
(* would be if the earner's pool had had room.                             *)
THEOREM PointsKeepTheirWorth == SheetSpec => []HelpIsFair
  <1>1. Inv => HelpIsFair
    <2> SUFFICES ASSUME Inv, NEW s \in Seats, NEW n \in 1..MisereValue, n <= AllRoom(sheet)
                 PROVE  so_settle(so_pool_add(sheet, s, n)) =
                          [t \in Seats |-> so_settle(sheet)[t]
                                           + IF t = s THEN 20 * n ELSE -10 * n]
      BY DEF HelpIsFair
    <2>1. Good(sheet) /\ n \in Nat
      BY DEF Inv, MisereValue
    <2> QED BY <2>1, HelpFair
  <1> QED BY <1>1, Invariant, PTL
=============================================================================
