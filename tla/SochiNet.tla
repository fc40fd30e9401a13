------------------------------ MODULE SochiNet ------------------------------
(***************************************************************************)
(* The table protocol of Sochi (src/sochi/sochi.su): a host keeps a        *)
(* three-handed game, players join it over UDP.  Datagrams may be lost,    *)
(* delayed and reordered; the code repairs this with JOIN retries, views   *)
(* sent again until they are acknowledged, and actions sent again until a  *)
(* view shows that the host has applied them.                              *)
(*                                                                         *)
(* Seat 0 is the host's own; seats 1 and 2 are taken by clients or bots.   *)
(* A client is one run of sn_client: its socket has an address no other    *)
(* run has, so a player who comes back is a new client with the old        *)
(* nickname.  Ticks are abstracted: a resend, and the 15 seconds after     *)
(* which a silent player is offline, may come at any time.                 *)
(***************************************************************************)
EXTENDS Naturals, Sequences, FiniteSets, FiniteSetsExt, Functions

CONSTANTS
    Clients,        \* runs of sn_client; a client is also its address
    Nick,           \* [Clients -> Names]: --name of each run
    HostNick,       \* the host's own nickname
    Bots,           \* sn_host's argument: seats 1..Bots are bots
    BotNick,        \* [1..2 -> Names]: the nicknames of those bots
    LateJoins,      \* may a JOIN arrive after the run that sent it has ended?
    MaxTries,       \* 20 in the code: JOINs sent before giving up
    MaxActs,        \* bound: actions one client queues
    MaxPings,       \* bound: PINGs of all clients
    MaxHostMoves,   \* bound: actions of seat 0 and of the host's bots
    MaxSilences,    \* bound: times a seat goes offline for its silence
    MaxFlight       \* bound: datagrams of a kind under way to or from a client

(***************************************************************************)
(* A nickname is a text and the number of "2"s appended to it; appending   *)
(* is all sn_host_join does to a nickname.                                 *)
(***************************************************************************)
NoName == <<"", 0>>
Names == (STRING \ {""}) \X Nat
WithTwo(n) == <<n[1], n[2] + 1>>

AllSeats == 0..2
Remote == 1..2
NoAddr == "none"

ASSUME SochiNetAssumption ==
    /\ NoAddr \notin Clients
    /\ \A c \in Clients : Nick[c] # NoName
    /\ HostNick # NoName
    /\ Bots \in 0..2
    /\ LateJoins \in BOOLEAN
    /\ \A i \in Remote : BotNick[i] # NoName
    /\ MaxTries \in Nat \ {0}
    /\ MaxFlight \in Nat \ {0}
    /\ {MaxActs, MaxPings, MaxHostMoves, MaxSilences} \subseteq Nat

VARIABLES
    \* the host
    open,       \* the host's loop runs (su_quit = false)
    phase,      \* sg_phase: "lobby", or "play" once so_new_game has run
    name,       \* sg_names
    kind,       \* sg_kind
    addr,       \* sn_addr
    online,     \* sg_online
    acked,      \* sn_acked: the newest view a seat has acknowledged
    actid,      \* sg_actid: the newest action id of a seat
    seq,        \* sg_seq: the version of the game
    sent,       \* the version last sent to everyone
    hostMoves, silences,    \* the counters of two bounds
    \* the clients
    cstate,     \* "off", "joining", "playing" or "left"
    tries,      \* JOINs sent
    seat,       \* sn_seat
    su_actid,   \* the id of the last action queued
    pending,    \* su_pending: the ids of the actions not yet seen applied
    view,       \* su_view: its V_SEQ and V_SEAT, 0 before the first
    \* the datagrams under way
    net,
    pings,      \* the counter of a bound
    \* history: the id a client started from, and what the host did for it
    base, applied

hostVars == <<open, phase, name, kind, addr, online, acked, actid, seq, sent,
              hostMoves, silences>>
clientVars == <<cstate, tries, seat, su_actid, pending, view, base>>
vars == <<hostVars, clientVars, net, pings, applied>>

----------------------------------------------------------------------------
(* Datagrams *)

Join(c, try) == [verb |-> "JOIN", peer |-> c, no |-> try]
Ack(c, q) == [verb |-> "ACK", peer |-> c, no |-> q]
Act(c, id) == [verb |-> "ACT", peer |-> c, no |-> id]
Ping(c) == [verb |-> "PING", peer |-> c, no |-> 0]
Bye(c) == [verb |-> "BYE", peer |-> c, no |-> 0]

Welcome(c, s, last) == [verb |-> "WELCOME", peer |-> c, no |-> last, seat |-> s]
Full(c) == [verb |-> "FULL", peer |-> c, no |-> 0]
View(c, s, q, ids) == [verb |-> "VIEW", peer |-> c, no |-> q, seat |-> s, ids |-> ids]
HostBye(c) == [verb |-> "HOSTBYE", peer |-> c, no |-> 0]

(***************************************************************************)
(* The datagrams a socket would still read: those of a program that has    *)
(* ended are lost, and a client once seated looks at no WELCOME or FULL.   *)
(* At most MaxFlight datagrams of one verb and one client are under way:   *)
(* with more, those with the smallest number are lost.                     *)
(***************************************************************************)
ToHost == {"JOIN", "ACK", "ACT", "PING", "BYE"}
Reads(c, verb) ==
    \/ cstate[c] = "joining" /\ verb \notin ToHost
    \/ cstate[c] = "playing" /\ verb \in {"VIEW", "HOSTBYE"}
Later(m, n) == n.verb = m.verb /\ n.peer = m.peer /\ n.no > m.no
Carried(ms) ==
    {m \in ms : /\ IF m.verb \in ToHost THEN open ELSE Reads(m.peer, m.verb)
                /\ Cardinality({n \in ms : Later(m, n)}) < MaxFlight}

(* What is under way without the datagrams of these verbs to a client. *)
Without(c, verbs) == {m \in net : ~(m.peer = c /\ m.verb \in verbs)}
ToClient == {"WELCOME", "FULL", "VIEW", "HOSTBYE"}

(* What is under way once the client c has ended: unless LateJoins, its *)
(* JOINs have arrived by then or never will.                            *)
Ended(c) == Without(c, IF LateJoins THEN ToClient ELSE ToClient \cup {"JOIN"})

(* The view of the current version for each of the seats ss that has an address. *)
SendViews(ss) ==
    {View(addr[s], s, seq, actid) : s \in {t \in ss : addr[t] # NoAddr}}

Received(verb) == {m \in net : m.verb = verb}

----------------------------------------------------------------------------
(***************************************************************************)
(* The table is open: seats 1..Bots are bots.  With two bots the game      *)
(* starts at once.                                                         *)
(***************************************************************************)
Init ==
    /\ open = TRUE
    /\ phase = IF Bots >= 2 THEN "play" ELSE "lobby"
    /\ name = [s \in AllSeats |-> IF s = 0 THEN HostNick
                               ELSE IF s <= Bots THEN BotNick[s] ELSE NoName]
    /\ kind = [s \in AllSeats |-> IF s = 0 THEN "local"
                               ELSE IF s <= Bots THEN "bot" ELSE ""]
    /\ addr = [s \in Remote |-> NoAddr]
    /\ online = [s \in Remote |-> TRUE]
    /\ acked = [s \in Remote |-> 0]
    /\ actid = [s \in Remote |-> 0]
    /\ seq = 1
    /\ sent = 0
    /\ hostMoves = 0
    /\ silences = 0
    /\ cstate = [c \in Clients |-> "off"]
    /\ tries = [c \in Clients |-> 0]
    /\ seat = [c \in Clients |-> 0]
    /\ su_actid = [c \in Clients |-> 0]
    /\ pending = [c \in Clients |-> <<>>]
    /\ view = [c \in Clients |-> [seq |-> 0, seat |-> 0]]
    /\ net = {}
    /\ pings = 0
    /\ base = [c \in Clients |-> 0]
    /\ applied = [c \in Clients |-> <<>>]

----------------------------------------------------------------------------
(* The host's handling of one datagram: sn_host_packet *)

(* The seat of an address: the loop keeps the last match; 0 for none. *)
SeatOf(a) ==
    LET held == {s \in Remote : addr[s] = a} IN IF held = {} THEN 0 ELSE Max(held)

(* Any datagram of a seated address brings its seat back online, which is *)
(* a new version.                                                         *)
Seen(a) == [s \in Remote |-> online[s] \/ s = SeatOf(a)]
Wakes(a) == SeatOf(a) # 0 /\ ~online[SeatOf(a)]
SeqSeen(a) == IF Wakes(a) THEN seq + 1 ELSE seq

(* Mutant: a nickname that comes back is not looked for. *)
SeatForFirstFree(nick) ==
    LET free == {s \in Remote : name[s] = NoName}
    IN  IF phase = "lobby" /\ free # {} THEN Min(free) ELSE 0

(* The seat a nickname gets: the remote seat that already has it, else,  *)
(* before the game, the first free one; 0 when the table is full.        *)
SeatFor(nick) ==
    LET held == {s \in Remote : name[s] = nick /\ kind[s] = "remote"}
        free == {s \in Remote : name[s] = NoName}
    IN  IF held # {} THEN Max(held)
        ELSE IF phase = "lobby" /\ free # {} THEN Min(free) ELSE 0

IsNew(nick) == \A s \in Remote : ~(name[s] = nick /\ kind[s] = "remote")

(* One pass over the seats, appending "2" at each name that is equal. *)
Distinct(nick) ==
    LET apart(n, s) == IF name[s] = n THEN WithTwo(n) ELSE n
    IN  apart(apart(apart(nick, 0), 1), 2)

(* Mutant: a seat that changes hands keeps its acknowledgements. *)
AckedForgotNot(s) == acked

(* The new owner of a seat has acknowledged nothing. *)
AckedAnew(s) == [acked EXCEPT ![s] = 0]

RecvJoin(m) ==
    LET c == m.peer
        s == SeatFor(Nick[c])
        new == IsNew(Nick[c])
    IN  /\ open
        /\ UNCHANGED <<open, sent, hostMoves, silences, clientVars, applied, pings>>
        /\ IF s = 0
           THEN /\ online' = Seen(c)
                /\ seq' = SeqSeen(c)
                /\ net' = Carried((net \ {m}) \cup {Full(c)})
                /\ UNCHANGED <<phase, name, kind, addr, acked, actid>>
           ELSE /\ name' = IF new THEN [name EXCEPT ![s] = Distinct(Nick[c])]
                                  ELSE name
                /\ kind' = [kind EXCEPT ![s] = "remote"]
                /\ actid' = IF new THEN [actid EXCEPT ![s] = 0] ELSE actid
                /\ addr' = [addr EXCEPT ![s] = c]
                /\ acked' = AckedAnew(s)
                /\ online' = [Seen(c) EXCEPT ![s] = TRUE]
                /\ net' = Carried((net \ {m}) \cup {Welcome(c, s, actid'[s])})
                /\ phase' = IF \A t \in AllSeats : name'[t] # NoName
                            THEN "play" ELSE phase
                /\ seq' = SeqSeen(c) + 1

(* Mutant: any acknowledgement counts for the newest version. *)
AckNewest(s, q) == [acked EXCEPT ![s] = seq]

Acknowledged(s, q) == [acked EXCEPT ![s] = IF q > @ THEN q ELSE @]

RecvAck(m) ==
    LET s == SeatOf(m.peer)
    IN  /\ open
        /\ online' = Seen(m.peer)
        /\ seq' = SeqSeen(m.peer)
        /\ acked' = IF s # 0 THEN Acknowledged(s, m.no) ELSE acked
        /\ net' = net \ {m}
        /\ UNCHANGED <<open, phase, name, kind, addr, actid, sent, hostMoves,
                       silences, clientVars, applied, pings>>

(* Mutant: an action that is sent again is applied again. *)
FreshOrSame(s, id) == id >= actid[s]

Fresh(s, id) == id > actid[s]

(* Mutant: a move that is refused makes no new version. *)
SeqUnlessRefused(c) == SeqSeen(c)

(* so_act makes a new version, whatever it thinks of the move. *)
SeqActed(c) == SeqSeen(c) + 1

(***************************************************************************)
(* An action the host has not had is applied; an old one is answered with  *)
(* the view.                                                               *)
(***************************************************************************)
RecvAct(m) ==
    LET c == m.peer
        s == SeatOf(c)
        fresh == s # 0 /\ Fresh(s, m.no)
    IN  /\ open
        /\ online' = Seen(c)
        /\ actid' = IF fresh THEN [actid EXCEPT ![s] = m.no] ELSE actid
        /\ applied' = IF fresh THEN [applied EXCEPT ![c] = Append(@, m.no)] ELSE applied
        /\ seq' = IF fresh THEN SeqActed(c) ELSE SeqSeen(c)
        /\ net' = Carried((net \ {m}) \cup
                          IF s # 0 /\ ~fresh THEN {View(c, s, seq', actid)} ELSE {})
        /\ UNCHANGED <<open, phase, name, kind, addr, acked, sent, hostMoves,
                       silences, clientVars, pings>>

RecvPing(m) ==
    /\ open
    /\ online' = Seen(m.peer)
    /\ seq' = SeqSeen(m.peer)
    /\ net' = net \ {m}
    /\ UNCHANGED <<open, phase, name, kind, addr, acked, actid, sent, hostMoves,
                   silences, clientVars, applied, pings>>

(* BYE: the seat is offline, and before the game it is free again. *)
RecvBye(m) ==
    LET s == SeatOf(m.peer)
        frees == s # 0 /\ phase = "lobby"
    IN  /\ open
        /\ online' = IF s # 0 THEN [online EXCEPT ![s] = FALSE] ELSE online
        /\ seq' = IF s # 0 THEN SeqSeen(m.peer) + 1 ELSE seq
        /\ name' = IF frees THEN [name EXCEPT ![s] = NoName] ELSE name
        /\ kind' = IF frees THEN [kind EXCEPT ![s] = ""] ELSE kind
        /\ addr' = IF frees THEN [addr EXCEPT ![s] = NoAddr] ELSE addr
        /\ net' = net \ {m}
        /\ UNCHANGED <<open, phase, acked, actid, sent, hostMoves, silences,
                       clientVars, applied, pings>>

----------------------------------------------------------------------------
(* The rest of the host's loop: sn_host *)

(* The host's own line or a bot's move, applied by so_act. *)
HostMove ==
    /\ open
    /\ hostMoves < MaxHostMoves
    /\ hostMoves' = hostMoves + 1
    /\ seq' = seq + 1
    /\ UNCHANGED <<open, phase, name, kind, addr, online, acked, actid, sent,
                   silences, clientVars, net, applied, pings>>

VersionSent == seq

(* A new version goes to every seat. *)
HostSendViews ==
    /\ open
    /\ seq # sent
    /\ sent' = VersionSent
    /\ net' = Carried(net \cup SendViews(Remote))
    /\ UNCHANGED <<open, phase, name, kind, addr, online, acked, actid, seq,
                   hostMoves, silences, clientVars, applied, pings>>

(* The version goes again to the seats that have not acknowledged it. *)
HostResend ==
    /\ open
    /\ seq = sent
    /\ net' = Carried(net \cup SendViews({s \in Remote : acked[s] < seq}))
    /\ UNCHANGED <<hostVars, clientVars, applied, pings>>

(* Nothing was heard of a seat for 15 seconds. *)
HostSilence(s) ==
    /\ open
    /\ silences < MaxSilences
    /\ addr[s] # NoAddr
    /\ online[s]
    /\ silences' = silences + 1
    /\ online' = [online EXCEPT ![s] = FALSE]
    /\ seq' = seq + 1
    /\ UNCHANGED <<open, phase, name, kind, addr, acked, actid, sent, hostMoves,
                   clientVars, net, applied, pings>>

(* The host quits: BYE to every address, and the socket is closed. *)
HostQuit ==
    /\ open
    /\ open' = FALSE
    /\ net' = Carried({m \in net : m.verb \notin ToHost} \cup
                    {HostBye(addr[s]) : s \in {t \in Remote : addr[t] # NoAddr}})
    /\ UNCHANGED <<phase, name, kind, addr, online, acked, actid, seq, sent,
                   hostMoves, silences, clientVars, applied, pings>>

----------------------------------------------------------------------------
(* A client: sn_client *)

(***************************************************************************)
(* A player runs one client at a time: it starts one with the nickname of  *)
(* another run only when that one has ended.                               *)
(***************************************************************************)
Start(c) ==
    /\ cstate[c] = "off"
    /\ \A d \in Clients \ {c} : Nick[d] = Nick[c] => cstate[d] \in {"off", "left"}
    /\ cstate' = [cstate EXCEPT ![c] = "joining"]
    /\ UNCHANGED <<hostVars, tries, seat, su_actid, pending, view, base, net, applied, pings>>

JoinTry(c) ==
    /\ cstate[c] = "joining"
    /\ tries[c] < MaxTries
    /\ tries' = [tries EXCEPT ![c] = @ + 1]
    /\ net' = Carried(net \cup {Join(c, tries[c] + 1)})
    /\ UNCHANGED <<hostVars, cstate, seat, su_actid, pending, view, base, applied, pings>>

(* "No answer from that table." *)
GiveUp(c) ==
    /\ cstate[c] = "joining"
    /\ tries[c] = MaxTries
    /\ cstate' = [cstate EXCEPT ![c] = "left"]
    /\ net' = Ended(c)
    /\ UNCHANGED <<hostVars, tries, seat, su_actid, pending, view, base, applied, pings>>

(* Mutant: a client that comes back counts its actions from 1 again. *)
FirstIdZero(m) == 0

(* Action ids continue after the host's last one. *)
FirstId(m) == m.no

(* The first WELCOME seats the client; in sn_client's main loop another is ignored. *)
RecvWelcome(m) ==
    LET c == m.peer
    IN  /\ cstate[c] = "joining"
        /\ cstate' = [cstate EXCEPT ![c] = "playing"]
        /\ seat' = [seat EXCEPT ![c] = m.seat]
        /\ su_actid' = [su_actid EXCEPT ![c] = FirstId(m)]
        /\ base' = [base EXCEPT ![c] = FirstId(m)]
        /\ net' = Without(c, {"WELCOME", "FULL"})
        /\ UNCHANGED <<hostVars, tries, pending, view, applied, pings>>

(* "That table is full or already playing." *)
RecvFull(m) ==
    /\ cstate[m.peer] = "joining"
    /\ cstate' = [cstate EXCEPT ![m.peer] = "left"]
    /\ net' = Ended(m.peer)
    /\ UNCHANGED <<hostVars, tries, seat, su_actid, pending, view, base, applied, pings>>

(* Mutant: one action too many leaves the queue. *)
StillPendingTooFew(queue, done) ==
    LET waiting == {i \in DOMAIN queue : queue[i] > done + 1}
    IN  IF waiting = {} THEN <<>> ELSE SubSeq(queue, Min(waiting), Len(queue))

(* Heads leave the queue as long as the host has applied them: what is left *)
(* begins with the first id above done.                                     *)
StillPending(queue, done) ==
    LET waiting == {i \in DOMAIN queue : queue[i] > done}
    IN  IF waiting = {} THEN <<>> ELSE SubSeq(queue, Min(waiting), Len(queue))

(***************************************************************************)
(* Every view is acknowledged; a newer one is taken, and the actions it    *)
(* shows as applied leave the queue.                                       *)
(***************************************************************************)
RecvView(m) ==
    LET c == m.peer
        newer == m.no > view[c].seq
    IN  /\ cstate[c] = "playing"
        /\ net' = Carried((net \ {m}) \cup {Ack(c, m.no)})
        /\ view' = IF newer THEN [view EXCEPT ![c] = [seq |-> m.no, seat |-> m.seat]]
                            ELSE view
        /\ pending' = IF newer
                      THEN [pending EXCEPT ![c] = StillPending(@, m.ids[seat[c]])]
                      ELSE pending
        /\ UNCHANGED <<hostVars, cstate, tries, seat, su_actid, base, applied, pings>>

(* su_queue: a typed line or a bot's move, from the view at hand. *)
QueueAct(c) ==
    /\ cstate[c] = "playing"
    /\ view[c].seq > 0
    /\ su_actid[c] - base[c] < MaxActs
    /\ su_actid' = [su_actid EXCEPT ![c] = @ + 1]
    /\ pending' = [pending EXCEPT ![c] = Append(@, su_actid[c] + 1)]
    /\ UNCHANGED <<hostVars, cstate, tries, seat, view, base, net, applied, pings>>

(* The queue's head goes out, and again until the host has it. *)
SendAct(c) ==
    /\ cstate[c] = "playing"
    /\ pending[c] # <<>>
    /\ net' = Carried(net \cup {Act(c, Head(pending[c]))})
    /\ UNCHANGED <<hostVars, clientVars, applied, pings>>

SendPing(c) ==
    /\ cstate[c] = "playing"
    /\ pings < MaxPings
    /\ pings' = pings + 1
    /\ net' = Carried(net \cup {Ping(c)})
    /\ UNCHANGED <<hostVars, clientVars, applied>>

(* /quit: the client says BYE and closes its socket. *)
Quit(c) ==
    /\ cstate[c] = "playing"
    /\ cstate' = [cstate EXCEPT ![c] = "left"]
    /\ net' = Carried(Ended(c) \cup {Bye(c)})
    /\ UNCHANGED <<hostVars, tries, seat, su_actid, pending, view, base, applied, pings>>

(* The host's BYE: a bot quits (Quit, saying BYE to nobody), a player is told. *)
RecvHostBye(m) ==
    /\ cstate[m.peer] = "playing"
    /\ \/ /\ cstate' = [cstate EXCEPT ![m.peer] = "left"]
          /\ net' = Ended(m.peer)
       \/ /\ net' = net \ {m}
          /\ UNCHANGED cstate
    /\ UNCHANGED <<hostVars, tries, seat, su_actid, pending, view, base, applied, pings>>

(* The client's program or its machine stops without a word. *)
Crash(c) ==
    /\ cstate[c] \in {"joining", "playing"}
    /\ cstate' = [cstate EXCEPT ![c] = "left"]
    /\ net' = Ended(c)
    /\ UNCHANGED <<hostVars, tries, seat, su_actid, pending, view, base, applied, pings>>

----------------------------------------------------------------------------
(* A datagram is lost, or arrives while its verb is not looked at. *)
Lose(m) ==
    /\ net' = net \ {m}
    /\ UNCHANGED <<hostVars, clientVars, applied, pings>>

HostStep ==
    \/ \E m \in Received("JOIN") : RecvJoin(m)
    \/ \E m \in Received("ACK") : RecvAck(m)
    \/ \E m \in Received("ACT") : RecvAct(m)
    \/ \E m \in Received("PING") : RecvPing(m)
    \/ \E m \in Received("BYE") : RecvBye(m)
    \/ HostMove
    \/ HostSendViews
    \/ HostResend
    \/ \E s \in Remote : HostSilence(s)
    \/ HostQuit

ClientStep ==
    \/ \E m \in Received("WELCOME") : RecvWelcome(m)
    \/ \E m \in Received("FULL") : RecvFull(m)
    \/ \E m \in Received("VIEW") : RecvView(m)
    \/ \E m \in Received("HOSTBYE") : RecvHostBye(m)
    \/ \E c \in Clients :
          \/ Start(c)
          \/ JoinTry(c)
          \/ GiveUp(c)
          \/ QueueAct(c)
          \/ SendAct(c)
          \/ SendPing(c)
          \/ Quit(c)
          \/ Crash(c)

Next ==
    \/ HostStep
    \/ ClientStep
    \/ \E m \in net : Lose(m)

Spec == Init /\ [][Next]_vars

(***************************************************************************)
(* What the code's scheduling gives: both loops run for as long as their   *)
(* programs do, so what they send again they send again for ever (WF), and *)
(* a datagram sent again and again gets through in the end (SF), which is  *)
(* all that is asked of the network.  Nobody has to type, join, quit.      *)
(***************************************************************************)
RecvViewOf(c) == \E m \in Received("VIEW") : m.peer = c /\ m.no = seq /\ RecvView(m)
RecvAckOf(c) == \E m \in Received("ACK") : m.peer = c /\ m.no = seq /\ RecvAck(m)
RecvActOf(c) == \E m \in Received("ACT") :
                    m.peer = c /\ pending[c] # <<>> /\ m.no = Head(pending[c]) /\ RecvAct(m)

Fairness ==
    /\ WF_vars(HostSendViews)
    /\ WF_vars(HostResend)
    /\ \A c \in Clients :
          /\ WF_vars(SendAct(c))
          /\ SF_vars(RecvViewOf(c))
          /\ SF_vars(RecvAckOf(c))
          /\ SF_vars(RecvActOf(c))

FairSpec == Spec /\ Fairness

----------------------------------------------------------------------------
(* Properties *)

(* The client c has the seat it was given, as far as the host knows too. *)
Seated(c) == open /\ cstate[c] = "playing" /\ addr[seat[c]] = c

(* The host stops sending a version to a seat only when the client that has *)
(* the seat now has seen it: an acknowledgement a former owner of the seat  *)
(* sent never silences the host towards the new one (sn_host_join clears    *)
(* sn_acked, ACKs count only from the seat's address).                      *)
AckMeansSeen ==
    \A s \in Remote : addr[s] # NoAddr => acked[s] <= view[addr[s]].seq

(* A client's own actions reach the game one by one, in the order they were *)
(* queued, none twice and none skipped, whatever is lost, sent again or     *)
(* reordered; and an action leaves su_pending only when the host has        *)
(* applied that action, not another one with its number (SochiPromise).     *)
Promise == INSTANCE SochiPromise
    WITH issued <- [c \in Clients |-> su_actid[c] - base[c]],
         done <- [c \in Clients |-> Len(applied[c])],
         shown <- [c \in Clients |-> su_actid[c] - base[c] - Len(pending[c])]
KeepsPromise == Promise!Spec

(* The n-th action the host applies for a client is the n-th it queued. *)
AppliedInOrder ==
    \A c \in Clients : applied[c] = [i \in 1..Len(applied[c]) |-> base[c] + i]

(* An action that has left su_pending is one the host has applied for this  *)
(* client: a view drops an action from the queue because it shows that      *)
(* action as done, not because another program's action had its number.     *)
DroppedWasApplied ==
    \A c \in Clients : \A id \in (base[c] + 1)..su_actid[c] :
        id \in Range(pending[c]) \/ id \in Range(applied[c])

(* A player asks for one seat and gets one: however often its JOIN is sent  *)
(* again, no address has two seats.                                         *)
OneSeatEach ==
    \A s, t \in Remote : addr[s] # NoAddr /\ addr[s] = addr[t] => s = t

(* An action queued by a player who keeps the seat is applied and leaves    *)
(* the queue in the end.                                                    *)
ActionsLand ==
    \A c \in Clients : []<>(pending[c] = <<>> \/ ~Seated(c))

(* A player who keeps the seat is shown the newest version in the end, and  *)
(* the host then stops sending it.                                          *)
TableSettles ==
    \A c \in Clients :
        []<>(~Seated(c) \/ (view[c].seq = seq /\ acked[seat[c]] = seq))
=============================================================================
