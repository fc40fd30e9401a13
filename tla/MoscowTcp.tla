----------------------------- MODULE MoscowTcp ------------------------------
(***************************************************************************)
(* TCP of the Moscow kernel (moscow/net.su) between two machines that run  *)
(* it: a client's program connects, a server's program listens and         *)
(* accepts, and both send and close over a network that loses, repeats and *)
(* reorders segments.                                                      *)
(*                                                                         *)
(* Every socket command first reads what has come and looks at the timers  *)
(* (net_poll).  These are steps of their own here and may come between any *)
(* two commands, which includes at the start of one.  Time is left out: a  *)
(* timer that runs may fire.  One connection at a time has the ports, but  *)
(* the server may take an old SYN for a new one.  Both offer the same full *)
(* window throughout, as the code does.                                    *)
(***************************************************************************)
EXTENDS Integers, Sequences, SequencesExt, FiniteSets

CONSTANTS
    SeqRange,       \* numbers a sequence number counts through (2^32)
    Mss,            \* bytes in a segment (1460)
    Offered,        \* the window both machines offer (65535)
    MaxTries,       \* retransmissions before a connection is given up (8)
    MaxConns,       \* sockets a machine makes for this pair of ports
    MaxBytes,       \* bytes the programs send at most
    MaxFaults,      \* segments the network loses or repeats
    MaxWire,        \* segments under way when a program or a timer adds to them
    Denied,         \* machines whose firewall lets nothing new in
    EarlyClose      \* whether a program closes a socket that is still connecting

(* The bytes of a conversation fit between the first numbers of two sockets.*)
ASSUME TcpAssumption ==
    /\ {Mss, Offered, MaxConns} \subseteq Nat \ {0}
    /\ {SeqRange, MaxTries, MaxBytes} \subseteq Nat
    /\ MaxBytes + 2 < SeqRange \div (MaxConns + 1)

VARIABLES socks,        \* the sockets of each machine, by handle
          listening,    \* whether the server's port is open
          wire,         \* segments under way
          faults        \* of the network, so far
tcpVars == <<socks, listening, wire, faults>>

Machines == {"client", "server"}
Peer(m) == IF m = "client" THEN "server" ELSE "client"
Handles == 1..MaxConns
Fewer(a, b) == IF a < b THEN a ELSE b

net_seq_add(a, n) == (a + n) % SeqRange
net_seq_diff(a, b) ==
    LET d == (a - b) % SeqRange IN IF d >= SeqRange \div 2 THEN d - SeqRange ELSE d

(* Random numbers in the code: those of two sockets lie far apart.         *)
net_iss(m, h) == IF m = "client" THEN SeqRange - 2 ELSE h * (SeqRange \div (MaxConns + 1))

(* own: the program has the handle; held: it is in net_socks; linked: in   *)
(* net_conns.  rto says whether rto_at is set, linger whether the time is  *)
(* running after which a closed socket goes.  sent is what the program has *)
(* sent.  rx keeps the bytes its program has read: nothing else looks at   *)
(* them, the window does not shrink, so reading has no step of its own.    *)
net_new_sock ==
    [state |-> "new", own |-> FALSE, held |-> FALSE, linked |-> FALSE, queued |-> FALSE,
     rx |-> <<>>, txq |-> <<>>, txseq |-> 0, snd_una |-> 0, snd_nxt |-> 0, rcv_nxt |-> 0,
     fin_rcvd |-> FALSE, fin_sent |-> FALSE, fin_acked |-> FALSE, fin_seq |-> 0,
     closed |-> FALSE, reset |-> FALSE, rto |-> FALSE, tries |-> 0, linger |-> FALSE, sent |-> <<>>]

(* What sending from a socket comes to: the socket after it and segments.  *)
Out(c, segs) == [c |-> c, out |-> segs]
Joined(o, p) == Out(p.c, o.out \cup p.out)

net_tcp_seg(c, flags, seq, data) ==
    [flags |-> flags, seq |-> seq, ack |-> c.rcv_nxt, data |-> data]
net_tcp_ctl(c, flags, seq) == Out(c, {net_tcp_seg(c, flags, seq, <<>>)})

-----------------------------------------------------------------------------
(* Sending *)

InFlight(c) == net_seq_diff(c.snd_nxt, c.snd_una)
Sent(c) == IF c.fin_sent THEN Len(c.txq) ELSE net_seq_diff(c.snd_nxt, c.txseq)
Avail(c) == Len(c.txq) - Sent(c)

(* What the window lets go, in pieces of at most Mss bytes.                *)
SendData(c) ==
    LET n     == IF InFlight(c) < Offered THEN Fewer(Avail(c), Offered - InFlight(c)) ELSE 0
        at    == Sent(c)
        piece(k) == net_tcp_seg(c, {"psh", "ack"}, net_seq_add(c.snd_nxt, k * Mss),
                                SubSeq(c.txq, at + k * Mss + 1, at + Fewer((k + 1) * Mss, n)))
    IN  Out([c EXCEPT !.snd_nxt = net_seq_add(@, n)], {piece(k) : k \in 0..((n + Mss - 1) \div Mss - 1)})

(* FIN, once all is out and the program closed.                            *)
SendFin(c) ==
    IF c.closed /\ Avail(c) = 0 /\ ~c.fin_sent
    THEN Out([c EXCEPT !.fin_seq = c.snd_nxt, !.fin_sent = TRUE, !.snd_nxt = net_seq_add(@, 1)],
             {net_tcp_seg(c, {"fin", "ack"}, c.snd_nxt, <<>>)})
    ELSE Out(c, {})

net_tcp_output(c) ==
    IF c.state # "est" THEN Out(c, {})
    ELSE LET data == SendData(c)
             o    == Joined(data, SendFin(data.c))
         IN  Out([o.c EXCEPT !.rto = @ \/ InFlight(o.c) > 0], o.out)

(* A connection both ends have finished, or that was reset, goes; one that *)
(* was closed and whose FIN was acknowledged starts to linger.             *)
net_tcp_reap(c) ==
    IF c.reset \/ (c.fin_acked /\ c.fin_rcvd)
    THEN [c EXCEPT !.linked = FALSE, !.state = "closed", !.held = @ /\ ~c.closed]
    ELSE [c EXCEPT !.linger = @ \/ (c.closed /\ c.fin_acked)]

Reaped(o) == Out(net_tcp_reap(o.c), o.out)

(* Go-back-N: everything not acknowledged is sent anew.                    *)
GoBack(c) == net_tcp_output([c EXCEPT !.snd_nxt = c.snd_una, !.fin_sent = @ /\ c.fin_acked])

net_tcp_retransmit(c) ==
    LET again == [c EXCEPT !.tries = @ + 1] IN
    IF c.tries = MaxTries
    THEN Reaped(net_tcp_ctl([again EXCEPT !.reset = TRUE], {"rst"}, c.snd_nxt))
    ELSE CASE c.state = "syn_rcvd" -> net_tcp_ctl(again, {"syn", "ack"}, c.snd_una)
           [] c.state = "syn_sent" -> net_tcp_ctl(again, {"syn"}, c.snd_una)
           [] c.state = "est"      -> GoBack(again)

-----------------------------------------------------------------------------
(* Receiving *)

Established(c, g) == [c EXCEPT !.state = "est", !.snd_una = g.ack, !.rto = FALSE, !.tries = 0]

Acknowledge(c, g) ==
    LET drop == Fewer(net_seq_diff(g.ack, c.txseq), Len(c.txq))
    IN  IF ~("ack" \in g.flags /\ net_seq_diff(g.ack, c.snd_una) > 0 /\ net_seq_diff(g.ack, c.snd_nxt) <= 0)
        THEN c
        ELSE [c EXCEPT !.snd_una = g.ack,
                       !.txq = IF drop > 0 THEN SubSeq(@, drop + 1, Len(@)) ELSE @,
                       !.txseq = IF drop > 0 THEN net_seq_add(@, drop) ELSE @,
                       !.fin_acked = @ \/ (c.fin_sent /\ net_seq_diff(g.ack, c.fin_seq) >= 1),
                       !.tries = 0,
                       !.rto = net_seq_diff(g.ack, c.snd_nxt) < 0]

\* Mutant: a segment that was already taken is taken again.
TakeAnyData(c, g) ==
    IF g.data # <<>> /\ net_seq_diff(g.seq, c.rcv_nxt) <= 0 /\ ~c.fin_rcvd
    THEN [c EXCEPT !.rx = @ \o g.data, !.rcv_nxt = net_seq_add(@, Len(g.data))]
    ELSE c

TakeData(c, g) ==
    IF g.data # <<>> /\ g.seq = c.rcv_nxt /\ ~c.fin_rcvd
    THEN [c EXCEPT !.rx = @ \o g.data, !.rcv_nxt = net_seq_add(@, Len(g.data))]
    ELSE c

TakeFin(c, g) ==
    IF "fin" \in g.flags /\ net_seq_add(g.seq, Len(g.data)) = c.rcv_nxt /\ ~c.fin_rcvd
    THEN [c EXCEPT !.fin_rcvd = TRUE, !.rcv_nxt = net_seq_add(@, 1)]
    ELSE c

(* A segment of an established connection.                                 *)
Segment(c, g) ==
    IF "syn" \in g.flags THEN net_tcp_ctl(c, {"ack"}, c.snd_nxt)
    ELSE LET d == TakeFin(TakeData(Acknowledge(c, g), g), g)
             answer == IF g.data # <<>> \/ "fin" \in g.flags
                       THEN net_tcp_ctl(d, {"ack"}, d.snd_nxt) ELSE Out(d, {})
         IN  Reaped(Joined(answer, net_tcp_output(answer.c)))

(* A segment of a connection that is known.  open: the listener that a     *)
(* connection which comes to stand would wait at still exists.             *)
net_tcp_in(c, g, open) ==
    IF "rst" \in g.flags
    THEN Out([c EXCEPT !.reset = TRUE, !.state = "closed", !.linked = FALSE,
                       !.held = @ /\ ~(c.state = "syn_rcvd" \/ c.closed)], {})
    ELSE CASE c.state = "syn_sent" ->
                IF {"syn", "ack"} \subseteq g.flags /\ g.ack = c.snd_nxt
                THEN net_tcp_ctl([Established(c, g) EXCEPT !.rcv_nxt = net_seq_add(g.seq, 1)], {"ack"}, c.snd_nxt)
                ELSE Out(c, {})
           [] c.state = "syn_rcvd" ->
                IF "ack" \in g.flags /\ g.ack = c.snd_nxt
                THEN Segment([Established(c, g) EXCEPT !.queued = open], g)
                ELSE Out(c, {})
           [] c.state = "est" -> Segment(c, g)

(* RST, to a segment that belongs to no connection.                        *)
net_tcp_refuse(g) ==
    LET length == Len(g.data) + Cardinality(g.flags \cap {"syn", "fin"})
    IN  IF "ack" \in g.flags
        THEN net_tcp_seg([rcv_nxt |-> 0], {"rst"}, g.ack, <<>>)
        ELSE net_tcp_seg([rcv_nxt |-> net_seq_add(g.seq, length)], {"rst", "ack"}, 0, <<>>)

-----------------------------------------------------------------------------
(* The machines.  Segments carry the machine they go to.                   *)

To(m, segs) == {[to |-> m, seg |-> g] : g \in segs}

Becomes(m, h, o) ==
    /\ socks' = [socks EXCEPT ![m][h] = o.c]
    /\ wire' = wire \cup To(Peer(m), o.out)

Do(m, h, o) == Becomes(m, h, o) /\ UNCHANGED <<listening, faults>>

Usable(m, h) == socks[m][h].own /\ socks[m][h].held

Started(m, h, state, rcv_nxt) ==
    LET iss == net_iss(m, h)
    IN  [net_new_sock EXCEPT !.state = state, !.held = TRUE, !.linked = TRUE, !.own = (m = "client"),
                             !.rcv_nxt = rcv_nxt, !.snd_una = iss, !.snd_nxt = net_seq_add(iss, 1),
                             !.txseq = net_seq_add(iss, 1), !.rto = TRUE]

sys_socket_connect ==
    /\ socks["client"][1].state = "new"
    /\ LET c == Started("client", 1, "syn_sent", 0)
       IN  Do("client", 1, net_tcp_ctl(c, {"syn"}, c.snd_una))

(* Connections that have gone meanwhile are passed over.                   *)
sys_socket_accept(h) ==
    /\ listening /\ socks["server"][h].queued
    /\ Do("server", h, Out([socks["server"][h] EXCEPT !.queued = FALSE, !.own = socks["server"][h].held], {}))

(* Bound: the bytes all programs have sent.                                *)
Written == {b \in Machines \X Handles \X (1..MaxBytes) : b[3] \in DOMAIN socks[b[1]][b[2]].sent}

sys_socket_send(m, h) ==
    LET c == socks[m][h] IN
    /\ Usable(m, h) /\ c.state = "est" /\ ~c.closed /\ ~c.reset /\ ~c.fin_sent
    /\ Cardinality(Written) < MaxBytes
    /\ LET next == Len(c.sent) + 1
       IN  Do(m, h, net_tcp_output([c EXCEPT !.txq = Append(@, next), !.sent = Append(@, next)]))

sys_socket_close(m, h) ==
    LET c == socks[m][h] IN
    /\ Usable(m, h) /\ ~c.closed
    /\ EarlyClose \/ c.state # "syn_sent"
    /\ Do(m, h, IF c.state = "closed" THEN Out([c EXCEPT !.held = FALSE], {})
                ELSE Reaped(net_tcp_output([c EXCEPT !.closed = TRUE])))

(* The listener's own close: who waits at it is not told.                  *)
CloseListener == listening /\ listening' = FALSE /\ UNCHANGED <<socks, wire, faults>>

(* A program ends, with all its sockets; what it had not accepted is its.  *)
net_drop(m) ==
    /\ \E h \in Handles : socks[m][h].held
    /\ socks' = [socks EXCEPT ![m] = [h \in Handles |-> [@[h] EXCEPT !.held = FALSE, !.linked = FALSE]]]
    /\ listening' = (listening /\ m = "client")
    /\ UNCHANGED <<wire, faults>>

net_tcp_timers(m, h) ==
    LET c == socks[m][h] IN
    /\ c.linked
    /\ \/ c.rto /\ Do(m, h, Reaped(net_tcp_retransmit(c)))
       \/ c.linger /\ Do(m, h, Out([c EXCEPT !.linked = FALSE, !.held = FALSE], {}))

(* The wire after segment w arrived; a copy of it may come again.          *)
Arrives(w, copy, answers) ==
    /\ wire' = (IF copy THEN wire ELSE wire \ {w}) \cup To(Peer(w.to), answers)
    /\ faults' = faults + (IF copy THEN 1 ELSE 0)

(* A segment for no connection: Murmansk, the firewall, is asked whether   *)
(* it may be answered.                                                     *)
Ignored(w, copy) ==
    /\ "rst" \in w.seg.flags \/ w.to \in Denied
    /\ Arrives(w, copy, {}) /\ UNCHANGED socks

IsCall(w) == w.to = "server" /\ listening /\ "syn" \in w.seg.flags /\ "ack" \notin w.seg.flags

Called(w, copy) ==
    /\ IsCall(w) /\ w.to \notin Denied
    /\ \E h \in Handles :
          /\ socks["server"][h].state = "new" /\ \A i \in 1..(h - 1) : socks["server"][i].state # "new"
          /\ LET c == Started("server", h, "syn_rcvd", net_seq_add(w.seg.seq, 1))
                 o == net_tcp_ctl(c, {"syn", "ack"}, c.snd_una)
             IN  socks' = [socks EXCEPT !["server"][h] = c] /\ Arrives(w, copy, o.out)

Refused(w, copy) ==
    /\ "rst" \notin w.seg.flags /\ ~IsCall(w) /\ w.to \notin Denied
    /\ Arrives(w, copy, {net_tcp_refuse(w.seg)}) /\ UNCHANGED socks

Receive(w) ==
    /\ w \in wire /\ UNCHANGED listening
    /\ \E copy \in {b \in BOOLEAN : b => faults < MaxFaults} :
          IF \E h \in Handles : socks[w.to][h].linked
          THEN \E h \in Handles :
                 /\ socks[w.to][h].linked
                 /\ LET o == net_tcp_in(socks[w.to][h], w.seg, listening)
                    IN  socks' = [socks EXCEPT ![w.to][h] = o.c] /\ Arrives(w, copy, o.out)
          ELSE Ignored(w, copy) \/ Called(w, copy) \/ Refused(w, copy)

Lose(w) ==
    /\ w \in wire /\ faults < MaxFaults
    /\ wire' = wire \ {w} /\ faults' = faults + 1 /\ UNCHANGED <<socks, listening>>

TcpInit ==
    /\ socks = [m \in Machines |-> [h \in Handles |-> net_new_sock]]
    /\ listening = TRUE /\ wire = {} /\ faults = 0

TcpNext ==
    \/ /\ Cardinality(wire) <= MaxWire
       /\ \/ sys_socket_connect \/ CloseListener
          \/ \E h \in Handles : sys_socket_accept(h)
          \/ \E m \in Machines : net_drop(m)
          \/ \E m \in Machines, h \in Handles :
                sys_socket_send(m, h) \/ sys_socket_close(m, h) \/ net_tcp_timers(m, h)
    \/ \E w \in wire : Receive(w) \/ Lose(w)

TcpSpec == TcpInit /\ [][TcpNext]_tcpVars

-----------------------------------------------------------------------------
(* Properties *)

Acked(c) == SubSeq(c.sent, 1, Len(c.sent) - Len(c.txq))

(* d is at the other end of c: c has the beginning of what d sent, and all *)
(* of it when it was told of the end; and d has what c was told has come.  *)
OtherEnd(c, d) ==
    /\ IsPrefix(c.rx, d.sent)
    /\ c.fin_rcvd => c.rx = d.sent /\ d.closed
    /\ IsPrefix(Acked(c), d.rx)
    /\ c.fin_acked => d.fin_rcvd /\ d.rx = c.sent

(* Something left to do without the peer speaking first.                   *)
Owes(c) == c.state \in {"syn_sent", "syn_rcvd"} \/ InFlight(c) > 0 \/ Avail(c) > 0 \/ (c.closed /\ ~c.fin_sent)

\* Whatever the network does, both programs read what the other wrote, in order and
\* once; the end of a stream comes after all of it; what a machine forgets has arrived
\* (net_tcp_in); and what it still has to send, its FIN included, has a timer running,
\* the only thing that will send it again (net_tcp_output, net_tcp_retransmit).
ConversationSound ==
    \A m \in Machines : \A h \in Handles :
        LET c == socks[m][h] IN
        /\ \E i \in Handles : OtherEnd(c, socks[Peer(m)][i])
        /\ c.linked /\ Owes(c) => c.rto
=============================================================================
