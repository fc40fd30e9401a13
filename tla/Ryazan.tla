------------------------------- MODULE Ryazan -------------------------------
(***************************************************************************)
(* Ryazan, TLS over nonblocking sockets (ryazan.c), between a client and a *)
(* server that both use it: the buffers of a session, the loops of the     *)
(* handshake, of receiving and of sending, and closing.  TLS itself is     *)
(* OpenSSL or Schannel; a backend reads whole records of ciphertext and    *)
(* adds records to send.  A record is two pieces long, so that a socket    *)
(* can break it; what it carries stays readable.                           *)
(***************************************************************************)
EXTENDS Integers, Sequences, SequencesExt

CONSTANTS Backends,         \* the backends a peer may be built with
          SocketRoom,       \* pieces a connection holds in one direction
          MaxSend           \* how many values each side sends at most
VARIABLES backend,          \* what each side was built with
          tls               \* the two sessions, the connection, and a history

Ends == {"client", "server"}
Other(e) == IF e = "client" THEN "server" ELSE "client"
Record(kind, value) == <<[kind |-> kind, value |-> value, part |-> 1],
                         [kind |-> kind, value |-> value, part |-> 2]>>

NoSession == [open |-> FALSE, ready |-> FALSE, closed |-> FALSE, notified |-> FALSE, stage |-> 0,
              in |-> <<>>, bio |-> <<>>, out |-> <<>>, plain |-> <<>>]
rz_new == [NoSession EXCEPT !.open = TRUE]

-----------------------------------------------------------------------------
(* The socket: net is under way to an end, sock has arrived there. *)
Room(s, e) == SocketRoom - Len(s.net[Other(e)]) - Len(s.sock[Other(e)])
Least(a, b) == IF a < b THEN a ELSE b

(* A call's outcome: the state it leaves and what it answers.              *)
Answer(s, r) == [s |-> s, r |-> r]

\* Mutant: what a partial send has taken is sent again.
FlushAgain(s, e) ==
  LET out == s.conn[e].out
      n == Least(Len(out), Room(s, e))
  IN  IF out = <<>> THEN Answer(s, "done")
      ELSE Answer([s EXCEPT !.net[Other(e)] = @ \o SubSeq(out, 1, n),
                            !.conn[e].out = IF n = Len(out) THEN <<>> ELSE @],
                  IF n = Len(out) THEN "done" ELSE "want_write")

rz_flush(s, e) ==
  LET out == s.conn[e].out
      n == Least(Len(out), Room(s, e))
      sent == [s EXCEPT !.net[Other(e)] = @ \o SubSeq(out, 1, n),
                        !.conn[e].out = SubSeq(out, n + 1, Len(out))]
  IN  IF out = <<>> THEN Answer(s, "done")
      ELSE IF s.shut[Other(e)] THEN Answer(s, "error")
      ELSE Answer(sent, IF n = Len(out) THEN "done" ELSE "want_write")

rz_fill(s, e) ==
  IF s.sock[e] # <<>>
  THEN Answer([s EXCEPT !.conn[e].in = @ \o s.sock[e], !.sock[e] = <<>>], "got")
  ELSE Answer(s, IF s.shut[Other(e)] /\ s.net[e] = <<>> THEN "eof" ELSE "again")

-----------------------------------------------------------------------------
(* The backends.  OpenSSL first takes all ciphertext into a buffer of its  *)
(* own; Schannel leaves what it has not used in the session's.             *)
os_feed(c) == [c EXCEPT !.bio = @ \o c.in, !.in = <<>>]
Fed(e, c) == IF backend[e] = "openssl" THEN os_feed(c) ELSE c
Unused(e, c) == IF backend[e] = "openssl" THEN c.bio ELSE c.in
Use(e, c) == IF backend[e] = "openssl" THEN [c EXCEPT !.bio = SubSeq(@, 3, Len(@))]
             ELSE [c EXCEPT !.in = SubSeq(@, 3, Len(@))]
Whole(e, c) == Len(Unused(e, c)) >= 2

Reply(e, stage) == CASE e = "client" -> "finished"
                     [] e = "server" /\ stage = 0 -> "flight"
                     [] OTHER -> "ticket"

(* The client speaks first; each side is done after its last record.  The  *)
(* server's last one is a ticket for later sessions.                       *)
RECURSIVE Engine(_, _)
Engine(e, c) ==
  IF e = "client" /\ c.stage = 0
  THEN Engine(e, [c EXCEPT !.stage = 1, !.out = @ \o Record("hello", 0)])
  ELSE IF c.stage < 2 /\ Whole(e, c)
  THEN Engine(e, [Use(e, c) EXCEPT !.stage = @ + 1, !.out = @ \o Record(Reply(e, c.stage), 0)])
  ELSE c

rz_be_handshake(e, c) ==
  LET d == Engine(e, Fed(e, c)) IN [c |-> d, r |-> IF d.stage = 2 THEN "ok" ELSE "need_more"]

RECURSIVE Records(_, _)
Records(e, c) ==
  IF ~Whole(e, c) THEN [c |-> c, r |-> "need_more"]
  ELSE LET got == Unused(e, c)[1]
           d == Use(e, c)
       IN  IF got.kind = "close" THEN [c |-> d, r |-> "closed"]
           ELSE Records(e, IF got.kind = "data" THEN [d EXCEPT !.plain = Append(@, got.value)] ELSE d)

rz_be_decrypt(e, c) == Records(e, Fed(e, c))

rz_be_encrypt(c, value) == [c EXCEPT !.out = @ \o Record("data", value)]

rz_be_shutdown(e, c) ==
  [c EXCEPT !.out = @ \o Record("close", 0), !.in = IF backend[e] = "schannel" THEN <<>> ELSE @]

-----------------------------------------------------------------------------
(* The calls. *)
RECURSIVE ryazan_tls_handshake(_, _)
ryazan_tls_handshake(s, e) ==
  LET f == rz_flush(s, e)
      step == rz_be_handshake(e, f.s.conn[e])
      stepped == [f.s EXCEPT !.conn[e] = step.c]
      flushed == rz_flush(stepped, e)
      filled == rz_fill(flushed.s, e)
  IN  IF f.r # "done" THEN f
      ELSE IF f.s.conn[e].ready THEN Answer(f.s, "done")
      ELSE IF step.r = "ok" THEN ryazan_tls_handshake([stepped EXCEPT !.conn[e].ready = TRUE], e)
      ELSE IF flushed.r # "done" THEN flushed
      ELSE CASE filled.r = "again" -> Answer(filled.s, "want_read")
             [] filled.r = "eof" -> Answer(filled.s, "error")
             [] filled.r = "got" -> ryazan_tls_handshake(filled.s, e)

rz_take_plain(s, e, capacity) ==
  LET plain == s.conn[e].plain
      n == Least(capacity, Len(plain))
  IN  [s EXCEPT !.got[e] = @ \o SubSeq(plain, 1, n), !.conn[e].plain = SubSeq(plain, n + 1, Len(plain))]

RECURSIVE ryazan_tls_recv(_, _, _)
ryazan_tls_recv(s, e, capacity) ==
  LET c == s.conn[e]
      read == rz_be_decrypt(e, c)
      over == read.r = "closed"
      decrypted == [s EXCEPT !.conn[e] = [read.c EXCEPT !.closed = @ \/ over, !.notified = @ \/ over]]
      flushed == IF c.in = <<>> THEN Answer(s, "done") ELSE rz_flush(decrypted, e)
      d == flushed.s.conn[e]
      filled == rz_fill(flushed.s, e)
  IN  IF c.plain # <<>> THEN Answer(rz_take_plain(s, e, capacity), "data")
      ELSE IF c.closed THEN Answer(s, "eof")
      ELSE IF flushed.r = "error" THEN flushed
      ELSE IF c.in # <<>> /\ (d.plain # <<>> \/ d.closed) THEN ryazan_tls_recv(flushed.s, e, capacity)
      ELSE CASE filled.r = "again" -> Answer(filled.s, "want_read")
             [] filled.r = "eof" -> ryazan_tls_recv([filled.s EXCEPT !.conn[e].closed = TRUE], e, capacity)
             [] filled.r = "got" -> ryazan_tls_recv(filled.s, e, capacity)

ryazan_tls_send(s, e, value) ==
  LET before == rz_flush(s, e)
      taken == [before.s EXCEPT !.conn[e] = rz_be_encrypt(@, value), !.sent[e] = Append(@, value)]
      after == rz_flush(taken, e)
  IN  IF before.r # "done" THEN before
      ELSE IF after.r = "error" THEN after ELSE Answer(after.s, "taken")

(* close_notify is sent as far as the socket takes it; then the session is *)
(* gone, and its owner closes the socket.                                  *)
ryazan_tls_close(s, e) ==
  LET said == [s EXCEPT !.conn[e] = rz_be_shutdown(e, @)]
      left == IF s.conn[e].ready THEN rz_flush(said, e).s ELSE s
  IN  [left EXCEPT !.conn[e] = [NoSession EXCEPT !.plain = left.conn[e].plain],
                   !.cut[e] = left.conn[e].out # <<>>, !.shut[e] = TRUE]

-----------------------------------------------------------------------------
(* Sessions are attached, used and closed; the connection moves pieces.    *)
Start(e) ==
  /\ ~tls.conn[e].open /\ ~tls.shut[e]
  /\ tls' = [tls EXCEPT !.conn[e] = rz_new]

Do(e, a) == tls.conn[e].open /\ tls' = a.s

Handshake(e) == Do(e, ryazan_tls_handshake(tls, e))
Send(e) ==
  /\ tls.conn[e].ready /\ Len(tls.sent[e]) < MaxSend[e]
  /\ Do(e, ryazan_tls_send(tls, e, Len(tls.sent[e]) + 1))
Recv(e) ==
  /\ tls.conn[e].ready
  /\ \E capacity \in 1..2 : Do(e, ryazan_tls_recv(tls, e, capacity))
Flush(e) == Do(e, rz_flush(tls, e))
Close(e) == tls.conn[e].open /\ tls' = ryazan_tls_close(tls, e)

Arrive(e) ==
  \E n \in 1..Len(tls.net[e]) :
    tls' = [tls EXCEPT !.sock[e] = @ \o SubSeq(tls.net[e], 1, n), !.net[e] = SubSeq(@, n + 1, Len(@))]

TlsInit ==
  /\ backend \in [Ends -> Backends]
  /\ tls = [conn |-> [e \in Ends |-> NoSession], net |-> [e \in Ends |-> <<>>],
            sock |-> [e \in Ends |-> <<>>], shut |-> [e \in Ends |-> FALSE],
            cut |-> [e \in Ends |-> FALSE], sent |-> [e \in Ends |-> <<>>],
            got |-> [e \in Ends |-> <<>>]]
TlsNext ==
  /\ UNCHANGED backend
  /\ \E e \in Ends : Start(e) \/ Handshake(e) \/ Send(e) \/ Recv(e) \/ Flush(e) \/ Close(e) \/ Arrive(e)

-----------------------------------------------------------------------------
(* What one side has read is what the other has sent, in order and without *)
(* a gap.  A side that has been told of the end by close_notify has got    *)
(* everything, and the other had sent all of it before it left             *)
(* (ryazan_tls_close, rz_flush).                                           *)
StreamKept ==
  \A e \in Ends :
    LET have == tls.got[e] \o tls.conn[e].plain
    IN  /\ IsPrefix(have, tls.sent[Other(e)])
        /\ tls.conn[e].notified => have = tls.sent[Other(e)] /\ ~tls.cut[Other(e)]
=============================================================================
