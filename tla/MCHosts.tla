------------------------------- MODULE MCHosts -------------------------------
(***************************************************************************)
(* What of a script faces the outside, each on its own: its windows, its   *)
(* encrypted connections, and the sockets the Moscow kernel gives it.      *)
(***************************************************************************)
EXTENDS Petersburg, MoscowTcp

CONSTANTS Hosts,        \* which of the three are looked at
          Backends, SocketRoom, MaxSend
VARIABLES host, backend, tls

Tls == INSTANCE Ryazan
windows == <<ui, delivered, calls, inputs>>
all == <<windows, host, backend, tls, tcpVars>>

(* User interfaces, put together by the calls a script makes. *)
With(u, type, parent, text) == petersburg_add(u, type, parent, text)
On(u, id, event, name) == petersburg_set_callback(u, id, event, name)
Window == On(On(With(Empty, "window", 0, <<>>), 1, "key", "f"), 1, "char", "g")
Running(u) == [u EXCEPT !.run = TRUE]
Bar == On(With(With(Window, "toolbar", 1, <<>>), "button", 2, <<>>), 3, "click", "f")
BarAndList == On(With(Bar, "list", 1, <<"x", "|", "x">>), 4, "change", "g")
BoxAndCanvas == On(On(On(On(On(With(With(Window, "textbox", 1, <<"x">>), "canvas", 1, <<>>),
                   2, "change", "f"), 3, "pointer", "f"), 3, "double", "g"), 3, "menu", "f"), 3, "wheel", "g")
TwoWindows == On(On(With(With(With(Window, "window", 0, <<>>), "combobox", 2, <<"x", "|", "x">>),
                 "checkbox", 1, <<>>), 3, "change", "f"), 4, "change", "g")
Interfaces == {Running(BarAndList), Running(BoxAndCanvas), Running(TwoWindows)}
SomeTexts == {<<>>, <<"x", "|", "\\", "|", "x">>}

ClientTwo == [client |-> 2, server |-> 1]

HostsInit ==
  /\ host \in Hosts
  /\ IF host = "windows" THEN Init ELSE ui = Empty /\ delivered = <<>> /\ calls = 0 /\ inputs = 0
  /\ Tls!TlsInit /\ (host # "connection" => \A e \in Tls!Ends : backend[e] = "openssl")
  /\ TcpInit
HostsNext ==
  \/ host = "windows" /\ Next /\ UNCHANGED <<host, backend, tls, tcpVars>>
  \/ host = "connection" /\ Tls!TlsNext /\ UNCHANGED <<windows, host, tcpVars>>
  \/ host = "machines" /\ TcpNext /\ UNCHANGED <<windows, host, backend, tls>>
Spec == HostsInit /\ [][HostsNext]_all

StreamKept == Tls!StreamKept
=============================================================================
