------------------------------ MODULE MCSochi -------------------------------
(***************************************************************************)
(* Sochi's table protocol and its score sheet for TLC, each on its own:    *)
(* part says which of the two a behaviour is about.  The nicknames are     *)
(* given by the set of clients that share one.                             *)
(***************************************************************************)
EXTENDS SochiNet, PrefTable

CONSTANTS Namesakes     \* the clients whose --name is "Anna"

MCNick == [c \in Clients |-> IF c \in Namesakes THEN <<"Anna", 0>> ELSE <<"Boris", 0>>]
MCBotNick == [i \in Remote |-> IF i = 1 THEN <<"Bot Masha", 0>> ELSE <<"Bot Grisha", 0>>]
Anna == <<"Anna", 0>>
Vera == <<"Vera", 0>>

VARIABLE part

all == <<vars, sheetVars, part>>

(* While the protocol is looked at the sheet is a finished game's. *)
Filled == [EmptySheet EXCEPT !.pool = [s \in Seats |-> PSize]]
Finished == /\ stage = "over" /\ hand = MaxHands /\ decl = 0 /\ streak = 0
            /\ sheet = Filled /\ final = so_settle(Filled)

TableInit == Init /\ part = "table" /\ Finished
TableNext == part = "table" /\ Next /\ UNCHANGED <<sheetVars, part>>
SheetPartInit == Init /\ part = "sheet" /\ SheetInit
SheetPartNext == part = "sheet" /\ SheetNext /\ UNCHANGED <<vars, part>>

(* The protocol alone, the same with its fairness, and either part.        *)
TableSpec == TableInit /\ [][TableNext]_all
FairTable == TableSpec /\ Fairness
SochiSpec == (TableInit \/ SheetPartInit) /\ [][TableNext \/ SheetPartNext]_all
=============================================================================
