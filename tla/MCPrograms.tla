----------------------------- MODULE MCPrograms -----------------------------
(***************************************************************************)
(* Two programs written in the language, each on its own: Sochi's card     *)
(* game, and Dubna's key-value store.  Sochi plays with two suits and      *)
(* hands of one to three cards; ranks are counted within the deck, and a   *)
(* deal is given by the order of the deck.                                 *)
(***************************************************************************)
EXTENDS Preferans

CONSTANTS
    Programs,       \* which of the two are looked at
    Keys, Weight(_), Capacity, Vals, Big, Nothing, MaxPages, MaxTxn, MaxChanges, MaxTrouble,
    NewLeast, Stores
VARIABLES program, disk, db, want, kept, changes, trouble

Kv == INSTANCE DubnaKv
store == <<disk, db, want, kept, changes, trouble>>
all == <<vars, store, program>>

(* Decks and their order. *)
Tiny == {<<0, 0>>, <<0, 1>>, <<0, 2>>, <<1, 0>>, <<1, 1>>}
TinyShuffles == {<< <<0, 0>>, <<1, 1>>, <<0, 2>>, <<1, 0>>, <<0, 1>> >>}

Odd == ((0..1) \X (0..4)) \cup {<<1, 5>>}
C(s, r) == <<s, r>>
OddShuffles ==
    {<<C(0,0), C(0,4), C(1,1), C(1,5), C(1,0), C(0,2), C(0,1), C(1,3), C(1,4),
       C(0,3), C(1,2)>>}

(* Stores to begin with. *)
Same(key) == 1
EmptyOrFull == {<<>>, <<1, 2, 3>>}
Empty == {<<>>}

ProgramsInit == Init /\ Kv!KvInit /\ program \in Programs

Cards  == program = "sochi" /\ Next /\ UNCHANGED <<store, program>>
Store  == program = "dubna" /\ Kv!KvNext /\ UNCHANGED <<vars, program>>
ProgramsSpec == ProgramsInit /\ [][Cards \/ Store]_all /\ WF_all(Cards)

StoreKept == Kv!StoreKept
KeysFound == Kv!KeysFound
=============================================================================
