# Verification of the USSR interpreter and its programs

USSR is a shell and programming language. Its interpreter is written in C
(`src/src/*.c`): a preprocessor, a compiler to bytecode, a register machine, a
cooperative scheduler, a collector for shared objects and hosts for windows, TLS
and files. Programs written in the language itself (`src/src/<name>/*.su`) include
the kernel of an operating system, a package manager, a key-value store and network
games.

The modules here are translated from that code. TLC checks them on small instances;
for the scheduler, the counted heap, the package manager, the table protocol of Sochi
and the rules and scores of its card game, theorems checked by TLAPS say the same for
every value of the constants.

## Parts of the system

| part | state it keeps | what is hard | what makes it right |
| --- | --- | --- | --- |
| scheduler, events (`scheduler.c`, `eventq.c`) | process table, run queue, what each process is blocked on, timers, children and handles with tokens | who is woken by what and in which order, nested machines, what REPL entries leave behind, deadlock | no wakeup is lost or goes to the wrong command; a finished process stays so; a deadlock reported is one |
| compiler and machine (`ussr_bytecode.c`, `main.c`) | code, registers, frames of locals, globals, hash | folding, patched jumps, slots of variables, errors out of nested `eval` and `try` | a program computes what its commands mean |
| tree interpreter, values (`ussr.c`) | scope, locals, hash, definitions | a second implementation of the same language | it agrees with the machine on "@" blocks |
| objects and collector (`uno.c`, `gc.c`, `btree.c`) | counted vectors, structs, trees | references moved into frames, cycles, failing literals | nothing that can be reached is freed |
| B+ tree (`btree.c`) | nodes linked by children and along the leaves | splits, borrowing, merges | it answers as an ordered map |
| preprocessor (`pp.c`) | stacks of files and conditionals, macros | nesting, files left in the middle | it keeps the lines the structure of the files says |
| formats and small algorithms (`uno.c`, `ussr_ru.c`, `ussr_uuasm.c`, `regex.c`, `keybind.c`, `alias.c`, `history.c`, `ai.c`, C libraries) | mostly none | limits, truncated or altered input | each computes what its definition says |
| windows (`petersburg.c`) | widgets, focus, ring of events | callbacks of widgets that are gone, a full ring | events run once and in order, nothing outlives its window |
| TLS, HTTP (`ryazan*.c`) | buffers of a session over a non-blocking socket | broken records, partial sends, half-closed sessions | what is read is what was sent |
| package manager (`ural/native/`) | files, database and index of publisher and user | a failure or a crash between two steps | old files survive, what is registered is on disk, dependencies come first |
| Moscow's TCP (`moscow/net.su`) | sockets, queues, timers | loss, repetition, reordering | every byte and the end arrive once and in order |
| Dubna's store (`dubna/kv.su`) | pages of a file, two meta pages, changed nodes | a commit cut off at any page | it answers as a map; a crash loses at most the last commit |
| Sochi's tables (`sochi/sochi.su`, `sn_*`) | host: seats, addresses, versions, action ids; player: queue of actions, newest view | loss, delay, reordering, players who come back | each action is applied once, in order |
| Sochi's game (`sochi/sochi.su`, `so_*`) | hands, auction, contract, trick, score sheet | a whister who plays two hands, what one hand leaves for the next, full pools | cards are in one place, hands come to a score, balances add up |

The interpreter has a single thread. Interleaving happens between the processes of a
script where the machine suspends, and between the interpreter and the world: the
clock, child processes, sockets, a user at a window, a peer, a crash.

`PROJECT.json` lists every part with what is modelled of it ("components"), the hazards
of the code with the properties about them, the source lines of every definition
("map"), a mutant for every property, and the theorems.

## Modules

| module | models | code |
| --- | --- | --- |
| `Scheduler` | processes, run queue, events, suspension of a machine | `scheduler.c`, `eventq.c`, `vm_execute` |
| `AsyncAwait` | what async and await promise: the abstract specification of `Scheduler` | |
| `UssrValues` | values and operators | `main.c` |
| `UssrCompiler` | from commands to instructions | `ussr_bytecode.c` |
| `ScopeWarnings` | warnings about variables, after compilation | `ussr_bytecode.c` |
| `UssrVm` | the machine, one instruction a step | `main.c`, `ussr.c` |
| `UssrMeaning` | what a program means, on its commands: the reference for both | |
| `UssrTree` | the tree interpreter | `ussr.c` |
| `UssrHeap` | counted objects and the collector | `uno.c`, `btree.c`, `gc.c`, `ussr_oop_builtins.c` |
| `BTree` | the B+ tree of the `bt*` commands | `btree.c` |
| `UssrPp` | the preprocessor | `pp.c` |
| `UssrRegex`, `RuFile`, `UnoText`, `Uuasm` | regular expressions, bytecode files, UNO text, the assembler | `regex.c`, `ussr_ru.c`, `uno.c`, `ussr_uuasm.c` |
| `Repl`, `AiClient` | helpers of the REPL | `keybind.c`, `alias.c`, `history.c`, `ai.c` |
| `CLibrary` | Moscow's heap, sorting and searching of `usa` | `moscow/lib/gui/libc.c`, `usa/libc/libc.c` |
| `Ural`, `UralManifest` | the package manager, the manifest reader | `ural/native/*.c` |
| `Petersburg`, `PetersburgLayout` | windows and their events, where widgets lie | `petersburg.c` |
| `Ryazan`, `RyazanHttp` | TLS sessions, the HTTP client | `ryazan*.c` |
| `MoscowTcp` | TCP between two Moscow machines | `moscow/net.su` |
| `DubnaKv` | the key-value store | `dubna/kv.su` |
| `SochiNet` | Sochi's table protocol: host, players and the network between them | `sochi/sochi.su` |
| `SochiPromise` | what it promises a player: its abstract specification | |
| `PrefScore` | scores as operators on a score sheet | `sochi/sochi.su` |
| `PrefTable` | a game as its score sheet sees it: the abstract specification of `Preferans` | |
| `Preferans` | the rules, every verb of `so_act`, card by card | `sochi/sochi.su` |
| `MCSochi`, `MCPrograms`, `MCHosts`, `MCMachine`, `MCTools` | several parts side by side for TLC, each on its own | |
| `Bench` | bounded inputs of the small algorithms and what they should answer | |
| `SchedulerProofs`, `SchedulerRefinement`, `HeapProofs`, `UralProofs`, `TcpProofs`, `SochiNetProofs`, `PrefTableProofs`, `PreferansProofs` | theorems | |

The parts of one `MC` module do not interact: a variable chosen at the start says
which of them a behaviour is about, the others stay as they began. They share a run
because they answer the same kind of question, not a state. `MCMachine` extends
`UssrHeap`, `MCHosts` extends `Petersburg` and `MoscowTcp`, and `MCSochi` extends
`SochiNet`; the runs of the scheduler use `Scheduler` itself.

### Scheduler

Every field of `ussr_proc_t` the control depends on is a function on pids: `state`,
`kind` (`block_kind`), `waitPid`, `token` (`block_token`), `pending`, `resume`
(`resume_pending`, `resume_value`), `reg` (the return register), `result`, `yieldReq`,
`steps`; `at` says inside which command a machine is suspended. `pc` is where the
single thread is: at the prompt, in the loop, in a slice, in the walk of
`sched_zombify` over the awaiters, or handing out collected events. The event arrays
are sets, because their order is the order of their tokens.

| action | code |
| --- | --- |
| `SpawnMain` | `run_bytecode` |
| `Pick`, `EndSlice` | the body of the loop of `ussr_sched_run` |
| `Resume`, `CountStep`, `StepLimit`, `Halt` | the instruction boundary of `vm_execute` |
| `Set`, `Async`, `Yield`, `AwaitFinished`, `Fail` | instructions that do not block |
| `Block`, `TryBlock`, `EvalBlock` | `sched_do_await`, `_sleep`, `_wait_fd`, `ussr_sched_block_on_child`, in the process itself, below `try`, below `eval` |
| `WakeAwaiter`, `ZombifyDone` | the loop of `sched_zombify` |
| `ReturnAllDone`, `ReturnBackground`, `ReturnDeadlock` | the exits of the loop |
| `Dispatch`, `HandOut` | `ussr_eq_dispatch`, `sched_handle_events` |
| `Quit` | `ussr_sched_cleanup` |
| `Tick`, `ChildExit`, `FdChange` | the world |

What a program does is left open: at every boundary it may execute any command of
`Commands`. External commands of nested machines run synchronously and do not block.
A build without windows is modelled: there `ussr_petersburg_pump` and
`ussr_petersburg_running` return 0.

### Compiler, machine, tree interpreter, objects

`UssrCompiler` maps a program to instructions, `UssrVm` runs them one at a time over
registers, frames of locals, globals and the hash; `eval` and `try` push a nested
machine onto `outer`. `UssrMeaning` states what the same commands mean without code,
registers or jumps, and `UssrTree` is the older interpreter that "@" blocks still
reach. `MCMachine` generates families of programs that put every construct into every
other one that matters, runs them and compares the three. Reals are fractions,
integers have `Width` bits and wrap; fuel and step limits cut off loops.

`UssrHeap` is the counted heap under the commands on structs, vectors and trees: a
slot is a variable, a register or a saved register that owns a reference; the
collector may run between any two instructions. A release may cascade: what an
instruction has still to release waits in `releasing`, the next first, and
`uno_release_value` takes it one by one before anything else happens, in the order in
which the code's recursion does. `LoadVarRef`, `LoadConstRef` and `StoreVarRef` are the
instructions LOAD_VAR, LOAD_CONST and STORE_VAR as the counts see them, `PushFrameRefs`
and `ReturnRefs` are `vm_push_frame` and `vm_return`. `BTree` has a node per heap cell, so
that a link to a freed node would show.

### Preprocessor, package manager, small algorithms

`UssrPp` reads a set of files line by line and is compared with a reading of the whole
structure at once. `Ural` has a step for every change that others can see or a crash
can fall behind: a file fetched, a rename, a removal, a transaction. Each of them may
fail, those of the undo too (`UndoFails`); `torn` and `stuck` are history that only
properties read: packages an uninstall has begun on, and packages whose undo failed.
`Bench` and
`MCTools` put one bounded input on a bench and compare what each algorithm answers with
a definition of what it should.

### Windows, TLS, TCP

`Petersburg` separates input, which GLFW reports while it is polled, from the pump that
delivers it, so a call of the script may come in between. `Ryazan` lets a record be
broken by the socket at one point and a send take part of what it is given; both
backends' buffering is modelled, `openssl` (a buffer of its own) and `schannel`
(leftover ciphertext stays in the session's). `MoscowTcp` has a step for every socket
command, every segment received and every timer; a timer that runs may fire at any
time.

### Dubna

`DubnaKv` keeps the file as pages and the store in memory as the nodes changed since
the last commit. A commit writes the changed pages and then the meta page of the older
commit; `CommitCut` stops it at any page or in the middle of one, by a failed write or
by a crash; `Damage` spoils a meta page later.

### SochiNet

The host and every client are separate programs; `net` is the set of datagrams under
way. A datagram may be read at any time after it was sent, in any order, or never,
which covers loss, delay and reordering. Duplicates come from the programs' own
resends (JOIN, ACT and VIEW are sent again until answered); a network that duplicates a
datagram by itself is not modelled.

| action | code |
| --- | --- |
| `Start`, `JoinTry`, `GiveUp`, `RecvWelcome`, `RecvFull` | the join loop of `sn_client` |
| `RecvJoin` | `sn_host_join` |
| `RecvAck`, `RecvAct`, `RecvPing`, `RecvBye` | the branches of `sn_host_packet`, with the part before them that finds the seat |
| `HostSendViews`, `HostResend`, `HostSilence`, `HostQuit` | the rest of the loop of `sn_host` |
| `HostMove` | an action of seat 0 or of a bot of the host |
| `QueueAct`, `SendAct`, `SendPing`, `RecvView`, `RecvHostBye`, `Quit` | the playing loop of `sn_client` |
| `Crash`, `Lose` | the world |

A view is its version and its seat, an action its id: what the table protocol must get
right does not depend on the cards, which `Preferans` models. A nickname is a text and
the number of "2"s `sn_host_join` has appended.

Two constants name assumptions the code needs.

* `LateJoins = FALSE`: a JOIN does not outlive the run of the program that sent it. A
  JOIN carries only a nickname, so one that arrives after the player is back gives the
  seat to an address nobody reads any more, and an ACT of the dead run then takes the
  id of the new run's action, which the new run drops as applied. With
  `LateJoins = TRUE`, `DroppedWasApplied` fails at once.
* `NoNamesake`, an assumption of most theorems: no player has the nickname of the host
  or of a bot. A player who has is seated under the name with a "2", and the JOIN it
  sends again does not find that seat and takes another. The runs give the host a name
  of its own.

### Preferans

`PrefScore` keeps the score sheet as a record `[pool, mount, whist]`; each `so_score_*`
procedure, which changes the sheet in place, is an operator from a sheet to a sheet.
`Preferans` has one variable for every `sg_*` variable the rules read; the texts shown
to players and `sg_tshow` are left out, and hands are sets because `so_sort` only
orders them. Suits, cards and hands are parameters: the code has four suits, 32 cards
and ten tricks. The shuffle is the choice of a deck from `Shuffles`. Bots choose among
the same moves as players, so their heuristics are covered by leaving the choice open.

| action | code |
| --- | --- |
| `NewGame`, `StartHand` | `so_new_game`, `so_start_hand` |
| `Bid` | `so_do_bid`, `so_start_raspasy`, `so_take_talon` |
| `Discard`, `NameContract` | `so_do_discard`, `so_do_contract` |
| `Whist` | `so_do_whist`, `so_whist_done` |
| `Play` | `so_do_play`, `so_trick_done`, `so_score_hand` |
| `Ready` | `n:` in `so_act` |

`StaleDiscards` says whether a discard typed before the view of the previous one may
arrive after the discard phase. `so_act` looks at the turn and the cards of "d:" but
not at the phase, so such a discard takes two more cards from the declarer; with
`StaleDiscards = TRUE` `HandsMatchTable` is false. Runs and theorems assume `FALSE`.

## Runs

| run | what it shows |
| --- | --- |
| `sched_script` | a script of up to three processes that compute, spawn, await, sleep, yield, fail and run commands: delivered values are right and go to the command they belong to, a deadlock reported is one, sleepers wake and the script ends |
| `sched_repl` | REPL entries that leave processes parked, `eval`, `try` and failures below them, one event a dispatch: the run queue is exact, wakeups are kept and have causes, and `Scheduler` implements `AsyncAwait` |
| `sched_quantum` | violation: the quantum never ends a slice |
| `machine` | programs mean what they say and the tree interpreter agrees, locals follow the open calls; B+ trees of every small history answer as a map; no shared object is freed too early |
| `tools` | preprocessor; the package manager from its first command and, through several failures and failing undos, from where two packages are installed: recorded packages stay whole, commands end consistent, dependencies come first; and the bench of algorithms |
| `hosts` | windows, TLS sessions and TCP conversations |
| `sochi_play` | two players and one free seat, two actions, reordering: actions are applied in order, and `SochiNet` implements `SochiPromise` |
| `sochi_rejoin` | retries, crashes and returns under the same nickname: seats, acknowledgements, action ids; and every sequence of scored hands with pools that overflow |
| `sochi_fair` | actions land and the newest view settles |
| `pref_hand` | one hand of three tricks, every line of play: cards, moves, and the refinement of `PrefTable` |
| `programs` | two hands in a row, every hand is scored; and the key-value store under changes, commits that are cut off, aborts and damage |
| `kv_order` | violation: keys put in descending order are lost |

### Bounds, and why they are enough

| run | bounds |
| --- | --- |
| scheduler | three processes give two awaiters of one process and cycles of awaits; two tokens a stale event beside a fresh one; `MaxFired = 1` (64 in the code) a dispatch that leaves due events behind; `MaxSteps = 3` (2 000 000 000 in the code) programs of three commands |
| `machine` | four-bit integers overflow with small operands; seven registers (32) are what the largest generated program needs; nodes of two keys (`BT_MAX`) split, borrow and merge with few keys; two addresses give cycles and a reference to garbage |
| `tools` | three files deep, four expansions; two packages, two servers, two versions of which one depends on the other package, one edit, two publications, two commands and one fault that may be a crash at any step (`EarlyCommands`, `EarlyFaults`). From where both packages are installed and a change of one is uploaded (`UpdatesInit`), three commands and three faults: one fails the update, a second its undo, and the third hits what the next command makes of that |
| `hosts` | a ring of three events overflows with three inputs; a connection that holds three pieces breaks every second record of two; two sockets a machine, two bytes, one segment lost or repeated, sequence numbers modulo 24, so a conversation wraps |
| Sochi's tables | two tries give a retry beside a late answer, two actions an order; `MaxFlight` bounds datagrams of one kind under way between the host and one client, older ones are lost: two give reordering within a kind, reordering between kinds needs one |
| score sheet | pools of three points fill and overflow within two hands of three tricks |
| `pref_hand` | two suits, eleven cards, three tricks: the fewest with one after the two the raspasy talon leads; two levels, the fewest with a contract without half-whist |
| `programs` | hands of one card, two in a row; three keys at two entries to a page, and stores that begin with a full page or with commits behind them; four commits, one of them troubled |

The TCP part was also checked with more bytes, with windows of one byte, with two
faults and with both firewalls open; the store with longer histories and with trees of
three levels. Deadlock is not checked where programs end or a bound on hands, commands
or segments stops the system; the scheduler and the machine stop only in states of
their own (`Halted`, `Stopped`), and there it is.

### Fairness

`Scheduler!FairSpec` assumes that the interpreter's thread keeps running, that the clock
ticks and that external commands end. Nothing is assumed of programs: that they stop
follows from the limit of steps. Nothing is assumed of sockets.

At a Sochi table the loops of the host and of a playing client keep running (weak
fairness of their sends), and a datagram that is sent again and again is read in the
end (strong fairness of the receptions); the resend timers of both loops justify the
first, an ordinary network the second. A player who has left or crashed owes nothing.
For Preferans, players and bots whose turn it is move in the end.

### Findings

* **`sched_quantum`**: the check `if (quantum != 0) { if (quantum-- == 0) ... }` in
  `vm_execute` can never suspend, so a CPU-bound process starves the others, against
  `vm.h:22` and the manual.
* **`kv_order`**: `dkv_insert` files a split child under the separator it was reached
  by, also when the new key comes before it; the halves change places or overwrite each
  other. A range query misses keys below the least separator for the same reason.

## Proofs

Every theorem holds for all values of the constants that satisfy the named assumptions
of the modules (`BoundsAssumption` and `DataAssumption` of `Scheduler`,
`HeapAssumption`, `UralAssumption`, `TcpAssumption`, `SochiNetAssumption`,
`PrefScoreAssumption`, `PreferansAssumption`), which TLC evaluates in the runs.

| theorems | property | assumes |
| --- | --- | --- |
| `SchedulerInvariant`, `TypeCorrect`, `RunQueueIsExact`, `WakeupsAreKept`, `ValuesAreRight`, `DeadlocksAreReal` | `IInv` and its parts | |
| `ZombiesAreFinal`, `WakesHaveCauses` | action properties of the scheduler | |
| `ResumeProtocol` | `ResumeAtCommand` | no `try` |
| `SchedulerKeepsPromise` | `Scheduler` implements `AsyncAwait` | |
| `HeapInvHolds`, `HeapIsSound` | `HeapInv`, and from it `HeapSound` | |
| `InvHolds`, `NothingIsLost`, `EndsAreConsistent` | `Inv` of `UralProofs`, and from it `NothingLost`, `EndsConsistent` | |
| `DependenciesComeFirst` | `DependenciesFirst`, of every step | |
| `TcpInvHolds`, `ConversationIsSound` | `TcpInv`, and from it `ConversationSound` | `~EarlyClose` |
| `TypeCorrect` (`SochiNetProofs`), `AcknowledgedWasSeen` | `TypeOK`, `AckMeansSeen` | |
| `OneSeatForEach`, `ActionsAppliedInOrder`, `WhatLeftWasApplied` | `OneSeatEach`, `AppliedInOrder`, `DroppedWasApplied` | `NoNamesake`, `~LateJoins` |
| `PromiseKept` | `SochiNet` implements `SochiPromise` | `NoNamesake`, `~LateJoins` |
| `TypesHold`, `PoolsHold`, `NothingWonOrLost`, `PointsKeepTheirWorth` | the score sheet | |
| `HandsAreRight`, `MovesExist` | `HandsMatchTable`, `MoverCanMove` | `~StaleDiscards` |
| `RulesKeepTable` | `Preferans` implements `PrefTable` | `~StaleDiscards` |

The assumptions exclude what the code does not handle, as described with the modules
above; without them the properties are false, and each of them is satisfied by ordinary
play.

### The scheduler

`SchedulerProofs` proves that `IInv` is inductive and derives the properties from it.
The properties strengthened are `RunQueueExact`, `NoLostWakeup` and `DeliveredValue`;
they need

* `ControlInv`: which process is current and what each `pc` implies;
* `TokenInv`: tokens are used once, so an event names one block of one process;
* `BlockInv`: an event that carries the current token of a live process finds that
  process blocked on it, so `HandOut` never wakes a running one;
* `FiredInv`: what was collected had happened;
* `SuspendInv`: the command a machine is suspended in is the one its process is blocked
  in.

`RunQueueExact` needs `BlockInv` (a wake appends to the queue), `DeliveredValue` needs
`SuspendInv`, `NoLostWakeup` needs `TokenInv`. `ResumeProtocol` adds `OwnCommand`, which
a blocking command below `try` breaks. `SchedulerRefinement` proves that every step is a
step of `AsyncAwait` or a stutter under the mapping `absStatus`, `absAwaits`, `absInbox`.

### The counted heap

`HeapInv` says of every object that its count is at least the number of references to
it, exactly that number unless the object is in `drifted`, and of every reference that
it leads to an object in the heap. References are counted wherever they are: in slots,
in items of objects, and in a sequence of references "on their way" (`Good(h, f, q, d)`,
with `q = releasing` between steps). That last place is what makes the proof possible.
Inside an instruction the counts and the references disagree for a moment; with `q`
they never do, and each instruction is a chain of moves that keep `Good`:

* `Take` counts a copy and puts it on the way; `TakeAll` does so for a sequence.
* `Swap` exchanges a reference on the way with the one in a slot, `Refill` the items of
  an object for others that hold the same references, what is on the way included.
* `Create` makes an object of what is on the way; `Forget` drops a reference and leaves
  its object counted once too often, which is what puts it into `drifted`.
* `DropNull`, `DropOne` and `FreeLast` are the three cases of `uno_release_value`. When
  the count of an object that has not drifted is 1 the reference released is the only
  one, and when it has drifted the count is no smaller than the references, so nothing
  is left that leads to what is freed.

For the collector, the marked set is closed under what its members hold and contains
what the slots hold, so no reference leads from a marked object into the garbage; what
garbage held to a marked object stays counted, and that object joins `drifted`. `~inCall => slots["s0"] = Null` is needed because pushing a frame overwrites the
saved registers without a release. `HeapSound` is `HeapInv` read through `Holders`. No
bound of the module is used: the theorem holds for any finite set of addresses and for
counts drifted as far as one likes. Counts are integers: 2^32 references to one object
do not fit into memory.

### The package manager

`Inv` is `PublisherTyped /\ UserSound`: types of both sides, and of the user's

* `CallSound`: what a call of `install_package` has found out so far is still true. The
  record it read is the one in the database, the version it chose is another, and the
  dependencies its counter has passed are recorded.
* `Placement`: how far the call has moved directories about. After the first rename the
  backup exists and the place is empty; after the second the place holds the new
  version; at the commit it is whole.
* `Waiting`: a call below the top one waits at the dependency the next call installs,
  and has moved nothing yet. No two working calls are for one package, because a
  dependency that is being installed is refused as a cycle.
* `NothingLost`: a version on record is complete in its place or in a backup, through
  every failure and crash.
* `Tidy`: with no crash since, the place of a package holds its recorded version, or
  will when the call that is at it has undone its moves (`Settled`). Packages in `stuck`
  are left out: `UndoFails` puts a package there, and only a commit of the package, or an
  uninstall that leaves nothing in its place, takes it out again.

`NothingLost` is not inductive by itself: before the second rename the place is empty, so
that the backup holds the old version must come from `Placement`; and when the new
version is in place, that it is not the recorded one (`Chosen`) tells that the complete
copy is the backup; the same fact covers an undo that fails. `EndsConsistent` is `Tidy`
with no call left, and `NothingLost` for the packages in `stuck`. `DependenciesFirst`
follows since a call commits only after its counter has passed all that it needs, and
no step of an installation takes a record away. The
publisher's part gives only types: these theorems hold whatever servers serve, because
a record is made from what was put in place.

### Moscow's TCP

`TcpInv` says that there is at most one conversation: between the client's first socket
and the socket `i` of the server whose answer it heard (0 before that, when no one has).
`Sound(i, socks, wire)` has four parts.

* `End`, of the two sockets in conversation. The k-th byte a program writes is k, so
  what a socket keeps is a run of numbers, and `Streams` says which. `Flows` ties
  `txseq`, `snd_una`, `snd_nxt` and `fin_seq` to the counts of bytes written,
  acknowledged and sent since the socket last went back; `Follows` ties `rcv_nxt` to
  the count received. `Timed`: what is still owed has a timer.
* `Pair`, of the two: neither has received more than the other wrote, or forgotten more
  than the other received, and the same of the ends of the streams.
* `Quiet`, of every other socket: nothing has come or gone over it, so segments that go
  astray, and calls that an old SYN made, harm nothing.
* `OnWire`, of every segment under way, however old: it is a reset, a call, an answer to
  one, or it `Says` something of the conversation: data that its sender wrote at that
  position, FIN at the end of a closed stream, and an acknowledgement of no more than
  its sender has received.

`ConversationSound` is not inductive without the last: an acknowledgement makes a socket
forget bytes, and it is `OnWire` and `Pair` together that say they have arrived. What
was said stays true because counts only grow (`Grows`); this is why losses, copies and
reordering need no case of their own. Sequence numbers are compared modulo `SeqRange`;
`ModDiff` shows that `net_seq_diff` gives the difference of two positions of one
conversation, for which `TcpAssumption` asks that no stream reaches the first number of
another socket; streams that use up the range of numbers are not covered. The same
distance (`Apart`) keeps an acknowledgement of the conversation from completing another
of the server's half-open sockets. `~EarlyClose` is used at one place, the guard of
`sys_socket_close` (`CloseSteps`): a socket that is closed while it connects is marked
`closed` with a FIN still to come and no conversation, which `Quiet` does not allow. TLC
checked `TcpInv` first, under the constants of `hosts` (327 019 states).

### The table protocol

`SochiNetProofs` has two inductive invariants. `TInv` (types, and what every datagram
under way carries) holds without assumptions and gives `AckMeansSeen`: the version a
seat has acknowledged is one its present client has seen, because a new owner starts
from 0 and an ACK is taken only from the seat's address.

`IInv` adds what ties the two ends together. `SeatsNamed`: a seat is free, a bot's or a
client's, carries that one's nickname, and no two clients' seats carry the same.
`OneRun`: two runs under one nickname are never active together. `SeatKept`: a client
that plays still has the seat it was given, and the last action id the host has of that
seat is the last it applied for this client. `QueueInOrder`: the ids a client has queued
follow those shown to it as applied without a gap, and the host has applied the ids
after the one the client began with, in order. `DatagramsSound`: a WELCOME or VIEW under
way goes to the owner of its seat and shows no id the host has not applied, and an ACT
carries an id that is applied already or the next one. JOINs are the difficult part: one
sent again after the seat was given must find that seat, which is where `NoNamesake` is
needed, and one of a former run must be gone, which is `~LateJoins`. `AppliedInOrder`
and `DroppedWasApplied` follow from `QueueInOrder`, and each step maps to a step of
`SochiPromise` or to a stutter. TLC checked both invariants on the
runs `sochi_rejoin` and `sochi_play` (644 890 and 91 632 states) before they were proved.

### The card game

`PrefTableProofs`: the inductive invariant is small (types, a declarer whenever there is
a contract, pools within their size, final balances that sum to 0); the work is in
lemmas on `PrefScore`. `Good` (a well-typed sheet within the pool size) is preserved by
every scoring operator; `PoolAddEffect` says how `so_pool_add` splits points between
three pools and what whists it writes as long as there is room somewhere; `BalanceIs`
writes a balance out; three arithmetic identities then give the fixed worth of a point.

`PreferansProofs`: the invariant `Inv` strengthens `HandsMatchTable` with what each
phase of a hand knows.

* `Bidding`: the talon's cards are two, different and in no hand, so taking them makes a
  hand of `HandSize + 2`.
* `HighBid`, `Declaring`: a declarer has a bid, even or misere, within `TopBid`, so
  there is a contract to name; `LevelIs` turns its order number into a level.
* `Whisting`: what the defenders have said is what `so_act` asked them in turn, so the
  answers are among those `PrefTable` scores (`Answered`).
* `Playing`: the trick on the table is the lead's card and those after it in turn
  (`OnTable`), so the player to move has one card more than those who have played; and
  the tricks won are as many as played, but for the two in raspasy whose suit the talon
  sets (`Won`). That one card of three wins a trick is `OneWinner`, from `Beats`.

`MoverCanMove` follows because whoever is to play has `HandSize - trickno` cards and
`trickno < HandSize`. For the refinement, `SameCounts` to `SameEnd` show that
`PrefTable` counts as `Preferans` does; deals, the end of an auction and scores are steps
of it, every other move a stutter; at the last trick `Won` gives the sum of the tricks
that `Raspasy`, `Misere` or `Contract` asks for. TLC checked `Inv` under the constants of
`pref_hand` and `programs` first (319 166 and 71 215 states).

### What is only model-checked

* Liveness (`SleeperWakes`, `ScriptEnds`, `ActionsLand`, `TableSettles`, `HandEnds`):
  fairness and `ENABLED` are beyond the prover.
* What recursive definitions compute: `machine`, most of `tools`, the layout, the HTTP
  client, the TLS session (its calls are loops over buffers), the windows and the store
  are written with recursive operators, and need induction over data.
* `ConversationSound` with `EarlyClose`, where it does not hold (see below).

## Noted without a run

Divergences met while modelling, each in the code or between code and text. Those marked
with a constant can be seen by changing that constant.

**Scheduler and machine.** `scheduler.h:30` says zombies keep their result "until reaped
by await"; await never frees one. `scheduler.h:183` says the scheduler returns "as soon
as the main process zombies" with background processes allowed; the test is only reached
with an empty run queue. The manual says a run-time error "halts the entire script
immediately"; other processes keep running. `vm_try_call` (`main.c:1475`) treats a nested
suspension as a failure after `sched_block_current` has marked the process blocked, and
the wake value later overwrites a register (`vm.h:74`, `78`; `Commands` with "try" breaks
`ResumeAtCommand`). After a successful "@" block `native_handled` stays 0 and the host
command "@" is run as well (`main.c:2518`; `tests/ru/blocks.su`). Both operands of `and`
and `or` are not always evaluated as `USSR_USER_MANUAL.md:329` and
`USSR_BYTECODE_ARCHITECTURE.md:208` say (`ussr_bytecode.c:767`).

**Objects and text.** `setf` in a "@" block leaks (`ussr_oop_builtins.c:341`), so does a
field named twice in a literal; `ussr_gc_note_alloc` has no caller; encoding a cyclic
value as UNO recurses for ever (`uno.c:1108`); `%g` writes 1000000.0 as "1e+06", which UNO
cannot read (manual:278); integers beyond 2^53 and reals do not order totally
(`btree.c:76`). A single-token line that is no label is ignored by the assembler
(`ussr_uuasm.c:661`) and numeric operands are not checked for range. Site arguments other
than variables and blocks are stored in a bytecode file without their value.

**Preprocessor.** `$define` in a skipped branch takes effect (`pp.c:1915`, manual:798). A
failed `$include` in the REPL inside an inactive conditional leaves its state
(`pp.c:2311`). `__MAIN__` in files included from the REPL (`pp.c:312`, manual:808). A
malformed `$if` fails in skipped branches too. "A (1)" where A expands to a macro F is not
rescanned.

**Hosts.** `ryazan_tls_recv` may wait although data came with the last handshake record
(`ryazan.c:395`, `ryazan.h:59`); closing after a blocked flush drops accepted output
(467); an end without close_notify is reported as an ordinary end (414); HEAD and 304
replies with a length are waited for; "host:port#frag" is refused, "host#frag" taken.
Typing into a focused list appends to its items (`petersburg.c:1432`); a missing callback
makes the pump return -1 with earlier events queued (2996). Moscow: a socket closed while
connecting is established by a late SYN-ACK and never sends a FIN (`net.su:803`;
`EarlyClose = TRUE`); a half-open connection given up stays in `net_socks` (977); a peer
whose window stays closed for eight probes is reset; `socket_recv` does not tell the end
from a reset; a RST is believed whatever its number.

**Ural.** "newest available version" is the first server's that lists the package
(`ural.c:1263`), and `version_compare` takes "1.0" for newer than "1.0.1" (1134). A crash
between two renames makes updates fail until the package is uninstalled (1771), one before
the commit leaves an unregistered directory (1779). The same two states come without a
crash: the results of `remove_tree(dest)` and `rename(backup, dest)` in the undo
(1861-1864, and 1788) are ignored, so a failed update whose undo fails leaves the recorded
package in backups only, and a failed install its new files in place. No message says so
and nothing looks into backups later; `EndsConsistent` promises no more than that the
package is whole there. Renaming over an empty directory replaces it, as POSIX has it.
Uninstalling leaves subdirectories (1584), and ignores it when the emptied directory
cannot be removed. No lock is taken (1632). The manifest reader accepts an empty bare value and
counts one kind of bracket.

**Dubna.** Beside the finding: `dkv_fit` splits by the number of entries, not their
bytes, so a half can be too large for a page and every later commit fails (`Weight` 1 and
4 with `Capacity` 15, `Unwritable`); a meta page reported as failed that was written whole
lets the next commit rewrite pages of the one on disk; a crash while the file is created
can leave one that is refused for ever; a failed commit leaks the page of the free list.

**Sochi.** The late JOIN (`LateJoins`), the namesake (`sochi.su:2700`, `API.md:96`;
`HostNick <- Anna` and no bots) and the stale discard (`sochi.su:925`, `API.md:34`;
`StaleDiscards`) described above.

**Others.** A reply of an AI provider cut off after its first block of text yields that
block. Moscow's `malloc` may wrap when it adds up sizes, and `usa`'s `calloc` does not
check its product. Rewriting the history file can lose lines another REPL adds, and a file
without a final newline gets the next line glued to its last.

## Not modelled

`PROJECT.json` gives the reason for each part. In short: parsing and lexing (generated
tables), drawing, fonts and codecs, foreign functions and the kernel's drivers (machine
code and devices), the `usa` compiler (what it promises is the semantics of C), random
numbers and Lenin (statistics and numbers), the line editor (vendored), the PostgreSQL
client and FTP (a foreign peer), the second interpreter written in USSR, and small pure
libraries. Belarus keeps the same kind of tree as `BTree` and a commit simpler than
`DubnaKv`'s, Murmansk is one search through a list of rules, and Novgorod and Ukraine are
request handlers over parts that are modelled.
