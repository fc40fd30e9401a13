----------------------------- MODULE UralProofs ------------------------------
(***************************************************************************)
(* Proofs about the package manager: what a recorded package keeps on disk *)
(* through failures and crashes, what a command leaves behind, and in      *)
(* which order packages are recorded.                                      *)
(***************************************************************************)
EXTENDS Ural, SequenceTheorems, FiniteSetTheorems, TLAPS

-----------------------------------------------------------------------------
(* The inductive invariant *)

Rows    == [p : Packages, v : Versions, meta : Nat, arch : Nat, url : ServerSet \cup {"elsewhere"}]
Members == UNION {FilesOf(p, v) \cup DirsOf(p, v) : p \in Packages, v \in Versions}
Names   == Members \cup {"data"}
Records == [v : Versions \cup {0}, rev : Nat, files : SUBSET Names]
Dirs    == [v : Versions \cup {0}, rev : Nat, entries : SUBSET Names]
Steps   == {"enter", "find", "meta", "arch", "check", "deps", "stage", "old", "new", "commit", "undo"}
Calls   == [name : Packages, force : BOOLEAN, pc : Steps, old : Records,
            remote : [v : Versions \cup {0}, meta : Nat, arch : Nat, server : ServerSet],
            meta : Nat, arch : Nat, dep : Nat \ {0}, backup : Dirs, moved : BOOLEAN, placed : BOOLEAN]

PublisherTyped ==
    /\ work \in [Packages -> [v : Versions, rev : Nat]]
    /\ repo \in [FileIds -> Nat]
    /\ index \subseteq Rows
    /\ pub \in [k : {"idle", "pack", "upload"}, url : ServerSet \cup {"elsewhere"}, todo : {pub.todo},
                rows : SUBSET Rows, text : [p : Packages, v : Versions, rev : Nat] \cup {NoText}]
    /\ pub.k = "pack" => pub.todo \in Seq(Packages)
    /\ pub.k = "pack" /\ pub.text # NoText => pub.todo # <<>>
    /\ served \in [ServerSet -> [files : [FileIds -> Nat], index : SUBSET Rows]]

UserTyped ==
    /\ trusted \subseteq ServerSet
    /\ db \in [Packages -> Records]
    /\ dest \in [Packages -> Dirs]
    /\ backups \subseteq [p : Packages, dir : Dirs]
    /\ frames \in Seq(Calls)
    /\ op \in [k : {"idle", "install", "update", "uninstall"}, p : Packages \cup {""}]
    /\ op.k = "uninstall" => op.p \in Packages
    /\ op.k \in {"idle", "uninstall"} => frames = <<>>
    /\ torn \subseteq Packages /\ stuck \subseteq Packages
    /\ crashed \in BOOLEAN

(* A call that has looked its package up has not been refused, and one     *)
(* that has chosen a version wants another than the recorded one.          *)
Changed(f) == f.moved \/ f.placed
Working(f) == f.pc \notin {"enter", "undo"} \/ Changed(f)
Chosen(f)  == f.pc \notin {"enter", "find", "undo"} \/ Changed(f)

Needs(f) == Deps(f.name, f.remote.v)

CallSound(f) ==
    /\ Working(f) => f.old = db[f.name]
    /\ Chosen(f) => f.remote.v \in Versions /\ f.remote.v # f.old.v
    /\ Chosen(f) => \A i \in DOMAIN Needs(f) : i < f.dep => db[Needs(f)[i]].v # 0
    /\ f.pc \in {"enter", "find"} => f.dep = 1
    /\ f.pc \in {"stage", "old", "new", "commit"} => f.dep > Len(Needs(f))

(* How far a call has moved directories about. *)
Placement(f) ==
    /\ f.moved => f.pc \in {"new", "commit", "undo"} /\ f.old.v # 0
                  /\ [p |-> f.name, dir |-> f.backup] \in backups
    /\ f.placed => /\ f.pc \in {"commit", "undo"} /\ dest[f.name].v = f.remote.v
                   /\ f.old.v # 0 => f.moved
    /\ f.pc = "new" => dest[f.name] = NoDir /\ (f.old.v # 0 => f.moved)
    /\ f.moved /\ ~f.placed => dest[f.name] = NoDir
    /\ f.pc = "commit" => f.placed /\ dest[f.name] = Whole(f.name, f.remote.v, f.arch)

(* The calls below the top one each wait for the next. *)
Waiting(f, g) ==
    /\ f.pc = "deps" /\ f.dep \in DOMAIN Needs(f)
    /\ g.name = Needs(f)[f.dep]

CallsSound ==
    /\ \A i \in DOMAIN frames : CallSound(frames[i]) /\ Placement(frames[i])
    /\ \A i \in DOMAIN frames : i < Len(frames) => Waiting(frames[i], frames[i + 1])
    /\ \A i, j \in DOMAIN frames : i < j /\ Working(frames[j]) => frames[i].name # frames[j].name

(* What will be in a package's place when the call that is at it fails.    *)
Settled(p) ==
    IF frames # <<>> /\ Top.name = p /\ Top.moved THEN Top.backup
    ELSE IF frames # <<>> /\ Top.name = p /\ Top.placed THEN NoDir
    ELSE dest[p]

RecordsSound ==
    \A p \in Packages : db[p].v # 0 => db[p].files = FilesOf(p, db[p].v)

Tidy ==
    ~crashed => \A p \in Packages \ stuck :
        /\ db[p].v # 0 /\ p \notin torn => Complete(p, Settled(p))
        /\ db[p].v # 0 => Settled(p).entries \subseteq Entries(p, db[p].v) \cup {"data"}
        /\ db[p].v = 0 => \A v \in Versions : Settled(p).entries \cap FilesOf(p, v) = {}

UserSound == UserTyped /\ CallsSound /\ RecordsSound /\ NothingLost /\ Tidy

Inv == PublisherTyped /\ UserSound

-----------------------------------------------------------------------------
(* The publisher *)

(* Listing a set puts nothing else into the list. *)
LEMMA SetListed == ASSUME NEW S, IsFiniteSet(S) PROVE SetToSeq(S) \in Seq(S)
<1> DEFINE D == 1..Cardinality(S)
<1>1. Cardinality(S) \in Nat /\ Bijection(D, S) # {}
  BY FS_CardinalityType DEF ExistsBijection
<1>2. PICK f \in Bijection(D, S) : TRUE
  BY <1>1
<1>3. f \in [D -> S] /\ IsInjective(f)
  BY <1>2 DEF Bijection, Injection, IsInjective
<1>4. SetToSeq(S) \in [D -> S]
  BY <1>3 DEF SetToSeq
<1> QED BY <1>1, <1>4, SeqDef

LEMMA PublisherInit == UralInit => PublisherTyped
<1> SUFFICES ASSUME UralInit PROVE PublisherTyped
  OBVIOUS
<1>1. \A f \in FileIds : f[3] = 1 \/ f[3] # 1
  OBVIOUS
<1>2. \A s \in ServerSet, p \in Packages : Row(p, 1, 1, 1, s) \in Rows
  BY UralAssumption DEF Row, Rows
<1>3. Home \in ServerSet
  BY UralAssumption DEF ServerSet
<1>4. work \in [Packages -> [v : Versions, rev : Nat]]
  BY UralAssumption DEF UralInit
<1>5. repo \in [FileIds -> Nat]
  BY DEF UralInit
<1>6. index \subseteq Rows
  BY <1>2, <1>3 DEF UralInit
<1>7. served \in [ServerSet -> [files : [FileIds -> Nat], index : SUBSET Rows]]
  BY <1>2 DEF UralInit
<1>8. /\ pub \in [k : {"idle", "pack", "upload"}, url : ServerSet \cup {"elsewhere"}, todo : {pub.todo},
                   rows : SUBSET Rows, text : [p : Packages, v : Versions, rev : Nat] \cup {NoText}]
      /\ pub.k = "idle"
  BY <1>3 DEF UralInit, Idle
<1> QED BY <1>4, <1>5, <1>6, <1>7, <1>8 DEF PublisherTyped

LEMMA PublisherTypes == PublisherTyped /\ PublisherNext => PublisherTyped'
<1> SUFFICES ASSUME PublisherTyped, PublisherNext PROVE PublisherTyped'
  OBVIOUS
<1> USE DEF PublisherTyped
<1> DEFINE Texts == [p : Packages, v : Versions, rev : Nat] \cup {NoText}
           Pubs(t) == [k : {"idle", "pack", "upload"}, url : ServerSet \cup {"elsewhere"}, todo : {t},
                       rows : SUBSET Rows, text : Texts]
<1>0. Home \in ServerSet /\ Idle \in Pubs(Idle.todo) /\ Idle.k = "idle" /\ NoText \in Texts
  <2>1. Home \in ServerSet
    BY UralAssumption DEF ServerSet
  <2> QED BY <2>1 DEF Idle
<1>1. ASSUME NEW p \in Packages, NEW v \in Versions, Edit(p, v) PROVE PublisherTyped'
  BY <1>1 DEF Edit
<1>2. ASSUME NEW url \in {Home, "elsewhere"}, command_pack(url) PROVE PublisherTyped'
  <2>1. SetToSeq(Packages) \in Seq(Packages)
    BY SetListed, UralAssumption
  <2>3. pub' = [k |-> "pack", url |-> url, todo |-> SetToSeq(Packages), rows |-> index, text |-> NoText]
    BY <1>2 DEF command_pack
  <2>4. pub' \in Pubs(pub'.todo) /\ pub'.todo \in Seq(Packages) /\ pub'.text = NoText
    BY <1>0, <2>1, <2>3
  <2> QED BY <1>2, <2>4 DEF command_pack
<1>3. ASSUME pub.k = "pack", pub.todo # <<>> PROVE Head(pub.todo) \in Packages
  BY <1>3
<1>4. CASE PackArchive
  <2> DEFINE p == Head(pub.todo)
  <2>1. p \in Packages /\ work[p].v \in Versions /\ work[p].rev \in Nat
    BY <1>3, <1>4 DEF PackArchive
  <2>2. <<"arch", p, work[p].v>> \in FileIds
    BY <2>1, UralAssumption DEF FileIds
  <2>3. repo' = [repo EXCEPT ![<<"arch", p, work[p].v>>] = work[p].rev]
    BY <1>4 DEF PackArchive
  <2>4. pub' = [pub EXCEPT !.text = [p |-> p, v |-> work[p].v, rev |-> work[p].rev]]
    BY <1>4 DEF PackArchive
  <2> HIDE DEF p
  <2>5. repo' \in [FileIds -> Nat]
    BY <2>1, <2>3
  <2>6. pub' \in Pubs(pub'.todo) /\ pub'.k = pub.k /\ pub'.todo = pub.todo
    BY <2>1, <2>4
  <2> QED BY <1>4, <2>5, <2>6 DEF PackArchive
<1>5. CASE pack_one
  <2> DEFINE t    == pub.text
             new  == Row(t.p, t.v, t.rev, repo[<<"arch", t.p, t.v>>], pub.url)
             kept == {r \in pub.rows : ~(r.p = t.p /\ r.v = t.v /\ r.url = pub.url)}
  <2>1. pub.k = "pack" /\ t # NoText
    BY <1>5 DEF pack_one
  <2>2. t.p \in Packages /\ t.v \in Versions /\ t.rev \in Nat
    BY <2>1
  <2>3. <<"arch", t.p, t.v>> \in FileIds /\ <<"meta", t.p, t.v>> \in FileIds
    BY <2>2, UralAssumption DEF FileIds
  <2>4. new \in Rows
    BY <2>2, <2>3 DEF Row, Rows
  <2>5. repo' = [repo EXCEPT ![<<"meta", t.p, t.v>>] = t.rev]
        /\ pub' = [pub EXCEPT !.rows = kept \cup {new}, !.todo = Tail(@), !.text = NoText]
    BY <1>5 DEF pack_one
  <2>6. kept \cup {new} \subseteq Rows
    BY <2>4
  <2> HIDE DEF new, kept
  <2>7. repo' \in [FileIds -> Nat]
    BY <2>2, <2>5
  <2>8. Tail(pub.todo) \in Seq(Packages)
    BY <2>1
  <2>9. pub' \in Pubs(pub'.todo) /\ pub'.text = NoText /\ pub'.todo \in Seq(Packages)
    BY <1>0, <2>5, <2>6, <2>8
  <2> QED BY <1>5, <2>7, <2>9 DEF pack_one
<1>6. CASE CommitPack
  <2>1. index' \subseteq Rows /\ pub' = Idle
    BY <1>6 DEF CommitPack
  <2> QED BY <1>0, <1>6, <2>1 DEF CommitPack
<1>7. CASE command_upload
  <2> DEFINE listed == SelectSeq(Listing, LAMBDA f : repo[f] # 0)
  <2>1. pub' = [Idle EXCEPT !.k = "upload", !.todo = listed]
    BY <1>7 DEF command_upload
  <2> HIDE DEF listed
  <2>2. pub' \in Pubs(pub'.todo) /\ pub'.k = "upload"
    BY <1>0, <2>1
  <2> QED BY <1>7, <2>2 DEF command_upload
<1>8. CASE ftp_upload_file
  <2> DEFINE f == Head(pub.todo)
  <2>1. \A g \in FileIds : g = f => repo[f] \in Nat
    OBVIOUS
  <2>2. served' = [served EXCEPT ![Home].files[f] = repo[f]] /\ pub' = [pub EXCEPT !.todo = Tail(@)]
        /\ pub.k = "upload"
    BY <1>8 DEF ftp_upload_file
  <2> HIDE DEF f
  <2>4. [served[Home].files EXCEPT ![f] = repo[f]] \in [FileIds -> Nat]
    <3>1. served[Home].files \in [FileIds -> Nat]
      BY <1>0
    <3> HIDE DEF PublisherTyped
    <3> QED BY <2>1, <3>1
  <2>5. [served[Home] EXCEPT !.files = [@ EXCEPT ![f] = repo[f]]] \in [files : [FileIds -> Nat], index : SUBSET Rows]
    BY <1>0, <2>4
  <2>6. served' \in [ServerSet -> [files : [FileIds -> Nat], index : SUBSET Rows]]
    BY <2>2, <2>5
  <2>7. pub' \in Pubs(pub'.todo) /\ pub'.k = "upload"
    BY <2>2
  <2> QED BY <1>8, <2>6, <2>7 DEF ftp_upload_file
<1>9. CASE UploadIndex
  <2>1. served' = [served EXCEPT ![Home].index = index] /\ pub' = Idle
    BY <1>9 DEF UploadIndex
  <2>2. served' \in [ServerSet -> [files : [FileIds -> Nat], index : SUBSET Rows]]
    BY <1>0, <2>1
  <2> QED BY <1>0, <1>9, <2>1, <2>2 DEF UploadIndex
<1>10. CASE PublisherStops
  BY <1>0, <1>10 DEF PublisherStops
<1> QED BY <1>1, <1>2, <1>4, <1>5, <1>6, <1>7, <1>8, <1>9, <1>10 DEF PublisherNext

-----------------------------------------------------------------------------
(* Calls of install_package *)

Remotes == [v : Versions \cup {0}, meta : Nat, arch : Nat, server : ServerSet]

(* What find_remote_package finds is a row of an index it read. *)
LEMMA FoundTyped ==
    ASSUME PublisherTyped, NEW name, NEW reached
    PROVE  find_remote_package(name, reached) \in Remotes
<1>1. NoRemote \in Remotes
  BY UralAssumption DEF NoRemote, Remotes, ServerSet
<1>2. ASSUME NEW s \in ServerSet PROVE read_remote_package(s, name) \in Remotes
  <2> DEFINE rows   == {r \in served[s].index : r.p = name /\ r.url = s}
             newest == {r \in rows : \A q \in rows : q.v <= r.v}
             new    == CHOOSE r \in newest : TRUE
  <2>1. CASE newest = {}
    BY <1>1, <2>1 DEF read_remote_package
  <2>2. CASE newest # {}
    <3>1. new \in newest
      BY <2>2
    <3>2. served[s].index \subseteq Rows
      BY DEF PublisherTyped
    <3>3. new \in Rows
      BY <3>1, <3>2
    <3>4. read_remote_package(s, name) = [v |-> new.v, meta |-> new.meta, arch |-> new.arch, server |-> s]
      BY <2>2 DEF read_remote_package
    <3> HIDE DEF new
    <3> QED BY <3>3, <3>4 DEF Rows, Remotes
  <2> QED BY <2>1, <2>2
<1>3. \A i \in DOMAIN Servers : Servers[i] \in ServerSet
  BY DEF ServerSet, Range
<1> DEFINE lists(i) == /\ Servers[i] \in trusted \cap reached
                       /\ read_remote_package(Servers[i], name).v # 0
           first    == {i \in DOMAIN Servers : lists(i) /\ \A j \in 1..(i - 1) : ~lists(j)}
<1>4. CASE first = {}
  BY <1>1, <1>4 DEF find_remote_package
<1>5. CASE first # {}
  <2>1. (CHOOSE i \in first : TRUE) \in DOMAIN Servers
    BY <1>5
  <2>2. find_remote_package(name, reached) = read_remote_package(Servers[CHOOSE i \in first : TRUE], name)
    BY <1>5 DEF find_remote_package
  <2> HIDE DEF first
  <2> QED BY <1>2, <1>3, <2>1, <2>2
<1> QED BY <1>4, <1>5

(* The innermost call. *)
LEMMA TopIs ==
    ASSUME UserTyped, frames # <<>>
    PROVE  /\ Len(frames) \in Nat \ {0} /\ DOMAIN frames = 1..Len(frames)
           /\ Len(frames) \in DOMAIN frames
           /\ Top = frames[Len(frames)] /\ Top \in Calls
           /\ \A i \in DOMAIN frames : frames[i] \in Calls
<1>1. frames \in Seq(Calls)
  BY DEF UserTyped
<1>2. Len(frames) \in Nat \ {0} /\ DOMAIN frames = 1..Len(frames)
  BY <1>1
<1>3. \A i \in 1..Len(frames) : frames[i] \in Calls
  BY <1>1
<1> QED BY <1>2, <1>3 DEF Top, Last

(* A call that waits for another has touched nothing yet. *)
LEMMA WaitingRests ==
    ASSUME UserTyped, CallsSound, NEW i \in DOMAIN frames, i < Len(frames)
    PROVE  /\ frames[i].pc = "deps" /\ ~Changed(frames[i])
           /\ Chosen(frames[i]) /\ Working(frames[i])
<1>1. frames[i].pc = "deps" /\ Placement(frames[i]) /\ frames[i] \in Calls
  <2>1. frames \in Seq(Calls)
    BY DEF UserTyped
  <2>2. frames[i] \in Calls
    BY <2>1
  <2> QED BY <2>2 DEF CallsSound, Waiting
<1> QED BY <1>1 DEF Placement, Changed, Chosen, Working, Calls

(* One call after another action of its own: the calls below stay as they  *)
(* were, when the records do not change.                                   *)
LEMMA TopStep ==
    ASSUME UserTyped, CallsSound, frames # <<>>, NEW g \in Calls,
           frames' = [frames EXCEPT ![Len(frames)] = g], g.name = Top.name,
           UNCHANGED db, CallSound(g)', Placement(g)',
           Working(g) => Working(Top) \/ \A i \in DOMAIN frames : i < Len(frames) => frames[i].name # g.name
    PROVE  /\ frames' \in Seq(Calls) /\ frames' # <<>> /\ Top' = g
           /\ CallsSound'
<1>0. PICK n : n = Len(frames)
  OBVIOUS
<1>1. n \in Nat \ {0} /\ DOMAIN frames = 1..n /\ Top = frames[n] /\ frames \in Seq(Calls)
  BY <1>0, TopIs DEF UserTyped
<1>2. /\ frames' \in Seq(Calls) /\ Len(frames') = n
      /\ \A j \in 1..n : frames'[j] = IF j = n THEN g ELSE frames[j]
  BY <1>0, <1>1
<1>3. DOMAIN frames' = 1..n /\ frames' # <<>> /\ Top' = g
  BY <1>1, <1>2 DEF Top, Last
<1>4. ASSUME NEW i \in 1..n PROVE CallSound(frames[i])' /\ Placement(frames[i])'
  <2>1. CASE i = n
    BY <1>2, <2>1 DEF CallSound, Placement
  <2>2. CASE i # n
    <3>1. i < Len(frames) /\ i \in DOMAIN frames
      BY <1>0, <1>1, <2>2
    <3>2. frames[i].pc = "deps" /\ ~Changed(frames[i])
      BY <3>1, WaitingRests
    <3>3. frames'[i] = frames[i] /\ CallSound(frames[i])
      BY <1>2, <2>2, <3>1 DEF CallsSound
    <3> QED BY <3>2, <3>3 DEF CallSound, Placement, Changed, Working, Chosen, Needs
  <2> QED BY <2>1, <2>2
<1>5. ASSUME NEW i \in 1..n, i < n PROVE Waiting(frames[i], frames[i + 1])'
  <2>1. Waiting(frames[i], frames[i + 1])
    BY <1>0, <1>1, <1>5 DEF CallsSound
  <2>2. frames'[i] = frames[i] /\ frames'[i + 1].name = frames[i + 1].name
    BY <1>1, <1>2, <1>5
  <2> QED BY <2>1, <2>2 DEF Waiting, Needs
<1>6. ASSUME NEW i \in 1..n, NEW j \in 1..n, i < j, Working(frames'[j])
      PROVE  frames'[i].name # frames'[j].name
  <2>1. i # n /\ frames'[i] = frames[i] /\ i < n
    BY <1>1, <1>2, <1>6
  <2>2. CASE j = n
    <3>1. frames'[j] = g
      BY <1>2, <2>2
    <3> QED BY <1>1, <1>6, <2>1, <2>2, <3>1, <1>0 DEF CallsSound
  <2>3. CASE j # n
    BY <1>1, <1>2, <1>6, <2>1, <2>3 DEF CallsSound
  <2> QED BY <2>2, <2>3
<1> QED
  <2>1. \A i \in DOMAIN frames' : (CallSound(frames[i]) /\ Placement(frames[i]))'
    BY <1>3, <1>4
  <2>2. \A i \in DOMAIN frames' : i < Len(frames') => Waiting(frames[i], frames[i + 1])'
    BY <1>2, <1>3, <1>5
  <2>3. \A i, j \in DOMAIN frames' : i < j /\ Working(frames'[j]) => frames'[i].name # frames'[j].name
    BY <1>3, <1>6
  <2> QED BY <1>2, <1>3, <2>1, <2>2, <2>3 DEF CallsSound, Working, Changed

(* What a manifest asks for are packages. *)
LEMMA NeedsTyped ==
    ASSUME NEW f \in Calls, f.remote.v \in Versions
    PROVE  Needs(f) \in Seq(Packages) /\ \A i \in DOMAIN Needs(f) : Needs(f)[i] \in Packages
<1>1. f.name \in Packages
  BY DEF Calls
<1>2. Needs(f) \in Seq(Packages)
  BY <1>1, UralAssumption DEF Needs
<1> QED BY <1>2

(* A call below the top one stays sound while the top one records its own  *)
(* package.                                                                *)
LEMMA BelowSound ==
    ASSUME UserTyped, CallsSound, NEW i \in DOMAIN frames, i < Len(frames), frames # <<>>,
           \A q \in Packages : db[q].v # 0 => db'[q].v # 0,
           \A q \in Packages : q # Top.name => db'[q] = db[q],
           db' = db \/ Working(Top)
    PROVE  /\ db'[frames[i].name] = db[frames[i].name]
           /\ \A k \in DOMAIN Needs(frames[i]) : k < frames[i].dep => db'[Needs(frames[i])[k]].v # 0
<1> DEFINE f == frames[i]
<1>1. f \in Calls /\ CallSound(f) /\ Chosen(f)
  BY TopIs, WaitingRests DEF CallsSound
<1>2. \A k \in DOMAIN Needs(f) : Needs(f)[k] \in Packages
  BY <1>1, NeedsTyped DEF CallSound
<1>3. Working(Top) => f.name # Top.name
  <2>1. Len(frames) \in DOMAIN frames /\ Top = frames[Len(frames)]
    BY TopIs
  <2> QED BY <2>1 DEF CallsSound
<1>4. db'[f.name] = db[f.name]
  BY <1>1, <1>3 DEF Calls
<1> QED BY <1>1, <1>2, <1>4 DEF CallSound

(* One entry of a sequence replaced. *)
LEMMA OneReplaced ==
    ASSUME NEW S, NEW s \in Seq(S), NEW m \in 1..Len(s), NEW g \in S
    PROVE  LET t == [s EXCEPT ![m] = g]
           IN  /\ t \in Seq(S) /\ Len(t) = Len(s) /\ DOMAIN t = 1..Len(s)
               /\ \A i \in 1..Len(s) : t[i] = IF i = m THEN g ELSE s[i]
OBVIOUS

(* A call returns: its caller goes on, or undoes what it has done itself,  *)
(* which is nothing yet.                                                   *)
LEMMA ReturnSound ==
    ASSUME UserTyped, CallsSound, frames # <<>>, NEW ok \in BOOLEAN, Return(ok),
           \A q \in Packages : db[q].v # 0 => db'[q].v # 0,
           \A q \in Packages : q # Top.name => db'[q] = db[q],
           db' = db \/ Working(Top),
           ok => db'[Top.name].v # 0
    PROVE  /\ frames' \in Seq(Calls)
           /\ op' \in [k : {"idle", "install", "update", "uninstall"}, p : Packages \cup {""}]
           /\ op'.k # "uninstall" /\ (op'.k = "idle" => frames' = <<>>)
           /\ CallsSound'
           /\ frames' # <<>> => ~Changed(Top')
<1>0. PICK n : n = Len(frames)
  OBVIOUS
<1>1. n \in Nat \ {0} /\ DOMAIN frames = 1..n /\ Top = frames[n] /\ frames \in Seq(Calls)
      /\ \A i \in 1..n : frames[i] \in Calls
  BY <1>0, TopIs DEF UserTyped
<1>2. CASE n = 1
  <2>1. frames' = <<>> /\ op' = [k |-> "idle", p |-> ""]
    BY <1>0, <1>2 DEF Return
  <2>2. DOMAIN frames' = {} /\ frames' \in Seq(Calls)
    <3>1. <<>> \in Seq(Calls) /\ DOMAIN <<>> = {}
      OBVIOUS
    <3> QED BY <2>1, <3>1
  <2> QED BY <2>1, <2>2 DEF CallsSound
<1>3. CASE n # 1
  <2>m. PICK m : m = n - 1
    OBVIOUS
  <2>n. m \in Nat \ {0}
    BY <1>1, <1>3, <2>m
  <2>0. m \in Nat \ {0} /\ m = n - 1
    BY <2>m, <2>n
  <2>a. PICK h : h = frames[m]
    OBVIOUS
  <2>b. PICK g : g = [h EXCEPT !.pc = IF ok THEN "deps" ELSE "undo", !.dep = @ + 1]
    OBVIOUS
  <2>c. PICK rest : rest = SubSeq(frames, 1, m)
    OBVIOUS
  <2>1. rest \in Seq(Calls) /\ Len(rest) = m /\ \A i \in 1..m : rest[i] = frames[i]
    BY <1>1, <2>0, <2>c
  <2>2. frames' = [rest EXCEPT ![m] = g] /\ op' = op
    <3>1. frames' = [rest EXCEPT ![m].pc = IF ok THEN "deps" ELSE "undo", ![m].dep = @ + 1] /\ op' = op
      BY <1>0, <1>1, <1>3, <2>0, <2>c DEF Return, Front
    <3>2. rest[m] = h /\ m \in DOMAIN rest
      <4>1. DOMAIN rest = 1..Len(rest)
        BY <2>1
      <4>2. m \in 1..m
        BY <2>n
      <4> QED BY <2>1, <2>a, <4>1, <4>2
    <3> QED BY <2>b, <3>1, <3>2
  <2>3. h \in Calls /\ m \in DOMAIN frames /\ m < Len(frames)
    BY <1>0, <1>1, <2>0, <2>a
  <2>4. g \in Calls /\ g.name = h.name /\ g.old = h.old
        /\ g.remote = h.remote /\ g.dep = h.dep + 1
        /\ g.moved = h.moved /\ g.placed = h.placed /\ g.pc = IF ok THEN "deps" ELSE "undo"
    <3>1. h.dep + 1 \in Nat \ {0} /\ (IF ok THEN "deps" ELSE "undo") \in Steps
      BY <2>3 DEF Calls, Steps
    <3>a. PICK pc, dep : pc = (IF ok THEN "deps" ELSE "undo") /\ dep = h.dep + 1
      OBVIOUS
    <3>2. pc = (IF ok THEN "deps" ELSE "undo") /\ dep = h.dep + 1 /\ pc \in Steps /\ dep \in Nat \ {0}
      BY <3>1, <3>a
    <3>b. pc \in Steps /\ dep \in Nat \ {0}
      BY <3>2
    <3>3. g = [h EXCEPT !.pc = pc, !.dep = dep]
      BY <2>b, <3>2
    <3>4. /\ g \in Calls /\ g.pc = pc /\ g.dep = dep
          /\ g.name = h.name /\ g.old = h.old /\ g.remote = h.remote
          /\ g.moved = h.moved /\ g.placed = h.placed
      BY <2>3, <3>b, <3>3 DEF Calls
    <3> QED BY <3>2, <3>4
  <2>5. /\ frames' \in Seq(Calls) /\ Len(frames') = m /\ DOMAIN frames' = 1..m
        /\ \A i \in 1..m : frames'[i] = IF i = m THEN g ELSE frames[i]
    <3>1. m \in 1..Len(rest)
      BY <2>n, <2>1
    <3>2. g \in Calls
      BY <2>4
    <3> HIDE DEF Calls
    <3>3. LET t == [rest EXCEPT ![m] = g]
          IN  /\ t \in Seq(Calls) /\ Len(t) = Len(rest) /\ DOMAIN t = 1..Len(rest)
              /\ \A i \in 1..Len(rest) : t[i] = IF i = m THEN g ELSE rest[i]
      BY <2>1, <3>1, <3>2, OneReplaced
    <3> QED BY <2>1, <2>2, <3>3
  <2>6. frames' # <<>> /\ Top' = g
    <3>1. m \in 1..m /\ Len(<<>>) = 0
      BY <2>n
    <3>2. frames'[m] = g /\ Len(frames') = m
      BY <2>5, <3>1
    <3> QED BY <2>0, <3>1, <3>2 DEF Top, Last
  <2>7. h.pc = "deps" /\ ~Changed(h) /\ Chosen(h) /\ Working(h) /\ CallSound(h) /\ Waiting(h, Top)
    <3>1. h.pc = "deps" /\ ~Changed(h) /\ Chosen(h) /\ Working(h)
      BY <2>3, <2>a, WaitingRests
    <3>2. m + 1 = n
      BY <1>1, <2>0
    <3> QED BY <1>1, <2>3, <2>a, <3>1, <3>2 DEF CallsSound
  <2>8. CallSound(g)'
    <3>1. CASE ok
      <4>1. db'[h.name] = db[h.name]
            /\ \A k \in DOMAIN Needs(h) : k < h.dep => db'[Needs(h)[k]].v # 0
        BY <2>3, <2>a, BelowSound
      <4>2. Needs(g) = Needs(h) /\ Needs(h) \in Seq(Packages)
        BY <2>3, <2>4, <2>7, NeedsTyped DEF Needs, CallSound
      <4>3. \A k \in DOMAIN Needs(h) : k < h.dep + 1 => db'[Needs(h)[k]].v # 0
        <5>1. \A k \in DOMAIN Needs(h) : k < h.dep + 1 => k < h.dep \/ k = h.dep
          BY <2>3, <4>2 DEF Calls
        <5>2. db'[Needs(h)[h.dep]].v # 0
          BY <2>7, <3>1 DEF Waiting
        <5> QED BY <4>1, <5>1, <5>2
      <4> QED BY <2>4, <2>7, <3>1, <4>1, <4>2, <4>3 DEF CallSound, Chosen, Working, Changed
    <3>2. CASE ~ok
      BY <2>4, <2>7, <3>2 DEF CallSound, Chosen, Working, Changed
    <3> QED BY <3>1, <3>2
  <2>9. Placement(g)'
    BY <2>4, <2>7 DEF Placement, Changed
  <2>10. ASSUME NEW i \in 1..m PROVE CallSound(frames[i])' /\ Placement(frames[i])'
    <3>1. CASE i = m
      BY <2>5, <2>8, <2>9, <3>1 DEF CallSound, Placement
    <3>2. CASE i # m
      <4>1. i \in DOMAIN frames /\ i < Len(frames)
        BY <1>0, <1>1, <2>0
      <4>2. frames[i].pc = "deps" /\ ~Changed(frames[i]) /\ CallSound(frames[i])
        BY <4>1, WaitingRests DEF CallsSound
      <4>3. db'[frames[i].name] = db[frames[i].name]
            /\ \A k \in DOMAIN Needs(frames[i]) : k < frames[i].dep => db'[Needs(frames[i])[k]].v # 0
        BY <4>1, BelowSound
      <4>4. frames'[i] = frames[i]
        BY <2>5, <3>2
      <4> QED BY <4>2, <4>3, <4>4 DEF CallSound, Placement, Changed, Needs, Working, Chosen
    <3> QED BY <3>1, <3>2
  <2>11. ASSUME NEW i \in 1..m, i < m PROVE Waiting(frames[i], frames[i + 1])'
    <3>1. Waiting(frames[i], frames[i + 1])
      BY <1>0, <1>1, <2>0, <2>11, SMTT(30) DEF CallsSound
    <3>2. i + 1 \in 1..m /\ i # m
      BY <2>0, <2>11
    <3>3. frames'[i] = frames[i]
      BY <2>5, <3>2
    <3>4. frames'[i + 1].name = frames[i + 1].name
      <4>1. CASE i + 1 = m
        BY <2>4, <2>5, <2>a, <3>2, <4>1
      <4>2. CASE i + 1 # m
        BY <2>5, <3>2, <4>2
      <4> QED BY <4>1, <4>2
    <3> QED BY <3>1, <3>3, <3>4 DEF Waiting, Needs
  <2>12. ASSUME NEW i \in 1..m, NEW j \in 1..m, i < j, Working(frames'[j])
         PROVE  frames'[i].name # frames'[j].name
    <3>1. frames'[i] = frames[i] /\ frames'[j].name = frames[j].name
      <4>1. i # m
        BY <2>0, <2>12
      <4>2. CASE j = m
        BY <2>4, <2>5, <2>a, <4>1, <4>2
      <4>3. CASE j # m
        BY <2>5, <4>1, <4>3
      <4> QED BY <4>2, <4>3
    <3>2. j \in DOMAIN frames /\ j < Len(frames) /\ i \in DOMAIN frames
      BY <1>0, <1>1, <2>0
    <3>3. Working(frames[j])
      BY <3>2, WaitingRests
    <3> QED BY <2>12, <3>1, <3>2, <3>3 DEF CallsSound
  <2>13. CallsSound'
    <3>1. \A i \in DOMAIN frames' : (CallSound(frames[i]) /\ Placement(frames[i]))'
      BY <2>5, <2>10
    <3>2. \A i \in DOMAIN frames' : i < Len(frames') => Waiting(frames[i], frames[i + 1])'
      BY <2>5, <2>11
    <3>3. \A i, j \in DOMAIN frames' : i < j /\ Working(frames'[j]) => frames'[i].name # frames'[j].name
      BY <2>5, <2>12
    <3> QED BY <3>1, <3>2, <3>3 DEF CallsSound, Working, Changed
  <2>14. ~Changed(Top')
    BY <2>4, <2>6, <2>7 DEF Changed
  <2> QED BY <2>2, <2>5, <2>6, <2>13, <2>14 DEF UserTyped
<1> QED BY <1>2, <1>3

-----------------------------------------------------------------------------
(* What steps keep *)

(* What stands in each package's place, or will, decides about Tidy.       *)
LEMMA TidyKept ==
    ASSUME Tidy, UNCHANGED <<db, torn, stuck, crashed>>, \A p \in Packages : Settled(p)' = Settled(p)
    PROVE  Tidy'
BY DEF Tidy, Complete

LEMMA NothingMoved ==
    ASSUME RecordsSound, NothingLost, UNCHANGED <<db, dest, backups, torn>>
    PROVE  RecordsSound' /\ NothingLost'
BY DEF RecordsSound, NothingLost, InBackups, Complete

(* A call that has moved nothing leaves what is in place.                  *)
LEMMA SettledRests ==
    ASSUME NEW p, frames # <<>> => ~Changed(Top)
    PROVE  Settled(p) = dest[p]
BY DEF Settled, Changed

(* The top call goes on, and no directory is moved. *)
LEMMA TopQuiet ==
    ASSUME UserSound, frames # <<>>, NEW g \in Calls,
           frames' = [frames EXCEPT ![Len(frames)] = g],
           g.name = Top.name, g.moved = Top.moved, g.placed = Top.placed, g.backup = Top.backup,
           UNCHANGED <<trusted, db, dest, backups, op, torn, stuck, crashed>>,
           CallSound(g), Placement(g),
           Working(g) => Working(Top) \/ \A i \in DOMAIN frames : i < Len(frames) => frames[i].name # g.name
    PROVE  UserSound'
<1>1. UserTyped /\ CallsSound
  BY DEF UserSound
<1>2. CallSound(g)' /\ Placement(g)'
  BY DEF CallSound, Placement
<1>3. frames' \in Seq(Calls) /\ frames' # <<>> /\ Top' = g /\ CallsSound'
  BY <1>1, <1>2, TopStep
<1>4. UserTyped'
  BY <1>1, <1>3 DEF UserTyped
<1>5. \A p \in Packages : Settled(p)' = Settled(p)
  BY <1>3 DEF Settled
<1>6. Tidy' /\ RecordsSound' /\ NothingLost'
  BY <1>5, TidyKept, NothingMoved DEF UserSound
<1> QED BY <1>3, <1>4, <1>6 DEF UserSound

(* The top call fails: what it moved is still to be undone. *)
LEMMA GivesUp ==
    ASSUME UserSound, frames # <<>>, Goto("undo"),
           UNCHANGED <<trusted, db, dest, backups, op, torn, stuck, crashed>>
    PROVE  UserSound'
<1>. PICK g : g = [Top EXCEPT !.pc = "undo"]
  OBVIOUS
<1>1. UserTyped /\ CallsSound
  BY DEF UserSound
<1>2. Top \in Calls /\ Len(frames) \in DOMAIN frames /\ Top = frames[Len(frames)]
  BY <1>1, TopIs
<1>3. frames' = [frames EXCEPT ![Len(frames)] = g]
  BY <1>2 DEF Goto
<1>4. g \in Calls /\ g.name = Top.name /\ g.moved = Top.moved /\ g.placed = Top.placed
      /\ g.backup = Top.backup /\ g.old = Top.old /\ g.remote = Top.remote /\ g.dep = Top.dep
      /\ g.pc = "undo" /\ g.arch = Top.arch
  BY <1>2 DEF Calls, Steps
<1>5. CallSound(Top) /\ Placement(Top)
  BY <1>1, <1>2 DEF CallsSound
<1>6. Working(g) => Working(Top)
  BY <1>4 DEF Working, Changed
<1>7. CallSound(g)
  BY <1>4, <1>5 DEF CallSound, Working, Chosen, Changed, Needs
<1>8. Placement(g)
  BY <1>4, <1>5 DEF Placement
<1> QED BY <1>3, <1>4, <1>6, <1>7, <1>8, TopQuiet

(* A call returns, and no directory is moved. *)
LEMMA ReturnQuiet ==
    ASSUME UserSound, frames # <<>>, ~Changed(Top), NEW ok \in BOOLEAN, Return(ok),
           ok => db[Top.name].v # 0,
           UNCHANGED <<trusted, db, dest, backups, torn, stuck, crashed>>
    PROVE  UserSound'
<1>1. UserTyped /\ CallsSound
  BY DEF UserSound
<1>2. /\ frames' \in Seq(Calls)
      /\ op' \in [k : {"idle", "install", "update", "uninstall"}, p : Packages \cup {""}]
      /\ op'.k # "uninstall" /\ (op'.k = "idle" => frames' = <<>>)
      /\ CallsSound'
      /\ frames' # <<>> => ~Changed(Top')
  BY <1>1, ReturnSound
<1>3. UserTyped'
  BY <1>1, <1>2 DEF UserTyped
<1>4. \A p \in Packages : Settled(p)' = Settled(p)
  <2>1. (frames # <<>> => ~Changed(Top))' 
    BY <1>2 DEF Changed
  <2> QED BY <2>1 DEF Settled, Changed
<1>5. Tidy' /\ RecordsSound' /\ NothingLost'
  BY <1>4, TidyKept, NothingMoved DEF UserSound
<1> QED BY <1>2, <1>3, <1>5 DEF UserSound

-----------------------------------------------------------------------------
(* The steps of a call *)

LEMMA EnterKeeps == UserSound /\ Enter => UserSound'
<1> SUFFICES ASSUME UserSound, Enter PROVE UserSound'
  OBVIOUS
<1>0. frames # <<>> /\ Top.pc = "enter" /\ UNCHANGED <<trusted, db, dest, backups, torn, stuck, crashed>>
  BY DEF Enter, At, UNCHANGEDuser
<1>1. UserTyped /\ CallsSound
  BY DEF UserSound
<1>2. Top \in Calls /\ Len(frames) \in Nat \ {0} /\ Len(frames) \in DOMAIN frames
      /\ DOMAIN frames = 1..Len(frames) /\ Top = frames[Len(frames)]
  BY <1>0, <1>1, TopIs
<1>3. CallSound(Top) /\ Placement(Top)
  BY <1>1, <1>2 DEF CallsSound
<1>4. ~Changed(Top)
  BY <1>0, <1>3 DEF Placement, Changed
<1> DEFINE Refused == (\E i \in 1..(Len(frames) - 1) : frames[i].name = Top.name) \/ Len(frames) > MaxDepth
<1>5. CASE Refused
  <2>1. Goto("undo") /\ UNCHANGED op
    BY <1>5 DEF Enter
  <2> QED BY <1>0, <2>1, GivesUp
<1>6. CASE ~Refused /\ db[Top.name].v # 0 /\ ~Top.force
  <2>1. Return(TRUE)
    BY <1>6 DEF Enter
  <2> QED BY <1>0, <1>4, <1>6, <2>1, ReturnQuiet
<1>7. CASE ~Refused /\ ~(db[Top.name].v # 0 /\ ~Top.force)
  <2>. PICK g : g = [Top EXCEPT !.pc = "find", !.old = db[Top.name]]
    OBVIOUS
  <2>1. frames' = [frames EXCEPT ![Len(frames)] = g] /\ UNCHANGED op
    BY <1>2, <1>7 DEF Enter
  <2>2. db[Top.name] \in Records
    BY <1>1, <1>2 DEF UserTyped, Calls
  <2>3. g \in Calls /\ g.name = Top.name /\ g.moved = Top.moved /\ g.placed = Top.placed
        /\ g.backup = Top.backup /\ g.old = db[Top.name] /\ g.pc = "find" /\ g.dep = Top.dep
    BY <1>2, <2>2 DEF Calls, Steps
  <2>4. CallSound(g) /\ Placement(g)
    BY <1>0, <1>3, <1>4, <2>3 DEF CallSound, Placement, Working, Chosen, Changed
  <2>5. \A i \in DOMAIN frames : i < Len(frames) => frames[i].name # g.name
    BY <1>2, <1>7, <2>3
  <2> QED BY <1>0, <2>1, <2>3, <2>4, <2>5, TopQuiet
<1> QED BY <1>5, <1>6, <1>7

LEMMA FindKeeps == ASSUME Inv, NEW reached, Find(reached) PROVE UserSound'
<1>. PICK r : r = find_remote_package(Top.name, reached)
  OBVIOUS
<1>0. frames # <<>> /\ Top.pc = "find" /\ UNCHANGED <<trusted, db, dest, backups, torn, stuck, crashed>>
  BY DEF Find, At, UNCHANGEDuser
<1>1. UserSound /\ PublisherTyped /\ UserTyped /\ CallsSound
  BY DEF Inv, UserSound
<1>2. Top \in Calls /\ Len(frames) \in DOMAIN frames /\ Top = frames[Len(frames)]
  BY <1>0, <1>1, TopIs
<1>3. CallSound(Top) /\ Placement(Top)
  BY <1>1, <1>2 DEF CallsSound
<1>4. ~Changed(Top) /\ Working(Top) /\ Top.old = db[Top.name]
  BY <1>0, <1>3 DEF Placement, Changed, Working, CallSound
<1>5. r \in Remotes
  BY <1>1, FoundTyped
<1>6. CASE r.v = 0 \/ r.v < Top.old.v
  <2>1. Goto("undo") /\ UNCHANGED op
    BY <1>6 DEF Find
  <2> QED BY <1>0, <1>1, <2>1, GivesUp
<1>7. CASE ~(r.v = 0 \/ r.v < Top.old.v) /\ r.v = Top.old.v
  <2>1. Return(TRUE)
    BY <1>7 DEF Find
  <2>2. db[Top.name].v # 0
    BY <1>4, <1>7
  <2> QED BY <1>0, <1>1, <1>4, <2>1, <2>2, ReturnQuiet
<1>8. CASE ~(r.v = 0 \/ r.v < Top.old.v) /\ r.v # Top.old.v
  <2>. PICK g : g = [Top EXCEPT !.pc = "meta", !.remote = r]
    OBVIOUS
  <2>1. frames' = [frames EXCEPT ![Len(frames)] = g] /\ UNCHANGED op
    BY <1>2, <1>8 DEF Find
  <2>3. g \in Calls /\ g.name = Top.name /\ g.moved = Top.moved /\ g.placed = Top.placed
        /\ g.backup = Top.backup /\ g.old = Top.old /\ g.pc = "meta" /\ g.remote = r /\ g.dep = Top.dep
    <3>1. "meta" \in Steps
      BY DEF Steps
    <3>2. g \in Calls
      BY <1>2, <1>5, <3>1, ZenonT(30) DEF Calls, Remotes
    <3>3. /\ g.name = Top.name /\ g.moved = Top.moved /\ g.placed = Top.placed
          /\ g.backup = Top.backup /\ g.old = Top.old /\ g.pc = "meta" /\ g.remote = r /\ g.dep = Top.dep
      BY <1>2, SMTT(30) DEF Calls
    <3> QED BY <3>2, <3>3
  <2>4. g.remote.v \in Versions
    BY <1>5, <1>8, <2>3 DEF Remotes
  <2>5. Placement(g)
    BY <1>4, <2>3 DEF Placement, Changed
  <2>6. Top.dep = 1
    BY <1>0, <1>3 DEF CallSound
  <2>7. CallSound(g)
    <3>1. g.remote.v # g.old.v /\ g.old = db[g.name]
      BY <1>4, <1>8, <2>3
    <3>2. Needs(g) \in Seq(Packages)
      BY <2>3, <2>4, NeedsTyped
    <3>3. \A i \in DOMAIN Needs(g) : ~(i < g.dep)
      BY <2>3, <2>6, <3>2
    <3> QED BY <2>3, <2>4, <3>1, <3>3 DEF CallSound
  <2>8. Working(g) => Working(Top)
    BY <1>4
  <2> QED BY <1>0, <1>1, <2>1, <2>3, <2>5, <2>7, <2>8, TopQuiet
<1> QED BY <1>6, <1>7, <1>8

(* A call that has chosen goes to a later step of its own.                 *)
LEMMA GoesOn ==
    ASSUME UserSound, frames # <<>>, NEW g \in Calls,
           frames' = [frames EXCEPT ![Len(frames)] = g],
           Chosen(Top), ~Changed(Top),
           g.name = Top.name, g.moved = Top.moved, g.placed = Top.placed, g.backup = Top.backup,
           g.old = Top.old, g.remote = Top.remote, g.dep = Top.dep,
           g.pc \in {"arch", "check", "deps", "stage", "old", "new"},
           g.pc \in {"stage", "old", "new"} => Top.dep > Len(Needs(Top)),
           g.pc = "new" => dest[Top.name] = NoDir /\ Top.old.v = 0,
           UNCHANGED <<trusted, db, dest, backups, op, torn, stuck, crashed>>
    PROVE  UserSound'
<1>1. UserTyped /\ CallsSound
  BY DEF UserSound
<1>2. Top \in Calls /\ Len(frames) \in DOMAIN frames /\ Top = frames[Len(frames)]
  BY <1>1, TopIs
<1>3. CallSound(Top) /\ Placement(Top) /\ Working(Top)
  BY <1>1, <1>2 DEF CallsSound, Chosen, Working
<1>4. CallSound(g)
  BY <1>3 DEF CallSound, Needs
<1>5. Placement(g)
  BY DEF Placement, Changed
<1> QED BY <1>3, <1>4, <1>5, TopQuiet

LEMMA DownloadKeeps ==
    ASSUME Inv, NEW kind \in {"meta", "arch"}, curl_download(kind) PROVE UserSound'
<1>. PICK got : got = served[Top.remote.server].files[<<kind, Top.name, Top.remote.v>>]
  OBVIOUS
<1>0. frames # <<>> /\ Top.pc = kind /\ UNCHANGED <<trusted, op, db, dest, backups, torn, stuck, crashed>>
  BY DEF curl_download, At, UNCHANGEDuser
<1>1. UserSound /\ PublisherTyped /\ UserTyped /\ CallsSound
  BY DEF Inv, UserSound
<1>2. Top \in Calls /\ Len(frames) \in DOMAIN frames /\ Top = frames[Len(frames)]
  BY <1>0, <1>1, TopIs
<1>3. CallSound(Top) /\ Placement(Top)
  BY <1>1, <1>2 DEF CallsSound
<1>4. ~Changed(Top) /\ Chosen(Top)
  BY <1>0, <1>3 DEF Placement, Changed, Chosen
<1>5. CASE Goto("undo")
  BY <1>0, <1>1, <1>5, GivesUp
<1>6. CASE ~Goto("undo")
  <2>. PICK g : g = [Top EXCEPT !.pc = IF kind = "meta" THEN "arch" ELSE "check", ![kind] = got]
    OBVIOUS
  <2>1. frames' = [frames EXCEPT ![Len(frames)] = g]
    BY <1>2, <1>6 DEF curl_download, Fails
  <2>2. got \in Nat
    <3>1. Top.name \in Packages /\ Top.remote.server \in ServerSet /\ Top.remote.v \in Versions
      BY <1>2, <1>3, <1>4 DEF Calls, CallSound
    <3>2. <<kind, Top.name, Top.remote.v>> \in FileIds
      BY <3>1, UralAssumption DEF FileIds
    <3>3. served[Top.remote.server].files \in [FileIds -> Nat]
      BY <1>1, <3>1 DEF PublisherTyped
    <3> QED BY <3>2, <3>3
  <2>3. /\ g \in Calls /\ g.name = Top.name /\ g.moved = Top.moved /\ g.placed = Top.placed
        /\ g.backup = Top.backup /\ g.old = Top.old /\ g.remote = Top.remote /\ g.dep = Top.dep
        /\ g.pc \in {"arch", "check"}
    <3>1. CASE kind = "meta"
      BY <1>2, <2>2, <3>1, ZenonT(30) DEF Calls, Steps
    <3>2. CASE kind = "arch"
      BY <1>2, <2>2, <3>2, ZenonT(30) DEF Calls, Steps
    <3> QED BY <3>1, <3>2
  <2> QED BY <1>0, <1>1, <1>4, <2>1, <2>3, GoesOn
<1> QED BY <1>5, <1>6

LEMMA GotoIs ==
    ASSUME UserTyped, frames # <<>>, NEW pc \in Steps, Goto(pc)
    PROVE  \E g \in Calls :
             /\ frames' = [frames EXCEPT ![Len(frames)] = g]
             /\ g.name = Top.name /\ g.moved = Top.moved /\ g.placed = Top.placed /\ g.backup = Top.backup
             /\ g.old = Top.old /\ g.remote = Top.remote /\ g.dep = Top.dep /\ g.arch = Top.arch
             /\ g.pc = pc
<1>. PICK g : g = [Top EXCEPT !.pc = pc]
  OBVIOUS
<1>1. Top \in Calls /\ Len(frames) \in DOMAIN frames /\ Top = frames[Len(frames)]
  BY TopIs
<1>2. frames' = [frames EXCEPT ![Len(frames)] = g]
  BY <1>1 DEF Goto
<1>3. g \in Calls /\ g.name = Top.name /\ g.moved = Top.moved /\ g.placed = Top.placed
      /\ g.backup = Top.backup /\ g.old = Top.old /\ g.remote = Top.remote /\ g.dep = Top.dep
      /\ g.arch = Top.arch /\ g.pc = pc
  BY <1>1 DEF Calls
<1> QED BY <1>2, <1>3

LEMMA CheckKeeps == UserSound /\ Check => UserSound'
<1> SUFFICES ASSUME UserSound, Check PROVE UserSound'
  OBVIOUS
<1>0. frames # <<>> /\ Top.pc = "check" /\ UNCHANGED <<trusted, op, db, dest, backups, torn, stuck, crashed>>
      /\ (Goto("deps") \/ Goto("undo"))
  BY DEF Check, At, UNCHANGEDuser
<1>1. UserTyped /\ CallsSound
  BY DEF UserSound
<1>2. Len(frames) \in DOMAIN frames /\ Top = frames[Len(frames)]
  BY <1>0, <1>1, TopIs
<1>3. Placement(Top)
  BY <1>1, <1>2 DEF CallsSound
<1>4. ~Changed(Top) /\ Chosen(Top)
  BY <1>0, <1>3 DEF Placement, Changed, Chosen
<1>5. CASE Goto("deps")
  <2>1. PICK g \in Calls :
          /\ frames' = [frames EXCEPT ![Len(frames)] = g]
          /\ g.name = Top.name /\ g.moved = Top.moved /\ g.placed = Top.placed /\ g.backup = Top.backup
          /\ g.old = Top.old /\ g.remote = Top.remote /\ g.dep = Top.dep /\ g.arch = Top.arch
          /\ g.pc = "deps"
    BY <1>0, <1>1, <1>5, GotoIs DEF Steps
  <2> QED BY <1>0, <1>4, <2>1, GoesOn
<1> QED BY <1>0, <1>5, GivesUp

LEMMA StageKeeps == UserSound /\ Stage => UserSound'
<1> SUFFICES ASSUME UserSound, Stage PROVE UserSound'
  OBVIOUS
<1>0. frames # <<>> /\ Top.pc = "stage" /\ UNCHANGED <<trusted, op, db, dest, backups, torn, stuck, crashed>>
      /\ (Goto("old") \/ Goto("undo"))
  BY DEF Stage, At, UNCHANGEDuser, Fails
<1>1. UserTyped /\ CallsSound
  BY DEF UserSound
<1>2. Len(frames) \in DOMAIN frames /\ Top = frames[Len(frames)]
  BY <1>0, <1>1, TopIs
<1>3. Placement(Top) /\ CallSound(Top)
  BY <1>1, <1>2 DEF CallsSound
<1>4. ~Changed(Top) /\ Chosen(Top) /\ Top.dep > Len(Needs(Top))
  BY <1>0, <1>3 DEF Placement, CallSound, Changed, Chosen
<1>5. CASE Goto("old")
  <2>1. PICK g \in Calls :
          /\ frames' = [frames EXCEPT ![Len(frames)] = g]
          /\ g.name = Top.name /\ g.moved = Top.moved /\ g.placed = Top.placed /\ g.backup = Top.backup
          /\ g.old = Top.old /\ g.remote = Top.remote /\ g.dep = Top.dep /\ g.arch = Top.arch
          /\ g.pc = "old"
    BY <1>0, <1>1, <1>5, GotoIs DEF Steps
  <2> QED BY <1>0, <1>4, <2>1, GoesOn
<1> QED BY <1>0, <1>5, GivesUp

(* A call that has just begun. *)
LEMMA FrameFresh ==
    ASSUME NEW name \in Packages, NEW force \in BOOLEAN
    PROVE  /\ Frame(name, force) \in Calls /\ Frame(name, force).name = name
           /\ ~Changed(Frame(name, force)) /\ ~Working(Frame(name, force))
           /\ CallSound(Frame(name, force)) /\ Placement(Frame(name, force))
<1>. PICK f : f = Frame(name, force)
  OBVIOUS
<1>1. NoPackage \in Records /\ NoDir \in Dirs /\ NoRemote \in Remotes
  BY UralAssumption DEF NoPackage, NoDir, Records, Dirs, NoRemote, Remotes, ServerSet
<1>2. /\ f.name = name /\ f.pc = "enter" /\ f.dep = 1 /\ f.moved = FALSE /\ f.placed = FALSE
      /\ f.old = NoPackage /\ f.remote = NoRemote /\ f.backup = NoDir
  BY DEF Frame
<1>3. f \in Calls
  <2> HIDE DEF Records, Dirs, NoPackage, NoDir, NoRemote
  <2>1. f = [name |-> name, force |-> force, pc |-> "enter", old |-> NoPackage,
             remote |-> NoRemote, meta |-> 0, arch |-> 0, dep |-> 1, backup |-> NoDir,
             moved |-> FALSE, placed |-> FALSE]
    BY DEF Frame
  <2> QED BY <1>1, <2>1 DEF Calls, Steps, Remotes
<1>4. ~Changed(f) /\ ~Working(f)
  BY <1>2 DEF Changed, Working
<1>5. CallSound(f) /\ Placement(f)
  BY <1>2, <1>4 DEF CallSound, Placement, Chosen, Changed
<1> QED BY <1>2, <1>3, <1>4, <1>5

LEMMA OneAppended ==
    ASSUME NEW S, NEW s \in Seq(S), NEW e \in S
    PROVE  /\ Append(s, e) \in Seq(S) /\ Len(Append(s, e)) = Len(s) + 1
           /\ DOMAIN Append(s, e) = 1..(Len(s) + 1) /\ Append(s, e) # <<>>
           /\ \A i \in 1..Len(s) : Append(s, e)[i] = s[i]
           /\ Append(s, e)[Len(s) + 1] = e
OBVIOUS

LEMMA DependenciesKeeps == UserSound /\ Dependencies => UserSound'
<1> SUFFICES ASSUME UserSound, Dependencies PROVE UserSound'
  OBVIOUS
<1>0. frames # <<>> /\ Top.pc = "deps" /\ UNCHANGED <<trusted, op, db, dest, backups, torn, stuck, crashed>>
  BY DEF Dependencies, At, UNCHANGEDuser
<1>1. UserTyped /\ CallsSound
  BY DEF UserSound
<1>2. Len(frames) \in DOMAIN frames /\ Top = frames[Len(frames)] /\ Top \in Calls
      /\ Len(frames) \in Nat \ {0} /\ DOMAIN frames = 1..Len(frames) /\ frames \in Seq(Calls)
  BY <1>0, <1>1, TopIs DEF UserTyped
<1>3. Placement(Top) /\ CallSound(Top)
  BY <1>1, <1>2 DEF CallsSound
<1>4. ~Changed(Top) /\ Chosen(Top)
  BY <1>0, <1>3 DEF Placement, Changed, Chosen
<1>5. CASE Top.dep > Len(Needs(Top))
  <2>0. Goto("stage")
    BY <1>5 DEF Dependencies, Needs
  <2>1. PICK g \in Calls :
          /\ frames' = [frames EXCEPT ![Len(frames)] = g]
          /\ g.name = Top.name /\ g.moved = Top.moved /\ g.placed = Top.placed /\ g.backup = Top.backup
          /\ g.old = Top.old /\ g.remote = Top.remote /\ g.dep = Top.dep /\ g.arch = Top.arch
          /\ g.pc = "stage"
    BY <1>0, <1>1, <2>0, GotoIs DEF Steps
  <2> QED BY <1>0, <1>4, <1>5, <2>1, GoesOn
<1>6. CASE ~(Top.dep > Len(Needs(Top)))
  <2>a. PICK f : f = Frame(Needs(Top)[Top.dep], FALSE)
    OBVIOUS
  <2>b. PICK n : n = Len(frames)
    OBVIOUS
  <2>1. frames' = Append(frames, f)
    BY <1>6, <2>a DEF Dependencies, Needs
  <2>2. Top.dep \in DOMAIN Needs(Top) /\ Needs(Top)[Top.dep] \in Packages
    <3>1. Needs(Top) \in Seq(Packages) /\ \A i \in DOMAIN Needs(Top) : Needs(Top)[i] \in Packages
      BY <1>2, <1>3, <1>4, NeedsTyped DEF CallSound
    <3>2. Top.dep \in Nat \ {0}
      BY <1>2 DEF Calls
    <3> QED BY <1>6, <3>1, <3>2
  <2>3. /\ f \in Calls /\ f.name = Needs(Top)[Top.dep]
        /\ ~Changed(f) /\ ~Working(f) /\ CallSound(f) /\ Placement(f)
    BY <2>2, <2>a, FrameFresh
  <2>4. n \in Nat \ {0} /\ DOMAIN frames = 1..n /\ Top = frames[n]
    BY <1>2, <2>b
  <2>5. /\ frames' \in Seq(Calls) /\ Len(frames') = n + 1 /\ DOMAIN frames' = 1..(n + 1) /\ frames' # <<>>
        /\ \A i \in 1..n : frames'[i] = frames[i]
        /\ frames'[n + 1] = f
    <3> HIDE DEF Calls
    <3> QED BY <1>2, <2>1, <2>3, <2>b, OneAppended
  <2>6. Top' = f
    BY <2>5 DEF Top, Last
  <2>7. ASSUME NEW i \in 1..(n + 1) PROVE CallSound(frames[i])' /\ Placement(frames[i])'
    <3>1. CASE i = n + 1
      BY <1>0, <2>3, <2>5, <3>1 DEF CallSound, Placement
    <3>2. CASE i # n + 1
      <4>1. i \in 1..n
        BY <2>4, <3>2
      <4>2. frames'[i] = frames[i] /\ CallSound(frames[i]) /\ Placement(frames[i])
        BY <1>1, <2>4, <2>5, <4>1 DEF CallsSound
      <4> QED BY <1>0, <4>2 DEF CallSound, Placement
    <3> QED BY <3>1, <3>2
  <2>8. ASSUME NEW i \in 1..(n + 1), i < n + 1 PROVE Waiting(frames[i], frames[i + 1])'
    <3>1. i \in 1..n
      BY <2>4, <2>8
    <3>2. CASE i = n
      <4>1. frames'[i] = Top /\ frames'[i + 1] = f
        BY <2>4, <2>5, <3>1, <3>2
      <4>2. Waiting(Top, f)
        BY <1>0, <2>2, <2>3 DEF Waiting
      <4> QED BY <4>1, <4>2 DEF Waiting, Needs
    <3>3. CASE i # n
      <4>1. i + 1 \in 1..n
        BY <2>4, <3>1, <3>3
      <4>2. frames'[i] = frames[i] /\ frames'[i + 1] = frames[i + 1]
        BY <2>5, <3>1, <4>1
      <4>3. Waiting(frames[i], frames[i + 1])
        <5>1. i \in DOMAIN frames /\ i < n
          BY <2>4, <3>1, <3>3
        <5>2. i < Len(frames)
          BY <2>b, <5>1
        <5> QED BY <1>1, <5>1, <5>2 DEF CallsSound
      <4> QED BY <4>2, <4>3 DEF Waiting, Needs
    <3> QED BY <3>2, <3>3
  <2>9. ASSUME NEW i \in 1..(n + 1), NEW j \in 1..(n + 1), i < j, Working(frames'[j])
        PROVE  frames'[i].name # frames'[j].name
    <3>1. j # n + 1
      BY <2>3, <2>5, <2>9
    <3>2. j \in 1..n /\ i \in 1..n
      BY <2>4, <2>9, <3>1
    <3>3. frames'[i] = frames[i] /\ frames'[j] = frames[j]
      BY <2>5, <3>2
    <3> QED BY <1>1, <2>4, <2>9, <3>2, <3>3 DEF CallsSound
  <2>10. CallsSound'
    <3>1. \A i \in DOMAIN frames' : (CallSound(frames[i]) /\ Placement(frames[i]))'
      BY <2>5, <2>7
    <3>2. \A i \in DOMAIN frames' : i < Len(frames') => Waiting(frames[i], frames[i + 1])'
      BY <2>5, <2>8
    <3>3. \A i, j \in DOMAIN frames' : i < j /\ Working(frames'[j]) => frames'[i].name # frames'[j].name
      BY <2>5, <2>9
    <3> QED BY <3>1, <3>2, <3>3 DEF CallsSound, Working, Changed
  <2>11. UserTyped'
    <3>1. op.k # "idle" /\ op.k # "uninstall"
      BY <1>0, <1>1 DEF UserTyped
    <3> QED BY <1>0, <1>1, <2>5, <3>1 DEF UserTyped
  <2>12. \A p \in Packages : Settled(p)' = Settled(p)
    <3>1. ~Changed(Top')
      BY <2>3, <2>6
    <3> QED BY <1>0, <1>4, <3>1 DEF Settled, Changed
  <2>13. Tidy' /\ RecordsSound' /\ NothingLost'
    BY <1>0, <2>12, TidyKept, NothingMoved DEF UserSound
  <2> QED BY <2>10, <2>11, <2>13 DEF UserSound
<1> QED BY <1>5, <1>6

LEMMA MoveOldKeeps == UserSound /\ MoveOld => UserSound'
<1> SUFFICES ASSUME UserSound, MoveOld PROVE UserSound'
  OBVIOUS
<1>. PICK p : p = Top.name
  OBVIOUS
<1>0. frames # <<>> /\ Top.pc = "old" /\ UNCHANGED <<trusted, op, db, torn, stuck, crashed>>
  BY DEF MoveOld, At, UNCHANGEDuser
<1>1. UserTyped /\ CallsSound
  BY DEF UserSound
<1>2. Len(frames) \in DOMAIN frames /\ Top = frames[Len(frames)] /\ Top \in Calls
  BY <1>0, <1>1, TopIs
<1>3. Placement(Top) /\ CallSound(Top) /\ p \in Packages
  BY <1>1, <1>2 DEF CallsSound, Calls
<1>4. ~Changed(Top) /\ Chosen(Top) /\ Working(Top)
  BY <1>0, <1>3 DEF Placement, Changed, Chosen, Working
<1>5. CASE Goto("undo") /\ UNCHANGED <<dest, backups>>
  BY <1>0, <1>5, GivesUp
<1>6. CASE Goto("new") /\ UNCHANGED <<dest, backups>> /\ Top.old.v = 0 /\ dest[p] = NoDir
  <2>1. PICK g \in Calls :
          /\ frames' = [frames EXCEPT ![Len(frames)] = g]
          /\ g.name = Top.name /\ g.moved = Top.moved /\ g.placed = Top.placed /\ g.backup = Top.backup
          /\ g.old = Top.old /\ g.remote = Top.remote /\ g.dep = Top.dep /\ g.arch = Top.arch
          /\ g.pc = "new"
    BY <1>0, <1>1, <1>6, GotoIs DEF Steps
  <2>2. Top.dep > Len(Needs(Top))
    BY <1>0, <1>3 DEF CallSound
  <2> QED BY <1>0, <1>4, <1>6, <2>1, <2>2, GoesOn
<1>7. CASE /\ Top.old.v # 0 /\ dest[p] # NoDir
           /\ backups' = backups \cup {[p |-> p, dir |-> dest[p]]}
           /\ dest' = [dest EXCEPT ![p] = NoDir]
           /\ frames' = [frames EXCEPT ![Len(frames)].pc = "new", ![Len(frames)].moved = TRUE,
                                       ![Len(frames)].backup = dest[p]]
  <2>. PICK g : g = [Top EXCEPT !.pc = "new", !.moved = TRUE, !.backup = dest[p]]
    OBVIOUS
  <2>1. frames' = [frames EXCEPT ![Len(frames)] = g]
    BY <1>2, <1>7
  <2>2. dest[p] \in Dirs /\ NoDir \in Dirs
    BY <1>1, <1>3 DEF UserTyped, NoDir, Dirs
  <2>3. /\ g \in Calls /\ g.name = p /\ g.moved = TRUE /\ g.placed = Top.placed /\ g.backup = dest[p]
        /\ g.old = Top.old /\ g.remote = Top.remote /\ g.dep = Top.dep /\ g.pc = "new"
    <3> HIDE DEF Dirs
    <3> QED BY <1>2, <2>2 DEF Calls, Steps
  <2>4. dest'[p] = NoDir /\ dest' \in [Packages -> Dirs] /\ \A q \in Packages : q # p => dest'[q] = dest[q]
    <3> HIDE DEF Dirs
    <3> QED BY <1>1, <1>3, <1>7, <2>2 DEF UserTyped
  <2>5. Chosen(g) /\ Working(g) /\ Needs(g) = Needs(Top)
    BY <2>3 DEF Chosen, Working, Needs
  <2>6. CallSound(g)'
    BY <1>0, <1>3, <1>4, <2>3, <2>5 DEF CallSound, Chosen, Working, Changed, Needs
  <2>7. Placement(g)'
    BY <1>4, <1>7, <2>3, <2>4 DEF Placement, Changed
  <2>8. frames' \in Seq(Calls) /\ frames' # <<>> /\ Top' = g /\ CallsSound'
    BY <1>0, <1>1, <1>4, <2>1, <2>3, <2>6, <2>7, TopStep
  <2>9. backups' \subseteq [p : Packages, dir : Dirs]
    <3>1. backups \subseteq [p : Packages, dir : Dirs]
      BY <1>1 DEF UserTyped
    <3>2. [p |-> p, dir |-> dest[p]] \in [p : Packages, dir : Dirs]
      BY <1>3, <2>2
    <3> QED BY <1>7, <3>1, <3>2
  <2>10. UserTyped'
    BY <1>0, <1>1, <2>4, <2>8, <2>9 DEF UserTyped
  <2>11. \A q \in Packages : Settled(q)' = Settled(q)
    BY <1>0, <1>4, <2>3, <2>4, <2>8 DEF Settled, Changed
  <2>12. Tidy'
    BY <1>0, <2>11, TidyKept DEF UserSound
  <2>13. RecordsSound'
    BY <1>0 DEF UserSound, RecordsSound
  <2>14. NothingLost'
    <3> SUFFICES ASSUME NEW q \in Packages, db[q].v # 0, q \notin torn
                 PROVE  \/ Complete(q, dest'[q])
                        \/ \E b \in backups' : b.p = q /\ Complete(q, b.dir)
      BY <1>0 DEF NothingLost, InBackups, Complete
    <3>1. CASE \E b \in backups : b.p = q /\ Complete(q, b.dir)
      BY <1>7, <3>1
    <3>2. CASE q = p /\ Complete(q, dest[q])
      <4>1. PICK b : b = [p |-> p, dir |-> dest[p]]
        OBVIOUS
      <4>2. b \in backups'
        BY <1>7, <4>1
      <4>3. b.p = q /\ b.dir = dest[q]
        BY <3>2, <4>1
      <4> QED BY <3>2, <4>2, <4>3
    <3>3. CASE q # p /\ Complete(q, dest[q])
      BY <2>4, <3>3
    <3> QED BY <3>1, <3>2, <3>3 DEF UserSound, NothingLost, InBackups
  <2> QED BY <2>8, <2>10, <2>12, <2>13, <2>14 DEF UserSound
<1> QED BY <1>5, <1>6, <1>7 DEF MoveOld, Fails

LEMMA EntriesNamed ==
    ASSUME NEW p \in Packages, NEW v \in Versions
    PROVE  FilesOf(p, v) \subseteq Entries(p, v) /\ Entries(p, v) \subseteq Names
<1>1. Entries(p, v) \in {FilesOf(q, w) \cup DirsOf(q, w) : q \in Packages, w \in Versions}
  BY DEF Entries
<1>2. Entries(p, v) \subseteq Members
  BY <1>1 DEF Members
<1>3. Entries(p, v) \subseteq Names
  BY <1>2 DEF Names
<1>4. FilesOf(p, v) \subseteq Entries(p, v)
  BY DEF Entries
<1> QED BY <1>3, <1>4

LEMMA MoveNewKeeps == UserSound /\ MoveNew => UserSound'
<1> SUFFICES ASSUME UserSound, MoveNew PROVE UserSound'
  OBVIOUS
<1>. PICK p : p = Top.name
  OBVIOUS
<1>0. frames # <<>> /\ Top.pc = "new" /\ UNCHANGED <<trusted, op, db, backups, torn, stuck, crashed>>
  BY DEF MoveNew, At, UNCHANGEDuser
<1>1. UserTyped /\ CallsSound
  BY DEF UserSound
<1>2. Len(frames) \in DOMAIN frames /\ Top = frames[Len(frames)] /\ Top \in Calls
  BY <1>0, <1>1, TopIs
<1>3. Placement(Top) /\ CallSound(Top) /\ p \in Packages
  BY <1>1, <1>2 DEF CallsSound, Calls
<1>4. Chosen(Top) /\ Working(Top) /\ ~Top.placed /\ dest[p] = NoDir /\ (Top.old.v # 0 => Top.moved)
      /\ Top.old = db[p] /\ Top.remote.v \in Versions
  BY <1>0, <1>3 DEF Placement, Chosen, Working, CallSound
<1>5. CASE Goto("undo") /\ UNCHANGED dest
  BY <1>0, <1>5, GivesUp
<1>6. CASE /\ dest' = [dest EXCEPT ![p] = Whole(p, Top.remote.v, Top.arch)]
           /\ frames' = [frames EXCEPT ![Len(frames)].pc = "commit", ![Len(frames)].placed = TRUE]
  <2>a. PICK g : g = [Top EXCEPT !.pc = "commit", !.placed = TRUE]
    OBVIOUS
  <2>b. PICK whole : whole = Whole(p, Top.remote.v, Top.arch)
    OBVIOUS
  <2>1. frames' = [frames EXCEPT ![Len(frames)] = g]
    BY <1>2, <1>6, <2>a
  <2>2. whole \in Dirs /\ whole.v = Top.remote.v
    <3>1. Entries(p, Top.remote.v) \subseteq Names
      BY <1>3, <1>4, EntriesNamed
    <3>2. Top.arch \in Nat
      BY <1>2 DEF Calls
    <3> QED BY <1>4, <2>b, <3>1, <3>2 DEF Whole, Dirs
  <2>3. /\ g \in Calls /\ g.name = p /\ g.moved = Top.moved /\ g.placed = TRUE /\ g.backup = Top.backup
        /\ g.old = Top.old /\ g.remote = Top.remote /\ g.dep = Top.dep /\ g.pc = "commit" /\ g.arch = Top.arch
    BY <1>2, <2>a DEF Calls, Steps
  <2>4. dest'[p] = whole /\ dest' \in [Packages -> Dirs] /\ \A q \in Packages : q # p => dest'[q] = dest[q]
    <3> HIDE DEF Dirs
    <3> QED BY <1>1, <1>3, <1>6, <2>2, <2>b DEF UserTyped
  <2>5. Needs(g) = Needs(Top)
    BY <2>3 DEF Needs
  <2>6. CallSound(g)'
    BY <1>0, <1>3, <1>4, <2>3, <2>5 DEF CallSound, Chosen, Working, Changed, Needs
  <2>7. Placement(g)'
    BY <1>0, <1>3, <1>4, <2>2, <2>3, <2>4, <2>b DEF Placement
  <2>8. frames' \in Seq(Calls) /\ frames' # <<>> /\ Top' = g /\ CallsSound'
    BY <1>0, <1>1, <1>4, <2>1, <2>3, <2>6, <2>7, TopStep
  <2>10. UserTyped'
    BY <1>0, <1>1, <2>4, <2>8 DEF UserTyped
  <2>11. \A q \in Packages : Settled(q)' = Settled(q)
    BY <1>0, <1>4, <2>3, <2>4, <2>8 DEF Settled
  <2>12. Tidy'
    BY <1>0, <2>11, TidyKept DEF UserSound
  <2>13. RecordsSound'
    BY <1>0 DEF UserSound, RecordsSound
  <2>14. NothingLost'
    <3> SUFFICES ASSUME NEW q \in Packages, db[q].v # 0, q \notin torn
                 PROVE  \/ Complete(q, dest'[q])
                        \/ \E b \in backups : b.p = q /\ Complete(q, b.dir)
      BY <1>0 DEF NothingLost, InBackups, Complete
    <3>1. q = p => ~Complete(q, dest[q])
      BY <1>4 DEF Complete, NoDir
    <3> QED BY <2>4, <3>1 DEF UserSound, NothingLost, InBackups
  <2> QED BY <2>8, <2>10, <2>12, <2>13, <2>14 DEF UserSound
<1> QED BY <1>5, <1>6 DEF MoveNew, Fails

(* What a call that commits has before it.                                 *)
LEMMA AtCommit ==
    ASSUME UserSound, At("commit")
    PROVE  /\ Top \in Calls /\ Top.name \in Packages /\ Top.remote.v \in Versions
           /\ Top.remote.v # 0 /\ Top.arch \in Nat /\ Working(Top)
           /\ dest[Top.name] = Whole(Top.name, Top.remote.v, Top.arch)
           /\ \A i \in DOMAIN Needs(Top) : db[Needs(Top)[i]].v # 0 /\ Needs(Top)[i] \in Packages
<1>0. frames # <<>> /\ Top.pc = "commit" /\ UserTyped /\ CallsSound
  BY DEF At, UserSound
<1>1. Len(frames) \in DOMAIN frames /\ Top = frames[Len(frames)] /\ Top \in Calls
  BY <1>0, TopIs
<1>2. Placement(Top) /\ CallSound(Top) /\ Working(Top) /\ Chosen(Top)
  BY <1>0, <1>1 DEF CallsSound, Working, Chosen
<1>3. Top.name \in Packages /\ Top.remote.v \in Versions /\ Top.arch \in Nat /\ Top.dep \in Nat
  BY <1>1, <1>2 DEF Calls, CallSound
<1>4. Top.remote.v # 0
  BY <1>3, UralAssumption
<1>5. Needs(Top) \in Seq(Packages) /\ \A i \in DOMAIN Needs(Top) : Needs(Top)[i] \in Packages
  BY <1>1, <1>3, NeedsTyped
<1>6. \A i \in DOMAIN Needs(Top) : i < Top.dep
  <2>1. Top.dep > Len(Needs(Top))
    BY <1>0, <1>2 DEF CallSound
  <2> QED BY <1>3, <1>5, <2>1
<1>7. dest[Top.name] = Whole(Top.name, Top.remote.v, Top.arch)
  BY <1>0, <1>2 DEF Placement
<1> QED BY <1>1, <1>2, <1>3, <1>4, <1>5, <1>6, <1>7 DEF CallSound

LEMMA CommitKeeps == UserSound /\ Commit => UserSound'
<1> SUFFICES ASSUME UserSound, Commit PROVE UserSound'
  OBVIOUS
<1>a. PICK p : p = Top.name
  OBVIOUS
<1>b. PICK v : v = Top.remote.v
  OBVIOUS
<1>c. PICK r : r = [v |-> v, rev |-> Top.arch, files |-> FilesOf(p, v)]
  OBVIOUS
<1>0. frames # <<>> /\ UNCHANGED <<trusted, dest, backups, crashed>> /\ At("commit")
  BY DEF Commit, At, UNCHANGEDuser
<1>1. UserTyped /\ CallsSound
  BY DEF UserSound
<1>2. /\ p \in Packages /\ v \in Versions /\ v # 0 /\ Top.arch \in Nat /\ Working(Top)
      /\ dest[p] = Whole(p, v, Top.arch)
  BY <1>0, <1>a, <1>b, AtCommit
<1>3. CASE Goto("undo") /\ UNCHANGED <<db, torn, stuck, op>>
  BY <1>0, <1>3, GivesUp
<1>4. CASE /\ db' = [db EXCEPT ![p] = r] /\ torn' = torn \ {p} /\ stuck' = stuck \ {p}
           /\ Return(TRUE)
  <2>1. r \in Records /\ r.v = v /\ r.rev = Top.arch /\ r.files = FilesOf(p, v)
    <3>1. FilesOf(p, v) \subseteq Names
      BY <1>2, EntriesNamed
    <3> QED BY <1>2, <1>c, <3>1 DEF Records
  <2>2. db'[p] = r /\ db' \in [Packages -> Records] /\ \A q \in Packages : q # p => db'[q] = db[q]
    <3>1. db \in [Packages -> Records]
      BY <1>1 DEF UserTyped
    <3> HIDE DEF Records
    <3> QED BY <1>2, <1>4, <2>1, <3>1
  <2>3. \A q \in Packages : db[q].v # 0 => db'[q].v # 0
    BY <1>2, <2>1, <2>2
  <2>4. db'[Top.name].v # 0 /\ \A q \in Packages : q # Top.name => db'[q] = db[q]
    BY <1>2, <1>a, <2>1, <2>2
  <2>5. /\ frames' \in Seq(Calls)
        /\ op' \in [k : {"idle", "install", "update", "uninstall"}, p : Packages \cup {""}]
        /\ op'.k # "uninstall" /\ (op'.k = "idle" => frames' = <<>>)
        /\ CallsSound'
        /\ frames' # <<>> => ~Changed(Top')
    BY <1>0, <1>1, <1>2, <1>4, <2>3, <2>4, ReturnSound
  <2>6. UserTyped'
    BY <1>0, <1>1, <1>4, <2>2, <2>5 DEF UserTyped
  <2>7. RecordsSound'
    BY <2>1, <2>2 DEF UserSound, RecordsSound
  <2>8. Complete(p, dest[p])' /\ dest[p].entries \subseteq Entries(p, v)
    <3>1. dest[p].v = v /\ dest[p].rev = Top.arch /\ dest[p].entries = Entries(p, v)
      BY <1>2 DEF Whole
    <3>2. FilesOf(p, v) \subseteq Entries(p, v)
      BY DEF Entries
    <3> QED BY <1>0, <2>1, <2>2, <3>1, <3>2 DEF Complete
  <2>9. NothingLost'
    <3> SUFFICES ASSUME NEW q \in Packages, db'[q].v # 0, q \notin torn'
                 PROVE  (Complete(q, dest[q]) \/ \E b \in backups : b.p = q /\ Complete(q, b.dir))'
      BY DEF NothingLost, InBackups
    <3>1. CASE q = p
      BY <2>8, <3>1
    <3>2. CASE q # p
      <4>1. db'[q] = db[q] /\ q \notin torn
        BY <1>4, <2>2, <3>2
      <4> QED BY <1>0, <4>1 DEF UserSound, NothingLost, InBackups, Complete
    <3> QED BY <3>1, <3>2
  <2>10. \A q \in Packages : Settled(q)' = dest[q]
    BY <1>0, <2>5 DEF Settled, Changed
  <2>11. \A q \in Packages : q # p => Settled(q) = dest[q]
    BY <1>a DEF Settled
  <2>12. Tidy'
    <3> SUFFICES ASSUME ~crashed, NEW q \in Packages \ stuck'
                 PROVE  /\ db'[q].v # 0 /\ q \notin torn' => Complete(q, dest[q])'
                        /\ db'[q].v # 0 => dest[q].entries \subseteq Entries(q, db'[q].v) \cup {"data"}
                        /\ db'[q].v = 0 => \A w \in Versions : dest[q].entries \cap FilesOf(q, w) = {}
      <4>1. \A q \in Packages : Complete(q, dest[q])' <=> Complete(q, Settled(q))'
        BY <1>0, <2>10 DEF Complete
      <4> QED BY <1>0, <2>10, <4>1 DEF Tidy
    <3>1. CASE q = p
      BY <1>2, <2>1, <2>2, <2>8, <3>1
    <3>2. CASE q # p
      <4>1. db'[q] = db[q] /\ Settled(q) = dest[q] /\ (q \notin torn' => q \notin torn) /\ q \notin stuck
        BY <1>4, <2>2, <2>11, <3>2
      <4>2. Complete(q, dest[q]) => Complete(q, dest[q])'
        BY <1>0, <4>1 DEF Complete
      <4> QED BY <4>1, <4>2 DEF UserSound, Tidy
    <3> QED BY <3>1, <3>2
  <2> QED BY <2>5, <2>6, <2>7, <2>9, <2>12 DEF UserSound
<1> QED BY <1>3, <1>4, <1>a, <1>b, <1>c DEF Commit, Fails

LEMMA UndoKeeps == UserSound /\ Undo => UserSound'
<1> SUFFICES ASSUME UserSound, Undo PROVE UserSound'
  OBVIOUS
<1>a. PICK p : p = Top.name
  OBVIOUS
<1>0. frames # <<>> /\ Top.pc = "undo" /\ UNCHANGED <<trusted, db, torn, stuck, crashed>>
  BY DEF Undo, At, UNCHANGEDuser
<1>1. UserTyped /\ CallsSound
  BY DEF UserSound
<1>2. Len(frames) \in DOMAIN frames /\ Top = frames[Len(frames)] /\ Top \in Calls /\ frames \in Seq(Calls)
  BY <1>0, <1>1, TopIs DEF UserTyped
<1>3. Placement(Top) /\ CallSound(Top) /\ p \in Packages /\ dest \in [Packages -> Dirs]
  BY <1>1, <1>2, <1>a DEF CallsSound, Calls, UserTyped
<1>4. RecordsSound'
  BY <1>0 DEF UserSound, RecordsSound
<1>5. Top.placed \/ Top.moved => Top.old = db[p] /\ Top.remote.v # db[p].v
  BY <1>3, <1>a DEF CallSound, Working, Chosen, Changed
<1>6. Top.placed => dest[p].v # db[p].v /\ (db[p].v # 0 => Top.moved)
  BY <1>3, <1>5, <1>a DEF Placement
<1>7. Top.moved => /\ db[p].v # 0 /\ [p |-> p, dir |-> Top.backup] \in backups
                   /\ dest[p].v # db[p].v
  BY <1>3, <1>5, <1>6, <1>a DEF Placement, NoDir
<1>8. CASE Top.placed /\ dest[p].entries # {}
  <2>1. PICK e \in dest[p].entries : dest' = [dest EXCEPT ![p].entries = @ \ {e}]
    BY <1>8, <1>a DEF Undo
  <2>2. UNCHANGED <<frames, op, backups>>
    BY <1>8, <1>a DEF Undo
  <2>3. /\ dest' \in [Packages -> Dirs] /\ dest'[p].v = dest[p].v
        /\ \A q \in Packages : q # p => dest'[q] = dest[q]
    BY <1>3, <2>1 DEF Dirs
  <2>4. frames' = [frames EXCEPT ![Len(frames)] = Top]
    BY <1>2, <2>2
  <2>5. CallSound(Top)' 
    BY <1>0, <1>3, <2>2 DEF CallSound, Top
  <2>6. Placement(Top)'
    BY <1>0, <1>3, <1>8, <1>a, <2>2, <2>3 DEF Placement, Top
  <2>t. Top' = Top
    BY <2>2 DEF Top
  <2>7. CallsSound'
    <3>1. PICK g \in Calls : g = Top
      BY <1>2
    <3>2. CallSound(g)' /\ Placement(g)'
      BY <2>5, <2>6, <2>t, <3>1 DEF CallSound, Placement
    <3> QED BY <1>0, <1>1, <2>4, <3>1, <3>2, TopStep
  <2>8. UserTyped'
    BY <1>0, <1>1, <2>2, <2>3 DEF UserTyped
  <2>9. \A q \in Packages : Settled(q)' = Settled(q)
    BY <1>0, <1>8, <1>a, <2>2, <2>3, <2>t DEF Settled
  <2>10. Tidy'
    BY <1>0, <2>9, TidyKept DEF UserSound
  <2>11. NothingLost'
    <3> SUFFICES ASSUME NEW q \in Packages, db[q].v # 0, q \notin torn
                 PROVE  \/ Complete(q, dest'[q])
                        \/ \E b \in backups : b.p = q /\ Complete(q, b.dir)
      BY <1>0, <2>2 DEF NothingLost, InBackups, Complete
    <3>1. q = p => ~Complete(q, dest[q])
      BY <1>6, <1>8 DEF Complete
    <3> QED BY <2>3, <3>1 DEF UserSound, NothingLost, InBackups
  <2> QED BY <1>4, <2>7, <2>8, <2>10, <2>11 DEF UserSound
<1>9. CASE ~(Top.placed /\ dest[p].entries # {})
  <2>1. /\ dest' = IF Top.moved THEN [dest EXCEPT ![p] = Top.backup]
                   ELSE IF Top.placed THEN [dest EXCEPT ![p] = NoDir] ELSE dest
        /\ backups' = IF Top.moved THEN backups \ {[p |-> p, dir |-> Top.backup]} ELSE backups
        /\ Return(FALSE)
    BY <1>9, <1>a DEF Undo
  <2>2. Top.backup \in Dirs /\ NoDir \in Dirs
    BY <1>2 DEF Calls, NoDir, Dirs
  <2>3. /\ dest' \in [Packages -> Dirs]
        /\ dest'[p] = IF Top.moved THEN Top.backup ELSE IF Top.placed THEN NoDir ELSE dest[p]
        /\ \A q \in Packages : q # p => dest'[q] = dest[q]
    <3> HIDE DEF Dirs
    <3> QED BY <1>3, <2>1, <2>2
  <2>4. backups' \subseteq backups /\ backups' \subseteq [p : Packages, dir : Dirs]
    <3>1. backups \subseteq [p : Packages, dir : Dirs]
      BY <1>1 DEF UserTyped
    <3> QED BY <2>1, <3>1
  <2>5. /\ frames' \in Seq(Calls)
        /\ op' \in [k : {"idle", "install", "update", "uninstall"}, p : Packages \cup {""}]
        /\ op'.k # "uninstall" /\ (op'.k = "idle" => frames' = <<>>)
        /\ CallsSound'
        /\ frames' # <<>> => ~Changed(Top')
    BY <1>0, <1>1, <2>1, ReturnSound
  <2>6. UserTyped'
    BY <1>0, <1>1, <2>3, <2>4, <2>5 DEF UserTyped
  <2>7. \A q \in Packages : Settled(q)' = dest'[q] /\ Settled(q) = dest'[q]
    <3>1. \A q \in Packages : Settled(q)' = dest'[q]
      BY <2>5 DEF Settled, Changed
    <3>2. \A q \in Packages : Settled(q) = dest'[q]
      BY <1>0, <1>a, <2>3 DEF Settled
    <3> QED BY <3>1, <3>2
  <2>8. Tidy'
    BY <1>0, <2>7, TidyKept DEF UserSound
  <2>9. NothingLost'
    <3> SUFFICES ASSUME NEW q \in Packages, db[q].v # 0, q \notin torn
                 PROVE  \/ Complete(q, dest'[q])
                        \/ \E b \in backups' : b.p = q /\ Complete(q, b.dir)
      BY <1>0 DEF NothingLost, InBackups, Complete
    <3>1. Complete(q, dest[q]) \/ \E b \in backups : b.p = q /\ Complete(q, b.dir)
      BY DEF UserSound, NothingLost, InBackups
    <3>2. CASE q # p
      <4>1. \A b \in backups : b.p = q => b \in backups'
        BY <2>1, <3>2
      <4> QED BY <2>3, <3>1, <3>2, <4>1
    <3>3. CASE q = p /\ Top.moved
      <4>1. ~Complete(q, dest[q])
        BY <1>7, <3>3 DEF Complete
      <4>2. PICK b \in backups : b.p = q /\ Complete(q, b.dir)
        BY <3>1, <4>1
      <4>3. CASE b = [p |-> p, dir |-> Top.backup]
        <5>1. b.dir = dest'[q]
          BY <2>3, <3>3, <4>3
        <5> QED BY <4>2, <5>1
      <4>4. CASE b # [p |-> p, dir |-> Top.backup]
        <5>1. b \in backups'
          BY <2>1, <4>4
        <5> QED BY <4>2, <5>1
      <4> QED BY <4>3, <4>4
    <3>4. CASE q = p /\ ~Top.moved
      <4>1. ~Top.placed
        BY <1>6, <3>4
      <4> QED BY <2>1, <3>1, <3>4, <4>1
    <3> QED BY <3>2, <3>3, <3>4
  <2> QED BY <1>4, <2>5, <2>6, <2>8, <2>9 DEF UserSound
<1> QED BY <1>8, <1>9

(* When the undo itself fails its package is left to NothingLost, and its  *)
(* files to the next install.                                              *)
LEMMA UndoFailsKeeps == UserSound /\ UndoFails => UserSound'
<1> SUFFICES ASSUME UserSound, UndoFails PROVE UserSound'
  OBVIOUS
<1>a. PICK p : p = Top.name
  OBVIOUS
<1>0. /\ frames # <<>> /\ Changed(Top) /\ Return(FALSE) /\ UNCHANGED <<trusted, db, backups, torn, crashed>>
      /\ stuck' = stuck \cup {p}
      /\ UNCHANGED dest \/ (Top.moved /\ dest[p].entries = {} /\ dest' = [dest EXCEPT ![p] = NoDir])
  BY <1>a DEF UndoFails, At, UNCHANGEDuser, Changed
<1>1. UserTyped /\ CallsSound
  BY DEF UserSound
<1>2. Len(frames) \in DOMAIN frames /\ Top = frames[Len(frames)] /\ Top \in Calls
  BY <1>0, <1>1, TopIs
<1>3. Placement(Top) /\ CallSound(Top) /\ p \in Packages /\ dest \in [Packages -> Dirs]
  BY <1>1, <1>2, <1>a DEF CallsSound, Calls, UserTyped
<1>4. RecordsSound'
  BY <1>0 DEF UserSound, RecordsSound
<1>5. Top.old = db[p] /\ Top.remote.v # db[p].v
  BY <1>0, <1>3, <1>a DEF CallSound, Working, Chosen
<1>6. Top.moved => db[p].v # 0 /\ dest[p].v # db[p].v
  BY <1>3, <1>5, <1>a DEF Placement, NoDir
<1>7. /\ dest' \in [Packages -> Dirs]
      /\ \A q \in Packages : q # p => dest'[q] = dest[q]
      /\ dest'[p] = dest[p] \/ Top.moved
  <2>1. NoDir \in Dirs
    BY DEF NoDir, Dirs
  <2> HIDE DEF Dirs, NoDir
  <2> QED BY <1>0, <1>3, <2>1
<1>8. /\ frames' \in Seq(Calls)
      /\ op' \in [k : {"idle", "install", "update", "uninstall"}, p : Packages \cup {""}]
      /\ op'.k # "uninstall" /\ (op'.k = "idle" => frames' = <<>>)
      /\ CallsSound'
      /\ frames' # <<>> => ~Changed(Top')
  BY <1>0, <1>1, ReturnSound
<1>9. UserTyped'
  BY <1>0, <1>1, <1>3, <1>7, <1>8 DEF UserTyped
<1>10. NothingLost'
  <2> SUFFICES ASSUME NEW q \in Packages, db[q].v # 0, q \notin torn
               PROVE  Complete(q, dest'[q]) \/ InBackups(q)
    BY <1>0 DEF NothingLost, InBackups, Complete
  <2>1. Complete(q, dest[q]) \/ InBackups(q)
    BY DEF UserSound, NothingLost
  <2>2. q = p /\ Top.moved => ~Complete(q, dest[q])
    BY <1>6 DEF Complete
  <2> QED BY <1>7, <2>1, <2>2
<1>11. Tidy'
  <2> SUFFICES ASSUME ~crashed, NEW q \in Packages \ stuck'
               PROVE  /\ db[q].v # 0 /\ q \notin torn => Complete(q, dest[q])
                      /\ db[q].v # 0 => dest[q].entries \subseteq Entries(q, db[q].v) \cup {"data"}
                      /\ db[q].v = 0 => \A v \in Versions : dest[q].entries \cap FilesOf(q, v) = {}
    <3>1. \A q \in Packages \ stuck' : Settled(q)' = dest[q]
      BY <1>0, <1>7, <1>8 DEF Settled, Changed
    <3>2. \A q \in Packages \ stuck' : Complete(q, dest[q]) => Complete(q, Settled(q))'
      BY <1>0, <3>1 DEF Complete
    <3> QED BY <1>0, <3>1, <3>2 DEF Tidy
  <2>1. q \notin stuck /\ Settled(q) = dest[q]
    BY <1>0, <1>a DEF Settled
  <2> QED BY <2>1 DEF UserSound, Tidy
<1> QED BY <1>4, <1>8, <1>9, <1>10, <1>11 DEF UserSound

-----------------------------------------------------------------------------
(* The user's commands *)

(* Between commands nothing is being moved. *)
LEMMA IdleRests ==
    ASSUME UserTyped, op.k \in {"idle", "uninstall"}
    PROVE  frames = <<>> /\ \A p : Settled(p) = dest[p]
BY DEF UserTyped, Settled

LEMMA ServerKeeps ==
    ASSUME UserSound, UNCHANGED <<db, dest, backups, frames, op, torn, stuck, crashed>>, trusted' \subseteq ServerSet
    PROVE  UserSound'
<1>1. UserTyped'
  BY DEF UserSound, UserTyped
<1>2. CallsSound'
  BY DEF UserSound, CallsSound, CallSound, Placement, Waiting, Working, Chosen, Changed, Needs
<1>3. Tidy'
  <2>1. \A p \in Packages : Settled(p)' = Settled(p)
    BY DEF Settled, Top
  <2> QED BY <2>1, TidyKept DEF UserSound
<1> QED BY <1>1, <1>2, <1>3, NothingMoved DEF UserSound

LEMMA InstallKeeps ==
    ASSUME UserSound, NEW p \in Packages, NEW force \in BOOLEAN, command_install(p, force)
    PROVE  UserSound'
<1>a. PICK f : f = Frame(p, force)
  OBVIOUS
<1>0. /\ op.k = "idle" /\ frames' = <<f>> /\ op' = [k |-> IF force THEN "update" ELSE "install", p |-> p]
      /\ UNCHANGED <<trusted, db, dest, backups, torn, stuck, crashed>>
  BY <1>a DEF command_install, Prompt
<1>1. f \in Calls /\ ~Changed(f) /\ ~Working(f) /\ CallSound(f) /\ Placement(f)
  BY <1>a, FrameFresh
<1>2. frames = <<>> /\ \A q : Settled(q) = dest[q]
  BY <1>0, IdleRests DEF UserSound
<1>3. frames' \in Seq(Calls) /\ Len(frames') = 1 /\ DOMAIN frames' = {1} /\ frames'[1] = f
  <2> HIDE DEF Calls
  <2> QED BY <1>0, <1>1
<1>4. Top' = f
  BY <1>3 DEF Top, Last
<1>5. UserTyped'
  BY <1>0, <1>3 DEF UserSound, UserTyped
<1>6. CallsSound'
  <2>1. (CallSound(frames[1]) /\ Placement(frames[1]))'
    BY <1>0, <1>1, <1>3 DEF CallSound, Placement
  <2> QED BY <1>3, <2>1 DEF CallsSound
<1>7. \A q \in Packages : Settled(q)' = Settled(q)
  BY <1>0, <1>1, <1>2, <1>4 DEF Settled, Changed
<1>8. Tidy' /\ RecordsSound' /\ NothingLost'
  BY <1>0, <1>7, TidyKept, NothingMoved DEF UserSound
<1> QED BY <1>5, <1>6, <1>8 DEF UserSound

LEMMA UninstallKeeps ==
    ASSUME UserSound, NEW p \in Packages, Uninstall(p)
    PROVE  UserSound'
<1>0. op.k = "idle" /\ op' = [k |-> "uninstall", p |-> p]
      /\ UNCHANGED <<trusted, db, dest, backups, frames, torn, stuck, crashed>>
  BY DEF Uninstall, Prompt
<1>2. frames = <<>> /\ frames' = <<>> /\ \A q : Settled(q) = dest[q]
  BY <1>0, IdleRests DEF UserSound
<1>5. UserTyped'
  BY <1>0, <1>2 DEF UserSound, UserTyped
<1>6. CallsSound'
  BY <1>2 DEF CallsSound
<1>7. \A q \in Packages : Settled(q)' = Settled(q)
  BY <1>0, <1>2 DEF Settled
<1> QED BY <1>0, <1>5, <1>6, <1>7, TidyKept, NothingMoved DEF UserSound

LEMMA RemoveKeeps == UserSound /\ remove_recorded_package => UserSound'
<1> SUFFICES ASSUME UserSound, remove_recorded_package PROVE UserSound'
  OBVIOUS
<1>a. PICK p : p = op.p
  OBVIOUS
<1>0. op.k = "uninstall" /\ UNCHANGED <<trusted, backups, frames, crashed>>
  BY DEF remove_recorded_package
<1>1. frames = <<>> /\ frames' = <<>> /\ \A q : Settled(q) = dest[q]
  BY <1>0, IdleRests DEF UserSound
<1>2. CallsSound' /\ \A q : Settled(q)' = dest'[q]
  BY <1>1 DEF CallsSound, Settled
<1>3. p \in Packages /\ db \in [Packages -> Records] /\ dest \in [Packages -> Dirs]
      /\ torn \subseteq Packages /\ stuck \subseteq Packages
  BY <1>0, <1>a DEF UserSound, UserTyped
<1>t. ~crashed => \A q \in Packages \ stuck :
        /\ db[q].v # 0 /\ q \notin torn => Complete(q, dest[q])
        /\ db[q].v # 0 => dest[q].entries \subseteq Entries(q, db[q].v) \cup {"data"}
        /\ db[q].v = 0 => \A v \in Versions : dest[q].entries \cap FilesOf(q, v) = {}
  BY <1>1 DEF UserSound, Tidy
<1>n. \A q \in Packages : db[q].v # 0 /\ q \notin torn =>
         Complete(q, dest[q]) \/ \E b \in backups : b.p = q /\ Complete(q, b.dir)
  BY DEF UserSound, NothingLost, InBackups
<1>4. ASSUME NEW f \in dest[p].entries, dest' = [dest EXCEPT ![p].entries = @ \ {f}],
             torn' = torn \cup {p}, UNCHANGED <<db, op, stuck>>
      PROVE  UserSound'
  <2>1. /\ dest' \in [Packages -> Dirs] /\ dest'[p].entries \subseteq dest[p].entries
        /\ \A q \in Packages : q # p => dest'[q] = dest[q]
    BY <1>3, <1>4 DEF Dirs
  <2>2. UserTyped'
    BY <1>0, <1>3, <1>4, <2>1 DEF UserSound, UserTyped
  <2>3. RecordsSound'
    BY <1>4 DEF UserSound, RecordsSound
  <2>4. NothingLost'
    BY <1>0, <1>4, <1>n, <2>1 DEF NothingLost, InBackups, Complete
  <2>5. Tidy'
    BY <1>0, <1>2, <1>4, <1>t, <2>1 DEF Tidy, Complete
  <2> QED BY <1>2, <2>2, <2>3, <2>4, <2>5 DEF UserSound
<1>5. ASSUME dest[p].entries \cap db[p].files = {},
             db' = [db EXCEPT ![p] = NoPackage],
             UNCHANGED dest \/ (dest[p].entries = {} /\ dest' = [dest EXCEPT ![p] = NoDir]),
             stuck' = IF dest[p].entries = {} THEN stuck \ {p} ELSE stuck,
             torn' = torn \ {p}, op' = [k |-> "idle", p |-> ""]
      PROVE  UserSound'
  <2>1. NoPackage \in Records /\ NoDir \in Dirs /\ NoPackage.v = 0
    BY DEF NoPackage, NoDir, Records, Dirs
  <2>2. db' \in [Packages -> Records] /\ db'[p].v = 0 /\ \A q \in Packages : q # p => db'[q] = db[q]
    <3> HIDE DEF Records, NoPackage
    <3> QED BY <1>3, <1>5, <2>1
  <2>3. /\ dest' \in [Packages -> Dirs] /\ dest'[p].entries = dest[p].entries
        /\ \A q \in Packages : q # p => dest'[q] = dest[q]
    <3>1. dest' \in [Packages -> Dirs] /\ \A q \in Packages : q # p => dest'[q] = dest[q]
      <4> HIDE DEF Dirs, NoDir
      <4> QED BY <1>3, <1>5, <2>1
    <3>2. dest'[p].entries = dest[p].entries
      <4>1. CASE UNCHANGED dest
        BY <4>1
      <4>2. CASE dest[p].entries = {} /\ dest' = [dest EXCEPT ![p] = NoDir]
        BY <1>3, <4>2 DEF NoDir
      <4> QED BY <1>5, <4>1, <4>2
    <3> QED BY <3>1, <3>2
  <2>4. UserTyped'
    BY <1>0, <1>1, <1>3, <1>5, <2>2, <2>3 DEF UserSound, UserTyped
  <2>5. RecordsSound'
    BY <2>2 DEF UserSound, RecordsSound
  <2>6. NothingLost'
    <3>1. \A q \in Packages : db'[q].v # 0 /\ q \notin torn' =>
             q # p /\ db'[q] = db[q] /\ dest'[q] = dest[q] /\ q \notin torn
      BY <1>5, <2>2, <2>3
    <3> QED BY <1>0, <1>n, <3>1 DEF NothingLost, InBackups, Complete
  <2>7. ASSUME ~crashed, p \notin stuck', NEW v \in Versions PROVE dest[p].entries \cap FilesOf(p, v) = {}
    <3>0. CASE dest[p].entries = {}
      BY <3>0
    <3>1. CASE dest[p].entries # {} /\ db[p].v = 0
      BY <1>3, <1>5, <1>t, <2>7, <3>1
    <3>2. CASE dest[p].entries # {} /\ db[p].v # 0
      <4>1. db[p].files = FilesOf(p, db[p].v) /\ db[p].v \in Versions
        BY <1>3, <3>2 DEF UserSound, RecordsSound, Records
      <4>2. dest[p].entries \subseteq DirsOf(p, db[p].v) \cup {"data"}
        <5>1. dest[p].entries \subseteq Entries(p, db[p].v) \cup {"data"}
          BY <1>3, <1>5, <1>t, <2>7, <3>2
        <5>2. dest[p].entries \cap FilesOf(p, db[p].v) = {}
          BY <1>5, <4>1
        <5> QED BY <5>1, <5>2 DEF Entries
      <4>3. "data" \notin FilesOf(p, v) /\ FilesOf(p, v) \cap DirsOf(p, db[p].v) = {}
        BY <1>3, <4>1, UralAssumption
      <4> QED BY <4>2, <4>3
    <3> QED BY <3>0, <3>1, <3>2
  <2>8. Tidy'
    <3> SUFFICES ASSUME ~crashed, NEW q \in Packages \ stuck'
                 PROVE  /\ db'[q].v # 0 /\ q \notin torn' => Complete(q, dest[q])'
                        /\ db'[q].v # 0 => dest'[q].entries \subseteq Entries(q, db'[q].v) \cup {"data"}
                        /\ db'[q].v = 0 => \A v \in Versions : dest'[q].entries \cap FilesOf(q, v) = {}
      <4>1. \A q \in Packages : Complete(q, dest[q])' <=> Complete(q, Settled(q))'
        BY <1>2 DEF Complete
      <4> QED BY <1>0, <1>2, <4>1 DEF Tidy
    <3>1. CASE q = p
      BY <2>2, <2>3, <2>7, <3>1
    <3>2. CASE q # p
      <4>1. db'[q] = db[q] /\ dest'[q] = dest[q] /\ (q \notin torn' => q \notin torn) /\ q \notin stuck
        BY <1>5, <2>2, <2>3, <3>2
      <4>2. Complete(q, dest[q]) => Complete(q, dest[q])'
        BY <4>1 DEF Complete
      <4> QED BY <1>t, <4>1, <4>2
    <3> QED BY <3>1, <3>2
  <2> QED BY <1>2, <2>4, <2>5, <2>6, <2>8 DEF UserSound
<1>6. ASSUME op' = [k |-> "idle", p |-> ""], UNCHANGED <<db, dest, torn, stuck>> PROVE UserSound'
  <2>1. UserTyped'
    BY <1>0, <1>1, <1>6 DEF UserSound, UserTyped
  <2>2. \A q \in Packages : Settled(q)' = Settled(q)
    BY <1>1, <1>2, <1>6
  <2> QED BY <1>0, <1>2, <1>6, <2>1, <2>2, TidyKept, NothingMoved DEF UserSound
<1>7. CASE \E f \in dest[p].entries \cap db[p].files :
             /\ dest' = [dest EXCEPT ![p].entries = @ \ {f}] /\ torn' = torn \cup {p} /\ UNCHANGED <<db, op, stuck>>
  BY <1>4, <1>7
<1>8. \/ /\ dest[p].entries \cap db[p].files = {}
         /\ db' = [db EXCEPT ![p] = NoPackage]
         /\ UNCHANGED dest \/ (dest[p].entries = {} /\ dest' = [dest EXCEPT ![p] = NoDir])
         /\ stuck' = IF dest[p].entries = {} THEN stuck \ {p} ELSE stuck
         /\ torn' = torn \ {p} /\ op' = [k |-> "idle", p |-> ""]
      \/ op' = [k |-> "idle", p |-> ""] /\ UNCHANGED <<db, dest, torn, stuck>>
      \/ \E f \in dest[p].entries \cap db[p].files :
             /\ dest' = [dest EXCEPT ![p].entries = @ \ {f}] /\ torn' = torn \cup {p} /\ UNCHANGED <<db, op, stuck>>
  BY <1>a DEF remove_recorded_package
<1> QED BY <1>5, <1>6, <1>7, <1>8

LEMMA DataKeeps ==
    ASSUME UserSound, NEW p \in Packages, AddData(p)
    PROVE  UserSound'
<1>0. /\ op.k = "idle" /\ dest[p] # NoDir /\ dest' = [dest EXCEPT ![p].entries = @ \cup {"data"}]
      /\ UNCHANGED <<trusted, db, backups, frames, op, torn, stuck, crashed>>
  BY DEF AddData
<1>1. frames = <<>> /\ frames' = <<>> /\ \A q : Settled(q) = dest[q]
  BY <1>0, IdleRests DEF UserSound
<1>2. CallsSound' /\ \A q : Settled(q)' = dest'[q]
  BY <1>1 DEF CallsSound, Settled
<1>3. /\ dest' \in [Packages -> Dirs]
      /\ dest'[p].v = dest[p].v /\ dest'[p].rev = dest[p].rev
      /\ dest'[p].entries = dest[p].entries \cup {"data"}
      /\ \A q \in Packages : q # p => dest'[q] = dest[q]
  <2>1. dest \in [Packages -> Dirs]
    BY DEF UserSound, UserTyped
  <2>2. "data" \in Names
    BY DEF Names
  <2> QED BY <1>0, <2>1, <2>2 DEF Dirs
<1>4. UserTyped'
  BY <1>0, <1>3 DEF UserSound, UserTyped
<1>5. RecordsSound'
  BY <1>0 DEF UserSound, RecordsSound
<1>6. \A q \in Packages : Complete(q, dest[q]) => Complete(q, dest[q])'
  <2>1. \A q \in Packages : /\ dest'[q].v = dest[q].v /\ dest'[q].rev = dest[q].rev
                            /\ dest[q].entries \subseteq dest'[q].entries
    BY <1>3
  <2> QED BY <1>0, <2>1 DEF Complete
<1>7. NothingLost'
  BY <1>0, <1>6 DEF UserSound, NothingLost, InBackups, Complete
<1>8. Tidy'
  <2> SUFFICES ASSUME ~crashed, NEW q \in Packages \ stuck
               PROVE  /\ db[q].v # 0 /\ q \notin torn => Complete(q, dest[q])'
                      /\ db[q].v # 0 => dest'[q].entries \subseteq Entries(q, db[q].v) \cup {"data"}
                      /\ db[q].v = 0 => \A w \in Versions : dest'[q].entries \cap FilesOf(q, w) = {}
    <3>1. \A q \in Packages : Complete(q, dest[q])' <=> Complete(q, Settled(q))'
      BY <1>2 DEF Complete
    <3> QED BY <1>0, <1>2, <3>1 DEF Tidy
  <2>1. /\ db[q].v # 0 /\ q \notin torn => Complete(q, dest[q])
        /\ db[q].v # 0 => dest[q].entries \subseteq Entries(q, db[q].v) \cup {"data"}
        /\ db[q].v = 0 => \A w \in Versions : dest[q].entries \cap FilesOf(q, w) = {}
    BY <1>1 DEF UserSound, Tidy
  <2>2. dest'[q].entries \subseteq dest[q].entries \cup {"data"}
    BY <1>3
  <2>3. \A w \in Versions : "data" \notin FilesOf(q, w)
    BY UralAssumption
  <2> QED BY <1>6, <2>1, <2>2, <2>3
<1> QED BY <1>2, <1>4, <1>5, <1>7, <1>8 DEF UserSound

LEMMA CrashKeeps == UserSound /\ Crash => UserSound'
<1> SUFFICES ASSUME UserSound, Crash PROVE UserSound'
  OBVIOUS
<1>0. /\ crashed' = TRUE /\ op' = [k |-> "idle", p |-> ""] /\ frames' = <<>>
      /\ UNCHANGED <<trusted, db, dest, backups, torn, stuck>>
  BY DEF Crash
<1>1. <<>> \in Seq(Calls) /\ DOMAIN <<>> = {}
  OBVIOUS
<1>2. UserTyped'
  BY <1>0, <1>1 DEF UserSound, UserTyped
<1>3. CallsSound' /\ Tidy'
  <2>1. DOMAIN frames' = {}
    BY <1>0, <1>1
  <2> QED BY <1>0, <2>1 DEF CallsSound, Tidy
<1> QED BY <1>0, <1>2, <1>3, NothingMoved DEF UserSound

-----------------------------------------------------------------------------
(* The specification *)

LEMMA UserInit == UralInit => UserSound
<1> SUFFICES ASSUME UralInit PROVE UserSound
  OBVIOUS
<1>1. NoPackage \in Records /\ NoPackage.v = 0
  BY DEF NoPackage, Records
<1>2. NoDir \in Dirs /\ NoDir.entries = {}
  BY DEF NoDir, Dirs
<1>3. <<>> \in Seq(Calls) /\ DOMAIN <<>> = {}
  OBVIOUS
<1>4. db \in [Packages -> Records] /\ \A p \in Packages : db[p].v = 0
  <2> HIDE DEF Records, NoPackage
  <2> QED BY <1>1 DEF UralInit
<1>5. dest \in [Packages -> Dirs] /\ \A p \in Packages : dest[p].entries = {}
  <2> HIDE DEF Dirs, NoDir
  <2> QED BY <1>2 DEF UralInit
<1>6. frames = <<>> /\ trusted = {Home} /\ backups = {} /\ op = [k |-> "idle", p |-> ""]
      /\ torn = {} /\ stuck = {} /\ crashed = FALSE
  BY DEF UralInit
<1>7. trusted \subseteq ServerSet
  BY <1>6, UralAssumption DEF ServerSet
<1>8. UserTyped
  BY <1>3, <1>4, <1>5, <1>6, <1>7 DEF UserTyped
<1>9. CallsSound
  BY <1>3, <1>6 DEF CallsSound
<1>10. RecordsSound /\ NothingLost
  BY <1>4 DEF RecordsSound, NothingLost, InBackups
<1>11. Tidy
  <2>1. \A p \in Packages : Settled(p) = dest[p]
    BY <1>6 DEF Settled
  <2> QED BY <1>4, <1>5, <2>1 DEF Tidy
<1> QED BY <1>8, <1>9, <1>10, <1>11 DEF UserSound

LEMMA UserStep == Inv /\ UserNext => UserSound'
<1> SUFFICES ASSUME Inv, UserNext PROVE UserSound'
  OBVIOUS
<1>0. UserSound
  BY DEF Inv
<1>1. CASE Enter
  BY <1>0, <1>1, EnterKeeps
<1>2. ASSUME NEW reached \in SUBSET trusted, Find(reached) PROVE UserSound'
  BY <1>2, FindKeeps
<1>3. ASSUME NEW kind \in {"meta", "arch"}, curl_download(kind) PROVE UserSound'
  BY <1>3, DownloadKeeps
<1>4. CASE Check
  BY <1>0, <1>4, CheckKeeps
<1>5. CASE Dependencies
  BY <1>0, <1>5, DependenciesKeeps
<1>6. CASE Stage
  BY <1>0, <1>6, StageKeeps
<1>7. CASE MoveOld
  BY <1>0, <1>7, MoveOldKeeps
<1>8. CASE MoveNew
  BY <1>0, <1>8, MoveNewKeeps
<1>9. CASE Commit
  BY <1>0, <1>9, CommitKeeps
<1>10. CASE Undo
  BY <1>0, <1>10, UndoKeeps
<1>18. CASE UndoFails
  BY <1>0, <1>18, UndoFailsKeeps
<1>11. CASE seed_user_database
  <2>1. trusted' \subseteq ServerSet
    BY <1>0, <1>11 DEF seed_user_database, UserSound, UserTyped
  <2> QED BY <1>0, <1>11, <2>1, ServerKeeps DEF seed_user_database
<1>12. ASSUME NEW s \in ServerSet, server_change(s) PROVE UserSound'
  <2>1. trusted' \subseteq ServerSet
    BY <1>0, <1>12 DEF server_change, UserSound, UserTyped
  <2> QED BY <1>0, <1>12, <2>1, ServerKeeps DEF server_change
<1>13. ASSUME NEW p \in Packages, NEW force \in BOOLEAN, command_install(p, force) PROVE UserSound'
  BY <1>0, <1>13, InstallKeeps
<1>14. ASSUME NEW p \in Packages, Uninstall(p) PROVE UserSound'
  BY <1>0, <1>14, UninstallKeeps
<1>15. CASE remove_recorded_package
  BY <1>0, <1>15, RemoveKeeps
<1>16. ASSUME NEW p \in Packages, AddData(p) PROVE UserSound'
  BY <1>0, <1>16, DataKeeps
<1>17. CASE Crash
  BY <1>0, <1>17, CrashKeeps
<1> QED BY <1>1, <1>2, <1>3, <1>4, <1>5, <1>6, <1>7, <1>8, <1>9, <1>10, <1>11, <1>12, <1>13,
           <1>14, <1>15, <1>16, <1>17, <1>18 DEF UserNext

LEMMA PublisherRests == PublisherTyped /\ UNCHANGED pubVars => PublisherTyped'
BY DEF PublisherTyped, pubVars

LEMMA UserRests == UserSound /\ UNCHANGED userVars => UserSound'
<1> SUFFICES ASSUME UserSound, UNCHANGED userVars PROVE UserSound'
  OBVIOUS
<1>1. /\ UNCHANGED <<db, dest, backups, frames, op, torn, stuck, crashed>> /\ UNCHANGED trusted
  BY DEF userVars
<1>2. trusted' \subseteq ServerSet
  BY <1>1 DEF UserSound, UserTyped
<1> QED BY <1>1, <1>2, ServerKeeps

LEMMA InvStep == Inv /\ [UralNext]_uralVars => Inv'
<1> SUFFICES ASSUME Inv, [UralNext]_uralVars PROVE Inv'
  OBVIOUS
<1>1. CASE PublisherNext /\ UNCHANGED userVars
  BY <1>1, PublisherTypes, UserRests DEF Inv
<1>2. CASE UserNext /\ UNCHANGED pubVars
  BY <1>2, PublisherRests, UserStep DEF Inv
<1>3. CASE UNCHANGED uralVars
  BY <1>3, PublisherRests, UserRests DEF Inv, uralVars
<1> QED BY <1>1, <1>2, <1>3 DEF UralNext

(* Every reachable state of the publisher and the user is one the          *)
(* inductive invariant describes (install_package and its commands,        *)
(* ural.c).                                                                *)
THEOREM InvHolds == UralSpec => []Inv
<1>1. UralInit => Inv
  BY PublisherInit, UserInit DEF Inv
<1> QED BY <1>1, InvStep, PTL DEF UralSpec

(* Whatever fails, and wherever the process dies, the files of a recorded  *)
(* package are complete in its place or in backups, unless an uninstall    *)
(* has begun to remove them (the renames of install_package, ural.c).      *)
THEOREM NothingIsLost == UralSpec => []NothingLost
<1>1. Inv => NothingLost
  BY DEF Inv, UserSound
<1> QED BY <1>1, InvHolds, PTL

(* A command that has ended without a crash, well or not, leaves recorded  *)
(* packages complete in their place and no files of packages that are not  *)
(* recorded (done: in install_package, remove_recorded_package, ural.c).   *)
(* Of a package whose undo failed, which nobody looks at, the record still *)
(* has its files: they have stayed in backups, and this of no other one.   *)
THEOREM EndsAreConsistent == UralSpec => []EndsConsistent
<1>1. Inv => EndsConsistent
  <2> SUFFICES ASSUME Inv, op.k = "idle", ~crashed, NEW p \in Packages \ torn
               PROVE  /\ db[p].v # 0 => Complete(p, dest[p]) \/ (p \in stuck /\ InBackups(p))
                      /\ db[p].v = 0 /\ p \notin stuck =>
                             \A v \in Versions : dest[p].entries \cap FilesOf(p, v) = {}
    BY DEF EndsConsistent
  <2>1. Settled(p) = dest[p]
    BY IdleRests DEF Inv, UserSound
  <2>2. CASE p \in stuck
    BY <2>2 DEF Inv, UserSound, NothingLost
  <2>3. CASE p \notin stuck
    BY <2>1, <2>3 DEF Inv, UserSound, Tidy
  <2> QED BY <2>2, <2>3
<1> QED BY <1>1, InvHolds, PTL

(* A step that records a package.                                          *)
DependenciesRecorded ==
    \A p \in Packages : db'[p].v # 0 /\ db'[p] # db[p] =>
        \A i \in DOMAIN Deps(p, db'[p].v) : db'[Deps(p, db'[p].v)[i]].v # 0

LEMMA RecordsStep == Inv /\ [UralNext]_uralVars => DependenciesRecorded
<1> SUFFICES ASSUME Inv, [UralNext]_uralVars,
                    NEW p \in Packages, db'[p].v # 0, db'[p] # db[p]
             PROVE  \A i \in DOMAIN Deps(p, db'[p].v) : db'[Deps(p, db'[p].v)[i]].v # 0
  BY DEF DependenciesRecorded
<1>1. UserSound /\ UserTyped /\ db \in [Packages -> Records]
  BY DEF Inv, UserSound, UserTyped
<1>2. CASE Commit
  <2>1. At("commit")
    BY <1>2 DEF Commit
  <2>2. db' = [db EXCEPT ![Top.name] = [v |-> Top.remote.v, rev |-> Top.arch,
                                        files |-> FilesOf(Top.name, Top.remote.v)]]
    BY <1>2 DEF Commit
  <2>3. /\ Top.name \in Packages /\ Top.remote.v # 0
        /\ \A i \in DOMAIN Needs(Top) : db[Needs(Top)[i]].v # 0 /\ Needs(Top)[i] \in Packages
    BY <1>1, <2>1, AtCommit
  <2>4. p = Top.name /\ db'[p].v = Top.remote.v
    BY <1>1, <2>2, <2>3
  <2>5. \A q \in Packages : db[q].v # 0 => db'[q].v # 0
    BY <1>1, <2>2, <2>3
  <2>6. Deps(p, db'[p].v) = Needs(Top)
    BY <2>4 DEF Needs
  <2> QED BY <2>3, <2>5, <2>6
<1>3. CASE remove_recorded_package
  <2>1. db' = db \/ db' = [db EXCEPT ![op.p] = NoPackage]
    BY <1>3 DEF remove_recorded_package
  <2>2. NoPackage.v = 0
    BY DEF NoPackage
  <2>3. db'[p] = db[p] \/ db'[p] = NoPackage
    <3> HIDE DEF NoPackage, Records
    <3> QED BY <1>1, <2>1
  <2> QED BY <2>2, <2>3
<1>4. CASE UNCHANGED db
  BY <1>4
<1>5. CASE UserNext
  BY <1>2, <1>3, <1>4, <1>5
     DEF UserNext, Enter, Find, curl_download, Check, Dependencies, Stage, MoveOld, MoveNew, Undo, UndoFails,
         seed_user_database, server_change, command_install, Uninstall, AddData, Crash, UNCHANGEDuser
<1>6. CASE UNCHANGED userVars
  BY <1>4, <1>6 DEF userVars
<1> QED BY <1>5, <1>6 DEF UralNext, uralVars

(* A package is recorded only after all that the manifest of its version   *)
(* depends on (the loop over dependencies in install_package, ural.c).     *)
THEOREM DependenciesComeFirst == UralSpec => DependenciesFirst
<1>1. Inv /\ [UralNext]_uralVars => [DependenciesRecorded]_uralVars
  BY RecordsStep
<1> QED BY <1>1, InvHolds, PTL DEF UralSpec, DependenciesFirst, DependenciesRecorded
==============================================================================
