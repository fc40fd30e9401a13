-------------------------------- MODULE Ural --------------------------------
(***************************************************************************)
(* The native ural program: a publisher packs a directory of packages and  *)
(* uploads it file by file, and a user installs, updates and uninstalls    *)
(* packages from the servers it trusts (ural.c, ural_archive.c, ural_db.c, *)
(* ural_manifest.c).  A step is one change that others can see or that a   *)
(* crash can fall behind: a file sent, a file fetched, a rename, a file    *)
(* removed, a transaction committed.                                       *)
(*                                                                         *)
(* The bytes of a version of a package are its revision: a hash tells two  *)
(* revisions apart.  Versions are numbers.  One user and one publisher run *)
(* at a time, beside each other.                                           *)
(***************************************************************************)
EXTENDS Integers, SequencesExt, FiniteSetsExt

CONSTANTS
    Packages,
    Listing,        \* the files of a repository, in the order its directory lists them
    Servers,        \* the servers' URLs, in their order
    Home,           \* the one of them that the publisher uploads to
    Versions,       \* 1..n
    MaxRev,         \* revisions there may be
    Deps(_, _),     \* the dependencies in the manifest of a version, in order
    FilesOf(_, _),  \* the files in the archive of a version
    DirsOf(_, _),   \* and the directories they make
    MaxDepth,       \* 32 in the code
    MaxEdits,       \* changes the publisher makes
    MaxPublish,     \* times it packs or uploads
    MaxCommands,    \* commands the user gives
    MaxFaults       \* crashes and failing calls of the user's machine

\* Files and directories of a package have names of their own, and so has the data a
\* program leaves among them; "data" stands for it.
ASSUME UralAssumption ==
    /\ IsFiniteSet(Packages)
    /\ 1 \in Versions /\ Versions \subseteq Nat \ {0}
    /\ {"meta", "arch"} \X Packages \X Versions = Range(Listing)
    /\ Home \in Range(Servers)
    /\ \A p \in Packages, v \in Versions :
          /\ Deps(p, v) \in Seq(Packages)
          /\ "data" \notin FilesOf(p, v)
          /\ \A w \in Versions : FilesOf(p, v) \cap DirsOf(p, w) = {}

VARIABLES
    work,       \* publisher: package -> version and revision of its directory
    repo,       \* its files: kind, package, version -> revision, 0 for none
    index,      \* its ussr.boxes: the rows of repository_index
    pub,        \* what the publisher is doing
    edits, published,
    served,     \* server -> files and index it serves
    trusted,    \* the user's database: enabled servers
    db,         \* packages and package_files: package -> version, revision, files
    dest,       \* ~/.ussr/packages: package -> directory
    backups,    \* ~/.ussr/backups
    frames,     \* calls of install_package, the innermost last
    op,         \* what the user's ural is doing
    seeded,     \* the user's database file is there
    torn,       \* history: packages recorded that an uninstall has begun to remove
    stuck,      \* history: packages whose undo has failed
    commands, faults, crashed

pubVars    == <<work, repo, index, pub, edits, published, served>>
userVars   == <<trusted, db, dest, backups, frames, op, seeded, torn, stuck, commands, faults, crashed>>
uralVars   == <<pubVars, userVars>>

ServerSet  == Range(Servers)
FileIds    == Range(Listing)
Row(p, v, mh, ah, url) == [p |-> p, v |-> v, meta |-> mh, arch |-> ah, url |-> url]
NoText     == [p |-> "", v |-> 0, rev |-> 0]
Idle       == [k |-> "idle", url |-> Home, todo |-> <<>>, rows |-> {}, text |-> NoText]
NoPackage  == [v |-> 0, rev |-> 0, files |-> {}]
NoDir      == [v |-> 0, rev |-> 0, entries |-> {}]
Entries(p, v) == FilesOf(p, v) \cup DirsOf(p, v)
Whole(p, v, rev) == [v |-> v, rev |-> rev, entries |-> Entries(p, v)]

UralInit ==
    /\ work = [p \in Packages |-> [v |-> 1, rev |-> 1]]
    /\ repo = [f \in FileIds |-> IF f[3] = 1 THEN 1 ELSE 0]
    /\ index = {Row(p, 1, 1, 1, Home) : p \in Packages}
    /\ pub = Idle
    /\ edits = 0
    /\ published = 0
    /\ served = [s \in ServerSet |->       \* every server publishes version 1
                   [files |-> [f \in FileIds |-> IF f[3] = 1 THEN 1 ELSE 0],
                    index |-> {Row(p, 1, 1, 1, s) : p \in Packages}]]
    /\ trusted = {Home}
    /\ db = [p \in Packages |-> NoPackage]
    /\ dest = [p \in Packages |-> NoDir]
    /\ backups = {}
    /\ frames = <<>>
    /\ op = [k |-> "idle", p |-> ""]
    /\ seeded = FALSE
    /\ torn = {}
    /\ stuck = {}
    /\ commands = 0
    /\ faults = 0
    /\ crashed = FALSE

(***************************************************************************)
(* The publisher.                                                          *)
(***************************************************************************)
\* The author changes a package, with a new version or without.
Edit(p, v) ==
    /\ edits < MaxEdits
    /\ work[p].rev < MaxRev
    /\ v \in Versions /\ v - work[p].v \in {0, 1}
    /\ work' = [work EXCEPT ![p] = [v |-> v, rev |-> @.rev + 1]]
    /\ edits' = edits + 1
    /\ UNCHANGED <<repo, index, pub, published, served>>

\* BEGIN IMMEDIATE; packages are found one after the other.
command_pack(url) ==
    /\ pub.k = "idle" /\ published < MaxPublish
    /\ pub' = [k |-> "pack", url |-> url, todo |-> SetToSeq(Packages), rows |-> index, text |-> NoText]
    /\ published' = published + 1
    /\ UNCHANGED <<work, repo, index, edits, served>>

\* The manifest is read, then the archive is made of what the directory holds.
PackArchive ==
    LET p == Head(pub.todo) IN
    /\ pub.k = "pack" /\ pub.todo # <<>> /\ pub.text = NoText
    /\ repo' = [repo EXCEPT ![<<"arch", p, work[p].v>>] = work[p].rev]
    /\ pub' = [pub EXCEPT !.text = [p |-> p, v |-> work[p].v, rev |-> work[p].rev]]
    /\ UNCHANGED <<work, index, edits, published, served>>

\* The sidecar, and the row that replaces the one of the same server, name and version.
pack_one ==
    LET t    == pub.text
        new  == Row(t.p, t.v, t.rev, repo[<<"arch", t.p, t.v>>], pub.url)
        kept == {r \in pub.rows : ~(r.p = t.p /\ r.v = t.v /\ r.url = pub.url)}
    IN  /\ pub.k = "pack" /\ t # NoText
        /\ repo' = [repo EXCEPT ![<<"meta", t.p, t.v>>] = t.rev]
        /\ pub' = [pub EXCEPT !.rows = kept \cup {new}, !.todo = Tail(@), !.text = NoText]
        /\ UNCHANGED <<work, index, edits, published, served>>

\* Rows packed for another URL are dropped, and all is committed.
CommitPack ==
    /\ pub.k = "pack" /\ pub.todo = <<>>
    /\ index' = {r \in pub.rows : r.url = pub.url}
    /\ pub' = Idle
    /\ UNCHANGED <<work, repo, edits, published, served>>

\* The base directory is there; all files found are to be sent.
command_upload ==
    /\ pub.k = "idle" /\ published < MaxPublish
    /\ pub' = [Idle EXCEPT !.k = "upload", !.todo = SelectSeq(Listing, LAMBDA f : repo[f] # 0)]
    /\ published' = published + 1
    /\ UNCHANGED <<work, repo, index, edits, served>>

ftp_upload_file ==
    LET f == Head(pub.todo) IN
    /\ pub.k = "upload" /\ pub.todo # <<>>
    /\ served' = [served EXCEPT ![Home].files[f] = repo[f]]
    /\ pub' = [pub EXCEPT !.todo = Tail(@)]
    /\ UNCHANGED <<work, repo, index, edits, published>>

\* The index goes last.  Reading it back changes nothing.
UploadIndex ==
    /\ pub.k = "upload" /\ pub.todo = <<>>
    /\ served' = [served EXCEPT ![Home].index = index]
    /\ pub' = Idle
    /\ UNCHANGED <<work, repo, index, edits, published>>

\* Any failure, or a crash: ROLLBACK, and what was written or sent stays.
PublisherStops == pub.k # "idle" /\ pub' = Idle /\ UNCHANGED <<work, repo, index, edits, published, served>>

PublisherNext ==
    \/ \E p \in Packages, v \in Versions : Edit(p, v)
    \/ \E url \in {Home, "elsewhere"} : command_pack(url)
    \/ PackArchive \/ pack_one \/ CommitPack
    \/ command_upload
    \/ ftp_upload_file \/ UploadIndex
    \/ PublisherStops

(***************************************************************************)
(* The user: choosing.                                                     *)
(***************************************************************************)
NoRemote == [v |-> 0, meta |-> 0, arch |-> 0, server |-> Home]

\* The newest of the rows of an index that may be used.
read_remote_package(s, name) ==
    LET rows   == {r \in served[s].index : r.p = name /\ r.url = s}
        newest == {r \in rows : \A q \in rows : q.v <= r.v}
        new    == CHOOSE r \in newest : TRUE
    IN  IF newest = {} THEN NoRemote
        ELSE [v |-> new.v, meta |-> new.meta, arch |-> new.arch, server |-> s]

\* The first trusted server whose index can be fetched and lists the package.
find_remote_package(name, reached) ==
    LET lists(i) == /\ Servers[i] \in trusted \cap reached
                    /\ read_remote_package(Servers[i], name).v # 0
        first    == {i \in DOMAIN Servers : lists(i) /\ \A j \in 1..(i - 1) : ~lists(j)}
    IN  IF first = {} THEN NoRemote
        ELSE read_remote_package(Servers[CHOOSE i \in first : TRUE], name)

(***************************************************************************)
(* The user: one call of install_package.                                  *)
(***************************************************************************)
Frame(name, force) ==
    [name |-> name, force |-> force, pc |-> "enter", old |-> NoPackage,
     remote |-> NoRemote, meta |-> 0, arch |-> 0, dep |-> 1, backup |-> NoDir, moved |-> FALSE, placed |-> FALSE]

Top      == Last(frames)
At(pc)   == frames # <<>> /\ Top.pc = pc
Goto(pc) == frames' = [frames EXCEPT ![Len(frames)].pc = pc]

UNCHANGEDuser(more) == UNCHANGED <<trusted, seeded, commands>> /\ UNCHANGED more

\* A call has returned: to the caller's loop over its dependencies, or to the prompt.
Return(ok) ==
    IF Len(frames) = 1 THEN frames' = <<>> /\ op' = [k |-> "idle", p |-> ""]
    ELSE /\ frames' = [Front(frames) EXCEPT ![Len(frames) - 1].pc = IF ok THEN "deps" ELSE "undo",
                                            ![Len(frames) - 1].dep = @ + 1]
         /\ UNCHANGED op

\* A call that may fail by itself, once more in this behaviour.
Fails == faults < MaxFaults /\ faults' = faults + 1 /\ Goto("undo")

\* Cycles, depth, and what is installed.
Enter ==
    LET known == db[Top.name] IN
    /\ At("enter")
    /\ IF (\E i \in 1..(Len(frames) - 1) : frames[i].name = Top.name) \/ Len(frames) > MaxDepth
       THEN Goto("undo") /\ UNCHANGED op
       ELSE IF known.v # 0 /\ ~Top.force THEN Return(TRUE)
       ELSE /\ frames' = [frames EXCEPT ![Len(frames)].pc = "find", ![Len(frames)].old = known]
            /\ UNCHANGED op
    /\ UNCHANGEDuser(<<db, dest, backups, torn, stuck, faults, crashed>>)

Find(reached) ==
    LET r == find_remote_package(Top.name, reached) IN
    /\ At("find")
    /\ IF r.v = 0 \/ r.v < Top.old.v THEN Goto("undo") /\ UNCHANGED op
       ELSE IF r.v = Top.old.v THEN Return(TRUE)
       ELSE /\ frames' = [frames EXCEPT ![Len(frames)].pc = "meta", ![Len(frames)].remote = r]
            /\ UNCHANGED op
    /\ UNCHANGEDuser(<<db, dest, backups, torn, stuck, faults, crashed>>)

\* A file that is not there, and a file whose hash is not the one in the index.
curl_download(kind) ==
    LET got == served[Top.remote.server].files[<<kind, Top.name, Top.remote.v>>] IN
    /\ At(kind)
    /\ \/ /\ IF got = 0 THEN Goto("undo")
             ELSE frames' = [frames EXCEPT ![Len(frames)].pc = IF kind = "meta" THEN "arch" ELSE "check",
                                           ![Len(frames)][kind] = got]
          /\ UNCHANGED faults
       \/ Fails
    /\ UNCHANGEDuser(<<op, db, dest, backups, torn, stuck, crashed>>)

Check ==
    /\ At("check")
    /\ Goto(IF Top.meta = Top.remote.meta /\ Top.arch = Top.remote.arch THEN "deps" ELSE "undo")
    /\ UNCHANGEDuser(<<op, db, dest, backups, torn, stuck, faults, crashed>>)

\* Mutant: a package is installed without what it depends on.
SkipDependencies ==
    /\ At("deps")
    /\ Goto("stage")
    /\ UNCHANGEDuser(<<op, db, dest, backups, torn, stuck, faults, crashed>>)

\* The dependencies of the manifest, each by a call of its own.
Dependencies ==
    LET deps == Deps(Top.name, Top.remote.v) IN
    /\ At("deps")
    /\ IF Top.dep > Len(deps) THEN Goto("stage")
       ELSE frames' = Append(frames, Frame(deps[Top.dep], FALSE))
    /\ UNCHANGEDuser(<<op, db, dest, backups, torn, stuck, faults, crashed>>)

\* The archive is unpacked beside the packages, and its own manifest compared.
Stage ==
    /\ At("stage")
    /\ \/ Goto(IF Top.arch = Top.meta THEN "old" ELSE "undo") /\ UNCHANGED faults
       \/ Fails
    /\ UNCHANGEDuser(<<op, db, dest, backups, torn, stuck, crashed>>)

\* Mutant: an update removes the old directory.
DropOld ==
    LET p == Top.name IN
    /\ At("old")
    /\ dest' = [dest EXCEPT ![p] = NoDir]
    /\ Goto("new")
    /\ UNCHANGEDuser(<<op, db, torn, stuck, faults, backups, crashed>>)

\* An update moves the old directory away; an install wants none there.
MoveOld ==
    LET p == Top.name IN
    /\ At("old")
    /\ IF Top.old.v = 0
       THEN /\ Goto(IF dest[p] = NoDir THEN "new" ELSE "undo")
            /\ UNCHANGED <<dest, backups, faults>>
       ELSE \/ /\ dest[p] # NoDir
               /\ backups' = backups \cup {[p |-> p, dir |-> dest[p]]}
               /\ dest' = [dest EXCEPT ![p] = NoDir]
               /\ frames' = [frames EXCEPT ![Len(frames)].pc = "new", ![Len(frames)].moved = TRUE,
                                           ![Len(frames)].backup = dest[p]]
               /\ UNCHANGED faults
            \/ dest[p] = NoDir /\ Goto("undo") /\ UNCHANGED <<dest, backups, faults>>
            \/ Fails /\ UNCHANGED <<dest, backups>>
    /\ UNCHANGEDuser(<<op, db, torn, stuck, crashed>>)

MoveNew ==
    LET p == Top.name IN
    /\ At("new")
    /\ \/ /\ dest' = [dest EXCEPT ![p] = Whole(p, Top.remote.v, Top.arch)]
          /\ frames' = [frames EXCEPT ![Len(frames)].pc = "commit", ![Len(frames)].placed = TRUE]
          /\ UNCHANGED faults
       \/ Fails /\ UNCHANGED dest
    /\ UNCHANGEDuser(<<op, db, backups, torn, stuck, crashed>>)

\* The row and the list of files, in one transaction.
Commit ==
    LET p == Top.name
        v == Top.remote.v
    IN  /\ At("commit")
        /\ \/ /\ db' = [db EXCEPT ![p] = [v |-> v, rev |-> Top.arch, files |-> FilesOf(p, v)]]
              /\ torn' = torn \ {p} /\ stuck' = stuck \ {p}
              /\ Return(TRUE)
              /\ UNCHANGED faults
           \/ Fails /\ UNCHANGED <<db, torn, stuck, op>>
        /\ UNCHANGEDuser(<<dest, backups, crashed>>)

\* Mutant: the new directory is left and the old one stays in backups.
UndoNothing ==
    /\ At("undo")
    /\ Return(FALSE)
    /\ UNCHANGEDuser(<<db, dest, backups, torn, stuck, faults, crashed>>)

\* What was put in place is removed entry by entry, then the old directory comes back.
Undo ==
    LET p == Top.name IN
    /\ At("undo")
    /\ IF Top.placed /\ dest[p].entries # {}
       THEN /\ \E e \in dest[p].entries : dest' = [dest EXCEPT ![p].entries = @ \ {e}]
            /\ UNCHANGED <<frames, op, backups>>
       ELSE /\ dest' = IF Top.moved THEN [dest EXCEPT ![p] = Top.backup]
                       ELSE IF Top.placed THEN [dest EXCEPT ![p] = NoDir] ELSE dest
            /\ backups' = IF Top.moved THEN backups \ {[p |-> p, dir |-> Top.backup]} ELSE backups
            /\ Return(FALSE)
    /\ UNCHANGEDuser(<<db, torn, stuck, faults, crashed>>)

\* Nobody looks at what remove_tree and rename return.  Where remove_tree has left
\* something the rename fails too; where it has not, the rename may fail by itself (after
\* MoveNew it is tried twice: both times), and the directory may be gone.
UndoFails ==
    LET p == Top.name IN
    /\ At("undo") /\ (Top.moved \/ Top.placed)
    /\ faults < MaxFaults /\ faults' = faults + 1
    /\ \/ UNCHANGED dest
       \/ Top.moved /\ dest[p].entries = {} /\ dest' = [dest EXCEPT ![p] = NoDir]
    /\ stuck' = stuck \cup {p}
    /\ Return(FALSE)
    /\ UNCHANGEDuser(<<db, backups, torn, crashed>>)

(***************************************************************************)
(* The user: commands.                                                     *)
(***************************************************************************)
Prompt == op.k = "idle" /\ commands < MaxCommands /\ commands' = commands + 1

\* The database file appears whole, copied from the bundled one or new.
seed_user_database ==
    /\ ~seeded /\ seeded' = TRUE
    /\ UNCHANGED <<trusted, db, dest, backups, frames, op, torn, stuck, commands, faults, crashed>>

server_change(s) ==
    /\ seeded /\ Prompt
    /\ trusted' = IF s \in trusted THEN trusted \ {s} ELSE trusted \cup {s}
    /\ UNCHANGED <<db, dest, backups, frames, op, seeded, torn, stuck, faults, crashed>>

command_install(p, force) ==
    /\ seeded /\ Prompt
    /\ op' = [k |-> IF force THEN "update" ELSE "install", p |-> p]
    /\ frames' = <<Frame(p, force)>>
    /\ UNCHANGED <<trusted, db, dest, backups, seeded, torn, stuck, faults, crashed>>

Uninstall(p) ==
    /\ seeded /\ Prompt
    /\ db[p].v # 0
    /\ op' = [k |-> "uninstall", p |-> p]
    /\ UNCHANGED <<trusted, db, dest, backups, frames, seeded, torn, stuck, faults, crashed>>

\* The recorded files are removed one by one, then the record; the directory only
\* goes when nothing else is in it, and when that fails nobody looks.
remove_recorded_package ==
    LET p    == op.p
        left == dest[p].entries \cap db[p].files
    IN  /\ op.k = "uninstall"
        /\ \/ /\ \E f \in left : dest' = [dest EXCEPT ![p].entries = @ \ {f}]
              /\ torn' = torn \cup {p}
              /\ UNCHANGED <<db, op, stuck, faults>>
           \/ /\ left = {}
              /\ db' = [db EXCEPT ![p] = NoPackage]
              /\ \/ /\ dest' = IF dest[p].entries = {} THEN [dest EXCEPT ![p] = NoDir] ELSE dest
                    /\ UNCHANGED faults
                 \/ /\ dest[p].entries = {} /\ UNCHANGED dest
                    /\ faults < MaxFaults /\ faults' = faults + 1
              /\ torn' = torn \ {p}
              /\ stuck' = IF dest[p].entries = {} THEN stuck \ {p} ELSE stuck
              /\ op' = [k |-> "idle", p |-> ""]
           \/ /\ faults < MaxFaults /\ faults' = faults + 1
              /\ op' = [k |-> "idle", p |-> ""]
              /\ UNCHANGED <<db, dest, torn, stuck>>
        /\ UNCHANGED <<trusted, backups, frames, seeded, commands, crashed>>

\* The program's own data appears in a package's directory.
AddData(p) ==
    /\ op.k = "idle" /\ dest[p] # NoDir /\ "data" \notin dest[p].entries
    /\ dest' = [dest EXCEPT ![p].entries = @ \cup {"data"}]
    /\ UNCHANGED <<trusted, db, backups, frames, op, seeded, torn, stuck, commands, faults, crashed>>

\* The process dies.  Staging and download files have its number and are never read again.
Crash ==
    /\ op.k # "idle" /\ faults < MaxFaults
    /\ faults' = faults + 1 /\ crashed' = TRUE
    /\ op' = [k |-> "idle", p |-> ""] /\ frames' = <<>>
    /\ UNCHANGED <<trusted, db, dest, backups, seeded, torn, stuck, commands>>

UserNext ==
    \/ Enter \/ (\E reached \in SUBSET trusted : Find(reached))
    \/ (\E kind \in {"meta", "arch"} : curl_download(kind))
    \/ Check \/ Dependencies \/ Stage \/ MoveOld \/ MoveNew \/ Commit \/ Undo \/ UndoFails
    \/ seed_user_database
    \/ \E s \in ServerSet : server_change(s)
    \/ \E p \in Packages, force \in BOOLEAN : command_install(p, force)
    \/ \E p \in Packages : Uninstall(p)
    \/ remove_recorded_package
    \/ \E p \in Packages : AddData(p)
    \/ Crash

UralNext == \/ PublisherNext /\ UNCHANGED userVars
            \/ UserNext /\ UNCHANGED pubVars

UralSpec == UralInit /\ [][UralNext]_uralVars

(***************************************************************************)
(* Properties.                                                             *)
(***************************************************************************)
Complete(p, dir) == /\ dir.v = db[p].v /\ dir.rev = db[p].rev
                    /\ db[p].files \subseteq dir.entries

InBackups(p) == \E b \in backups : b.p = p /\ Complete(p, b.dir)

\* The files of a recorded package are on the disk at every moment, in its place or in
\* backups, whatever fails, the undo included, and wherever the process dies (renames in
\* install_package), unless an uninstall has begun to remove them.
NothingLost ==
    \A p \in Packages : db[p].v # 0 /\ p \notin torn => Complete(p, dest[p]) \/ InBackups(p)

\* Without a crash a command that has ended, well or not, leaves recorded packages in
\* their place and no files of packages that are not recorded (done: in install_package).
\* Where the undo itself failed the recorded package is whole in backups instead, and
\* that package only, until it is installed again or removed.
EndsConsistent ==
    op.k = "idle" /\ ~crashed =>
        \A p \in Packages \ torn :
            /\ db[p].v # 0 => Complete(p, dest[p]) \/ (p \in stuck /\ InBackups(p))
            /\ db[p].v = 0 /\ p \notin stuck =>
                   \A v \in Versions : dest[p].entries \cap FilesOf(p, v) = {}

\* A package is recorded only after all that its manifest depends on.
DependenciesFirst ==
    [][\A p \in Packages : db'[p].v # 0 /\ db'[p] # db[p] =>
           \A i \in DOMAIN Deps(p, db'[p].v) : db'[Deps(p, db'[p].v)[i]].v # 0]_uralVars
=============================================================================
