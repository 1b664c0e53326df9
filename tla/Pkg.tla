-------------------------------- MODULE Pkg ---------------------------------
(***************************************************************************)
(* The package manager, kernel/pkg/pkg.c, on top of the file system, and   *)
(* the file commands of the console, kernel/core/console.c.                *)
(*                                                                         *)
(* Everything runs on the console thread: a command is the sequence of the *)
(* calls it makes, one step each, and the next command starts when the     *)
(* last one has returned.  There is one package.                           *)
(***************************************************************************)
EXTENDS Vfs

CONSTANTS PkgName, PkgFiles,   \* the package and the sequence of its files
          FileSize,            \* the size of each
          FileBuf,             \* fbuf of pkg_install, 1024 in the code
          SourcesBuf,          \* buf of pkg_repo_add, 512 in the code
          UserCommands,        \* the commands of the user: sequences of calls
          MaxCommands,         \* bound: the number of commands
          MaxFaults            \* bound: failures of kmalloc and incomplete fetches

ASSUME PkgAssumption == /\ PkgFiles \in Seq(DOMAIN FileSize) /\ FileBuf \in Nat \ {0}
                        /\ {SourcesBuf, MaxCommands, MaxFaults} \subseteq Nat

VARIABLES job,        \* the command that runs: its kind, the calls still to make
                      \* and the files pkg_install has reported so far
          commands,   \* how many have started
          faults,     \* how many faults there were
          events      \* the faults so far (history)

vars == <<vfsVars, job, commands, faults, events>>

Chdir(path) == [fn |-> "chdir", path |-> path]
Mkdir(path) == [fn |-> "mkdir", path |-> path]
Unlink(path) == [fn |-> "unlink", path |-> path]
Write(path, val, len) == [fn |-> "write", path |-> path, val |-> val, len |-> len]
Copy(f) == [fn |-> "copy", file |-> f]
Manifest == [fn |-> "manifest"]

Rel(comps) == Path("", FALSE, comps)
OnC(comps) == Path("C", TRUE, comps)

SOURCES_PATH == OnC(<<"etc", "gwpkg", "sources">>)
CACHE_ROOT == <<"var", "cache", "gwpkg">>
Cached(name) == OnC(CACHE_ROOT \o <<PkgName, name>>)
Installed(name) == Rel(<<"Program Files", PkgName, name>>)

Job(kind, todo) == [kind |-> kind, todo |-> todo, copied |-> {}]
Idle == Job("idle", << >>)

\* The tree that vfs_init and pkg_init leave, without the directories nothing
\* here uses, and the current directory C:/.
Init == /\ nodes = << [Node("", DIR, NULL) EXCEPT !.kids = <<7, 4, 2>>],
                      [Node("etc", DIR, 1) EXCEPT !.kids = <<3>>],
                      [Node("gwpkg", DIR, 2) EXCEPT !.kids = <<8>>],
                      [Node("var", DIR, 1) EXCEPT !.kids = <<5>>],
                      [Node("cache", DIR, 4) EXCEPT !.kids = <<6>>],
                      Node("gwpkg", DIR, 5),
                      Node("Program Files", DIR, 1),
                      [Node("sources", FILE, 3) EXCEPT !.mem = TRUE, !.capacity = InitialCapacity,
                          !.val = <<"url">>, !.size = 1, !.due = <<<<"url">>, 1>>] >>
        /\ cwd = root /\ cur_drive = "C" /\ lowmem = << >> /\ ret = TRUE /\ routed = "C"
        /\ job = Idle /\ commands = 0 /\ faults = 0 /\ events = {}

-----------------------------------------------------------------------------
(* The calls each command makes *)

ensure_dirs_Relative ==
    << Mkdir(Rel(<<"etc">>)), Mkdir(Rel(<<"etc", "gwpkg">>)),
       Mkdir(Rel(<<"var">>)), Mkdir(Rel(<<"var", "cache">>)), Mkdir(Rel(CACHE_ROOT)),
       Mkdir(Rel(<<"Program Files">>)) >>

ensure_dirs ==
    << Chdir(OnC(<< >>)), Mkdir(Rel(<<"etc">>)), Mkdir(Rel(<<"etc", "gwpkg">>)),
       Mkdir(Rel(<<"var">>)), Mkdir(Rel(<<"var", "cache">>)), Mkdir(Rel(CACHE_ROOT)),
       Mkdir(Rel(<<"Program Files">>)) >>

\* What HTTP can deliver: the package, or what an early end of the stream or a
\* full buffer leaves of it.  listed: the names in the manifest; files: how many
\* sections follow; cut: the last one is incomplete; whole: there is a manifest.
Blob(whole, listed, files, cut) == [whole |-> whole, listed |-> listed, files |-> files, cut |-> cut]
Complete == Blob(TRUE, PkgFiles, Len(PkgFiles), FALSE)
Truncated == ({Blob(FALSE, << >>, 0, FALSE)}
              \cup {Blob(TRUE, SubSeq(PkgFiles, 1, n), 0, FALSE) : n \in 0 .. Len(PkgFiles)}
              \cup {Blob(TRUE, PkgFiles, n, c) : n \in 1 .. Len(PkgFiles), c \in BOOLEAN})
             \ {Complete}

\* The bytes of a file of the package, or the part that arrived.
Payload(f, cut) == <<"file", f, IF cut THEN "cut" ELSE "all">>

unpack_pkg(b) ==
    ensure_dirs
    \o << Chdir(OnC(CACHE_ROOT)), Mkdir(Rel(<<PkgName>>)),
          Write(Cached("PKG.TXT"), <<"package">>, 1) >>
    \o (IF b.whole THEN <<Write(Cached("MANIFEST.TXT"), b.listed, 1)>> ELSE << >>)
    \o [i \in 1 .. b.files |->
           Write(Cached(PkgFiles[i]), Payload(PkgFiles[i], b.cut /\ i = b.files),
                 FileSize[PkgFiles[i]])]

install_LastLineLost(listed) ==
    ensure_dirs
    \o << Chdir(OnC(<< >>)), Mkdir(Rel(<<"Program Files">>)),
          Mkdir(Rel(<<"Program Files", PkgName>>)) >>
    \o [i \in 1 .. Len(listed) - 1 |-> Copy(listed[i])]

\* pkg_install once it has the manifest: one copy for each file it lists.
install(listed) ==
    ensure_dirs
    \o << Chdir(OnC(<< >>)), Mkdir(Rel(<<"Program Files">>)),
          Mkdir(Rel(<<"Program Files", PkgName>>)) >>
    \o [i \in 1 .. Len(listed) |-> Copy(listed[i])]

ManifestCached == IsFile(nodes, Cached("MANIFEST.TXT"))
ManifestLines == Contents(nodes, vfs_lookup(nodes, Cached("MANIFEST.TXT")))

\* The file names in what is read: nothing else starts a line with "file:".
ListedIn(lines) == IF lines[2] = 0 THEN << >>
                   ELSE SelectSeq(lines[1], LAMBDA f : f \in ToSet(PkgFiles))

-----------------------------------------------------------------------------
(* Starting a command *)

Start(j) == /\ job = Idle /\ commands < MaxCommands
            /\ job' = j /\ commands' = commands + 1

Fault(happens) == /\ happens => faults < MaxFaults
                  /\ faults' = IF happens THEN faults + 1 ELSE faults

\* The repository answers with b, all of it or not, or not at all.
pkg_fetch(kind, andThen) ==
    \/ Start(Idle) /\ UNCHANGED <<faults, events>>
    \/ \E b \in {Complete} \cup Truncated :
          /\ Fault(b # Complete)
          /\ Start(Job(kind, unpack_pkg(b) \o (IF b.files > 0 THEN andThen ELSE << >>)))
          /\ events' = IF b = Complete THEN events ELSE events \cup {"truncated"}

\* A manifest in the cache is used without asking the repository.
pkg_install ==
    /\ \/ /\ ManifestCached
          /\ Start(Job("install", install(ListedIn(ManifestLines))))
          /\ UNCHANGED <<faults, events>>
       \/ ~ManifestCached /\ pkg_fetch("install", <<Manifest>>)
    /\ UNCHANGED vfsVars

\* pkg_info shows the manifest, and fetches the package when there is none.
fetch_or_info == pkg_fetch("fetch", << >>) /\ UNCHANGED vfsVars

\* Without a sources file the new line becomes the only one.
pkg_repo_add ==
    LET old == IF IsFile(nodes, SOURCES_PATH)
               THEN Contents(nodes, vfs_lookup(nodes, SOURCES_PATH)) ELSE << << >>, 0>>
    IN /\ old[2] + 2 < SourcesBuf
       /\ Start(Job("repo", <<Write(SOURCES_PATH, Append(old[1], "url"), old[2] + 1)>>))
       /\ UNCHANGED <<vfsVars, faults, events>>

\* The user changes files of the package.
Touches(cmd) == \E i \in DOMAIN cmd : PkgName \in ToSet(cmd[i].path.comps)

user_command ==
    /\ \E cmd \in UserCommands :
          /\ Start(Job("user", cmd))
          /\ events' = IF Touches(cmd) THEN events \cup {"touched"} ELSE events
    /\ UNCHANGED <<vfsVars, faults>>

-----------------------------------------------------------------------------
(* Making the calls *)

Doing(fn) == job.todo # << >> /\ Head(job.todo).fn = fn

Arg == Head(job.todo)

Done == job' = [job EXCEPT !.todo = Tail(@)] /\ UNCHANGED <<commands, faults, events>>

call_chdir == Doing("chdir") /\ vfs_chdir(Arg.path) /\ Done

call_mkdir == Doing("mkdir") /\ vfs_mkdir(Arg.path) /\ Done

call_unlink == Doing("unlink") /\ vfs_unlink(Arg.path) /\ Done

NoteFailure == events' = IF ret' THEN events ELSE events \cup {"failed"}

\* No caller of vfs_write in unpack_pkg looks at the result.
call_write ==
    /\ Doing("write")
    /\ \E oom1, oom2 \in BOOLEAN : /\ Fault(oom1 \/ oom2)
                                   /\ vfs_write(Arg.path, Arg.val, Arg.len, oom1, oom2)
                                   /\ (oom1 \/ oom2) => ~ret'
    /\ NoteFailure
    /\ job' = [job EXCEPT !.todo = Tail(@)]
    /\ UNCHANGED commands

Counted_Always == TRUE

\* A file counts as installed when it could be written.
Counted == ret'

\* One "file:" line of the manifest: vfs_read into fbuf, vfs_write.
call_copy ==
    /\ Doing("copy")
    /\ \/ /\ IsFile(nodes, Cached(Arg.file))
          /\ LET c == Contents(nodes, vfs_lookup(nodes, Cached(Arg.file)))
             IN \E oom1, oom2 \in BOOLEAN :
                   /\ Fault(oom1 \/ oom2)
                   /\ vfs_write(Installed(Arg.file), c[1], Min({c[2], FileBuf}), oom1, oom2)
                   /\ (oom1 \/ oom2) => ~ret'
          /\ NoteFailure
          /\ job' = [job EXCEPT !.todo = Tail(@),
                                !.copied = IF Counted THEN @ \cup {Arg.file} ELSE @]
       \/ /\ ~IsFile(nodes, Cached(Arg.file))
          /\ job' = [job EXCEPT !.todo = Tail(@)]
          /\ UNCHANGED <<vfsVars, faults, events>>
    /\ UNCHANGED commands

\* pkg_install reads the manifest again after the fetch.
read_manifest ==
    /\ Doing("manifest")
    /\ job' = IF ManifestCached THEN [job EXCEPT !.todo = install(ListedIn(ManifestLines))]
              ELSE Idle
    /\ UNCHANGED <<vfsVars, commands, faults, events>>

return == /\ job # Idle /\ job.todo = << >>
          /\ job' = Idle
          /\ UNCHANGED <<vfsVars, commands, faults, events>>

Next == \/ pkg_install \/ fetch_or_info \/ pkg_repo_add \/ user_command
        \/ call_chdir \/ call_mkdir \/ call_unlink \/ call_write \/ call_copy
        \/ read_manifest \/ return

Spec == Init /\ [][Next]_vars

-----------------------------------------------------------------------------
(* Properties *)

\* "ESP is never a package store" (pkg.c): no call that a fetch or an install
\* makes goes to the FAT volume, whatever drive and directory the user was in.
EspUntouched ==
    [][(job.kind \in {"fetch", "install"} /\ job.todo # << >>) => routed' = "C"]_<<job, vfsVars>>

InstallEnds == job.kind = "install" /\ job.todo = << >>

AtInstalled(f) == vfs_lookup(nodes, Installed(f))

\* When pkg_install returns, every file it has reported is there with what the
\* cache holds, up to the size of its buffer, unless one of the two is a file
\* without memory.
ReportsTruly ==
    InstallEnds =>
        \A f \in job.copied :
            LET s == vfs_lookup(nodes, Cached(f))
            IN /\ s # NULL /\ IsFile(nodes, Installed(f))
               /\ (nodes[s].mem /\ nodes[AtInstalled(f)].mem) =>
                     Contents(nodes, AtInstalled(f)) =
                         <<nodes[s].val, Min({nodes[s].size, FileBuf})>>

\* As long as no fetch was cut short, no write failed and the user left the
\* package alone, an install that had a manifest puts all of its files in place.
CompleteUnlessFault ==
    (InstallEnds /\ events = {}) =>
        \A f \in ToSet(PkgFiles) :
            /\ f \in job.copied
            /\ Contents(nodes, AtInstalled(f)) = <<Payload(f, FALSE), Min({FileSize[f], FileBuf})>>
=============================================================================
