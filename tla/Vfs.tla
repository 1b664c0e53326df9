-------------------------------- MODULE Vfs ---------------------------------
(***************************************************************************)
(* The file system layer, kernel/vfs/vfs.c: the RAM file system of drive   *)
(* C: and the routing of paths between C: and the FAT volume D:.           *)
(*                                                                         *)
(* Only the console thread calls it and no call yields, so one call is one *)
(* step.  A node is its index in nodes[]; 0 stands for NULL.  The volume   *)
(* D: is the module Fat: here a call that goes there succeeds or fails.    *)
(***************************************************************************)
EXTENDS Naturals, FiniteSets, SequencesExt

CONSTANTS VFS_MAX_NODES, VFS_MAX_FILE_SIZE,
          InitialCapacity,   \* of a new file, 512 in the code
          Slack              \* what a growing file gets on top, 256 in the code

ASSUME VfsAssumption == /\ {VFS_MAX_NODES, InitialCapacity, Slack} \subseteq Nat \ {0}
                        /\ VFS_MAX_FILE_SIZE \in Nat /\ VFS_MAX_FILE_SIZE >= InitialCapacity

VARIABLES nodes,       \* nodes[0 .. node_count - 1]
          cwd, cur_drive,
          lowmem,      \* what is stored at address 0, where a NULL data points
          ret,         \* whether the last call succeeded
          routed       \* the drive it went to

vfsVars == <<nodes, cwd, cur_drive, lowmem, ret, routed>>

root == 1
NULL == 0
DIR == "dir"
FILE == "file"
NONE == "none"         \* type 0, an unlinked node

\* val and size are the contents, due what was last written (history).
Node(name, type, parent) ==
    [name |-> name, type |-> type, parent |-> parent, kids |-> << >>, mem |-> FALSE,
     val |-> << >>, size |-> 0, capacity |-> 0, due |-> <<<< >>, 0>>]

\* A path: the drive it names, or "", whether a slash follows, its components.
Path(drive, abs, comps) == [drive |-> drive, abs |-> abs, comps |-> comps]

-----------------------------------------------------------------------------
(* Look-up *)

parse_drive(path) == IF path.drive # "" THEN path.drive ELSE cur_drive

\* The child list, searched from its head.
Child(ns, n, part) == LET hits == {i \in DOMAIN ns[n].kids : ns[ns[n].kids[i]].name = part}
                      IN IF hits = {} THEN NULL ELSE ns[n].kids[Min(hits)]

\* One component of lookup_rel.
Walk(ns, n, part) ==
    IF part = "." THEN n
    ELSE IF part = ".." THEN (IF ns[n].parent # NULL THEN ns[n].parent ELSE n)
    ELSE IF ns[n].type # DIR THEN NULL
    ELSE Child(ns, n, part)

lookup_rel(ns, base, comps) ==
    FoldLeft(LAMBDA n, part : IF n = NULL THEN NULL ELSE Walk(ns, n, part), base, comps)

vfs_lookup(ns, path) == IF parse_drive(path) = "D" THEN NULL
                        ELSE lookup_rel(ns, IF path.drive = "C" \/ path.abs THEN root ELSE cwd,
                                        path.comps)

\* vfs_write, vfs_read and vfs_unlink obey the drive a path names ...
OnFat(path) == parse_drive(path) = "D"

\* ... but vfs_mkdir and vfs_create_file take any path to D: while D: is the
\* current drive.
MakesOnFat(path) == path.drive = "D" \/ cur_drive = "D"

\* The directory split_parent leads to.  The parent part of "/x" is empty, so x
\* is made in the current directory.
Parent(ns, path) == IF Len(path.comps) = 1 /\ path.drive = "" THEN cwd
                    ELSE vfs_lookup(ns, [path EXCEPT !.comps = Front(path.comps)])

CanMake_Anywhere(ns, path) ==
    /\ path.comps # << >> /\ Len(ns) < VFS_MAX_NODES
    /\ LET par == Parent(ns, path)
       IN par # NULL /\ Child(ns, par, Last(path.comps)) = NULL

\* The checks of vfs_mkdir and vfs_create_file, and that of alloc_node.
CanMake(ns, path) ==
    /\ path.comps # << >> /\ Len(ns) < VFS_MAX_NODES
    /\ LET par == Parent(ns, path)
       IN /\ par # NULL
          /\ ns[par].type = DIR
          /\ lookup_rel(ns, par, <<Last(path.comps)>>) = NULL

alloc_node(ns, path, type) ==
    LET par == Parent(ns, path)
    IN Append([ns EXCEPT ![par].kids = <<Len(ns) + 1>> \o @], Node(Last(path.comps), type, par))

\* What a read of the file returns.
Contents(ns, n) == <<IF ns[n].mem THEN ns[n].val ELSE lowmem, ns[n].size>>

IsDir(n) == n # NULL /\ nodes[n].type = DIR

IsFile(ns, path) == LET n == vfs_lookup(ns, path) IN n # NULL /\ ns[n].type = FILE

-----------------------------------------------------------------------------
(* The calls *)

ToFat == routed' = "D" /\ ret' \in BOOLEAN /\ UNCHANGED <<nodes, cwd, lowmem>>

Fails == ret' = FALSE /\ routed' = "C" /\ UNCHANGED <<nodes, cwd, cur_drive, lowmem>>

vfs_chdir(path) ==
    LET n == vfs_lookup(nodes, path)
    IN \/ /\ parse_drive(path) = "D"
          /\ ToFat
          /\ cur_drive' = IF ret' THEN "D" ELSE cur_drive
       \/ /\ parse_drive(path) = "C" /\ IsDir(n)
          /\ cwd' = n /\ cur_drive' = "C"
          /\ ret' = TRUE /\ routed' = "C" /\ UNCHANGED <<nodes, lowmem>>
       \/ /\ parse_drive(path) = "C" /\ ~IsDir(n)
          /\ Fails

vfs_mkdir(path) ==
    \/ MakesOnFat(path) /\ ToFat /\ UNCHANGED cur_drive
    \/ ~MakesOnFat(path) /\ ~CanMake(nodes, path) /\ Fails
    \/ /\ ~MakesOnFat(path) /\ CanMake(nodes, path)
       /\ nodes' = alloc_node(nodes, path, DIR)
       /\ ret' = TRUE /\ routed' = "C" /\ UNCHANGED <<cwd, cur_drive, lowmem>>

\* The node is made before its memory is asked for, and stays when there is none.
CreateFile(path, oom) ==
    LET ns == alloc_node(nodes, path, FILE)
    IN [ns EXCEPT ![Len(ns)].capacity = InitialCapacity, ![Len(ns)].mem = ~oom]

NewCapacity_Unclamped(len) == len + Slack

NewCapacity(len) == Min({len + Slack, VFS_MAX_FILE_SIZE})

Grown(ns, n, len) == IF len > ns[n].capacity
                     THEN [ns EXCEPT ![n].capacity = NewCapacity(len), ![n].mem = TRUE]
                     ELSE ns

Store_NeverShrinks(ns, n, val, len0, oom) ==
    LET len == Min({len0, VFS_MAX_FILE_SIZE})
        g == Grown(ns, n, len)
    IN IF oom /\ len > ns[n].capacity
       THEN nodes' = ns /\ ret' = FALSE /\ UNCHANGED lowmem
       ELSE /\ nodes' = [g EXCEPT ![n].val = IF g[n].mem THEN val ELSE @,
                                  ![n].size = Max({len, @}), ![n].due = <<val, len>>]
            /\ lowmem' = IF g[n].mem \/ len = 0 THEN lowmem ELSE val
            /\ ret' = TRUE

\* The rest of vfs_write, once the file exists.  Files have no lock and their
\* old memory is not given back.
Store(ns, n, val, len0, oom) ==
    LET len == Min({len0, VFS_MAX_FILE_SIZE})
        g == Grown(ns, n, len)
    IN IF oom /\ len > ns[n].capacity
       THEN nodes' = ns /\ ret' = FALSE /\ UNCHANGED lowmem
       ELSE /\ nodes' = [g EXCEPT ![n].val = IF g[n].mem THEN val ELSE @,
                                  ![n].size = len, ![n].due = <<val, len>>]
            /\ lowmem' = IF g[n].mem \/ len = 0 THEN lowmem ELSE val
            /\ ret' = TRUE

\* oom1 and oom2: whether kmalloc fails for a new file and for a growing one.
vfs_write(path, val, len, oom1, oom2) ==
    LET n == vfs_lookup(nodes, path)
        ns == CreateFile(path, oom1)
        m == vfs_lookup(ns, path)
    IN \/ OnFat(path) /\ ToFat /\ UNCHANGED cur_drive
       \/ /\ ~OnFat(path) /\ n # NULL /\ nodes[n].type = FILE
          /\ Store(nodes, n, val, len, oom2)
          /\ routed' = "C" /\ UNCHANGED <<cwd, cur_drive>>
       \/ ~OnFat(path) /\ n # NULL /\ nodes[n].type # FILE /\ Fails
       \/ /\ ~OnFat(path) /\ n = NULL /\ MakesOnFat(path)
          /\ routed' = "D" /\ ret' = FALSE /\ UNCHANGED <<nodes, cwd, cur_drive, lowmem>>
       \/ ~OnFat(path) /\ n = NULL /\ ~MakesOnFat(path) /\ ~CanMake(nodes, path) /\ Fails
       \/ /\ ~OnFat(path) /\ n = NULL /\ ~MakesOnFat(path) /\ CanMake(nodes, path)
          /\ IF oom1 \/ m = NULL
             THEN nodes' = ns /\ ret' = FALSE /\ UNCHANGED lowmem
             ELSE Store(ns, m, val, len, oom2)
          /\ routed' = "C" /\ UNCHANGED <<cwd, cur_drive>>

Removable(n) == n \notin {NULL, root} /\ (nodes[n].type = DIR => nodes[n].kids = << >>)

\* The node leaves its list but is not recycled; it may still be cwd.
Removed(n) ==
    [nodes EXCEPT ![nodes[n].parent].kids = SelectSeq(@, LAMBDA k : k # n),
                  ![n].type = NONE, ![n].name = ""]

vfs_unlink(path) ==
    LET n == vfs_lookup(nodes, path)
    IN \/ OnFat(path) /\ ToFat /\ UNCHANGED cur_drive
       \/ ~OnFat(path) /\ ~Removable(n) /\ Fails
       \/ /\ ~OnFat(path) /\ Removable(n)
          /\ nodes' = Removed(n)
          /\ ret' = TRUE /\ routed' = "C" /\ UNCHANGED <<cwd, cur_drive, lowmem>>

-----------------------------------------------------------------------------
(* Properties *)

Live(n) == nodes[n].type # NONE

\* The nodes are a tree: a live node is once in the list of its parent, which is
\* a live directory; an unlinked node is in no list, and nothing was made below
\* it although it may still be the current directory; no name is taken twice.
TreeOK ==
    \A n \in DOMAIN nodes :
       /\ n # root => nodes[n].parent \in 1 .. n - 1
       /\ (n # root /\ Live(n)) =>
             /\ nodes[nodes[n].parent].type = DIR
             /\ Cardinality({i \in DOMAIN nodes[nodes[n].parent].kids :
                                nodes[nodes[n].parent].kids[i] = n}) = 1
       /\ \A i, j \in DOMAIN nodes[n].kids :
             /\ Live(nodes[n].kids[i]) /\ nodes[nodes[n].kids[i]].parent = n
             /\ i # j => nodes[nodes[n].kids[i]].name # nodes[nodes[n].kids[j]].name

\* A write never runs past the memory of the file, at the first capacity, when
\* growing and at the largest size.
SizeFits == \A n \in DOMAIN nodes :
               nodes[n].type = FILE => /\ nodes[n].size <= nodes[n].capacity
                                       /\ nodes[n].capacity <= VFS_MAX_FILE_SIZE

\* A file reads as it was last written, whatever failed in between, unless it has
\* no memory: it was left behind by a failed create and has not grown since.
ReadsBack == \A n \in DOMAIN nodes :
                (nodes[n].type = FILE /\ nodes[n].mem) => Contents(nodes, n) = nodes[n].due
=============================================================================
