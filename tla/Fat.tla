-------------------------------- MODULE Fat ---------------------------------
(***************************************************************************)
(* The FAT32 driver, kernel/fs/fat.c, on a disk that can fill up, refuse a *)
(* sector and lose power.                                                  *)
(*                                                                         *)
(* Every sector the driver writes is a step, so that an error or a power   *)
(* loss can fall between any two of them; the reads in between change      *)
(* nothing and belong to the step that uses them.  A cluster is one sector *)
(* (sec_per_cluster = 1) and the writes reach the disk in program order.   *)
(***************************************************************************)
EXTENDS Naturals, FiniteSets, SequencesExt

CONSTANTS Names,            \* the names of files and directories
          Values,           \* what a file can hold
          Paths,            \* the paths of the commands
          TotalClusters,    \* total_clusters
          SlotsPerCluster,  \* directory entries in a cluster
          MaxLen            \* clusters of the longest file

ASSUME FatAssumption == /\ TotalClusters \in Nat \ {0} /\ MaxLen \in Nat
                        /\ SlotsPerCluster \in Nat /\ SlotsPerCluster > 2
                        /\ ".." \notin Names

VARIABLES fat,      \* the file allocation table
          slots,    \* every cluster read as a directory
          data,     \* every cluster read as a part of a file
          cwd,      \* cwd_cluster
          op,       \* the operation in progress
          events,   \* the faults so far (history)
          want      \* what was last written under a name (history)

disk == <<fat, slots, data>>
vars == <<disk, cwd, op, events, want>>

root_cluster == 2
Clusters == 2 .. TotalClusters + 1
FREE == 0
EOC == TotalClusters + 2        \* 0x0FFFFFFF

Entry(kind, name, cl, len) == [kind |-> kind, name |-> name, cl |-> cl, len |-> len]
End == Entry("end", "", 0, 0)               \* first byte 0x00
Deleted == Entry("deleted", "", 0, 0)       \* first byte 0xE5
Dot == Entry("dot", "", 0, 0)               \* . or ..
Foreign == Entry("foreign", "", 0, 0)       \* bytes of a file

Zeroed == [i \in 1 .. SlotsPerCluster |-> End]
NoData == <<"", 0>>
Idle == [pc |-> "idle", kind |-> "", dir |-> 0, name |-> "", at |-> <<0, 0>>, cur |-> 0,
         first |-> 0, prev |-> 0, done |-> 0, val |-> "", len |-> 0, freed |-> FALSE]

\* An empty volume that fat_mount has accepted.
Init == /\ fat = [c \in Clusters |-> IF c = root_cluster THEN EOC ELSE FREE]
        /\ slots = [c \in Clusters |-> Zeroed]
        /\ data = [c \in Clusters |-> NoData]
        /\ cwd = root_cluster
        /\ op = Idle /\ events = {} /\ want = [k \in {} |-> << >>]

-----------------------------------------------------------------------------
(* Reading: chains, directories and paths *)

\* The clusters fat_get leads to from cl.
Chain(cl) ==
    LET walk[n \in Nat, c \in Nat] ==
            IF n = 0 \/ c \notin Clusters THEN << >> ELSE <<c>> \o walk[n - 1, fat[c]]
    IN walk[TotalClusters, cl]

Slot(at) == slots[at[1]][at[2]]
NoSlot == <<0, 0>>

\* The places for entries in directory d, in the order they are read.
Places(d) == LET s == Chain(d)
             IN [k \in 1 .. Len(s) * SlotsPerCluster |->
                    <<s[((k - 1) \div SlotsPerCluster) + 1], ((k - 1) % SlotsPerCluster) + 1>>]

\* The first place that satisfies P.
FirstPlace(d, P(_)) == LET s == Places(d)
                           hits == {k \in DOMAIN s : P(Slot(s[k]))}
                       IN IF hits = {} THEN NoSlot ELSE s[Min(hits)]

\* The places in front of the first 0x00.
Listed(d) == LET s == Places(d)
             IN {s[k] : k \in {n \in DOMAIN s : \A j \in 1 .. n : Slot(s[j]) # End}}

IsNamed(e) == e.kind \in {"file", "dir"}

dir_find(d, name) ==
    LET at == FirstPlace(d, LAMBDA e : e = End \/ (IsNamed(e) /\ e.name = name))
    IN IF at # NoSlot /\ Slot(at) # End THEN at ELSE NoSlot

\* The slot dir_alloc_slot takes, when the directory need not grow.
FreeSlot(d) == FirstPlace(d, LAMBDA e : e \in {End, Deleted})

\* One intermediate component; 0 is failure.
Descend(cl, part) ==
    IF part = ".." THEN root_cluster
    ELSE LET at == dir_find(cl, part)
         IN IF at # NoSlot /\ Slot(at).kind = "dir" THEN Slot(at).cl ELSE 0

resolve_parent(path) ==
    FoldLeft(LAMBDA cl, part : IF cl = 0 THEN 0 ELSE Descend(cl, part),
             IF path.abs THEN root_cluster ELSE cwd, Front(path.comps))

\* resolve_full, for a directory: fat_chdir and fat_list accept nothing else.
resolve_dir(path) ==
    IF path.comps = << >> THEN (IF path.abs THEN root_cluster ELSE cwd)
    ELSE LET d == resolve_parent(path)
             at == IF d = 0 THEN NoSlot ELSE dir_find(d, Last(path.comps))
         IN IF at # NoSlot /\ Slot(at).kind = "dir" THEN Slot(at).cl ELSE 0

\* What fat_read_file returns for an entry.
Contents(e) == LET s == Chain(e.cl)
               IN [k \in 1 .. Min({e.len, Len(s)}) |-> data[s[k]]]

-----------------------------------------------------------------------------
(* The beginning of a command, up to its first write.  The faults after which
   the volume is no longer a tree end the model: what the driver does then is
   not described. *)

Damaging == {"freed", "unzeroed", "lookup", "cwd"}

Ready == op = Idle /\ events \cap Damaging = {}

Begin(pc, kind, d, name, at, cl) ==
    [Idle EXCEPT !.pc = pc, !.kind = kind, !.dir = d, !.name = name, !.at = at, !.cur = cl]

\* dir_find takes a sector it cannot read for the end of the directory.
Lookup(d, name, unreadable) == IF unreadable THEN NoSlot ELSE dir_find(d, name)

LookupEvent(d, name, unreadable) ==
    IF unreadable /\ dir_find(d, name) # NoSlot THEN events \cup {"lookup"} ELSE events

fat_write_file(path, val, len, unreadable) ==
    LET d == resolve_parent(path)
        name == Last(path.comps)
        at == Lookup(d, name, unreadable)
    IN /\ Ready /\ path.comps # << >> /\ d # 0
       /\ at # NoSlot => Slot(at).kind # "dir"
       /\ op' = [Begin(IF at = NoSlot THEN "slot" ELSE IF Slot(at).cl >= 2 THEN "free" ELSE "data",
                       "write", d, name, at, IF at = NoSlot THEN 0 ELSE Slot(at).cl)
                 EXCEPT !.val = val, !.len = len]
       /\ events' = LookupEvent(d, name, unreadable)
       /\ UNCHANGED <<disk, cwd, want>>

fat_mkdir(path, unreadable) ==
    LET d == resolve_parent(path)
        name == Last(path.comps)
    IN /\ Ready /\ path.comps # << >> /\ d # 0
       /\ Lookup(d, name, unreadable) = NoSlot
       /\ op' = Begin("mkdir_alloc", "mkdir", d, name, NoSlot, 0)
       /\ events' = LookupEvent(d, name, unreadable)
       /\ UNCHANGED <<disk, cwd, want>>

EmptyDir_FirstCluster(cl) == \A i \in 1 .. SlotsPerCluster : Slot(<<cl, i>>) \in {Dot, Deleted, End}

EmptyDir(cl) == \A at \in Listed(cl) : Slot(at) \in {Dot, Deleted}

fat_unlink(path) ==
    LET d == resolve_parent(path)
        at == dir_find(d, Last(path.comps))
    IN /\ Ready /\ path.comps # << >> /\ d # 0 /\ at # NoSlot
       /\ Slot(at).kind = "dir" => EmptyDir(Slot(at).cl)
       /\ op' = Begin(IF Slot(at).cl >= 2 THEN "free" ELSE "entry",
                      "unlink", d, Last(path.comps), at, Slot(at).cl)
       /\ events' = IF Slot(at).kind = "dir" /\ Slot(at).cl = cwd THEN events \cup {"cwd"}
                    ELSE events
       /\ UNCHANGED <<disk, cwd, want>>

\* For ".." alone the look-up fails: to_83 turns it into a name no entry has.
fat_chdir(path) ==
    /\ Ready /\ resolve_dir(path) # 0
    /\ cwd' = resolve_dir(path)
    /\ UNCHANGED <<disk, op, events, want>>

-----------------------------------------------------------------------------
(* The writes *)

Key == <<op.dir, op.name>>
Forget == [k \in DOMAIN want \ {Key} |-> want[k]]

Goto(pc) == op' = [op EXCEPT !.pc = pc]

\* Where fat_write_file and fat_unlink go after fat_free_chain, whose result
\* they do not look at.
AfterFree == IF op.kind = "unlink" THEN "entry" ELSE "data"

\* One turn of the loop of fat_free_chain.
free_chain ==
    /\ op.pc = "free"
    /\ fat' = [fat EXCEPT ![op.cur] = FREE]
    /\ op' = [op EXCEPT !.cur = fat[op.cur], !.freed = TRUE,
                        !.pc = IF fat[op.cur] \in Clusters THEN "free" ELSE AfterFree]
    /\ UNCHANGED <<slots, data, cwd, events, want>>

\* fat_alloc_cluster starts at 3: the root directory is never taken.
Allocatable == {c \in Clusters : c >= 3 /\ fat[c] = FREE}

fat_alloc_cluster_Unmarked(c) == Allocatable # {} /\ c = Min(Allocatable) /\ UNCHANGED fat

\* It takes the first.
fat_alloc_cluster(c) == /\ Allocatable # {} /\ c = Min(Allocatable)
                        /\ fat' = [fat EXCEPT ![c] = EOC]

AfterSlot == IF op.kind = "write" THEN "data" ELSE "entry"

\* dir_alloc_slot: a slot, or a new cluster for the directory: allocated,
\* linked, cleared.
find_slot ==
    /\ op.pc = "slot" /\ FreeSlot(op.dir) # NoSlot
    /\ op' = [op EXCEPT !.at = FreeSlot(op.dir), !.pc = AfterSlot]
    /\ UNCHANGED <<disk, cwd, events, want>>

extend_alloc ==
    /\ op.pc = "slot" /\ FreeSlot(op.dir) = NoSlot
    /\ \E c \in Clusters : /\ fat_alloc_cluster(c)
                           /\ op' = [op EXCEPT !.cur = c, !.pc = "extend_link"]
    /\ UNCHANGED <<slots, data, cwd, events, want>>

extend_link ==
    /\ op.pc = "extend_link"
    /\ fat' = [fat EXCEPT ![Last(Chain(op.dir))] = op.cur]
    /\ Goto("extend_zero")
    /\ UNCHANGED <<slots, data, cwd, events, want>>

extend_zero ==
    /\ op.pc = "extend_zero"
    /\ slots' = [slots EXCEPT ![op.cur] = Zeroed]
    /\ data' = [data EXCEPT ![op.cur] = NoData]
    /\ op' = [op EXCEPT !.at = <<op.cur, 1>>, !.pc = AfterSlot]
    /\ UNCHANGED <<fat, cwd, events, want>>

\* fat_write_file, the loop over the clusters of the file.
data_alloc ==
    /\ op.pc = "data" /\ op.done < op.len
    /\ \E c \in Clusters :
          /\ fat_alloc_cluster(c)
          /\ op' = [op EXCEPT !.cur = c, !.first = IF op.first = 0 THEN c ELSE op.first,
                              !.pc = IF op.first = 0 THEN "data_write" ELSE "data_link"]
    /\ UNCHANGED <<slots, data, cwd, events, want>>

data_link_Missing == op.pc = "data_link" /\ Goto("data_write") /\ UNCHANGED <<disk, cwd, events, want>>

data_link ==
    /\ op.pc = "data_link"
    /\ fat' = [fat EXCEPT ![op.prev] = op.cur]
    /\ Goto("data_write")
    /\ UNCHANGED <<slots, data, cwd, events, want>>

data_write ==
    /\ op.pc = "data_write"
    /\ data' = [data EXCEPT ![op.cur] = <<op.val, op.done + 1>>]
    /\ slots' = [slots EXCEPT ![op.cur] = [i \in 1 .. SlotsPerCluster |-> Foreign]]
    /\ op' = [op EXCEPT !.prev = op.cur, !.done = op.done + 1, !.pc = "data"]
    /\ UNCHANGED <<fat, cwd, events, want>>

\* fat_mkdir: the cluster of the new directory, before anything names it.
mkdir_alloc ==
    /\ op.pc = "mkdir_alloc"
    /\ \E c \in Clusters : /\ fat_alloc_cluster(c)
                           /\ op' = [op EXCEPT !.cur = c, !.first = c, !.pc = "mkdir_write"]
    /\ UNCHANGED <<slots, data, cwd, events, want>>

mkdir_write ==
    /\ op.pc = "mkdir_write"
    /\ slots' = [slots EXCEPT ![op.cur] =
                    [i \in 1 .. SlotsPerCluster |-> IF i <= 2 THEN Dot ELSE End]]
    /\ data' = [data EXCEPT ![op.cur] = NoData]
    /\ Goto("slot")
    /\ UNCHANGED <<fat, cwd, events, want>>

NewEntry_NoSize == CASE op.kind = "write" -> Entry("file", op.name, op.first, 0)
                     [] op.kind = "mkdir" -> Entry("dir", op.name, op.first, 0)
                     [] op.kind = "unlink" -> Deleted

NewEntry == CASE op.kind = "write" -> Entry("file", op.name, op.first, op.len)
              [] op.kind = "mkdir" -> Entry("dir", op.name, op.first, 0)
              [] op.kind = "unlink" -> Deleted

Written == [k \in 1 .. op.len |-> <<op.val, k>>]

\* The write to the directory that ends every command.
write_entry ==
    /\ op.pc = "entry" \/ (op.pc = "data" /\ op.done = op.len)
    /\ slots' = [slots EXCEPT ![op.at[1]][op.at[2]] = NewEntry]
    /\ op' = Idle
    /\ want' = IF op.kind = "unlink" \/ "lookup" \in events THEN Forget
               ELSE IF op.kind = "write" THEN Key :> Written @@ want
               ELSE want
    /\ UNCHANGED <<fat, data, cwd, events>>

Step == \/ free_chain \/ find_slot \/ extend_alloc \/ extend_link \/ extend_zero
        \/ data_alloc \/ data_link \/ data_write \/ mkdir_alloc \/ mkdir_write
        \/ write_entry

-----------------------------------------------------------------------------
(* Faults *)

\* What an operation that stops here leaves behind.
Left == {"failed"} \cup (IF op.freed THEN {"freed"} ELSE {})
                   \cup (IF op.pc = "extend_zero" THEN {"unzeroed"} ELSE {})

\* The sector of this step cannot be read or written, or no cluster is free.
\* The callers of fat_free_chain carry on, all others return -1.
io_error ==
    /\ op # Idle
    /\ op' = IF op.pc = "free" THEN [op EXCEPT !.pc = AfterFree] ELSE Idle
    /\ events' = events \cup (IF op.pc = "free" THEN {"failed"} ELSE Left)
    /\ want' = IF op.freed /\ op.pc # "free" THEN Forget ELSE want
    /\ UNCHANGED <<disk, cwd>>

\* Power loss; fat_mount finds the same volume and starts in the root directory.
power_loss ==
    /\ op' = Idle /\ cwd' = root_cluster
    /\ events' = IF op = Idle THEN events ELSE events \cup Left
    /\ want' = IF op.freed THEN Forget ELSE want
    /\ UNCHANGED disk

-----------------------------------------------------------------------------

Command == \E path \in Paths :
              \/ \E v \in Values, n \in 0 .. MaxLen, u \in BOOLEAN : fat_write_file(path, v, n, u)
              \/ \E u \in BOOLEAN : fat_mkdir(path, u)
              \/ fat_unlink(path)
              \/ fat_chdir(path)

Next == Command \/ Step \/ io_error \/ power_loss

Spec == Init /\ [][Next]_vars

-----------------------------------------------------------------------------
(* Properties *)

\* The directories a path from the root can reach.
Directories ==
    LET below[n \in Nat, d \in Clusters] ==
            {d} \cup (IF n = 0 THEN {}
                      ELSE UNION {below[n - 1, Slot(at).cl] :
                                     at \in {a \in Listed(d) : Slot(a).kind = "dir"}})
    IN below[TotalClusters, root_cluster]

Entries == {at \in UNION {Listed(d) : d \in Directories} : IsNamed(Slot(at))}

Used(cl) == ToSet(Chain(cl))

\* Every chain is allocated up to its end mark and belongs to one entry, a file
\* has as many clusters as its size says, and no name is taken twice.
Consistent ==
    /\ \A at \in Entries :
          /\ Slot(at).cl # 0 => fat[Last(Chain(Slot(at).cl))] = EOC
          /\ Slot(at).kind = "file" => Len(Chain(Slot(at).cl)) = Slot(at).len
          /\ root_cluster \notin Used(Slot(at).cl)
    /\ \A a, b \in Entries : a # b => Used(Slot(a).cl) \cap Used(Slot(b).cl) = {}
    /\ \A d \in Directories : \A a, b \in Listed(d) :
          (a # b /\ IsNamed(Slot(a)) /\ IsNamed(Slot(b))) => Slot(a).name # Slot(b).name

\* No fault has damaged the volume and the driver is neither between freeing the
\* old chain and rewriting its entry nor between linking a cluster to a
\* directory and clearing it.
Undamaged == events \cap Damaging = {} /\ ~op.freed /\ op.pc # "extend_zero"

\* A full disk, an I/O error or a power loss anywhere but in these two windows
\* costs clusters at most: the entries still name disjoint, complete chains.
FaultsOnlyLeak == Undamaged => Consistent

\* Between commands, as long as nothing failed, an allocated cluster belongs to
\* an entry: writing, overwriting, making and removing lose no space.
NothingLost ==
    (op = Idle /\ events = {}) =>
        {c \in Clusters : fat[c] # FREE} =
            Used(root_cluster) \cup UNION {Used(Slot(at).cl) : at \in Entries}

FileAt == [k \in {<<d, Slot(at).name>> : d \in Directories, at \in Entries} |->
              dir_find(k[1], k[2])]

Files == {k \in DOMAIN FileAt : FileAt[k] # NoSlot /\ Slot(FileAt[k]).kind = "file"}

ReadsAs(k, v) == k \in Files /\ Contents(Slot(FileAt[k])) = v

\* Between commands, the files are the ones written and not removed, and
\* fat_read_file returns what the last successful fat_write_file wrote.
ReadsBack ==
    (op = Idle /\ events \cap Damaging = {}) =>
        /\ Files = DOMAIN want
        /\ \A k \in Files : ReadsAs(k, want[k])

\* In the middle of a command, and when it has failed or power was lost at any
\* point, damaging the volume or not, every other file still reads as written.
OthersUntouched == \A k \in DOMAIN want \ {Key} : ReadsAs(k, want[k])
=============================================================================
