-------------------------------- MODULE Disk --------------------------------
(***************************************************************************)
(* Sectors from a disk: the choice of a backend in fat_mount, and read_abs *)
(* and write_abs, of kernel/fs/fat.c, over kernel/drivers/nvme.c, ahci.c   *)
(* and ata.c.                                                              *)
(*                                                                         *)
(* The device works beside the driver and may be slow or fail: every wait  *)
(* of the drivers is a bounded loop, which gives up while the device goes  *)
(* on.                                                                     *)
(***************************************************************************)
EXTENDS Naturals, Sequences

CONSTANTS QDEPTH,        \* 16 in the code
          Values,        \* contents the file system writes
          MaxRequests,   \* bound: requests of the file system
          MaxSlow        \* bound: no request after more waits than this were given up

ASSUME DiskAssumption == QDEPTH \in Nat \ {0, 1} /\ {MaxRequests, MaxSlow} \subseteq Nat

VARIABLES pc,            \* where fat_mount or the request is
          backend,       \* use_nvme, use_ahci or neither
          req, res,      \* the command in hand and the result of the last one
          requests,      \* how many the file system has made
          sector,        \* the buffer the file system passes
          medium,        \* the disk
          want,          \* what a read of each sector is to return
          slow,          \* how many waits were given up, or found the port stopped
          queues,        \* NVMe: the admin and the I/O queue pair
          flight,        \* NVMe: commands the controller works on
          bounce,        \* NVMe: the buffer of the driver
          taken,         \* NVMe: the completion poll_cq has taken
          slot, ci, tfes,\* AHCI: the command table, PxCI and PxIS.TFES
          running,       \* AHCI and ATA: the command the drive works on
          status         \* AHCI and ATA: the drive's status register

callVars == <<pc, req, res, want, slow>>
fsVars == <<backend, requests>>
nvmeVars == <<queues, flight, bounce, taken>>
ahciVars == <<slot, ci, tfes>>
driveVars == <<running, status>>
vars == <<callVars, fsVars, sector, medium, nvmeVars, ahciVars, driveVars>>

\* The sectors told apart: the MBR, LBA 200, the start of the partition and one
\* more.  At first each holds what is its own.
Lbas == {"mbr", "lba200", "part", "data"}

ASSUME ValuesAssumption == Values \cap Lbas = {}

Cmd(for, op, lba, val) == [for |-> for, op |-> op, lba |-> lba, val |-> val]
NoCmd == Cmd("none", "none", "none", "none")
Unknown == "unknown"

\* nvme_init clears the queues and starts with phase 1.
Slots == 0 .. QDEPTH - 1
NoEntry == [phase |-> 0, cmd |-> NoCmd, ok |-> FALSE]
EmptyQueue == [sq |-> [s \in Slots |-> NoCmd], tail |-> 0, fetched |-> 0,
               cq |-> [s \in Slots |-> NoEntry], head |-> 0, phase |-> 1,
               posted |-> 0, tag |-> 1]

Init == /\ pc = "nvme_init" /\ backend = "none" /\ req = NoCmd /\ res = "none" /\ requests = 0
        /\ sector = "none" /\ medium = [l \in Lbas |-> l] /\ want = [l \in Lbas |-> l]
        /\ slow = 0
        /\ queues = [q \in 0 .. 1 |-> EmptyQueue] /\ flight = {} /\ bounce = "none" /\ taken = NoEntry
        /\ slot = NoCmd /\ ci = FALSE /\ tfes = FALSE
        /\ running = NoCmd /\ status = "ready"

-----------------------------------------------------------------------------
(* fat_mount, read_abs and write_abs *)

\* Where a command of nvme_init, a read of fat_mount or a request goes on.
\* After create_sq a page for the bounce buffer is needed; after the reads of
\* fat_mount their contents are looked at.
After(ok) ==
    CASE req.for = "create_cq"  -> {IF ok THEN "create_sq" ELSE "ahci_init"}
      [] req.for = "create_sq"  -> (IF ok THEN {"test_write"} ELSE {}) \cup {"ahci_init"}
      [] req.for = "test_write" -> {IF ok THEN "test_read" ELSE "mbr"}
      [] req.for = "test_read"  -> {"mbr"}
      [] req.for = "mbr"        ->
            IF ok THEN {"part", "off"}
            ELSE {[nvme |-> "ahci_init", ahci |-> "ata_init", ata |-> "off"][backend]}
      [] req.for = "part"       -> (IF ok THEN {"idle"} ELSE {}) \cup {"off"}
      [] req.for = "user"       -> {"idle"}

\* A command returns.  A write that failed may have been done or not.
Return(ok) ==
    /\ pc' \in After(ok)
    /\ res' = IF ok THEN "ok" ELSE "failed"
    /\ want' = IF req.op = "write"
               THEN [want EXCEPT ![req.lba] = IF ok THEN req.val ELSE Unknown] ELSE want
    /\ UNCHANGED <<req, fsVars>>

SelfTest_First == "mbr"

\* The sector nvme_init tries the disk on.
SelfTest == "lba200"

\* The commands of nvme_init and the reads of fat_mount.
InitCmds == {Cmd("create_cq", "admin", "none", "none"), Cmd("create_sq", "admin", "none", "none"),
             Cmd("test_write", "write", SelfTest, "pattern"), Cmd("test_read", "read", SelfTest, "none"),
             Cmd("mbr", "read", "mbr", "none"), Cmd("part", "read", "part", "none")}

UserCmds == {Cmd("user", "read", l, "none") : l \in {"part", "data"}} \cup
            {Cmd("user", "write", l, v) : l \in {"part", "data"}, v \in Values}

fat_mount ==
    /\ \E c \in InitCmds : c.for = pc /\ req' = c
    /\ pc' = "issue" /\ res' = "none"
    /\ UNCHANGED <<want, slow, fsVars, sector, medium, nvmeVars, ahciVars, driveVars>>

\* A request of the file system; what it writes is in its buffer.
rw_abs ==
    /\ pc = "idle" /\ requests < MaxRequests /\ slow <= MaxSlow
    /\ req' \in UserCmds
    /\ sector' = IF req'.op = "write" THEN req'.val ELSE sector
    /\ pc' = "issue" /\ res' = "none" /\ requests' = requests + 1
    /\ UNCHANGED <<want, slow, backend, medium, nvmeVars, ahciVars, driveVars>>

\* The next backend has a disk of its own; the one given up is forgotten.
OtherDisk ==
    /\ medium' = [l \in Lbas |-> l] /\ want' = [l \in Lbas |-> l] /\ slow' = 0
    /\ flight' = {} /\ bounce' = "none"
    /\ ci' = FALSE /\ running' = NoCmd /\ status' = "ready"

-----------------------------------------------------------------------------
(* NVMe: the driver *)

\* Controller found, registers mapped, queues allocated, controller enabled; or
\* one of these fails.
nvme_init ==
    /\ pc = "nvme_init"
    /\ \/ pc' = "create_cq" /\ backend' = "nvme"
       \/ pc' = "ahci_init" /\ UNCHANGED backend
    /\ UNCHANGED <<req, res, want, slow, requests, sector, medium, nvmeVars, ahciVars, driveVars>>

Queue(c) == IF c.op = "admin" THEN 0 ELSE 1

BounceFor_Test == IF req.for = "test_write" THEN req.val ELSE bounce

\* do_rw copies what is to be written to the bounce buffer.
BounceFor == IF req.op = "write" THEN req.val ELSE bounce

\* submit: the command goes to the tail of the submission queue.
nvme_submit ==
    /\ pc = "issue" /\ backend = "nvme"
    /\ bounce' = BounceFor
    /\ queues' = [queues EXCEPT ![Queue(req)].sq[queues[Queue(req)].tail] = req,
                                ![Queue(req)].tail = (@ + 1) % QDEPTH]
    /\ pc' = "wait"
    /\ UNCHANGED <<req, res, want, slow, fsVars, sector, medium, flight, taken, ahciVars, driveVars>>

NextPhase_Never(q) == q.phase

\* The phase of the entry after the head.
NextPhase(q) == IF q.head + 1 = QDEPTH THEN 1 - q.phase ELSE q.phase

\* The driver sees an entry with its phase at the head.
Visible == LET q == queues[Queue(req)] IN q.cq[q.head].phase = q.phase

\* poll_cq takes the entry; that it belongs to this command is not checked.
poll_cq ==
    /\ pc = "wait" /\ backend = "nvme" /\ taken = NoEntry /\ Visible
    /\ LET i == Queue(req)
           q == queues[i]
       IN /\ taken' = q.cq[q.head]
          /\ queues' = [queues EXCEPT ![i].head = (@ + 1) % QDEPTH, ![i].phase = NextPhase(q)]
    /\ UNCHANGED <<callVars, fsVars, sector, medium, flight, bounce, ahciVars, driveVars>>

nvme_done ==
    /\ taken # NoEntry
    /\ Return(taken.ok)
    /\ sector' = IF taken.ok /\ req.op = "read" /\ req.for # "test_read" THEN bounce ELSE sector
    /\ taken' = NoEntry
    /\ UNCHANGED <<slow, medium, queues, flight, bounce, ahciVars, driveVars>>

nvme_timeout ==
    /\ pc = "wait" /\ backend = "nvme" /\ taken = NoEntry /\ ~ Visible
    /\ slow' = slow + 1 /\ Return(FALSE)
    /\ UNCHANGED <<sector, medium, nvmeVars, ahciVars, driveVars>>

-----------------------------------------------------------------------------
(* NVMe: the controller *)

nvme_fetch(i) ==
    LET q == queues[i]
    IN /\ backend = "nvme" /\ q.fetched # q.tail
       /\ flight' = flight \cup {[cmd |-> q.sq[q.fetched], slot |-> q.fetched, moved |-> i = 0]}
       /\ queues' = [queues EXCEPT ![i].fetched = (@ + 1) % QDEPTH]
       /\ UNCHANGED <<callVars, fsVars, sector, medium, bounce, taken, ahciVars, driveVars>>

\* The data move at any time between fetching and posting.
nvme_move(f) ==
    /\ ~ f.moved
    /\ flight' = (flight \ {f}) \cup {[f EXCEPT !.moved = TRUE]}
    /\ IF f.cmd.op = "write"
       THEN medium' = [medium EXCEPT ![f.cmd.lba] = bounce] /\ UNCHANGED bounce
       ELSE bounce' = medium[f.cmd.lba] /\ UNCHANGED medium
    /\ UNCHANGED <<callVars, fsVars, sector, queues, taken, ahciVars, driveVars>>

nvme_post(f, ok) ==
    LET i == Queue(f.cmd)
        q == queues[i]
    IN /\ ok => f.moved
       /\ (q.posted + 1) % QDEPTH # q.head
       /\ flight' = flight \ {f}
       /\ queues' = [queues EXCEPT
                        ![i].cq[q.posted] = [phase |-> q.tag, cmd |-> f.cmd, ok |-> ok],
                        ![i].posted = (@ + 1) % QDEPTH,
                        ![i].tag = IF q.posted + 1 = QDEPTH THEN 1 - @ ELSE @]
       /\ UNCHANGED <<callVars, fsVars, sector, medium, bounce, taken, ahciVars, driveVars>>

-----------------------------------------------------------------------------
(* AHCI *)

\* A controller and a port with a disk, and pages for the command structures; or
\* not.
ahci_init ==
    /\ pc = "ahci_init"
    /\ \/ pc' = "mbr" /\ backend' = "ahci"
       \/ pc' = "ata_init" /\ backend' = "none"
    /\ OtherDisk
    /\ UNCHANGED <<req, res, requests, sector, queues, taken, slot, tfes>>

\* ahci_rw up to setting PxCI.  The one command table is rewritten even if the
\* port still works on it.
ahci_issue ==
    /\ pc = "issue" /\ backend = "ahci"
    /\ slot' = req /\ ci' = TRUE /\ tfes' = FALSE
    /\ pc' = "wait"
    /\ UNCHANGED <<req, res, want, slow, fsVars, sector, medium, nvmeVars, driveVars>>

ahci_done ==
    /\ pc = "wait" /\ backend = "ahci" /\ ~ ci
    /\ Return(TRUE)
    /\ UNCHANGED <<slow, sector, medium, nvmeVars, ahciVars, driveVars>>

GivesUp_OnError == tfes

\* The loop over PxCI ends with an error or with its counter.
GivesUp == TRUE

ahci_fail ==
    /\ pc = "wait" /\ backend = "ahci" /\ ci /\ GivesUp
    /\ slow' = slow + 1 /\ Return(FALSE)
    /\ UNCHANGED <<sector, medium, nvmeVars, ahciVars, driveVars>>

port_start ==
    /\ ci /\ running = NoCmd /\ status # "err"
    /\ running' = slot
    /\ UNCHANGED <<callVars, fsVars, sector, medium, nvmeVars, ahciVars, status>>

\* Straight from or to the buffer of the file system.
port_move ==
    /\ ci /\ running.op \in {"read", "write"}
    /\ IF running.op = "write"
       THEN medium' = [medium EXCEPT ![running.lba] = sector] /\ UNCHANGED sector
       ELSE sector' = medium[running.lba] /\ UNCHANGED medium
    /\ running' = [running EXCEPT !.op = "moved"]
    /\ UNCHANGED <<callVars, fsVars, nvmeVars, ahciVars, status>>

port_finish ==
    /\ ci /\ running.op = "moved"
    /\ ci' = FALSE /\ running' = NoCmd
    /\ UNCHANGED <<callVars, fsVars, sector, medium, nvmeVars, slot, tfes, status>>

\* The port stops; PxCI stays set.
port_error ==
    /\ ci /\ running.op \in {"read", "write"}
    /\ tfes' = TRUE /\ status' = "err" /\ running' = NoCmd
    /\ UNCHANGED <<callVars, fsVars, sector, medium, nvmeVars, slot, ci>>

-----------------------------------------------------------------------------
(* ATA *)

\* IDENTIFY is answered or not.
ata_init ==
    /\ pc = "ata_init"
    /\ \/ pc' = "mbr" /\ backend' = "ata"
       \/ pc' = "off" /\ backend' = "none"
    /\ OtherDisk
    /\ UNCHANGED <<req, res, requests, sector, queues, taken, slot, tfes>>

\* wait_bsy_clear, setup_lba and the command.
ata_issue ==
    /\ pc = "issue" /\ backend = "ata" /\ status # "busy"
    /\ running' = req /\ status' = "busy"
    /\ pc' = "drq"
    /\ UNCHANGED <<req, res, want, slow, fsVars, sector, medium, nvmeVars, ahciVars>>

\* wait_drq, and the words of the sector.
ata_data ==
    /\ pc = "drq" /\ status = "drq"
    /\ IF req.op = "read"
       THEN /\ sector' = medium[running.lba] /\ status' = "ready" /\ running' = NoCmd
            /\ Return(TRUE)
       ELSE /\ running' = [running EXCEPT !.op = "store", !.val = sector] /\ status' = "busy"
            /\ pc' = "stored"
            /\ UNCHANGED <<req, res, want, fsVars, sector>>
    /\ UNCHANGED <<slow, medium, nvmeVars, ahciVars>>

\* wait_bsy_clear or wait_drq gives up, or wait_drq sees an error.
ata_fail ==
    /\ \/ pc = "issue" /\ backend = "ata" /\ status = "busy"
       \/ pc = "drq" /\ status # "drq"
    /\ slow' = IF status # "err" THEN slow + 1 ELSE slow
    /\ Return(FALSE)
    /\ UNCHANGED <<sector, medium, nvmeVars, ahciVars, driveVars>>

\* After the words of a write: the loop over BSY only ends, it does not fail.
ata_stored ==
    /\ pc = "stored"
    /\ slow' = IF status = "busy" THEN slow + 1 ELSE slow
    /\ Return(status # "err")
    /\ UNCHANGED <<sector, medium, nvmeVars, ahciVars, driveVars>>

drive_step ==
    /\ backend = "ata" /\ status = "busy"
    /\ \/ running.op = "store" /\ medium' = [medium EXCEPT ![running.lba] = running.val]
          /\ status' = "ready"
       \/ running.op # "store" /\ status' = "drq" /\ UNCHANGED medium
       \/ status' = "err" /\ UNCHANGED medium
    /\ UNCHANGED <<callVars, fsVars, sector, nvmeVars, ahciVars, running>>

-----------------------------------------------------------------------------

Driver == \/ fat_mount
          \/ nvme_init \/ nvme_submit \/ poll_cq \/ nvme_done \/ nvme_timeout
          \/ ahci_init \/ ahci_issue \/ ahci_done \/ ahci_fail
          \/ ata_init \/ ata_issue \/ ata_data \/ ata_fail \/ ata_stored

Device == \/ \E i \in 0 .. 1 : nvme_fetch(i)
          \/ \E f \in flight : nvme_move(f) \/ \E ok \in BOOLEAN : nvme_post(f, ok)
          \/ port_start \/ port_move \/ port_finish \/ port_error
          \/ drive_step

Next == rw_abs \/ Driver \/ Device

Spec == Init /\ [][Next]_vars

\* The kernel's thread runs; the device need not answer.
FairSpec == Spec /\ WF_vars(Driver)

-----------------------------------------------------------------------------
(* Properties *)

\* As long as no wait was given up, a read that succeeds returns what the last
\* successful write of the sector stored, whichever backend is used and whatever
\* requests failed in between.
ReadsBack ==
    (slow = 0 /\ res = "ok" /\ req.op = "read" /\ req.for # "test_read")
        => want[req.lba] \in {Unknown, sector}

\* Even when commands are late, and whatever they then carry, only sectors given
\* to a write change; mounting changes none but LBA 200, where nvme_init tries
\* the disk.
OnlyWritten ==
    \A l \in Lbas \ {"lba200"} :
        medium[l] # l => /\ requests > 0
                         /\ want[l] # l \/ (req.op = "write" /\ req.lba = l)

Posted ==
    LET q == queues[1]
        n == (q.posted + QDEPTH - q.head) % QDEPTH
    IN [k \in 1 .. n |-> q.cq[(q.head + k - 1) % QDEPTH]]

Entries == [phase : 0 .. 1, cmd : InitCmds \cup UserCmds, ok : BOOLEAN]

Completions == INSTANCE DeviceQueue WITH
    Items <- Entries, Bad <- [NoEntry EXCEPT !.phase = 2], Nothing <- NoEntry, queue <- Posted,
    out <- IF taken.cmd.op = "admin" THEN NoEntry ELSE taken

\* Over any number of turns of the queue, also after commands that timed out,
\* poll_cq takes the controller's completions in their order, each once: the
\* phase tells a new entry from one of the last turn.
CompletionsInOrder == Completions!Spec

\* A mount and every request return, even from a device that has died.
RequestsEnd == (pc \notin {"idle", "off"}) ~> (pc \in {"idle", "off"})
=============================================================================
