-------------------------- MODULE DiskQueueProofs ---------------------------
(***************************************************************************)
(* Proofs about the callers of Disk and about the queues of its NVMe       *)
(* controller, for every depth of the queues, every set of contents and    *)
(* any number of requests and of waits that are given up.                  *)
(***************************************************************************)
EXTENDS Disk, TLAPS

Cmds == InitCmds \cup UserCmds
CmdsOf(i) == {c \in Cmds : Queue(c) = i}
Contents == Lbas \cup Values \cup {"none", "pattern"}

Busy == {"issue", "wait", "drq", "stored"}
Setup == {"nvme_init", "ahci_init", "ata_init"}
Probing == {"create_cq", "create_sq", "test_write", "test_read"}
Reading == {"mbr", "part"}
Mounting == Setup \cup Probing \cup Reading

-----------------------------------------------------------------------------
(* The caller *)

CallType == /\ pc \in Busy \cup Mounting \cup {"idle", "off"}
            /\ backend \in {"none", "nvme", "ahci", "ata"}
            /\ req \in Cmds \cup {NoCmd} /\ res \in {"none", "ok", "failed"}
            /\ requests \in Nat /\ slow \in Nat

\* What holds where the caller is: which backend it can have, that the file
\* system makes no request before the disk is mounted, and that a completion is
\* only held, PxCI only set and a drive only waited for by its own driver.
CallInv == /\ CallType
           /\ pc \in Busy => req \in Cmds /\ res = "none" /\ backend # "none"
           /\ pc \in Busy /\ req.for \in Probing => backend = "nvme"
           /\ pc \in Probing => backend = "nvme"
           /\ pc \in Reading \cup {"idle"} => backend # "none"
           /\ pc = "nvme_init" => backend = "none"
           /\ pc \in Mounting => requests = 0 /\ req.for # "user"
           /\ pc \in Busy /\ req.for # "user" => requests = 0
           /\ req.for = "user" => requests > 0
           /\ pc \in Setup => res # "ok" \/ req.op = "admin"
           /\ pc \in {"drq", "stored"} => backend = "ata"
           /\ pc = "drq" => running = req
           /\ pc = "stored" => req.op = "write"
           /\ taken # NoEntry => pc = "wait" /\ backend = "nvme"
           /\ ci => backend = "ahci"

-----------------------------------------------------------------------------
(* The queues *)

EntryType == [phase : 0 .. 1, cmd : Cmds \cup {NoCmd}, ok : BOOLEAN]

QueueType == [sq : [Slots -> Cmds \cup {NoCmd}], tail : Slots, fetched : Slots,
              cq : [Slots -> EntryType], head : Slots, phase : 0 .. 1,
              posted : Slots, tag : 0 .. 1]

\* Slot s is one of those from a up to b, around the end of the queue.
Between(a, s, b) == IF a <= b THEN a <= s /\ s < b ELSE a <= s \/ s < b

\* What waits in either ring of queue i are its commands.  The controller has
\* written the slots before posted in this turn and the others in the last one,
\* and the driver has turned as often as the controller or once less.
QueueOK(q, i) ==
    /\ q \in QueueType
    /\ \A s \in Slots : Between(q.fetched, s, q.tail) => q.sq[s] \in CmdsOf(i)
    /\ \A s \in Slots : Between(q.head, s, q.posted) => q.cq[s].cmd \in CmdsOf(i)
    /\ \A s \in Slots : q.cq[s].phase = IF s < q.posted THEN q.tag ELSE 1 - q.tag
    /\ q.phase = IF q.head <= q.posted THEN q.tag ELSE 1 - q.tag

Flights == [cmd : Cmds, slot : Slots, moved : BOOLEAN]

QueuesInv == /\ DOMAIN queues = 0 .. 1 /\ \A i \in 0 .. 1 : QueueOK(queues[i], i)
             /\ flight \in SUBSET Flights
             /\ \A f \in flight : f.cmd.op = "admin" => f.moved
             /\ taken \in EntryType /\ (taken # NoEntry => taken.cmd \in CmdsOf(Queue(req)))

-----------------------------------------------------------------------------
(* Commands *)

\* What a command of the driver's initialisation, of fat_mount or of the file
\* system may be.
CmdOK(c) == /\ c.for \in Probing \cup Reading \cup {"user"}
            /\ c.op \in {"admin", "read", "write"}
            /\ c.op = "admin" => c.for \in {"create_cq", "create_sq"}
            /\ c.for \in {"create_cq", "create_sq"} => c.op = "admin"
            /\ c.op # "admin" => c.lba \in Lbas
            /\ c.op = "write" => c.val \in Values \cup {"pattern"} /\ c.val \notin Lbas
            /\ c.op = "write" /\ c.lba # "lba200" => c.for = "user"
            /\ c.op = "write" => c.for \in {"user", "test_write"}
            /\ c = Cmd(c.for, c.op, c.lba, c.val)
            /\ c # NoCmd

\* What every command of the model is.
LEMMA CmdFacts ==
    ASSUME NEW c \in Cmds
    PROVE  CmdOK(c)
<1> USE DEF Cmd, Probing, Reading, Lbas, NoCmd, CmdOK
<1>2. CASE c \in InitCmds
  BY <1>2, ValuesAssumption DEF InitCmds, SelfTest
<1>3. CASE \E l \in {"part", "data"} : c = Cmd("user", "read", l, "none")
  BY <1>3
<1>4. CASE \E l \in {"part", "data"}, v \in Values : c = Cmd("user", "write", l, v)
  BY <1>4, ValuesAssumption
<1> QED
  BY <1>2, <1>3, <1>4 DEF Cmds, UserCmds

\* The fields of the empty command.
LEMMA NoCmdFields == NoCmd.for = "none" /\ NoCmd.op = "none" /\ NoCmd.lba = "none"
BY DEF NoCmd, Cmd

\* Where a command goes on.
AfterOK(p, ok) == /\ p \in Mounting \cup {"idle", "off"} /\ p # "nvme_init"
                  /\ req.for = "user" => p = "idle"
                  /\ p \in Setup => ~ok \/ req.op = "admin"
                  /\ p \in Probing => req.for \in Probing

\* Where fat_mount and its callers go on after a driver call that returned ok.
LEMMA AfterCases ==
    ASSUME req \in Cmds, backend \in {"nvme", "ahci", "ata"}, NEW ok \in BOOLEAN, NEW p \in After(ok)
    PROVE  AfterOK(p, ok)
<1> USE DEF AfterOK, Mounting, Setup, Probing, Reading
<1>1. CASE req.for = "create_cq"
  <2>1. After(ok) = {IF ok THEN "create_sq" ELSE "ahci_init"}
    BY <1>1, Zenon DEF After
  <2>2. req.op = "admin"
    BY <1>1, CmdFacts DEF CmdOK
  <2> QED
    BY <1>1, <2>1, <2>2
<1>2. CASE req.for = "create_sq"
  <2>1. After(ok) = (IF ok THEN {"test_write"} ELSE {}) \cup {"ahci_init"}
    BY <1>2, Zenon DEF After
  <2>2. req.op = "admin"
    BY <1>2, CmdFacts DEF CmdOK
  <2> QED
    BY <1>2, <2>1, <2>2
<1>3. CASE req.for = "test_write"
  <2>1. After(ok) = {IF ok THEN "test_read" ELSE "mbr"}
    BY <1>3, Zenon DEF After
  <2> QED
    BY <1>3, <2>1
<1>4. CASE req.for = "test_read"
  <2>1. After(ok) = {"mbr"}
    BY <1>4, Zenon DEF After
  <2> QED
    BY <1>4, <2>1
<1>5. CASE req.for = "mbr"
  <2> DEFINE other == [nvme |-> "ahci_init", ahci |-> "ata_init", ata |-> "off"]
  <2>1. After(ok) = IF ok THEN {"part", "off"} ELSE {other[backend]}
    BY <1>5, Zenon DEF After
  <2>2. other[backend] \in {"ahci_init", "ata_init", "off"}
    OBVIOUS
  <2> HIDE DEF other
  <2> QED
    BY <1>5, <2>1, <2>2
<1>6. CASE req.for = "part"
  <2>1. After(ok) = (IF ok THEN {"idle"} ELSE {}) \cup {"off"}
    BY <1>6, Zenon DEF After
  <2> QED
    BY <1>6, <2>1
<1>7. CASE req.for = "user"
  <2>1. After(ok) = {"idle"}
    BY <1>7, Zenon DEF After
  <2> QED
    BY <1>7, <2>1
<1> QED
  BY <1>1, <1>2, <1>3, <1>4, <1>5, <1>6, <1>7, CmdFacts DEF CmdOK

\* A command of the caller returns.
LEMMA Returns ==
    ASSUME CallInv, pc \in Busy, NEW ok \in BOOLEAN, Return(ok),
           slow' \in Nat, taken' = NoEntry, ci' = ci
    PROVE  CallInv' /\ pc' \notin Busy
<1>1. AfterOK(pc', ok)
  <2>1. req \in Cmds /\ backend \in {"nvme", "ahci", "ata"} /\ pc' \in After(ok)
    BY DEF CallInv, CallType, Return
  <2> QED
    BY <2>1, AfterCases
<1>2. /\ res' \in {"ok", "failed"} /\ (res' = "ok" => ok)
      /\ req' = req /\ backend' = backend /\ requests' = requests
  BY DEF Return, fsVars
<1>3. CmdOK(req)
  BY CmdFacts DEF CallInv
<1> QED
  BY <1>1, <1>2, <1>3
  DEF CallInv, CallType, AfterOK, Busy, Setup, Probing, Reading, Mounting, CmdOK

\* fat_mount starts with no call in progress.
LEMMA InitCall == Init => CallInv
BY NoCmdFields DEF Init, CallInv, CallType, Busy, Setup, Probing, Reading, Mounting

\* Every step keeps the record of the call in progress right.
LEMMA CallStep ==
    ASSUME CallInv, taken \in EntryType, [Next]_vars
    PROVE  CallInv'
<1> USE DEF Busy, Setup, Probing, Reading, Mounting
<1>1. ASSUME UNCHANGED <<callVars, fsVars, taken>>, ~ci' \/ ci, pc = "drq" => running' = running
      PROVE  CallInv'
  BY <1>1 DEF CallInv, CallType, callVars, fsVars
<1>2. CASE fat_mount
  <2>1. PICK c \in InitCmds : c.for = pc /\ req' = c
    BY <1>2 DEF fat_mount
  <2>2. CmdOK(c) /\ c \in Cmds
    BY CmdFacts DEF Cmds
  <2> QED
    BY <1>2, <2>1, <2>2
    DEF fat_mount, CallInv, CallType, CmdOK, fsVars, nvmeVars, ahciVars, driveVars
<1>3. CASE rw_abs
  <2>1. PICK c \in UserCmds : req' = c
    BY <1>3 DEF rw_abs
  <2>2. c \in Cmds /\ c.for = "user"
    BY DEF Cmds, UserCmds, Cmd
  <2> QED
    BY <1>3, <2>1, <2>2 DEF rw_abs, CallInv, CallType, nvmeVars, ahciVars, driveVars
<1>4. CASE nvme_init
  BY <1>4 DEF nvme_init, CallInv, CallType, nvmeVars, ahciVars, driveVars
<1>5. CASE nvme_submit
  BY <1>5 DEF nvme_submit, CallInv, CallType, fsVars, ahciVars, driveVars
<1>6. CASE poll_cq
  BY <1>6 DEF poll_cq, CallInv, CallType, callVars, fsVars, ahciVars, driveVars
<1>7. CASE nvme_done
  <2>1. taken.ok \in BOOLEAN
    BY DEF EntryType
  <2>2. pc \in Busy /\ Return(taken.ok) /\ slow' \in Nat /\ taken' = NoEntry /\ ci' = ci
    BY <1>7 DEF nvme_done, CallInv, CallType, ahciVars
  <2> QED
    BY <2>1, <2>2, Returns, Zenon
<1>8. CASE nvme_timeout
  <2>1. Return(FALSE) /\ pc = "wait" /\ taken = NoEntry /\ slow' = slow + 1 /\ UNCHANGED <<nvmeVars, ahciVars>>
    BY <1>8, Zenon DEF nvme_timeout
  <2>2. pc \in Busy /\ slow' \in Nat /\ taken' = NoEntry /\ ci' = ci
    BY <2>1 DEF CallInv, CallType, ahciVars, nvmeVars
  <2> QED
    BY <2>1, <2>2, Returns, Zenon
<1>9. CASE ahci_init
  BY <1>9 DEF ahci_init, OtherDisk, CallInv, CallType
<1>10. CASE ahci_issue
  BY <1>10 DEF ahci_issue, CallInv, CallType, fsVars, nvmeVars, driveVars
<1>11. CASE ahci_done
  <2>1. pc \in Busy /\ Return(TRUE) /\ slow' \in Nat /\ taken' = NoEntry /\ ci' = ci
    BY <1>11, Zenon DEF ahci_done, CallInv, CallType, ahciVars, nvmeVars
  <2> QED
    BY <2>1, Returns, Zenon
<1>12. CASE ahci_fail
  <2>1. Return(FALSE) /\ pc = "wait" /\ backend = "ahci" /\ slow' = slow + 1 /\ UNCHANGED <<nvmeVars, ahciVars>>
    BY <1>12, Zenon DEF ahci_fail
  <2>2. pc \in Busy /\ slow' \in Nat /\ taken' = NoEntry /\ ci' = ci
    BY <2>1 DEF CallInv, CallType, ahciVars, nvmeVars
  <2> QED
    BY <2>1, <2>2, Returns, Zenon
<1>13. CASE ata_init
  BY <1>13 DEF ata_init, OtherDisk, CallInv, CallType
<1>14. CASE ata_issue
  BY <1>14 DEF ata_issue, CallInv, CallType, fsVars, nvmeVars, ahciVars
<1>15. CASE ata_data /\ req.op = "read"
  <2>1. pc \in Busy /\ Return(TRUE) /\ slow' \in Nat /\ taken' = NoEntry /\ ci' = ci
    BY <1>15, Zenon DEF ata_data, CallInv, CallType, ahciVars, nvmeVars
  <2> QED
    BY <2>1, Returns, Zenon
<1>16. CASE ata_data /\ req.op # "read"
  <2>1. req.op = "write"
    BY <1>16, CmdFacts DEF ata_data, CallInv, CmdOK
  <2> QED
    BY <1>16, <2>1 DEF ata_data, CallInv, CallType, ahciVars, nvmeVars, fsVars
<1>17. CASE ata_fail
  <2>1. Return(FALSE) /\ (pc = "issue" \/ pc = "drq") /\ slow' = (IF status # "err" THEN slow + 1 ELSE slow) /\ UNCHANGED <<nvmeVars, ahciVars>>
    BY <1>17, Zenon DEF ata_fail
  <2>2. pc \in Busy /\ slow' \in Nat /\ taken' = NoEntry /\ ci' = ci
    BY <2>1 DEF CallInv, CallType, ahciVars, nvmeVars
  <2> QED
    BY <2>1, <2>2, Returns, Zenon
<1>18. CASE ata_stored
  <2>1. (status # "err") \in BOOLEAN
    BY Zenon
  <2>2. pc \in Busy /\ Return(status # "err") /\ slow' \in Nat /\ taken' = NoEntry /\ ci' = ci
    BY <1>18 DEF ata_stored, CallInv, CallType, ahciVars, nvmeVars
  <2> QED
    BY <2>1, <2>2, Returns, Zenon
<1>19. CASE \E i \in 0 .. 1 : nvme_fetch(i)
  BY <1>1, <1>19 DEF nvme_fetch, ahciVars, driveVars
<1>20. CASE \E f \in flight : nvme_move(f) \/ \E ok \in BOOLEAN : nvme_post(f, ok)
  <2>1. UNCHANGED <<callVars, fsVars, taken, ahciVars, driveVars>>
    BY <1>20, Zenon DEF nvme_move, nvme_post
  <2> QED
    BY <1>1, <2>1 DEF ahciVars, driveVars
<1>21. CASE port_start \/ port_move \/ port_finish \/ port_error
  <2>1. ci /\ pc # "drq"
    BY <1>21 DEF port_start, port_move, port_finish, port_error, CallInv
  <2> QED
    BY <1>1, <1>21, <2>1, Zenon DEF port_start, port_move, port_finish, port_error, nvmeVars
<1>22. CASE drive_step
  BY <1>1, <1>22 DEF drive_step, nvmeVars, ahciVars
<1>23. CASE UNCHANGED vars
  BY <1>1, <1>23 DEF vars, nvmeVars, ahciVars, driveVars
<1> QED
  BY <1>2, <1>3, <1>4, <1>5, <1>6, <1>7, <1>8, <1>9, <1>10, <1>11, <1>12, <1>13, <1>14, <1>15,
     <1>16, <1>17, <1>18, <1>19, <1>20, <1>21, <1>22, <1>23, Zenon DEF Next, Driver, Device

-----------------------------------------------------------------------------
(* One queue pair *)

\* An index of a queue wraps to 0 and stays an index.
LEMMA NextSlot ==
    ASSUME NEW s \in Slots
    PROVE  /\ (s + 1) % QDEPTH = IF s + 1 = QDEPTH THEN 0 ELSE s + 1
           /\ (s + 1) % QDEPTH \in Slots
<1>1. QDEPTH \in Nat /\ QDEPTH > 0 /\ s \in Nat /\ s < QDEPTH
  BY DiskAssumption DEF Slots
<1>2. CASE s + 1 = QDEPTH
  BY <1>1, <1>2 DEF Slots
<1>3. CASE s + 1 < QDEPTH
  <2>1. (s + 1) % QDEPTH = s + 1
    BY <1>1, <1>3
  <2> QED
    BY <1>1, <1>3, <2>1 DEF Slots
<1> QED
  BY <1>1, <1>2, <1>3

\* The tail of q moves, over the command c.
Submitted(q, r, c) == /\ r \in QueueType
                      /\ r.sq = [q.sq EXCEPT ![q.tail] = c] /\ r.tail = (q.tail + 1) % QDEPTH
                      /\ r.fetched = q.fetched /\ r.cq = q.cq /\ r.head = q.head
                      /\ r.phase = q.phase /\ r.posted = q.posted /\ r.tag = q.tag

Fetched(q, r) == /\ r \in QueueType /\ r.sq = q.sq /\ r.tail = q.tail
                 /\ r.fetched = (q.fetched + 1) % QDEPTH /\ r.cq = q.cq /\ r.head = q.head
                 /\ r.phase = q.phase /\ r.posted = q.posted /\ r.tag = q.tag

PostedTo(q, r, e) == /\ r \in QueueType /\ r.sq = q.sq /\ r.tail = q.tail /\ r.fetched = q.fetched
                     /\ r.cq = [q.cq EXCEPT ![q.posted] = e] /\ r.head = q.head
                     /\ r.phase = q.phase /\ r.posted = (q.posted + 1) % QDEPTH
                     /\ r.tag = IF q.posted + 1 = QDEPTH THEN 1 - q.tag ELSE q.tag

Taken(q, r) == /\ r \in QueueType /\ r.sq = q.sq /\ r.tail = q.tail /\ r.fetched = q.fetched
               /\ r.cq = q.cq /\ r.head = (q.head + 1) % QDEPTH
               /\ r.phase = NextPhase(q) /\ r.posted = q.posted /\ r.tag = q.tag

\* nvme_submit keeps a queue well formed.
LEMMA SubmitOK ==
    ASSUME NEW q, NEW r, NEW i, NEW c \in CmdsOf(i), QueueOK(q, i), Submitted(q, r, c)
    PROVE  QueueOK(r, i)
<1>1. q \in QueueType
  BY DEF QueueOK
<1>2. q.tail \in Slots /\ q.fetched \in Slots /\ q.sq \in [Slots -> Cmds \cup {NoCmd}]
  BY <1>1 DEF QueueType
<1>3. r.tail = (IF q.tail + 1 = QDEPTH THEN 0 ELSE q.tail + 1) /\ r.fetched = q.fetched
  BY <1>2, NextSlot DEF Submitted
<1>4. ASSUME NEW s \in Slots, Between(r.fetched, s, r.tail) PROVE r.sq[s] \in CmdsOf(i)
  <2>1. s = q.tail \/ Between(q.fetched, s, q.tail)
    BY <1>2, <1>3, <1>4, DiskAssumption DEF Slots, Between
  <2> QED
    BY <1>2, <2>1 DEF QueueOK, Submitted
<1> QED
  BY <1>4 DEF QueueOK, Submitted

\* The controller's fetch keeps a queue well formed and yields a command of that queue.
LEMMA FetchOK ==
    ASSUME NEW q, NEW r, NEW i, QueueOK(q, i), Fetched(q, r), q.fetched # q.tail
    PROVE  QueueOK(r, i) /\ q.sq[q.fetched] \in CmdsOf(i)
<1>1. q \in QueueType
  BY DEF QueueOK
<1>2. q.tail \in Slots /\ q.fetched \in Slots
  BY <1>1 DEF QueueType
<1>3. r.fetched = (IF q.fetched + 1 = QDEPTH THEN 0 ELSE q.fetched + 1) /\ r.tail = q.tail
  BY <1>2, NextSlot DEF Fetched
<1>4. ASSUME NEW s \in Slots, Between(r.fetched, s, r.tail) PROVE r.sq[s] \in CmdsOf(i)
  <2>1. Between(q.fetched, s, q.tail)
    BY <1>2, <1>3, <1>4, DiskAssumption DEF Slots, Between
  <2> QED
    BY <2>1 DEF QueueOK, Fetched
<1>5. Between(q.fetched, q.fetched, q.tail)
  BY <1>2, DiskAssumption DEF Slots, Between
<1> QED
  BY <1>2, <1>4, <1>5 DEF QueueOK, Fetched

\* The controller's completion keeps a queue well formed: the phase tags tell new from old.
LEMMA PostOK ==
    ASSUME NEW q, NEW r, NEW i, NEW e \in EntryType, e.cmd \in CmdsOf(i), e.phase = q.tag,
           QueueOK(q, i), PostedTo(q, r, e), (q.posted + 1) % QDEPTH # q.head
    PROVE  QueueOK(r, i)
<1>1. q \in QueueType
  BY DEF QueueOK
<1>2. /\ q.posted \in Slots /\ q.head \in Slots /\ q.cq \in [Slots -> EntryType]
      /\ q.tag \in 0 .. 1
  BY <1>1 DEF QueueType
<1>3. /\ r.posted = IF q.posted + 1 = QDEPTH THEN 0 ELSE q.posted + 1
      /\ r.head = q.head /\ r.posted # r.head
  BY <1>2, NextSlot DEF PostedTo
<1>4. ASSUME NEW s \in Slots, Between(r.head, s, r.posted) PROVE r.cq[s].cmd \in CmdsOf(i)
  <2>1. s = q.posted \/ Between(q.head, s, q.posted)
    BY <1>2, <1>3, <1>4, DiskAssumption DEF Slots, Between
  <2> QED
    BY <1>2, <2>1 DEF QueueOK, PostedTo
<1>5. ASSUME NEW s \in Slots PROVE r.cq[s].phase = IF s < r.posted THEN r.tag ELSE 1 - r.tag
  <2>1. r.cq[s].phase = IF s <= q.posted THEN q.tag ELSE 1 - q.tag
    BY <1>2, DiskAssumption DEF Slots, QueueOK, PostedTo
  <2> QED
    BY <1>2, <1>3, <2>1, DiskAssumption, SMTT(20) DEF Slots, PostedTo
<1>6. r.phase = IF r.head <= r.posted THEN r.tag ELSE 1 - r.tag
  <2>1. q.phase = IF q.head <= q.posted THEN q.tag ELSE 1 - q.tag
    BY DEF QueueOK
  <2>2. r.phase = q.phase /\ r.tag = IF q.posted + 1 = QDEPTH THEN 1 - q.tag ELSE q.tag
    BY DEF PostedTo
  <2>3. /\ q.posted \in Nat /\ q.head \in Nat /\ QDEPTH \in Nat
        /\ q.posted < QDEPTH /\ q.head < QDEPTH
    BY <1>2, DiskAssumption DEF Slots
  <2>4. CASE q.posted + 1 = QDEPTH
    <3>1. q.head <= q.posted /\ ~(r.head <= r.posted)
      BY <1>3, <2>3, <2>4
    <3> QED
      BY <1>2, <2>1, <2>2, <2>4, <3>1
  <2>5. CASE q.posted + 1 # QDEPTH
    <3>1. q.head <= q.posted <=> r.head <= r.posted
      BY <1>3, <2>3, <2>5
    <3> QED
      BY <2>1, <2>2, <2>5, <3>1
  <2> QED
    BY <2>4, <2>5
<1> QED
  BY <1>4, <1>5, <1>6 DEF QueueOK, PostedTo

\* The driver sees an entry exactly when one waits.
LEMMA PhaseTells ==
    ASSUME NEW q, NEW i, QueueOK(q, i)
    PROVE  q.cq[q.head].phase = q.phase <=> q.head # q.posted
<1>1. q \in QueueType
  BY DEF QueueOK
<1>2. q.posted \in Slots /\ q.head \in Slots /\ q.tag \in 0 .. 1
  BY <1>1 DEF QueueType
<1>3. q.cq[q.head].phase = IF q.head < q.posted THEN q.tag ELSE 1 - q.tag
  BY <1>2 DEF QueueOK
<1>4. q.phase = IF q.head <= q.posted THEN q.tag ELSE 1 - q.tag
  BY DEF QueueOK
<1> QED
  BY <1>2, <1>3, <1>4, DiskAssumption DEF Slots

\* poll_cq's consumption keeps a queue well formed and yields a completion of that queue.
LEMMA TakeOK ==
    ASSUME NEW q, NEW r, NEW i, QueueOK(q, i), Taken(q, r), q.cq[q.head].phase = q.phase
    PROVE  QueueOK(r, i) /\ q.cq[q.head] \in EntryType /\ q.cq[q.head].cmd \in CmdsOf(i)
<1>1. q \in QueueType
  BY DEF QueueOK
<1>2. /\ q.posted \in Slots /\ q.head \in Slots /\ q.cq \in [Slots -> EntryType]
      /\ q.tag \in 0 .. 1 /\ q.head # q.posted
  BY <1>1, PhaseTells DEF QueueType
<1>3. r.head = (IF q.head + 1 = QDEPTH THEN 0 ELSE q.head + 1) /\ r.posted = q.posted
  BY <1>2, NextSlot DEF Taken
<1>4. ASSUME NEW s \in Slots, Between(r.head, s, r.posted) PROVE r.cq[s].cmd \in CmdsOf(i)
  <2>1. Between(q.head, s, q.posted)
    BY <1>2, <1>3, <1>4, DiskAssumption DEF Slots, Between
  <2> QED
    BY <2>1 DEF QueueOK, Taken
<1>5. Between(q.head, q.head, q.posted)
  BY <1>2, DiskAssumption DEF Slots, Between
<1>6. r.phase = IF r.head <= r.posted THEN r.tag ELSE 1 - r.tag
  <2>1. q.phase = IF q.head <= q.posted THEN q.tag ELSE 1 - q.tag
    BY DEF QueueOK
  <2>2. r.phase = (IF q.head + 1 = QDEPTH THEN 1 - q.phase ELSE q.phase) /\ r.tag = q.tag
    BY DEF Taken, NextPhase
  <2> QED
    BY <1>2, <1>3, <2>1, <2>2, DiskAssumption DEF Slots
<1> QED
  BY <1>2, <1>4, <1>5, <1>6 DEF QueueOK, Taken

-----------------------------------------------------------------------------
(* The queues of the controller *)

\* A queue as nvme_init sets it up is well formed.
LEMMA EmptyOK ==
    ASSUME NEW i
    PROVE  QueueOK(EmptyQueue, i)
<1>1. 0 \in Slots /\ \A s \in Slots : ~(s < 0)
  BY DiskAssumption DEF Slots
<1>2. NoEntry \in EntryType
  BY DEF NoEntry, EntryType
<1>3. EmptyQueue \in QueueType
  BY <1>1, <1>2 DEF EmptyQueue, QueueType
<1>4. \A s \in Slots : ~Between(0, s, 0)
  BY <1>1, DiskAssumption DEF Between, Slots
<1>5. \A s \in Slots : EmptyQueue.cq[s].phase = 0
  BY DEF EmptyQueue, NoEntry
<1>6. /\ EmptyQueue.fetched = 0 /\ EmptyQueue.tail = 0 /\ EmptyQueue.head = 0
      /\ EmptyQueue.posted = 0 /\ EmptyQueue.tag = 1 /\ EmptyQueue.phase = 1
  BY DEF EmptyQueue
<1> QED
  BY <1>1, <1>3, <1>4, <1>5, <1>6 DEF QueueOK

\* The queues are well formed at the start.
LEMMA InitQueues == Init => QueuesInv
<1>1. NoEntry \in EntryType
  BY DEF NoEntry, EntryType
<1> QED
  BY <1>1, EmptyOK DEF Init, QueuesInv

\* Admin commands go to queue 0, the others to queue 1.
LEMMA QueueOf ==
    ASSUME NEW c \in Cmds
    PROVE  Queue(c) \in 0 .. 1 /\ c \in CmdsOf(Queue(c)) /\ (Queue(c) = 0 <=> c.op = "admin")
BY DEF Queue, CmdsOf

\* nvme_submit changes one queue, by one submission.
LEMMA SubmitSteps ==
    ASSUME QueuesInv, req \in Cmds, nvme_submit
    PROVE  /\ DOMAIN queues' = 0 .. 1
           /\ Submitted(queues[Queue(req)], queues'[Queue(req)], req)
           /\ queues'[1 - Queue(req)] = queues[1 - Queue(req)]
<1> DEFINE i == Queue(req)
           q == queues[i]
<1>1. i \in 0 .. 1 /\ 1 - i \in 0 .. 1 /\ 1 - i # i
  BY QueueOf
<1>2. q \in QueueType /\ DOMAIN queues = 0 .. 1
  BY <1>1 DEF QueuesInv, QueueOK
<1>3. q.tail \in Slots /\ (q.tail + 1) % QDEPTH \in Slots
  BY <1>2, NextSlot DEF QueueType
<1>4. queues' = [queues EXCEPT ![i].sq[q.tail] = req, ![i].tail = (@ + 1) % QDEPTH]
  BY DEF nvme_submit
<1> HIDE DEF i
<1> DEFINE k == (q.tail + 1) % QDEPTH
<1>5. queues'[i] = [q EXCEPT !.sq = [q.sq EXCEPT ![q.tail] = req], !.tail = k]
  BY <1>1, <1>2, <1>4, Zenon
<1>6. DOMAIN queues' = 0 .. 1 /\ queues'[1 - i] = queues[1 - i]
  BY <1>1, <1>2, <1>4
<1> DEFINE S == [q.sq EXCEPT ![q.tail] = req]
<1>7. k \in Slots /\ S \in [Slots -> Cmds \cup {NoCmd}]
  BY <1>2, <1>3 DEF QueueType
<1> HIDE DEF q, k, S
<1>8. /\ queues'[i] \in QueueType /\ queues'[i].sq = S /\ queues'[i].tail = k
      /\ queues'[i].fetched = q.fetched /\ queues'[i].cq = q.cq /\ queues'[i].head = q.head
      /\ queues'[i].phase = q.phase /\ queues'[i].posted = q.posted /\ queues'[i].tag = q.tag
  BY <1>2, <1>5, <1>7, Zenon DEF QueueType, S
<1>9. Submitted(q, queues'[i], req)
  BY <1>8, Zenon DEF Submitted, k, S
<1> QED
  BY <1>6, <1>9 DEF i, q

\* A fetch changes one queue, by one fetch.
LEMMA FetchSteps ==
    ASSUME QueuesInv, NEW i \in 0 .. 1, nvme_fetch(i)
    PROVE  /\ DOMAIN queues' = 0 .. 1 /\ Fetched(queues[i], queues'[i])
           /\ queues'[1 - i] = queues[1 - i]
<1> DEFINE q == queues[i]
           k == (q.fetched + 1) % QDEPTH
<1>1. 1 - i \in 0 .. 1 /\ 1 - i # i
  OBVIOUS
<1>2. q \in QueueType /\ DOMAIN queues = 0 .. 1
  BY DEF QueuesInv, QueueOK
<1>3. k \in Slots
  BY <1>2, NextSlot DEF QueueType
<1>4. queues' = [queues EXCEPT ![i].fetched = (@ + 1) % QDEPTH]
  BY DEF nvme_fetch
<1>5. queues'[i] = [q EXCEPT !.fetched = k]
  BY <1>1, <1>2, <1>4
<1>6. DOMAIN queues' = 0 .. 1 /\ queues'[1 - i] = queues[1 - i]
  BY <1>1, <1>2, <1>4
<1> HIDE DEF q, k
<1>7. /\ queues'[i] \in QueueType /\ queues'[i].sq = q.sq /\ queues'[i].tail = q.tail
      /\ queues'[i].fetched = k /\ queues'[i].cq = q.cq /\ queues'[i].head = q.head
      /\ queues'[i].phase = q.phase /\ queues'[i].posted = q.posted /\ queues'[i].tag = q.tag
  BY <1>2, <1>3, <1>5 DEF QueueType
<1>8. Fetched(q, queues'[i])
  BY <1>7, Zenon DEF Fetched, k
<1> QED
  BY <1>6, <1>8 DEF q

\* poll_cq changes one queue, by one consumption.
LEMMA TakeSteps ==
    ASSUME QueuesInv, req \in Cmds, poll_cq
    PROVE  /\ DOMAIN queues' = 0 .. 1
           /\ Taken(queues[Queue(req)], queues'[Queue(req)])
           /\ queues'[1 - Queue(req)] = queues[1 - Queue(req)]
<1> DEFINE i == Queue(req)
           q == queues[i]
           k == (q.head + 1) % QDEPTH
           p == NextPhase(q)
<1>1. i \in 0 .. 1 /\ 1 - i \in 0 .. 1 /\ 1 - i # i
  BY QueueOf
<1>2. q \in QueueType /\ DOMAIN queues = 0 .. 1
  BY <1>1 DEF QueuesInv, QueueOK
<1>3. k \in Slots /\ p \in 0 .. 1
  BY <1>2, NextSlot DEF QueueType, NextPhase
<1>4. queues' = [queues EXCEPT ![i].head = (@ + 1) % QDEPTH, ![i].phase = NextPhase(q)]
  BY DEF poll_cq
<1> HIDE DEF i
<1>5. queues'[i] = [q EXCEPT !.head = k, !.phase = p]
  BY <1>1, <1>2, <1>4, Zenon
<1>6. DOMAIN queues' = 0 .. 1 /\ queues'[1 - i] = queues[1 - i]
  BY <1>1, <1>2, <1>4
<1> HIDE DEF q, k, p
<1>7. /\ queues'[i] \in QueueType /\ queues'[i].sq = q.sq /\ queues'[i].tail = q.tail
      /\ queues'[i].fetched = q.fetched /\ queues'[i].cq = q.cq /\ queues'[i].head = k
      /\ queues'[i].phase = p /\ queues'[i].posted = q.posted /\ queues'[i].tag = q.tag
  BY <1>2, <1>3, <1>5, Zenon DEF QueueType
<1>8. Taken(q, queues'[i])
  BY <1>7, Zenon DEF Taken, k, p
<1> QED
  BY <1>6, <1>8 DEF i, q

\* A completion changes one queue, by one entry.
LEMMA PostSteps ==
    ASSUME QueuesInv, NEW f \in flight, NEW ok \in BOOLEAN, nvme_post(f, ok),
           NEW e, e = [phase |-> queues[Queue(f.cmd)].tag, cmd |-> f.cmd, ok |-> ok]
    PROVE  /\ e \in EntryType /\ f.cmd \in Cmds /\ DOMAIN queues' = 0 .. 1
           /\ PostedTo(queues[Queue(f.cmd)], queues'[Queue(f.cmd)], e)
           /\ queues'[1 - Queue(f.cmd)] = queues[1 - Queue(f.cmd)]
<1> DEFINE i == Queue(f.cmd)
           q == queues[i]
           k == (q.posted + 1) % QDEPTH
           t == IF q.posted + 1 = QDEPTH THEN 1 - q.tag ELSE q.tag
           C == [q.cq EXCEPT ![q.posted] = e]
<1>0. f.cmd \in Cmds
  BY DEF QueuesInv, Flights
<1>1. i \in 0 .. 1 /\ 1 - i \in 0 .. 1 /\ 1 - i # i
  BY <1>0, QueueOf
<1>2. q \in QueueType /\ DOMAIN queues = 0 .. 1
  BY <1>1 DEF QueuesInv, QueueOK
<1>3. k \in Slots /\ t \in 0 .. 1
  BY <1>2, NextSlot DEF QueueType
<1>4. e \in EntryType
  BY <1>0, <1>2 DEF EntryType, QueueType
<1>5. queues' = [queues EXCEPT ![i].cq[q.posted] = e, ![i].posted = (@ + 1) % QDEPTH,
                               ![i].tag = IF q.posted + 1 = QDEPTH THEN 1 - @ ELSE @]
  BY Zenon DEF nvme_post
<1> HIDE DEF i
<1>6. queues'[i] = [q EXCEPT !.cq = C, !.posted = k, !.tag = t]
  BY <1>1, <1>2, <1>5, Zenon
<1>7. DOMAIN queues' = 0 .. 1 /\ queues'[1 - i] = queues[1 - i]
  BY <1>1, <1>2, <1>5
<1>8. C \in [Slots -> EntryType]
  BY <1>2, <1>4 DEF QueueType
<1> HIDE DEF q, k, t, C
<1>9. /\ queues'[i] \in QueueType /\ queues'[i].sq = q.sq /\ queues'[i].tail = q.tail
      /\ queues'[i].fetched = q.fetched /\ queues'[i].cq = C /\ queues'[i].head = q.head
      /\ queues'[i].phase = q.phase /\ queues'[i].posted = k /\ queues'[i].tag = t
  BY <1>2, <1>3, <1>6, <1>8, Zenon DEF QueueType
<1>10. PostedTo(q, queues'[i], e)
  BY <1>9, Zenon DEF PostedTo, k, t, C
<1> QED
  BY <1>0, <1>4, <1>7, <1>10 DEF i, q

\* Every step keeps both queues well formed.
LEMMA QueuesStep ==
    ASSUME CallInv, QueuesInv, [Next]_vars
    PROVE  QueuesInv'
<1>1. ASSUME queues' = queues, flight' = flight \/ flight' = {},
             taken' = NoEntry \/ UNCHANGED <<taken, req>>
      PROVE  QueuesInv'
  <2>1. NoEntry \in EntryType
    BY DEF NoEntry, EntryType
  <2> QED
    BY <1>1, <2>1 DEF QueuesInv
<1>2. taken = NoEntry \/ pc = "wait"
  BY DEF CallInv
<1>3. CASE nvme_submit
  <2> DEFINE i == Queue(req)
  <2>1. req \in Cmds /\ UNCHANGED <<req, flight, taken>>
    BY <1>3 DEF nvme_submit, CallInv, Busy
  <2>2. i \in 0 .. 1 /\ req \in CmdsOf(i)
    BY <2>1, QueueOf
  <2>3. /\ DOMAIN queues' = 0 .. 1 /\ Submitted(queues[i], queues'[i], req)
        /\ queues'[1 - i] = queues[1 - i]
    BY <1>3, <2>1, SubmitSteps
  <2> HIDE DEF i
  <2>4. QueueOK(queues'[i], i)
    BY <2>2, <2>3, SubmitOK DEF QueuesInv
  <2>5. \A j \in 0 .. 1 : QueueOK(queues'[j], j)
    BY <2>2, <2>3, <2>4 DEF QueuesInv
  <2> QED
    BY <2>1, <2>3, <2>5 DEF QueuesInv
<1>4. CASE poll_cq
  <2> DEFINE i == Queue(req)
             e == queues[i].cq[queues[i].head]
  <2>1. req \in Cmds /\ UNCHANGED <<req, flight>>
    BY <1>4 DEF poll_cq, CallInv, callVars, Busy
  <2>2. i \in 0 .. 1
    BY <2>1, QueueOf
  <2>3. /\ DOMAIN queues' = 0 .. 1 /\ Taken(queues[i], queues'[i])
        /\ queues'[1 - i] = queues[1 - i]
    BY <1>4, <2>1, TakeSteps
  <2>4. taken' = e /\ e.phase = queues[i].phase
    BY <1>4 DEF poll_cq, Visible
  <2> HIDE DEF i
  <2>5. QueueOK(queues'[i], i) /\ e \in EntryType /\ e.cmd \in CmdsOf(i)
    BY <2>2, <2>3, <2>4, TakeOK DEF QueuesInv
  <2>6. \A j \in 0 .. 1 : QueueOK(queues'[j], j)
    BY <2>2, <2>3, <2>5 DEF QueuesInv
  <2> HIDE DEF e
  <2> QED
    BY <2>1, <2>3, <2>4, <2>5, <2>6 DEF QueuesInv, i
<1>5. CASE \E i \in 0 .. 1 : nvme_fetch(i)
  <2>1. PICK i \in 0 .. 1 : nvme_fetch(i)
    BY <1>5
  <2> DEFINE q == queues[i]
             g == [cmd |-> q.sq[q.fetched], slot |-> q.fetched, moved |-> i = 0]
  <2>2. /\ DOMAIN queues' = 0 .. 1 /\ Fetched(queues[i], queues'[i])
        /\ queues'[1 - i] = queues[1 - i]
    BY <2>1, FetchSteps
  <2>3. q.fetched # q.tail /\ flight' = flight \cup {g}
    BY <2>1, Zenon DEF nvme_fetch
  <2>4. UNCHANGED <<req, taken>>
    BY <2>1 DEF nvme_fetch, callVars
  <2>5. QueueOK(queues'[i], i) /\ q.sq[q.fetched] \in CmdsOf(i)
    BY <2>2, <2>3, FetchOK DEF QueuesInv
  <2>6. \A j \in 0 .. 1 : QueueOK(queues'[j], j)
    BY <2>2, <2>5 DEF QueuesInv
  <2>7. g \in Flights /\ (g.cmd.op = "admin" => g.moved)
    <3>1. q.fetched \in Slots
      BY DEF QueuesInv, QueueOK, QueueType
    <3>2. (i = 0) \in BOOLEAN /\ q.sq[q.fetched] \in Cmds
      BY <2>5, Zenon DEF CmdsOf
    <3>3. q.sq[q.fetched].op = "admin" => i = 0
      BY <2>5 DEF CmdsOf, Queue
    <3> HIDE DEF q
    <3>4. g \in Flights
      BY <3>1, <3>2, Zenon DEF Flights
    <3>5. g.cmd = q.sq[q.fetched] /\ g.moved = (i = 0)
      BY Zenon
    <3> QED
      BY <3>3, <3>4, <3>5, Zenon
  <2> HIDE DEF g
  <2> QED
    BY <2>2, <2>3, <2>4, <2>6, <2>7 DEF QueuesInv
<1>6. ASSUME NEW f \in flight, nvme_move(f) PROVE QueuesInv'
  <2> DEFINE g == [f EXCEPT !.moved = TRUE]
  <2>1. flight' = (flight \ {f}) \cup {g} /\ UNCHANGED <<queues, taken, req>>
    BY <1>6, Zenon DEF nvme_move, callVars
  <2>2. g \in Flights /\ g.moved
    BY Zenon DEF QueuesInv, Flights
  <2> HIDE DEF g
  <2> QED
    BY <2>1, <2>2 DEF QueuesInv
<1>7. ASSUME NEW f \in flight, NEW ok \in BOOLEAN, nvme_post(f, ok) PROVE QueuesInv'
  <2> DEFINE i == Queue(f.cmd)
             e == [phase |-> queues[i].tag, cmd |-> f.cmd, ok |-> ok]
  <2>1. /\ e \in EntryType /\ f.cmd \in Cmds /\ DOMAIN queues' = 0 .. 1
        /\ PostedTo(queues[i], queues'[i], e) /\ queues'[1 - i] = queues[1 - i]
    BY <1>7, PostSteps, Zenon
  <2>2. i \in 0 .. 1 /\ f.cmd \in CmdsOf(i)
    BY <2>1, QueueOf
  <2>3. e.cmd = f.cmd /\ e.phase = queues[i].tag
    BY Zenon
  <2>4. flight' = flight \ {f} /\ UNCHANGED <<req, taken>>
    BY <1>7, Zenon DEF nvme_post, callVars
  <2>5. (queues[i].posted + 1) % QDEPTH # queues[i].head
    BY <1>7, Zenon DEF nvme_post
  <2> HIDE DEF e, i
  <2>6. QueueOK(queues'[i], i)
    BY <2>1, <2>2, <2>3, <2>5, PostOK, Zenon DEF QueuesInv
  <2>7. \A j \in 0 .. 1 : QueueOK(queues'[j], j)
    BY <2>1, <2>2, <2>6 DEF QueuesInv
  <2> QED
    BY <2>1, <2>4, <2>7 DEF QueuesInv
<1>8. CASE nvme_done
  BY <1>1, <1>8 DEF nvme_done
<1>9. CASE nvme_init \/ nvme_timeout
  BY <1>1, <1>2, <1>9, Zenon DEF nvme_init, nvme_timeout, nvmeVars
<1>10. CASE fat_mount \/ rw_abs
  <2>1. pc # "wait" /\ UNCHANGED nvmeVars
    BY <1>10, CmdFacts DEF fat_mount, rw_abs, CmdOK, Cmds, Probing, Reading
  <2> QED
    BY <1>1, <1>2, <2>1 DEF nvmeVars
<1>11. CASE ahci_init \/ ata_init
  BY <1>1, <1>2, <1>11 DEF ahci_init, ata_init, OtherDisk
<1>12. CASE ahci_issue \/ ahci_done \/ ahci_fail
  BY <1>1, <1>12, Zenon DEF ahci_issue, ahci_done, ahci_fail, nvmeVars, Return
<1>13. CASE ata_issue \/ ata_data \/ ata_fail \/ ata_stored
  BY <1>1, <1>13, Zenon DEF ata_issue, ata_data, ata_fail, ata_stored, nvmeVars, Return
<1>14. CASE port_start \/ port_move \/ port_finish \/ port_error \/ drive_step
  BY <1>1, <1>14, Zenon DEF port_start, port_move, port_finish, port_error, drive_step, nvmeVars,
                            callVars
<1>15. CASE UNCHANGED vars
  BY <1>1, <1>15 DEF vars, nvmeVars, callVars
<1> QED
  BY <1>3, <1>4, <1>5, <1>6, <1>7, <1>8, <1>9, <1>10, <1>11, <1>12, <1>13, <1>14, <1>15, Zenon
  DEF Next, Driver, Device

-----------------------------------------------------------------------------
(* The completion queue is a queue *)

Waiting(q) == [k \in 1 .. (q.posted + QDEPTH - q.head) % QDEPTH |->
                  q.cq[(q.head + k - 1) % QDEPTH]]

\* The same, without the remainders.
Count(q) == IF q.head <= q.posted THEN q.posted - q.head ELSE q.posted + QDEPTH - q.head

SlotOf(q, k) == IF q.head + k - 1 < QDEPTH THEN q.head + k - 1 ELSE q.head + k - 1 - QDEPTH

\* The remainder of an index below two turns of the queue.
LEMMA Turn ==
    ASSUME NEW a \in 0 .. 2 * QDEPTH - 1
    PROVE  a % QDEPTH = IF a < QDEPTH THEN a ELSE a - QDEPTH
BY DiskAssumption

\* A function on 1 .. n is a sequence of length n.
LEMMA AsSequence ==
    ASSUME NEW S, NEW n \in Nat, NEW f \in [1 .. n -> S]
    PROVE  f \in Seq(S) /\ Len(f) = n
OBVIOUS

\* A sequence longer by one with the same beginning is an Append.
LEMMA Appended ==
    ASSUME NEW S, NEW s \in Seq(S), NEW t \in Seq(S), Len(t) = Len(s) + 1,
           \A k \in 1 .. Len(s) : t[k] = s[k]
    PROVE  t = Append(s, t[Len(s) + 1])
OBVIOUS

\* A sequence shorter by one with the elements shifted is the Tail.
LEMMA Shifted ==
    ASSUME NEW S, NEW s \in Seq(S), NEW t \in Seq(S), Len(s) = Len(t) + 1,
           \A k \in 1 .. Len(t) : t[k] = s[k + 1]
    PROVE  s # << >> /\ Head(s) = s[1] /\ t = Tail(s)
<1>1. s # << >> /\ Head(s) = s[1] /\ Tail(s) \in Seq(S) /\ Len(Tail(s)) = Len(t)
  OBVIOUS
<1>2. \A k \in 1 .. Len(t) : Tail(s)[k] = t[k]
  BY <1>1
<1> QED
  BY <1>1, <1>2

\* The completions that wait are the entries from head up to posted.
LEMMA WaitingIs ==
    ASSUME NEW q \in QueueType
    PROVE  /\ Waiting(q) \in Seq(EntryType) /\ Len(Waiting(q)) = Count(q)
           /\ \A k \in 1 .. Count(q) : Waiting(q)[k] = q.cq[SlotOf(q, k)]
           /\ Count(q) \in 0 .. QDEPTH - 1
           /\ \A k \in 1 .. Count(q) + 1 : SlotOf(q, k) \in Slots
<1>1. /\ q.posted \in Nat /\ q.head \in Nat /\ QDEPTH \in Nat /\ QDEPTH > 1
      /\ q.posted < QDEPTH /\ q.head < QDEPTH
  BY DiskAssumption DEF QueueType, Slots
<1>2. (q.posted + QDEPTH - q.head) % QDEPTH = Count(q) /\ Count(q) \in 0 .. QDEPTH - 1
  <2>1. q.posted + QDEPTH - q.head \in 0 .. 2 * QDEPTH - 1
    BY <1>1
  <2> DEFINE a == q.posted + QDEPTH - q.head
  <2>2. a % QDEPTH = IF a < QDEPTH THEN a ELSE a - QDEPTH
    <3> HIDE DEF a
    <3> QED
      BY <2>1, Turn DEF a
  <2>3. (IF a < QDEPTH THEN a ELSE a - QDEPTH) = Count(q)
    BY <1>1 DEF Count
  <2>4. Count(q) \in 0 .. QDEPTH - 1
    BY <1>1 DEF Count
  <2> HIDE DEF a
  <2> QED
    BY <2>2, <2>3, <2>4 DEF a
<1>3. ASSUME NEW k \in 1 .. Count(q) + 1
      PROVE  (q.head + k - 1) % QDEPTH = SlotOf(q, k) /\ SlotOf(q, k) \in Slots
  <2> DEFINE a == q.head + k - 1
  <2>1. a \in 0 .. 2 * QDEPTH - 1 /\ a < 2 * QDEPTH
    BY <1>1, <1>2
  <2>2. a % QDEPTH = IF a < QDEPTH THEN a ELSE a - QDEPTH
    <3> HIDE DEF a
    <3> QED
      BY <2>1, Turn
  <2>3. SlotOf(q, k) = IF a < QDEPTH THEN a ELSE a - QDEPTH
    BY <1>1, <1>2 DEF SlotOf
  <2> HIDE DEF a
  <2>4. SlotOf(q, k) \in Slots
    BY <1>1, <2>1, <2>3 DEF Slots
  <2>5. a % QDEPTH = SlotOf(q, k)
    BY <2>2, <2>3
  <2> QED
    BY <2>4, <2>5 DEF a
<1> DEFINE f == [k \in 1 .. Count(q) |-> q.cq[SlotOf(q, k)]]
<1>4. Waiting(q) = f
  BY <1>2, <1>3 DEF Waiting
<1>5. f \in [1 .. Count(q) -> EntryType]
  <2>1. q.cq \in [Slots -> EntryType] /\ Count(q) \in Nat
    BY <1>2, DiskAssumption DEF QueueType
  <2> QED
    BY <1>3, <2>1
<1>6. \A k \in 1 .. Count(q) : f[k] = q.cq[SlotOf(q, k)]
  OBVIOUS
<1> HIDE DEF f
<1>7. f \in Seq(EntryType) /\ Len(f) = Count(q)
  BY <1>2, <1>5, DiskAssumption, AsSequence
<1> QED
  BY <1>2, <1>3, <1>4, <1>6, <1>7

\* A completion that is posted waits behind the others.
LEMMA PostWaits ==
    ASSUME NEW q \in QueueType, NEW r, NEW e, PostedTo(q, r, e), (q.posted + 1) % QDEPTH # q.head
    PROVE  Waiting(r) = Append(Waiting(q), e)
<1>1. /\ q.posted \in Nat /\ q.head \in Nat /\ QDEPTH \in Nat /\ QDEPTH > 1
      /\ q.posted < QDEPTH /\ q.head < QDEPTH /\ q.cq \in [Slots -> EntryType]
      /\ q.posted \in Slots
  BY DiskAssumption DEF QueueType, Slots
<1>2. /\ r \in QueueType /\ r.head = q.head /\ r.cq = [q.cq EXCEPT ![q.posted] = e]
      /\ r.posted = (IF q.posted + 1 = QDEPTH THEN 0 ELSE q.posted + 1)
      /\ (IF q.posted + 1 = QDEPTH THEN 0 ELSE q.posted + 1) # q.head
  BY <1>1, NextSlot DEF PostedTo
<1>3. Count(r) = Count(q) + 1 /\ Count(q) \in Nat
  BY <1>1, <1>2 DEF Count
<1>4. \A k \in Nat : SlotOf(r, k) = SlotOf(q, k)
  BY <1>2 DEF SlotOf
<1>5. SlotOf(q, Count(q) + 1) = q.posted
  BY <1>1 DEF SlotOf, Count
<1>6. ASSUME NEW k \in 1 .. Count(q) PROVE SlotOf(q, k) # q.posted
  BY <1>1 DEF SlotOf, Count
<1> DEFINE n == Count(q)
           u == Waiting(q)
           w == Waiting(r)
<1>7. /\ u \in Seq(EntryType) /\ Len(u) = n /\ w \in Seq(EntryType) /\ Len(w) = n + 1
      /\ \A k \in 1 .. n : u[k] = q.cq[SlotOf(q, k)]
      /\ \A k \in 1 .. n + 1 : w[k] = r.cq[SlotOf(q, k)] /\ SlotOf(q, k) \in Slots
  <2>1. /\ u \in Seq(EntryType) /\ Len(u) = n
        /\ \A k \in 1 .. n : u[k] = q.cq[SlotOf(q, k)]
        /\ \A k \in 1 .. n + 1 : SlotOf(q, k) \in Slots
    BY WaitingIs, Zenon
  <2>2. /\ w \in Seq(EntryType) /\ Len(w) = Count(r)
        /\ \A k \in 1 .. Count(r) : w[k] = r.cq[SlotOf(r, k)]
    BY <1>2, WaitingIs, Zenon
  <2> HIDE DEF u, w, n
  <2> QED
    BY <1>3, <1>4, <2>1, <2>2 DEF n
<1> HIDE DEF u, w
<1>8. w[n + 1] = e
  BY <1>1, <1>2, <1>3, <1>5, <1>7
<1>9. ASSUME NEW k \in 1 .. n PROVE w[k] = u[k]
  BY <1>1, <1>2, <1>3, <1>6, <1>7
<1> HIDE DEF n
<1>10. w = Append(u, w[Len(u) + 1])
  BY <1>7, <1>9, Appended
<1> QED
  BY <1>7, <1>8, <1>10 DEF u, w

\* The completion that is taken is the first that waits.
LEMMA TakeWaits ==
    ASSUME NEW q \in QueueType, NEW r, Taken(q, r), q.head # q.posted
    PROVE  /\ Waiting(q) # << >> /\ Head(Waiting(q)) = q.cq[q.head]
           /\ Waiting(r) = Tail(Waiting(q))
<1>1. /\ q.posted \in Nat /\ q.head \in Nat /\ QDEPTH \in Nat /\ QDEPTH > 1
      /\ q.posted < QDEPTH /\ q.head < QDEPTH /\ q.cq \in [Slots -> EntryType]
      /\ q.head \in Slots
  BY DiskAssumption DEF QueueType, Slots
<1>2. /\ r \in QueueType /\ r.posted = q.posted /\ r.cq = q.cq
      /\ r.head = (IF q.head + 1 = QDEPTH THEN 0 ELSE q.head + 1)
  BY <1>1, NextSlot DEF Taken
<1>3. Count(r) = Count(q) - 1 /\ Count(q) \in Nat /\ Count(q) > 0
  BY <1>1, <1>2 DEF Count
<1>4. SlotOf(q, 1) = q.head
  BY <1>1 DEF SlotOf
<1>5. ASSUME NEW k \in 1 .. Count(r) PROVE SlotOf(r, k) = SlotOf(q, k + 1)
  <2>1. k \in Nat /\ k > 0
    BY <1>3
  <2>2. r.head + k - 1 = IF q.head + 1 = QDEPTH THEN k - 1 ELSE q.head + k
    BY <1>1, <1>2, <2>1
  <2>3. q.head + (k + 1) - 1 = q.head + k
    BY <1>1, <2>1
  <2>4. k < QDEPTH
    BY <1>1, <1>2, <1>3 DEF Count
  <2>5. SlotOf(q, k + 1) = IF q.head + k < QDEPTH THEN q.head + k ELSE q.head + k - QDEPTH
    BY <2>3 DEF SlotOf
  <2>6. CASE q.head + 1 = QDEPTH
    <3>1. r.head + k - 1 = k - 1 /\ k - 1 < QDEPTH /\ q.head + k - QDEPTH = k - 1
      BY <1>1, <2>1, <2>2, <2>4, <2>6
    <3>2. SlotOf(r, k) = k - 1
      BY <3>1 DEF SlotOf
    <3> QED
      BY <1>1, <2>1, <2>5, <2>6, <3>1, <3>2
  <2>7. CASE q.head + 1 # QDEPTH
    <3>1. r.head = q.head + 1
      BY <1>2, <2>7
    <3>2. SlotOf(r, k) = IF q.head + k < QDEPTH THEN q.head + k ELSE q.head + k - QDEPTH
      BY <1>1, <2>1, <3>1 DEF SlotOf
    <3> QED
      BY <2>5, <3>2
  <2> QED
    BY <2>6, <2>7
<1> DEFINE n == Count(r)
           u == Waiting(q)
           w == Waiting(r)
<1>6. /\ u \in Seq(EntryType) /\ Len(u) = n + 1 /\ w \in Seq(EntryType) /\ Len(w) = n
      /\ \A k \in 1 .. n + 1 : u[k] = q.cq[SlotOf(q, k)]
      /\ \A k \in 1 .. n : w[k] = q.cq[SlotOf(r, k)]
  <2>1. /\ u \in Seq(EntryType) /\ Len(u) = Count(q)
        /\ \A k \in 1 .. Count(q) : u[k] = q.cq[SlotOf(q, k)]
    BY WaitingIs, Zenon
  <2>2. /\ w \in Seq(EntryType) /\ Len(w) = n
        /\ \A k \in 1 .. n : w[k] = r.cq[SlotOf(r, k)]
    BY <1>2, WaitingIs, Zenon
  <2> HIDE DEF u, w
  <2>3. Count(q) = n + 1
    BY <1>3
  <2> HIDE DEF n
  <2> QED
    BY <1>2, <2>1, <2>2, <2>3
<1>7. n \in Nat
  BY <1>3
<1> HIDE DEF u, w
<1>8. ASSUME NEW k \in 1 .. n PROVE w[k] = u[k + 1]
  BY <1>5, <1>6, <1>7
<1> HIDE DEF n
<1>9. u[1] = q.cq[q.head]
  BY <1>4, <1>6, <1>7
<1>10. u # << >> /\ Head(u) = u[1] /\ w = Tail(u)
  BY <1>6, <1>8, Shifted
<1> QED
  BY <1>9, <1>10 DEF u, w

\* What the refinement mapping calls Posted are the waiting completions of queue 1.
LEMMA PostedIs == Posted = Waiting(queues[1])
BY DEF Posted, Waiting

\* At the start no completion waits and none is out.
LEMMA InitRefines == Init => Completions!Init
<1> SUFFICES ASSUME Init PROVE Posted = << >> /\ taken.cmd.op # "admin" /\ taken = NoEntry
  BY SMTT(20) DEF Completions!Init
<1> DEFINE q == EmptyQueue
<1>1. queues[1] = q /\ q \in QueueType /\ q.head = 0 /\ q.posted = 0
  BY EmptyOK, SMTT(20) DEF Init, QueueOK, EmptyQueue
<1> HIDE DEF q
<1>2. Count(q) = 0 /\ Waiting(q) \in Seq(EntryType) /\ Len(Waiting(q)) = Count(q)
  BY <1>1, WaitingIs DEF Count
<1>3. Waiting(q) = << >>
  BY <1>2
<1>4. taken = NoEntry /\ taken.cmd.op = "none"
  BY NoCmdFields DEF Init, NoEntry
<1> QED
  BY <1>1, <1>3, <1>4, PostedIs

\* What poll_cq has taken, as DeviceQueue sees it.
Out == IF taken.cmd.op = "admin" THEN NoEntry ELSE taken

\* Every step is a step of the device queue or leaves it alone.
LEMMA StepRefines ==
    ASSUME CallInv, QueuesInv, [Next]_vars
    PROVE  Completions!Next \/ UNCHANGED <<Posted, Out>>
<1>1. ASSUME queues'[1] = queues[1] PROVE Posted' = Posted
  BY <1>1 DEF Posted
<1>2. queues[1] \in QueueType /\ QueueOK(queues[1], 1)
  BY DEF QueuesInv, QueueOK
<1>3. ASSUME queues' = queues, taken' = taken PROVE UNCHANGED <<Posted, Out>>
  BY <1>1, <1>3 DEF Out
<1>4. CASE nvme_submit
  <2>1. req \in Cmds /\ taken' = taken
    BY <1>4 DEF nvme_submit, CallInv, Busy
  <2>2. /\ Submitted(queues[Queue(req)], queues'[Queue(req)], req) /\ Queue(req) \in 0 .. 1
        /\ queues'[1 - Queue(req)] = queues[1 - Queue(req)]
    BY <1>4, <2>1, SubmitSteps, QueueOf
  <2>3. CASE Queue(req) = 0
    BY <1>1, <2>1, <2>2, <2>3 DEF Out
  <2>4. CASE Queue(req) = 1
    <3>1. Waiting(queues'[1]) = Waiting(queues[1])
      BY <2>2, <2>4 DEF Submitted, Waiting
    <3> QED
      BY <2>1, <3>1 DEF Out, Posted, Waiting
  <2> QED
    BY <2>2, <2>3, <2>4
<1>5. CASE poll_cq
  <2> DEFINE i == Queue(req)
             e == queues[i].cq[queues[i].head]
  <2>1. req \in Cmds /\ taken = NoEntry /\ taken' = e /\ e.phase = queues[i].phase
    BY <1>5 DEF poll_cq, CallInv, Busy, Visible
  <2>2. i \in 0 .. 1
    BY <2>1, QueueOf, SMTT(20)
  <2>3. Taken(queues[i], queues'[i]) /\ queues'[1 - i] = queues[1 - i]
    BY <1>5, <2>1, TakeSteps, SMTT(20)
  <2> HIDE DEF i
  <2>4. e.cmd \in CmdsOf(i) /\ queues[i].head # queues[i].posted
    BY <2>1, <2>2, <2>3, TakeOK, PhaseTells DEF QueuesInv
  <2>5. NoEntry.cmd.op = "none"
    BY NoCmdFields DEF NoEntry
  <2>6. CASE i = 0
    <3>1. e.cmd.op = "admin"
      BY <2>4, <2>6 DEF CmdsOf, Queue
    <3>2. Out = NoEntry /\ Out' = NoEntry
      BY <2>1, <2>5, <3>1 DEF Out
    <3> QED
      BY <1>1, <2>3, <2>6, <3>2
  <2>7. CASE i = 1
    <3>1. e.cmd.op # "admin"
      BY <2>4, <2>7 DEF CmdsOf, Queue
    <3>2. Out' = e
      BY <2>1, <3>1 DEF Out
    <3>3. /\ Waiting(queues[1]) # << >> /\ Head(Waiting(queues[1])) = e
          /\ Waiting(queues'[1]) = Tail(Waiting(queues[1]))
      BY <1>2, <2>3, <2>4, <2>7, TakeWaits
    <3>4. Posted = Waiting(queues[1]) /\ Posted' = Waiting(queues'[1])
      BY DEF Posted, Waiting
    <3>5. Completions!Take
      BY <3>2, <3>3, <3>4 DEF Completions!Take, Out
    <3> QED
      BY <3>5 DEF Completions!Next
  <2> QED
    BY <2>2, <2>6, <2>7
<1>6. CASE \E i \in 0 .. 1 : nvme_fetch(i)
  <2>1. PICK i \in 0 .. 1 : nvme_fetch(i)
    BY <1>6
  <2>2. Fetched(queues[i], queues'[i]) /\ queues'[1 - i] = queues[1 - i]
    BY <2>1, FetchSteps
  <2>3. taken' = taken
    BY <2>1 DEF nvme_fetch
  <2>4. CASE i = 0
    BY <1>1, <2>2, <2>3, <2>4 DEF Out
  <2>5. CASE i = 1
    <3>1. Waiting(queues'[1]) = Waiting(queues[1])
      BY <2>2, <2>5 DEF Fetched, Waiting
    <3> QED
      BY <2>3, <3>1 DEF Out, Posted, Waiting
  <2> QED
    BY <2>4, <2>5
<1>7. ASSUME NEW f \in flight, NEW ok \in BOOLEAN, nvme_post(f, ok)
      PROVE  Completions!Next \/ UNCHANGED <<Posted, Out>>
  <2> DEFINE i == Queue(f.cmd)
             e == [phase |-> queues[i].tag, cmd |-> f.cmd, ok |-> ok]
  <2>1. /\ e \in EntryType /\ f.cmd \in Cmds
        /\ PostedTo(queues[i], queues'[i], e) /\ queues'[1 - i] = queues[1 - i]
    BY <1>7, PostSteps, Zenon
  <2>2. i \in 0 .. 1
    BY <2>1, QueueOf
  <2>3. taken' = taken /\ (queues[i].posted + 1) % QDEPTH # queues[i].head
    BY <1>7, Zenon DEF nvme_post
  <2>4. e \in Entries
    <3>1. e.cmd = f.cmd
      BY Zenon
    <3> HIDE DEF e
    <3> QED
      BY <2>1, <3>1 DEF Entries, EntryType, Cmds
  <2> HIDE DEF e, i
  <2>5. CASE i = 0
    BY <1>1, <2>1, <2>3, <2>5 DEF Out
  <2>6. CASE i = 1
    <3>1. Waiting(queues'[1]) = Append(Waiting(queues[1]), e)
      BY <1>2, <2>1, <2>3, <2>6, PostWaits
    <3>2. Posted = Waiting(queues[1]) /\ Posted' = Waiting(queues'[1])
      BY DEF Posted, Waiting
    <3>3. Out' = Out
      BY <2>3 DEF Out
    <3>4. Completions!Put(e)
      BY <3>1, <3>2, <3>3 DEF Completions!Put, Out
    <3> QED
      BY <2>4, <3>4 DEF Completions!Next
  <2> QED
    BY <2>2, <2>5, <2>6
<1>8. CASE nvme_done
  <2>1. queues' = queues /\ taken' = NoEntry
    BY <1>8 DEF nvme_done
  <2>2. Out' = NoEntry
    BY <2>1 DEF Out
  <2>3. Completions!Handle
    BY <1>1, <2>1, <2>2 DEF Completions!Handle, Out
  <2> QED
    BY <2>3 DEF Completions!Next
<1>9. CASE fat_mount \/ rw_abs \/ nvme_init \/ nvme_timeout \/ ahci_init \/ ata_init
  BY <1>3, <1>9, Zenon DEF fat_mount, rw_abs, nvme_init, nvme_timeout, ahci_init, ata_init, nvmeVars
<1>10. CASE ahci_issue \/ ahci_done \/ ahci_fail \/ ata_issue \/ ata_data \/ ata_fail \/ ata_stored
  BY <1>3, <1>10, Zenon
  DEF ahci_issue, ahci_done, ahci_fail, ata_issue, ata_data, ata_fail, ata_stored, nvmeVars
<1>11. CASE port_start \/ port_move \/ port_finish \/ port_error \/ drive_step
  BY <1>3, <1>11, Zenon DEF port_start, port_move, port_finish, port_error, drive_step, nvmeVars
<1>12. ASSUME NEW f \in flight, nvme_move(f) PROVE UNCHANGED <<Posted, Out>>
  BY <1>3, <1>12, Zenon DEF nvme_move
<1>13. CASE UNCHANGED vars
  BY <1>3, <1>13 DEF vars, nvmeVars
<1> QED
  BY <1>4, <1>5, <1>6, <1>7, <1>8, <1>9, <1>10, <1>11, <1>12, <1>13, Zenon DEF Next, Driver, Device

\* The state of the caller and of the queues, in every reachable state.
THEOREM QueuesInvariance == Spec => [](CallInv /\ QueuesInv)
<1>1. Init => CallInv /\ QueuesInv
  BY InitCall, InitQueues
<1>2. CallInv /\ QueuesInv /\ [Next]_vars => (CallInv /\ QueuesInv)'
  BY CallStep, QueuesStep DEF QueuesInv
<1> QED
  BY <1>1, <1>2, PTL DEF Spec

\* Over any number of turns of the queue, of any depth, also after commands that
\* timed out, poll_cq takes the controller's completions in their order, each
\* once.
THEOREM Refinement == Spec => CompletionsInOrder
<1>1. Init => Completions!Init
  BY InitRefines
<1>2. CallInv /\ QueuesInv /\ [Next]_vars => [Completions!Next]_<<Posted, Out>>
  BY StepRefines
<1>3. Spec => [](CallInv /\ QueuesInv)
  BY QueuesInvariance
<1> QED
  BY <1>1, <1>2, <1>3, PTL DEF Spec, CompletionsInOrder, Completions!Spec, Out

=============================================================================
