----------------------------- MODULE DiskProofs -----------------------------
(***************************************************************************)
(* Proofs about the data of Disk: what is written, and what is read back,  *)
(* for every depth of the queues, every set of contents and any number of  *)
(* requests.                                                               *)
(***************************************************************************)
EXTENDS DiskQueueProofs

-----------------------------------------------------------------------------
(* What is written *)

\* The sectors the file system has given to a write.
Given == {l \in Lbas \ {"lba200"} :
             requests > 0 /\ (want[l] # l \/ (req.op = "write" /\ req.lba = l))}

Asked(c, L) == c.op \in {"write", "store"} /\ c.lba # "lba200" => c.lba \in L

AskedAll(q, L) == \A s \in Slots : Between(q.fetched, s, q.tail) => Asked(q.sq[s], L)

DataType == /\ medium \in [Lbas -> Contents] /\ want \in [Lbas -> Contents \cup {Unknown}]
            /\ sector \in Contents /\ bounce \in Contents
            /\ slot \in Cmds \cup {NoCmd}
            /\ DOMAIN running = DOMAIN NoCmd
            /\ running.op \in {"write", "read", "store"} => running.lba \in Lbas
            /\ running.op = "store" => running.val \in Contents

\* All writes that are under way somewhere were asked for.
WriteInv == /\ DataType
            /\ \A l \in Lbas \ {"lba200"} : medium[l] # l => l \in Given
            /\ \A l \in Lbas \ {"lba200"} : want[l] # l => requests > 0
            /\ pc \notin Busy /\ req.op = "write" /\ req.lba # "lba200" => want[req.lba] # req.lba
            /\ Asked(req, Given) /\ Asked(slot, Given) /\ Asked(running, Given)
            /\ \A f \in flight : Asked(f.cmd, Given)
            /\ \A i \in 0 .. 1 : AskedAll(queues[i], Given)

-----------------------------------------------------------------------------
(* What is read back, while no wait was given up *)

Quiet(q) == q.fetched = q.tail /\ q.head = q.posted
Sent(q, c) == /\ q.head = q.posted /\ q.fetched # q.tail /\ (q.fetched + 1) % QDEPTH = q.tail
              /\ q.sq[q.fetched] = c
Done(q) == q.fetched = q.tail /\ q.head # q.posted /\ (q.head + 1) % QDEPTH = q.posted

\* The data of the command are where they belong.
Moved(buffer) == /\ req.op = "write" => medium[req.lba] = req.val
                 /\ req.op = "read" => buffer = medium[req.lba]

\* The command of the driver is the only one, and in one place: in the submission
\* queue, with the controller, in the completion queue or with the driver again.
InHand(q) ==
    \/ Sent(q, req) /\ flight = {} /\ taken = NoEntry
    \/ Quiet(q) /\ taken = NoEntry
       /\ \E f \in flight : flight = {f} /\ f.cmd = req /\ (f.moved => Moved(bounce))
    \/ Done(q) /\ flight = {} /\ taken = NoEntry /\ (q.cq[q.head].ok => Moved(bounce))
    \/ Quiet(q) /\ flight = {} /\ taken # NoEntry /\ (taken.ok => Moved(bounce))

NvmeInv ==
    /\ pc # "wait" => (\A i \in 0 .. 1 : Quiet(queues[i])) /\ flight = {}
    /\ pc = "wait" => /\ Quiet(queues[1 - Queue(req)]) /\ InHand(queues[Queue(req)])
                      /\ req.op = "write" => bounce = req.val

AhciInv ==
    /\ pc # "wait" => ~ci /\ running = NoCmd
    /\ pc = "wait" => /\ slot = req
                      /\ \/ ci /\ running \in {NoCmd, req}
                         \/ ci /\ running = [req EXCEPT !.op = "moved"] /\ Moved(sector)
                         \/ ~ci /\ running = NoCmd /\ Moved(sector)

AtaInv ==
    /\ pc \notin {"drq", "stored"} => status # "busy"
    /\ pc = "stored" => /\ status \in {"busy", "ready", "err"}
                        /\ status = "busy" => running = [req EXCEPT !.op = "store"]
                        /\ status = "ready" => medium[req.lba] = req.val

\* What AHCI and ATA write is in the buffer of the file system.
Buffered == backend \in {"ahci", "ata"} /\ pc \in Busy /\ req.op = "write" => sector = req.val

\* The disk holds what a read is to return, but for a sector being written.
Kept == \A l \in Lbas : \/ want[l] \in {Unknown, medium[l]}
                        \/ pc \in Busy /\ req.op = "write" /\ req.lba = l

BackendInv == /\ backend = "nvme" => NvmeInv
              /\ backend = "ahci" => AhciInv
              /\ backend = "ata" => AtaInv

DataInv ==
    /\ pc = "nvme_init" => queues = [q \in 0 .. 1 |-> EmptyQueue]
    /\ backend # "nvme" => flight = {}
    /\ slow = 0 => Buffered /\ Kept /\ BackendInv /\ ReadsBack

-----------------------------------------------------------------------------
(* Only what was asked for is written *)

\* A command that asks only for sectors in L asks only for sectors in a larger set.
LEMMA AskedMore ==
    ASSUME NEW c, NEW L, NEW M, L \subseteq M, Asked(c, L)
    PROVE  Asked(c, M)
BY DEF Asked

\* The same for every command in a queue.
LEMMA AskedAllMore ==
    ASSUME NEW q, NEW L, NEW M, L \subseteq M, AskedAll(q, L)
    PROVE  AskedAll(q, M)
BY AskedMore DEF AskedAll

\* The empty command asks for nothing.
LEMMA AskedNone == \A L : Asked(NoCmd, L)
BY NoCmdFields DEF Asked

\* All commands have the same fields.
LEMMA CmdDomain == \A c \in Cmds \cup {NoCmd} : DOMAIN c = DOMAIN NoCmd
BY CmdFacts DEF CmdOK, Cmd, NoCmd

\* The unknown content is no sector's original content, and "none" is a content.
LEMMA UnknownContents == Unknown \notin Lbas /\ "none" \in Contents
BY DEF Unknown, Lbas, Contents

\* A command returns: what was given to a write still is, and a write that has
\* returned has left its mark.
LEMMA GivenAfterReturn ==
    ASSUME CallInv, WriteInv, pc \in Busy, NEW ok \in BOOLEAN, Return(ok)
    PROVE  /\ Given \subseteq Given' /\ want' \in [Lbas -> Contents \cup {Unknown}]
           /\ \A l \in Lbas \ {"lba200"} : want'[l] # l => requests' > 0
           /\ req' = req
           /\ req.op = "write" /\ req.lba # "lba200" => want'[req.lba] # req.lba
<1>1. /\ req \in Cmds /\ CmdOK(req) /\ want \in [Lbas -> Contents \cup {Unknown}]
      /\ requests \in Nat /\ req' = req /\ requests' = requests
  BY CmdFacts DEF CallInv, CallType, WriteInv, DataType, Return, fsVars
<1>2. CASE req.op = "write"
  <2> DEFINE v == IF ok THEN req.val ELSE Unknown
  <2>1. want' = [want EXCEPT ![req.lba] = v] /\ req.lba \in Lbas
    BY <1>1, <1>2 DEF Return, CmdOK
  <2>2. v \in Contents \cup {Unknown} /\ v \notin Lbas
    BY <1>1, <1>2, UnknownContents DEF CmdOK, Contents
  <2> HIDE DEF v
  <2>3. want' \in [Lbas -> Contents \cup {Unknown}] /\ want'[req.lba] # req.lba
    BY <1>1, <2>1, <2>2
  <2>4. \A l \in Lbas : l # req.lba => want'[l] = want[l]
    BY <1>1, <2>1
  <2>5. req.lba # "lba200" => requests > 0
    BY <1>1, <1>2 DEF CmdOK, CallInv
  <2>6. Given \subseteq Given'
    BY <1>1, <1>2, <2>4 DEF Given
  <2> QED
    BY <1>1, <2>3, <2>4, <2>5, <2>6 DEF WriteInv
<1>3. CASE req.op # "write"
  <2>1. want' = want
    BY <1>3 DEF Return
  <2> QED
    BY <1>1, <1>3, <2>1 DEF Given, WriteInv
<1> QED
  BY <1>2, <1>3

\* A driver call that returns to fat.c keeps what is known of writes.
LEMMA ReturnWrites ==
    ASSUME CallInv, WriteInv, pc \in Busy, NEW ok \in BOOLEAN, Return(ok),
           UNCHANGED <<medium, flight, queues, bounce, slot>>,
           sector' \in Contents, running' \in {running, NoCmd}
    PROVE  WriteInv'
<1>1. /\ Given \subseteq Given' /\ want' \in [Lbas -> Contents \cup {Unknown}]
      /\ \A l \in Lbas \ {"lba200"} : want'[l] # l => requests' > 0
      /\ req' = req
      /\ req.op = "write" /\ req.lba # "lba200" => want'[req.lba] # req.lba
  BY GivenAfterReturn
<1>2. Asked(req', Given') /\ Asked(slot', Given') /\ Asked(running', Given')
  BY <1>1, AskedMore, AskedNone DEF WriteInv
<1>3. /\ \A f \in flight' : Asked(f.cmd, Given')
      /\ \A i \in 0 .. 1 : AskedAll(queues'[i], Given')
  BY <1>1, AskedMore, AskedAllMore DEF WriteInv
<1>4. DataType'
  BY <1>1, NoCmdFields DEF WriteInv, DataType
<1>5. \A l \in Lbas \ {"lba200"} : medium'[l] # l => l \in Given'
  BY <1>1 DEF WriteInv
<1> QED
  BY <1>1, <1>2, <1>3, <1>4, <1>5 DEF WriteInv, Asked, AskedAll

\* Before fat_mount nothing has been asked of any device.
LEMMA InitWrites == Init => WriteInv
<1> SUFFICES ASSUME Init PROVE WriteInv
  OBVIOUS
<1>1. req = NoCmd /\ slot = NoCmd /\ running = NoCmd /\ flight = {} /\ queues = [q \in 0 .. 1 |-> EmptyQueue]
  BY DEF Init
<1>2. DataType
  BY UnknownContents, NoCmdFields DEF Init, DataType, Contents
<1>3. \A L : AskedAll(EmptyQueue, L)
  <2>1. \A s \in Slots : ~Between(0, s, 0)
    BY DiskAssumption DEF Between, Slots
  <2> QED
    BY <2>1 DEF AskedAll, EmptyQueue
<1>4. \A l \in Lbas : medium[l] = l /\ want[l] = l
  BY DEF Init
<1> QED
  BY <1>1, <1>2, <1>3, <1>4, AskedNone, NoCmdFields DEF WriteInv

\* A step that leaves the caller and the commands alone but for what it takes off.
LEMMA DataWrites ==
    ASSUME WriteInv, UNCHANGED <<callVars, fsVars>>,
           DataType', \A l \in Lbas \ {"lba200"} : medium'[l] # l => l \in Given \/ medium'[l] = medium[l],
           Asked(slot', Given), Asked(running', Given), \A f \in flight' : Asked(f.cmd, Given),
           \A i \in 0 .. 1 : AskedAll(queues'[i], Given)
    PROVE  WriteInv'
<1>1. Given' = Given
  BY DEF Given, callVars, fsVars
<1>2. UNCHANGED <<pc, req, want, requests>>
  BY DEF callVars, fsVars
<1>3. Asked(req', Given') /\ Asked(slot', Given') /\ Asked(running', Given')
  BY <1>1, <1>2 DEF WriteInv
<1>4. /\ \A f \in flight' : Asked(f.cmd, Given')
      /\ \A i \in 0 .. 1 : AskedAll(queues'[i], Given')
  BY <1>1
<1>5. \A l \in Lbas \ {"lba200"} : medium'[l] # l => l \in Given'
  BY <1>1 DEF WriteInv
<1>6. /\ \A l \in Lbas \ {"lba200"} : want'[l] # l => requests' > 0
      /\ pc' \notin Busy /\ req'.op = "write" /\ req'.lba # "lba200" => want'[req'.lba] # req'.lba
  BY <1>2 DEF WriteInv
<1> QED
  BY <1>3, <1>4, <1>5, <1>6 DEF WriteInv, Asked, AskedAll

\* A step that leaves the disk and its contents alone, and of the command only
\* where it is.
LEMMA MoveOn ==
    ASSUME CallInv, WriteInv, UNCHANGED <<req, want, requests, sector, medium>>,
           pc' \in Busy \/ pc \notin Busy,
           bounce' \in Contents, slot' \in {slot, req}, slot' \in Cmds \cup {NoCmd},
           flight' = flight,
           DOMAIN running' = DOMAIN NoCmd,
           Asked(running', Given), running'.op \in {"write", "read", "store"} => running'.lba \in Lbas,
           running'.op = "store" => running'.val \in Contents,
           \A i \in 0 .. 1 : AskedAll(queues'[i], Given)
    PROVE  WriteInv'
<1>1. Given' = Given
  BY DEF Given
<1>2. DataType'
  BY DEF WriteInv, DataType
<1>3. Asked(req', Given') /\ Asked(slot', Given') /\ Asked(running', Given')
  BY <1>1 DEF WriteInv
<1>4. /\ \A f \in flight' : Asked(f.cmd, Given')
      /\ \A i \in 0 .. 1 : AskedAll(queues'[i], Given')
  BY <1>1 DEF WriteInv
<1>5. \A l \in Lbas \ {"lba200"} : medium'[l] # l => l \in Given'
  BY <1>1 DEF WriteInv
<1>6. /\ \A l \in Lbas \ {"lba200"} : want'[l] # l => requests' > 0
      /\ pc' \notin Busy /\ req'.op = "write" /\ req'.lba # "lba200" => want'[req'.lba] # req'.lba
  BY DEF WriteInv
<1> QED
  BY <1>2, <1>3, <1>4, <1>5, <1>6 DEF WriteInv, Asked, AskedAll

\* The next command.
LEMMA IssueWrites ==
    ASSUME CallInv, WriteInv, pc \notin Busy, pc' \in Busy, req' \in Cmds,
           requests' \in Nat, requests' >= requests, req'.for = "user" => requests' > 0,
           UNCHANGED <<want, medium, nvmeVars, ahciVars, driveVars>>, sector' \in Contents
    PROVE  WriteInv'
<1>1. requests \in Nat /\ CmdOK(req')
  BY CmdFacts DEF CallInv, CallType
<1>2. Given \subseteq Given'
  BY <1>1 DEF Given, WriteInv
<1>3. Asked(req', Given')
  BY <1>1 DEF Asked, Given, CmdOK
<1>4. UNCHANGED <<slot, running, flight, queues, bounce>>
  BY DEF nvmeVars, ahciVars, driveVars
<1>5. Asked(slot', Given') /\ Asked(running', Given')
  BY <1>2, <1>4, AskedMore DEF WriteInv
<1>6. /\ \A f \in flight' : Asked(f.cmd, Given')
      /\ \A i \in 0 .. 1 : AskedAll(queues'[i], Given')
  BY <1>2, <1>4, AskedMore, AskedAllMore DEF WriteInv
<1>7. DataType'
  BY <1>4 DEF WriteInv, DataType
<1>8. /\ \A l \in Lbas \ {"lba200"} : medium'[l] # l => l \in Given'
      /\ \A l \in Lbas \ {"lba200"} : want'[l] # l => requests' > 0
  BY <1>1, <1>2 DEF WriteInv
<1> QED
  BY <1>3, <1>5, <1>6, <1>7, <1>8 DEF WriteInv, Asked, AskedAll

\* Another disk, none of whose sectors was given to a write.
LEMMA OtherDiskWrites ==
    ASSUME CallInv, WriteInv, pc \in Setup, pc' \notin Busy, OtherDisk,
           UNCHANGED <<req, requests, sector, queues, slot>>
    PROVE  WriteInv'
<1>1. requests = 0 /\ Given = {} /\ req.for # "user"
  BY DEF CallInv, Given, Mounting
<1>2. /\ medium' = [l \in Lbas |-> l] /\ want' = [l \in Lbas |-> l] /\ flight' = {}
      /\ bounce' = "none" /\ running' = NoCmd
  BY DEF OtherDisk
<1>3. DataType'
  BY <1>2, UnknownContents, NoCmdFields DEF WriteInv, DataType, Contents
<1>4. Asked(req', Given') /\ Asked(slot', Given') /\ Asked(running', Given')
  BY <1>1, <1>2, AskedMore, AskedNone DEF WriteInv
<1>5. /\ \A f \in flight' : Asked(f.cmd, Given')
      /\ \A i \in 0 .. 1 : AskedAll(queues'[i], Given')
  BY <1>1, <1>2, AskedAllMore DEF WriteInv
<1>6. ~(req.op = "write" /\ req.lba # "lba200")
  BY <1>1 DEF WriteInv, Asked
<1> QED
  BY <1>2, <1>3, <1>4, <1>5, <1>6 DEF WriteInv, Asked, AskedAll

\* The steps that change the queues, or the commands the controller works on.
LEMMA SubmitWrites ==
    ASSUME CallInv, QueuesInv, WriteInv, nvme_submit
    PROVE  WriteInv'
<1>a. /\ medium \in [Lbas -> Contents] /\ sector \in Contents /\ bounce \in Contents
      /\ slot \in Cmds \cup {NoCmd} /\ Asked(slot, Given) /\ Asked(running, Given)
      /\ \A i \in 0 .. 1 : AskedAll(queues[i], Given)
      /\ DOMAIN running = DOMAIN NoCmd
      /\ running.op \in {"write", "read", "store"} => running.lba \in Lbas
      /\ running.op = "store" => running.val \in Contents
  BY DEF WriteInv, DataType
<1> DEFINE i == Queue(req)
<1>1. /\ req \in Cmds /\ CmdOK(req) /\ Asked(req, Given)
      /\ UNCHANGED <<req, want, requests, sector, medium, slot, flight, running>> /\ pc' \in Busy
      /\ bounce' = IF req.op = "write" THEN req.val ELSE bounce
  BY CmdFacts DEF nvme_submit, BounceFor, CallInv, WriteInv, Busy, fsVars, ahciVars, driveVars
<1>2. bounce' \in Contents
  BY <1>a, <1>1, SMTT(20) DEF CmdOK, Contents
<1>3. i \in 0 .. 1 /\ Submitted(queues[i], queues'[i], req) /\ queues'[1 - i] = queues[1 - i]
      /\ queues[i] \in QueueType
  BY <1>1, SubmitSteps, QueueOf DEF QueuesInv, QueueOK
<1> HIDE DEF i
<1> DEFINE q == queues[i]
           r == queues'[i]
<1>4. AskedAll(r, Given)
  <2>1. q.tail \in Slots /\ q.fetched \in Slots /\ q.sq \in [Slots -> Cmds \cup {NoCmd}]
    BY <1>3 DEF QueueType
  <2>2. /\ r.tail = (IF q.tail + 1 = QDEPTH THEN 0 ELSE q.tail + 1) /\ r.fetched = q.fetched
        /\ r.sq = [q.sq EXCEPT ![q.tail] = req] /\ AskedAll(q, Given)
    BY <1>a, <1>3, <2>1, NextSlot DEF Submitted
  <2> HIDE DEF q, r
  <2>3. ASSUME NEW s \in Slots, Between(r.fetched, s, r.tail) PROVE Asked(r.sq[s], Given)
    <3>1. s = q.tail \/ Between(q.fetched, s, q.tail)
      BY <2>1, <2>2, <2>3, DiskAssumption DEF Slots, Between
    <3> QED
      BY <1>1, <2>1, <2>2, <3>1 DEF AskedAll
  <2> QED
    BY <2>3 DEF AskedAll
<1>5. \A j \in 0 .. 1 : AskedAll(queues'[j], Given)
  BY <1>a, <1>3, <1>4, SMTT(20)
<1> QED
  BY <1>a, <1>1, <1>2, <1>5, MoveOn

\* poll_cq, taking a completion, keeps it.
LEMMA TakeWrites ==
    ASSUME CallInv, QueuesInv, WriteInv, poll_cq
    PROVE  WriteInv'
<1>a. /\ medium \in [Lbas -> Contents] /\ sector \in Contents /\ bounce \in Contents
      /\ slot \in Cmds \cup {NoCmd} /\ Asked(slot, Given) /\ Asked(running, Given)
      /\ \A i \in 0 .. 1 : AskedAll(queues[i], Given)
      /\ DOMAIN running = DOMAIN NoCmd
      /\ running.op \in {"write", "read", "store"} => running.lba \in Lbas
      /\ running.op = "store" => running.val \in Contents
  BY DEF WriteInv, DataType
<1>1. UNCHANGED <<callVars, fsVars, sector, medium, flight, bounce, ahciVars, driveVars>>
  BY DEF poll_cq
<1>2. req \in Cmds
  BY DEF poll_cq, CallInv, Busy
<1>3. \A j \in 0 .. 1 : AskedAll(queues'[j], Given)
  <2> DEFINE i == Queue(req)
  <2>1. i \in 0 .. 1 /\ Taken(queues[i], queues'[i]) /\ queues'[1 - i] = queues[1 - i]
    BY <1>2, TakeSteps, QueueOf
  <2> HIDE DEF i
  <2>2. AskedAll(queues'[i], Given)
    BY <1>a, <2>1 DEF AskedAll, Taken
  <2> QED
    BY <1>a, <2>1, <2>2
<1>4. DataType' /\ UNCHANGED <<slot, running>>
  BY <1>a, <1>1, SMTT(20) DEF WriteInv, DataType, callVars, ahciVars, driveVars
<1> QED
  BY <1>a, <1>1, <1>3, <1>4, DataWrites DEF WriteInv

\* The controller fetching a command keeps it.
LEMMA FetchWrites ==
    ASSUME CallInv, QueuesInv, WriteInv, \E i \in 0 .. 1 : nvme_fetch(i)
    PROVE  WriteInv'
<1>a. /\ medium \in [Lbas -> Contents] /\ sector \in Contents /\ bounce \in Contents
      /\ slot \in Cmds \cup {NoCmd} /\ Asked(slot, Given) /\ Asked(running, Given)
      /\ \A i \in 0 .. 1 : AskedAll(queues[i], Given)
      /\ DOMAIN running = DOMAIN NoCmd
      /\ running.op \in {"write", "read", "store"} => running.lba \in Lbas
      /\ running.op = "store" => running.val \in Contents
  BY DEF WriteInv, DataType
<1>1. PICK i \in 0 .. 1 : nvme_fetch(i)
  OBVIOUS
<1> DEFINE q == queues[i]
           r == queues'[i]
           g == [cmd |-> q.sq[q.fetched], slot |-> q.fetched, moved |-> i = 0]
<1>2. Fetched(q, r) /\ queues'[1 - i] = queues[1 - i] /\ q \in QueueType
  BY <1>1, FetchSteps DEF QueuesInv, QueueOK
<1>3. /\ q.fetched # q.tail /\ flight' = flight \cup {g}
      /\ UNCHANGED <<callVars, fsVars, sector, medium, bounce, taken, ahciVars, driveVars>>
  BY <1>1, Zenon DEF nvme_fetch
<1>4. g.cmd = q.sq[q.fetched]
  BY Zenon
<1>5. q.tail \in Slots /\ q.fetched \in Slots /\ AskedAll(q, Given)
  BY <1>a, <1>2 DEF QueueType
<1> HIDE DEF g, q, r
<1>6. Between(q.fetched, q.fetched, q.tail)
  BY <1>3, <1>5, DiskAssumption DEF Between, Slots
<1>7. Asked(g.cmd, Given)
  BY <1>4, <1>5, <1>6 DEF AskedAll
<1>8. AskedAll(r, Given)
  <2>1. r.fetched = (IF q.fetched + 1 = QDEPTH THEN 0 ELSE q.fetched + 1) /\ r.tail = q.tail
        /\ r.sq = q.sq
    BY <1>2, <1>5, NextSlot DEF Fetched
  <2>2. ASSUME NEW s \in Slots, Between(r.fetched, s, r.tail) PROVE Asked(r.sq[s], Given)
    <3>1. Between(q.fetched, s, q.tail)
      BY <1>3, <1>5, <2>1, <2>2, DiskAssumption DEF Slots, Between
    <3> QED
      BY <1>5, <2>1, <3>1 DEF AskedAll
  <2> QED
    BY <2>2 DEF AskedAll
<1>9. \A j \in 0 .. 1 : AskedAll(queues'[j], Given)
  BY <1>a, <1>2, <1>8, SMTT(20) DEF r
<1>10. DataType' /\ UNCHANGED <<slot, running>>
  BY <1>a, <1>3 DEF WriteInv, DataType, callVars, ahciVars, driveVars
<1>11. \A f \in flight' : Asked(f.cmd, Given)
  BY <1>3, <1>7, Zenon DEF WriteInv
<1> QED
  BY <1>a, <1>3, <1>9, <1>10, <1>11, DataWrites

\* The controller moving the data of a command keeps it: a write was asked for.
LEMMA MoveWrites ==
    ASSUME CallInv, QueuesInv, WriteInv, NEW f \in flight, nvme_move(f)
    PROVE  WriteInv'
<1>a. /\ medium \in [Lbas -> Contents] /\ sector \in Contents /\ bounce \in Contents
      /\ slot \in Cmds \cup {NoCmd} /\ Asked(slot, Given) /\ Asked(running, Given)
      /\ \A i \in 0 .. 1 : AskedAll(queues[i], Given)
      /\ DOMAIN running = DOMAIN NoCmd
      /\ running.op \in {"write", "read", "store"} => running.lba \in Lbas
      /\ running.op = "store" => running.val \in Contents
  BY DEF WriteInv, DataType
<1> DEFINE g == [f EXCEPT !.moved = TRUE]
<1>1. f \in Flights /\ f.cmd \in Cmds /\ CmdOK(f.cmd) /\ Asked(f.cmd, Given) /\ f.cmd.op # "admin"
  BY CmdFacts DEF QueuesInv, Flights, WriteInv, nvme_move
<1>2. g.cmd = f.cmd
  BY <1>1 DEF Flights
<1>3. flight' = (flight \ {f}) \cup {g}
  BY DEF nvme_move
<1> HIDE DEF g
<1>4. \A h \in flight' : Asked(h.cmd, Given)
  BY <1>1, <1>2, <1>3, Zenon DEF WriteInv
<1>5. UNCHANGED <<callVars, fsVars, sector, queues, taken, slot, running>>
  BY DEF nvme_move, ahciVars, driveVars
<1>6. /\ f.cmd.lba \in Lbas
      /\ medium' = IF f.cmd.op = "write" THEN [medium EXCEPT ![f.cmd.lba] = bounce] ELSE medium
      /\ bounce' = IF f.cmd.op = "write" THEN bounce ELSE medium[f.cmd.lba]
  BY <1>1 DEF nvme_move, CmdOK
<1>7. DataType'
  BY <1>a, <1>5, <1>6 DEF WriteInv, DataType, callVars
<1>8. \A l \in Lbas \ {"lba200"} : medium'[l] # l => l \in Given \/ medium'[l] = medium[l]
  BY <1>a, <1>1, <1>6 DEF Asked
<1> QED
  BY <1>a, <1>4, <1>5, <1>7, <1>8, DataWrites, Zenon

\* The controller posting a completion keeps it.
LEMMA PostWrites ==
    ASSUME CallInv, QueuesInv, WriteInv, NEW f \in flight, NEW ok \in BOOLEAN, nvme_post(f, ok)
    PROVE  WriteInv'
<1>a. /\ medium \in [Lbas -> Contents] /\ sector \in Contents /\ bounce \in Contents
      /\ slot \in Cmds \cup {NoCmd} /\ Asked(slot, Given) /\ Asked(running, Given)
      /\ \A i \in 0 .. 1 : AskedAll(queues[i], Given)
      /\ DOMAIN running = DOMAIN NoCmd
      /\ running.op \in {"write", "read", "store"} => running.lba \in Lbas
      /\ running.op = "store" => running.val \in Contents
  BY DEF WriteInv, DataType
<1>1. /\ UNCHANGED <<callVars, fsVars, sector, medium, bounce, taken, ahciVars, driveVars>>
      /\ flight' \subseteq flight
  BY Zenon DEF nvme_post
<1>2. \A j \in 0 .. 1 : AskedAll(queues'[j], Given)
  <2> DEFINE i == Queue(f.cmd)
             e == [phase |-> queues[i].tag, cmd |-> f.cmd, ok |-> ok]
  <2>1. /\ f.cmd \in Cmds /\ PostedTo(queues[i], queues'[i], e)
        /\ queues'[1 - i] = queues[1 - i]
    BY PostSteps, Zenon
  <2>2. i \in 0 .. 1
    BY <2>1, QueueOf
  <2> HIDE DEF i, e
  <2>3. AskedAll(queues'[i], Given)
    BY <1>a, <2>1, <2>2, SMTT(20) DEF AskedAll, PostedTo
  <2> QED
    BY <1>a, <2>1, <2>2, <2>3
<1>3. DataType' /\ UNCHANGED <<slot, running>>
  BY <1>a, <1>1 DEF WriteInv, DataType, callVars, ahciVars, driveVars
<1>4. \A h \in flight' : Asked(h.cmd, Given)
  BY <1>1, Zenon DEF WriteInv
<1> QED
  BY <1>a, <1>1, <1>2, <1>3, <1>4, DataWrites

\* Every step keeps it.
LEMMA WriteStep ==
    ASSUME CallInv, QueuesInv, WriteInv, [Next]_vars
    PROVE  WriteInv'
<1>1. /\ medium \in [Lbas -> Contents] /\ sector \in Contents /\ bounce \in Contents
      /\ slot \in Cmds \cup {NoCmd} /\ Asked(slot, Given) /\ Asked(running, Given)
      /\ \A i \in 0 .. 1 : AskedAll(queues[i], Given)
      /\ DOMAIN running = DOMAIN NoCmd
      /\ running.op \in {"write", "read", "store"} => running.lba \in Lbas
      /\ running.op = "store" => running.val \in Contents
  BY DEF WriteInv, DataType
<1>2. CASE fat_mount
  <2>1. PICK c \in InitCmds : c.for = pc /\ req' = c
    BY <1>2 DEF fat_mount
  <2>2. CmdOK(c) /\ c \in Cmds /\ c.for # "user" /\ requests \in Nat
    BY <2>1, CmdFacts DEF Cmds, InitCmds, Cmd, CallInv, CallType
  <2>3. pc \notin Busy /\ pc' \in Busy
    BY <1>2, <2>1, <2>2 DEF fat_mount, CmdOK, Busy, Probing, Reading
  <2>4. UNCHANGED <<want, medium, nvmeVars, ahciVars, driveVars>> /\ requests' = requests /\ sector' = sector
    BY <1>2 DEF fat_mount, fsVars
  <2> QED
    BY <1>1, <2>1, <2>2, <2>3, <2>4, IssueWrites
<1>3. CASE rw_abs
  <2>1. req' \in UserCmds /\ req' \in Cmds /\ CmdOK(req') /\ requests \in Nat
    BY <1>3, CmdFacts DEF rw_abs, Cmds, CallInv, CallType
  <2>2. pc \notin Busy /\ pc' \in Busy /\ requests' = requests + 1
        /\ UNCHANGED <<want, medium, nvmeVars, ahciVars, driveVars>>
        /\ sector' = IF req'.op = "write" THEN req'.val ELSE sector
    BY <1>3 DEF rw_abs, Busy
  <2>3. sector' \in Contents
    BY <1>1, <2>1, <2>2 DEF CmdOK, Contents
  <2> QED
    BY <2>1, <2>2, <2>3, IssueWrites
<1>4. CASE nvme_init
  <2>1. /\ UNCHANGED <<req, want, requests, sector, medium, bounce, slot, flight, running, queues>>
        /\ pc \notin Busy
    BY <1>4 DEF nvme_init, nvmeVars, ahciVars, driveVars, Busy
  <2> QED
    BY <1>1, <2>1, MoveOn
<1>5. CASE nvme_submit
  BY <1>5, SubmitWrites
<1>6. CASE poll_cq
  BY <1>6, TakeWrites
<1>7. CASE nvme_done
  <2>1. taken.ok \in BOOLEAN
    BY DEF QueuesInv, EntryType
  <2>2. pc \in Busy /\ Return(taken.ok) /\ UNCHANGED <<medium, flight, queues, bounce, slot, running>>
    BY <1>7 DEF nvme_done, CallInv, Busy, ahciVars, driveVars
  <2>3. sector' \in Contents
    BY <1>1, <1>7 DEF nvme_done
  <2> QED
    BY <2>1, <2>2, <2>3, ReturnWrites, Zenon
<1>8. ASSUME UNCHANGED <<sector, medium, nvmeVars, ahciVars, driveVars>>, pc \in Busy,
             NEW ok \in BOOLEAN, Return(ok)
      PROVE  WriteInv'
  <2>1. UNCHANGED <<medium, flight, queues, bounce, slot, running>> /\ sector' \in Contents
    BY <1>1, <1>8 DEF nvmeVars, ahciVars, driveVars
  <2> QED
    BY <1>8, <2>1, ReturnWrites
<1>9. CASE nvme_timeout \/ ahci_done \/ ahci_fail \/ ata_fail \/ ata_stored
  <2>1. UNCHANGED <<sector, medium, nvmeVars, ahciVars, driveVars>>
    BY <1>9, Zenon DEF nvme_timeout, ahci_done, ahci_fail, ata_fail, ata_stored
  <2>2. pc = "wait" \/ pc = "issue" \/ pc = "drq" \/ pc = "stored"
    BY <1>9, Zenon DEF nvme_timeout, ahci_done, ahci_fail, ata_fail, ata_stored
  <2>3. TRUE \in BOOLEAN /\ FALSE \in BOOLEAN /\ (status # "err") \in BOOLEAN
    BY Zenon
  <2>4. \E ok \in BOOLEAN : Return(ok)
    BY <1>9, <2>3, Zenon DEF nvme_timeout, ahci_done, ahci_fail, ata_fail, ata_stored
  <2>5. pc \in Busy
    BY <2>2 DEF Busy
  <2> QED
    BY <1>8, <2>1, <2>4, <2>5
<1>10. CASE ahci_init \/ ata_init
  <2>1. /\ pc \in Setup /\ pc' \notin Busy /\ OtherDisk
        /\ UNCHANGED <<req, requests, sector, queues, slot>>
    BY <1>10 DEF ahci_init, ata_init, Setup, Busy
  <2> QED
    BY <2>1, OtherDiskWrites
<1>11. CASE ahci_issue
  <2>1. /\ UNCHANGED <<req, want, requests, sector, medium, bounce, flight, running, queues>>
        /\ pc' \in Busy /\ slot' = req /\ req \in Cmds
    BY <1>11 DEF ahci_issue, nvmeVars, fsVars, driveVars, Busy, CallInv
  <2> QED
    BY <1>1, <2>1, MoveOn
<1>12. CASE ata_issue
  <2>1. /\ UNCHANGED <<req, want, requests, sector, medium, bounce, flight, slot, queues>>
        /\ pc' \in Busy /\ running' = req /\ req \in Cmds /\ CmdOK(req) /\ Asked(req, Given)
        /\ DOMAIN req = DOMAIN NoCmd
    BY <1>12, CmdFacts, CmdDomain DEF ata_issue, nvmeVars, fsVars, ahciVars, Busy, CallInv, WriteInv
  <2>2. req.op # "store" /\ (req.op \in {"write", "read", "store"} => req.lba \in Lbas)
    BY <2>1 DEF CmdOK
  <2> QED
    BY <1>1, <2>1, <2>2, MoveOn
<1>13. CASE ata_data /\ req.op = "read"
  <2>1. /\ sector' = medium[running.lba] /\ running' = NoCmd /\ Return(TRUE) /\ pc \in Busy
        /\ UNCHANGED <<medium, flight, queues, bounce, slot>> /\ running = req
    BY <1>13, Zenon DEF ata_data, nvmeVars, ahciVars, Busy, CallInv
  <2>2. sector' \in Contents
    BY <1>1, <1>13, <2>1
  <2>3. TRUE \in BOOLEAN
    BY Zenon
  <2> QED
    BY <2>1, <2>2, <2>3, ReturnWrites, Zenon
<1>14. CASE ata_data /\ req.op # "read"
  <2> DEFINE g == [running EXCEPT !.op = "store", !.val = sector]
  <2>1. /\ running' = g /\ running = req /\ req \in Cmds /\ CmdOK(req) /\ pc' \in Busy
        /\ UNCHANGED <<req, want, requests, sector, medium, bounce, slot, flight, queues>>
    BY <1>14, CmdFacts DEF ata_data, CallInv, Busy, fsVars, nvmeVars, ahciVars
  <2>2. req.op = "write"
    BY <1>14, <2>1 DEF ata_data, CallInv, CmdOK, Busy, Probing
  <2>3. g.op = "store" /\ g.lba = req.lba /\ g.val = sector /\ DOMAIN g = DOMAIN NoCmd
    BY <1>1, <2>1 DEF CmdOK, Cmd
  <2>4. Asked(g, Given) /\ g.lba \in Lbas /\ g.val \in Contents
    BY <1>1, <2>1, <2>2, <2>3 DEF Asked, CmdOK
  <2> HIDE DEF g
  <2> QED
    BY <1>1, <2>1, <2>3, <2>4, MoveOn
<1>15. CASE \E i \in 0 .. 1 : nvme_fetch(i)
  BY <1>15, FetchWrites
<1>16. ASSUME NEW f \in flight, nvme_move(f)
       PROVE  WriteInv'
  BY <1>16, MoveWrites
<1>17. ASSUME NEW f \in flight, NEW ok \in BOOLEAN, nvme_post(f, ok)
       PROVE  WriteInv'
  BY <1>17, PostWrites
<1>18. ASSUME UNCHANGED <<callVars, fsVars, nvmeVars, slot>>, NEW g, running' = g,
              DOMAIN g = DOMAIN NoCmd, Asked(g, Given),
              g.op \in {"write", "read", "store"} => g.lba \in Lbas,
              g.op = "store" => g.val \in Contents,
              sector' \in Contents, medium' \in [Lbas -> Contents],
              \A l \in Lbas \ {"lba200"} : medium'[l] # l => l \in Given \/ medium'[l] = medium[l]
       PROVE  WriteInv'
  <2>1. UNCHANGED <<want, flight, queues, bounce>>
    BY <1>18, Zenon DEF callVars, nvmeVars
  <2>2. DataType'
    BY <1>18, <2>1, SMTT(20) DEF WriteInv, DataType
  <2>3. /\ \A i \in 0 .. 1 : AskedAll(queues'[i], Given)
        /\ \A f \in flight' : Asked(f.cmd, Given)
    BY <1>1, <2>1 DEF WriteInv
  <2> QED
    BY <1>1, <1>18, <2>2, <2>3, DataWrites
<1>19. CASE port_start
  <2>1. UNCHANGED <<callVars, fsVars, nvmeVars, slot, sector, medium>> /\ running' = slot
    BY <1>19 DEF port_start, ahciVars
  <2>2. /\ DOMAIN slot = DOMAIN NoCmd /\ slot.op # "store"
        /\ slot.op \in {"write", "read", "store"} => slot.lba \in Lbas
    BY <1>1, CmdDomain, CmdFacts, NoCmdFields DEF CmdOK
  <2> QED
    BY <1>1, <1>18, <2>1, <2>2
<1>20. CASE port_move
  <2> DEFINE g == [running EXCEPT !.op = "moved"]
  <2>1. /\ UNCHANGED <<callVars, fsVars, nvmeVars, slot>> /\ running' = g
        /\ running.op \in {"read", "write"} /\ running.lba \in Lbas
    BY <1>1, <1>20 DEF port_move, ahciVars
  <2>2. /\ medium' = IF running.op = "write" THEN [medium EXCEPT ![running.lba] = sector] ELSE medium
        /\ sector' = IF running.op = "write" THEN sector ELSE medium[running.lba]
    BY <1>20, <2>1 DEF port_move
  <2>3. g.op = "moved" /\ DOMAIN g = DOMAIN NoCmd
    BY <1>1 DEF NoCmd, Cmd
  <2> HIDE DEF g
  <2>4. Asked(g, Given)
    BY <2>3 DEF Asked
  <2>5. sector' \in Contents /\ medium' \in [Lbas -> Contents]
    BY <1>1, <2>1, <2>2
  <2>6. \A l \in Lbas \ {"lba200"} : medium'[l] # l => l \in Given \/ medium'[l] = medium[l]
    BY <1>1, <2>1, <2>2 DEF Asked
  <2> QED
    BY <1>18, <2>1, <2>3, <2>4, <2>5, <2>6
<1>21. CASE port_finish \/ port_error
  <2>1. UNCHANGED <<callVars, fsVars, nvmeVars, slot, sector, medium>> /\ running' = NoCmd
    BY <1>21 DEF port_finish, port_error
  <2> QED
    BY <1>1, <1>18, <2>1, NoCmdFields, AskedNone
<1>22. CASE drive_step
  <2>1. UNCHANGED <<callVars, fsVars, nvmeVars, slot, sector, running>>
    BY <1>22 DEF drive_step, ahciVars
  <2>2. \/ running.op = "store" /\ medium' = [medium EXCEPT ![running.lba] = running.val]
        \/ medium' = medium
    BY <1>22 DEF drive_step
  <2>3. medium' \in [Lbas -> Contents]
    BY <1>1, <2>2
  <2>4. \A l \in Lbas \ {"lba200"} : medium'[l] # l => l \in Given \/ medium'[l] = medium[l]
    BY <1>1, <2>2 DEF Asked
  <2> QED
    BY <1>1, <1>18, <2>1, <2>3, <2>4
<1>23. CASE UNCHANGED vars
  <2>1. UNCHANGED <<callVars, fsVars, nvmeVars, slot, sector, medium, running>>
    BY <1>23 DEF vars, ahciVars, driveVars
  <2> QED
    BY <1>1, <1>18, <2>1
<1> QED
  BY <1>2, <1>3, <1>4, <1>5, <1>6, <1>7, <1>9, <1>10, <1>11, <1>12, <1>13, <1>14, <1>15, <1>16,
     <1>17, <1>19, <1>20, <1>21, <1>22, <1>23, Zenon DEF Next, Driver, Device

\* Every command a driver or a device holds was given by a caller of the driver, and a
\* sector other than LBA 200 differs from its first content only if a write of it was given.
THEOREM WritesInvariance == Spec => []WriteInv
<1>1. CallInv /\ QueuesInv /\ WriteInv /\ [Next]_vars => WriteInv'
  BY WriteStep
<1> QED
  BY InitWrites, QueuesInvariance, <1>1, PTL DEF Spec

\* However late the commands of fat_mount and of the file system are carried
\* out, and whatever the buffers then hold, a sector other than LBA 200 changes
\* only if write_abs was called for it.
THEOREM OnlyWhatWasWritten == Spec => []OnlyWritten
<1>1. WriteInv => OnlyWritten
  BY DEF WriteInv, Given, OnlyWritten
<1> QED
  BY WritesInvariance, <1>1, PTL

-----------------------------------------------------------------------------
(* What is read back *)

\* Advancing an index of a queue by one changes it, for a queue has two slots at least.
LEMMA OtherSlot ==
    ASSUME NEW s \in Slots
    PROVE  (s + 1) % QDEPTH # s
<1>1. (s + 1) % QDEPTH = IF s + 1 = QDEPTH THEN 0 ELSE s + 1
  BY NextSlot
<1> QED
  BY <1>1, DiskAssumption DEF Slots

\* Submitting to a quiet queue leaves exactly that command in it.
LEMMA QuietSubmit ==
    ASSUME NEW q \in QueueType, NEW r, NEW c, Quiet(q), Submitted(q, r, c)
    PROVE  Sent(r, c)
<1>1. q.tail \in Slots /\ q.sq \in [Slots -> Cmds \cup {NoCmd}]
  BY DEF QueueType
<1>2. r.tail = (q.tail + 1) % QDEPTH /\ r.fetched = q.tail /\ r.sq[q.tail] = c /\ r.head = r.posted
  BY <1>1 DEF Quiet, Submitted
<1>3. (q.tail + 1) % QDEPTH # q.tail
  BY <1>1, OtherSlot
<1> QED
  BY <1>2, <1>3 DEF Sent

\* Fetching the only command leaves the queue quiet.
LEMMA SentFetch ==
    ASSUME NEW q, NEW r, NEW c, Sent(q, c), Fetched(q, r)
    PROVE  Quiet(r) /\ q.sq[q.fetched] = c
BY DEF Sent, Fetched, Quiet

\* Posting to a quiet queue leaves exactly that completion in it.
LEMMA QuietPost ==
    ASSUME NEW q \in QueueType, NEW r, NEW e, Quiet(q), PostedTo(q, r, e)
    PROVE  Done(r) /\ r.cq[r.head] = e
<1>1. q.posted \in Slots /\ q.cq \in [Slots -> EntryType]
  BY DEF QueueType
<1>2. /\ r.posted = (q.posted + 1) % QDEPTH /\ r.head = q.posted /\ r.cq[q.posted] = e
      /\ r.fetched = r.tail
  BY <1>1 DEF Quiet, PostedTo
<1>3. (q.posted + 1) % QDEPTH # q.posted
  BY <1>1, OtherSlot
<1> QED
  BY <1>2, <1>3 DEF Done

\* Taking the only completion leaves the queue quiet.
LEMMA DoneTake ==
    ASSUME NEW q, NEW r, Done(q), Taken(q, r)
    PROVE  Quiet(r)
BY DEF Done, Taken, Quiet

\* The queues of a controller that was just set up are quiet.
LEMMA EmptyQuiet == \A i \in 0 .. 1 : Quiet([q \in 0 .. 1 |-> EmptyQueue][i])
BY DEF Quiet, EmptyQueue

\* A command returns, with its data where they belong if it succeeds.
LEMMA ReturnData ==
    ASSUME CallInv, DataType, Kept, pc \in Busy, NEW ok \in BOOLEAN, Return(ok), medium' = medium,
           pc' \notin Busy,
           ok /\ req.op = "write" => medium[req.lba] = req.val,
           ok /\ req.op = "read" /\ req.for # "test_read" => sector' = medium[req.lba]
    PROVE  Buffered' /\ Kept' /\ ReadsBack'
<1>1. /\ req' = req /\ res' = IF ok THEN "ok" ELSE "failed"
      /\ want' = IF req.op = "write"
                 THEN [want EXCEPT ![req.lba] = IF ok THEN req.val ELSE Unknown] ELSE want
  BY DEF Return
<1>2. req \in Cmds /\ CmdOK(req) /\ want \in [Lbas -> Contents \cup {Unknown}]
  BY CmdFacts DEF CallInv, DataType
<1>3. req.op # "admin" => req.lba \in Lbas
  BY <1>2 DEF CmdOK
<1>4. ASSUME NEW l \in Lbas PROVE want'[l] \in {Unknown, medium'[l]}
  <2>1. CASE req.op = "write" /\ req.lba = l
    <3>1. want'[l] = IF ok THEN req.val ELSE Unknown
      BY <1>1, <1>2, <2>1
    <3> QED
      BY <2>1, <3>1
  <2>2. CASE ~(req.op = "write" /\ req.lba = l)
    BY <1>1, <1>2, <1>3, <2>2 DEF Kept
  <2> QED
    BY <2>1, <2>2
<1>5. Buffered' /\ Kept'
  BY <1>4 DEF Buffered, Kept
<1>6. ReadsBack'
  <2> SUFFICES ASSUME res' = "ok", req.op = "read", req.for # "test_read"
               PROVE  want'[req.lba] \in {Unknown, sector'}
    BY <1>1 DEF ReadsBack
  <2>1. ok
    BY <1>1
  <2>2. req.lba \in Lbas
    BY <1>3
  <2> QED
    BY <1>4, <2>1, <2>2
<1> QED
  BY <1>5, <1>6

\* A step of the device, or of the driver before it returns.
LEMMA WorkData ==
    ASSUME Kept, UNCHANGED <<req, want>>, pc' \in Busy,
           res' = "none",
           backend' \in {"ahci", "ata"} /\ req.op = "write" => sector' = req.val,
           \A l \in Lbas : medium'[l] = medium[l] \/ (req.op = "write" /\ req.lba = l)
    PROVE  Buffered' /\ Kept' /\ ReadsBack'
<1>1. Kept'
  BY DEF Kept
<1> QED
  BY <1>1 DEF Buffered, ReadsBack

Core == Buffered /\ Kept /\ BackendInv /\ ReadsBack

\* The steps of NVMe, while no wait was given up.
LEMMA SubmitData ==
    ASSUME CallInv, QueuesInv, DataType, DataInv, slow = 0, slow' = 0, backend = "nvme",
           nvme_submit
    PROVE  Core'
<1>a. Buffered /\ Kept /\ ReadsBack /\ NvmeInv
  BY DEF DataInv, BackendInv
<1>c. ASSUME NvmeInv', backend' = "nvme", Buffered' /\ Kept' /\ ReadsBack'
      PROVE  Core'
  BY <1>c DEF Core, BackendInv
<1> DEFINE i == Queue(req)
<1>1. req \in Cmds /\ CmdOK(req) /\ pc \in Busy /\ pc = "issue" /\ taken = NoEntry /\ res = "none"
  BY CmdFacts DEF nvme_submit, CallInv, Busy
<1>2. Submitted(queues[i], queues'[i], req) /\ queues'[1 - i] = queues[1 - i]
  BY <1>1, SubmitSteps, Zenon
<1>2a. i \in 0 .. 1 /\ 1 - i \in 0 .. 1
  BY DEF Queue
<1>2b. queues[i] \in QueueType
  BY <1>2a, Zenon DEF QueuesInv, QueueOK
<1>3. i = Queue(req')
  BY DEF nvme_submit
<1> HIDE DEF i
<1>4. Quiet(queues[i]) /\ Quiet(queues[1 - i]) /\ flight = {}
  BY <1>a, <1>1, <1>2a, Zenon DEF NvmeInv
<1>5. Sent(queues'[i], req)
  BY <1>2, <1>4, <1>2b, QuietSubmit, Zenon
<1>6. /\ UNCHANGED <<req, res, want, medium, flight, taken, sector, backend>> /\ pc' = "wait"
      /\ bounce' = IF req.op = "write" THEN req.val ELSE bounce
  BY DEF nvme_submit, BounceFor, fsVars
<1>7. NvmeInv'
  BY <1>1, <1>2, <1>3, <1>4, <1>5, <1>6, Zenon DEF NvmeInv, InHand
<1>8. Buffered' /\ Kept' /\ ReadsBack'
  BY <1>a, <1>1, <1>6, WorkData, Zenon DEF Busy
<1> QED
  BY <1>c, <1>6, <1>7, <1>8

\* poll_cq takes the completion of the command in hand, and what the device has done for
\* it stays known.
LEMMA TakeData ==
    ASSUME CallInv, QueuesInv, DataType, DataInv, slow = 0, slow' = 0, backend = "nvme",
           poll_cq
    PROVE  Core'
<1>a. Buffered /\ Kept /\ ReadsBack /\ NvmeInv
  BY DEF DataInv, BackendInv
<1>b. pc # "wait" \/ (pc \in Busy /\ req \in Cmds /\ CmdOK(req) /\ res = "none")
  BY CmdFacts DEF CallInv, Busy
<1>c. ASSUME NvmeInv', backend' = "nvme", Buffered' /\ Kept' /\ ReadsBack'
      PROVE  Core'
  BY <1>c DEF Core, BackendInv
<1> DEFINE i == Queue(req)
<1>1. /\ pc = "wait" /\ taken = NoEntry /\ queues[i].cq[queues[i].head].phase = queues[i].phase
      /\ taken' = queues[i].cq[queues[i].head]
      /\ UNCHANGED <<pc, req, res, want, sector, medium, flight, bounce, backend>>
  BY DEF poll_cq, Visible, callVars, fsVars
<1>2. Taken(queues[i], queues'[i]) /\ queues'[1 - i] = queues[1 - i]
  BY <1>b, <1>1, TakeSteps, Zenon
<1>2a. i \in 0 .. 1 /\ 1 - i \in 0 .. 1
  BY DEF Queue
<1>2b. QueueOK(queues[i], i)
  BY <1>2a, Zenon DEF QueuesInv
<1>3. i = Queue(req')
  BY <1>1
<1> HIDE DEF i
<1>4. queues[i].head # queues[i].posted
  BY <1>1, <1>2b, PhaseTells
<1>5. InHand(queues[i]) /\ Quiet(queues[1 - i])
  BY <1>a, <1>1, SMTT(20) DEF NvmeInv, i
<1>6. Done(queues[i]) /\ flight = {} /\ (taken'.ok => Moved(bounce))
  BY <1>1, <1>4, <1>5 DEF InHand, Sent, Quiet
<1>7. Quiet(queues'[i])
  BY <1>2, <1>6, DoneTake
<1>8. taken' # NoEntry
  <2>1. queues[i] \in QueueType /\ queues[i].head \in Slots /\ queues[i].posted \in Slots
    BY <1>2b DEF QueueOK, QueueType
  <2>2. Between(queues[i].head, queues[i].head, queues[i].posted)
    BY <1>4, <2>1, DiskAssumption DEF Between, Slots
  <2>3. taken'.cmd \in Cmds
    BY <1>1, <1>2b, <2>1, <2>2, Zenon DEF QueueOK, CmdsOf
  <2> QED
    BY <2>3, CmdFacts, SMTT(20) DEF CmdOK, NoEntry
<1>9. (taken'.ok => Moved(bounce)')
  BY <1>1, <1>6, Zenon DEF Moved
<1>10. NvmeInv'
  BY <1>a, <1>1, <1>2, <1>3, <1>5, <1>6, <1>7, <1>8, <1>9, Zenon DEF NvmeInv, InHand
<1>11. Buffered' /\ Kept' /\ ReadsBack'
  BY <1>a, <1>b, <1>1, WorkData, Zenon
<1> QED
  BY <1>c, <1>1, <1>10, <1>11, Zenon

\* nvme_io's return copies the sector that was asked for.
LEMMA DoneData ==
    ASSUME CallInv, QueuesInv, DataType, DataInv, slow = 0, slow' = 0, backend = "nvme",
           nvme_done
    PROVE  Core'
<1>a. Buffered /\ Kept /\ ReadsBack /\ NvmeInv
  BY DEF DataInv, BackendInv
<1>b. pc # "wait" \/ (pc \in Busy /\ req \in Cmds /\ CmdOK(req) /\ res = "none")
  BY CmdFacts DEF CallInv, Busy
<1>c. ASSUME NvmeInv', backend' = "nvme", Buffered' /\ Kept' /\ ReadsBack'
      PROVE  Core'
  BY <1>c DEF Core, BackendInv
<1>1. /\ taken # NoEntry /\ Return(taken.ok) /\ UNCHANGED <<medium, queues, flight, bounce>>
      /\ taken' = NoEntry /\ pc = "wait" /\ taken.ok \in BOOLEAN /\ ci' = ci /\ slow' \in Nat
      /\ sector' = IF taken.ok /\ req.op = "read" /\ req.for # "test_read" THEN bounce ELSE sector
  BY DEF nvme_done, CallInv, QueuesInv, EntryType, ahciVars
<1>2. pc' \notin Busy /\ backend' = backend /\ req' = req
  BY <1>b, <1>1, Returns DEF Return, fsVars
<1>3. /\ Quiet(queues[Queue(req)]) /\ Quiet(queues[1 - Queue(req)]) /\ flight = {}
      /\ (taken.ok => Moved(bounce))
  BY <1>a, <1>1, Zenon DEF NvmeInv, InHand
<1>4. \A i \in 0 .. 1 : i = Queue(req) \/ i = 1 - Queue(req)
  BY DEF Queue
<1>5. NvmeInv'
  BY <1>1, <1>2, <1>3, <1>4 DEF NvmeInv, Busy
<1>6. Buffered' /\ Kept' /\ ReadsBack'
  BY <1>a, <1>b, <1>1, <1>2, <1>3, ReturnData, Zenon DEF Moved
<1> QED
  BY <1>c, <1>2, <1>5, <1>6, SMTT(20)

\* The controller fetches the command in hand.
LEMMA FetchData ==
    ASSUME CallInv, QueuesInv, DataType, DataInv, slow = 0, slow' = 0, backend = "nvme",
           \E i \in 0 .. 1 : nvme_fetch(i)
    PROVE  Core'
<1>a. Buffered /\ Kept /\ ReadsBack /\ NvmeInv
  BY DEF DataInv, BackendInv
<1>b. pc # "wait" \/ (pc \in Busy /\ req \in Cmds /\ CmdOK(req) /\ res = "none")
  BY CmdFacts DEF CallInv, Busy
<1>c. ASSUME NvmeInv', backend' = "nvme", Buffered' /\ Kept' /\ ReadsBack'
      PROVE  Core'
  BY <1>c DEF Core, BackendInv
<1>1. PICK i \in 0 .. 1 : nvme_fetch(i)
  OBVIOUS
<1> DEFINE q == queues[i]
           g == [cmd |-> q.sq[q.fetched], slot |-> q.fetched, moved |-> i = 0]
<1>2. Fetched(q, queues'[i]) /\ queues'[1 - i] = queues[1 - i]
  BY <1>1, FetchSteps, Zenon
<1>3. /\ q.fetched # q.tail /\ flight' = flight \cup {g}
      /\ UNCHANGED <<callVars, fsVars, sector, medium, bounce, taken, ahciVars, driveVars>>
  BY <1>1, Zenon DEF nvme_fetch
<1>4. UNCHANGED <<pc, req, res, want, backend, sector, medium, bounce, taken>>
  BY <1>3, Zenon DEF callVars, fsVars
<1>5. g.cmd = q.sq[q.fetched] /\ (g.moved => i = 0)
  BY Zenon
<1> HIDE DEF g
<1>6. pc = "wait" /\ i = Queue(req)
  <2>1. i = Queue(req) \/ i = 1 - Queue(req)
    BY DEF Queue
  <2> QED
    BY <1>a, <1>3, <2>1, Zenon DEF NvmeInv, Quiet
<1>7. Quiet(queues[1 - i]) /\ Sent(q, req) /\ flight = {} /\ taken = NoEntry
  BY <1>a, <1>3, <1>6, Zenon DEF NvmeInv, InHand, Quiet, Done
<1>8. Quiet(queues'[i]) /\ g.cmd = req
  BY <1>2, <1>5, <1>7, SentFetch, Zenon
<1>9. g.moved => Moved(bounce)'
  BY <1>b, <1>5, <1>6, <1>4, QueueOf, Zenon DEF Moved
<1>10. NvmeInv'
  <2>1. Queue(req') = i
    BY <1>4, <1>6, SMTT(20)
  <2>2. InHand(queues[i])'
    BY <1>3, <1>4, <1>7, <1>8, <1>9 DEF InHand
  <2> QED
    BY <1>a, <1>2, <1>4, <1>6, <1>7, <2>1, <2>2 DEF NvmeInv
<1>11. Buffered' /\ Kept' /\ ReadsBack'
  BY <1>a, <1>b, <1>4, <1>6, WorkData, Zenon
<1> QED
  BY <1>c, <1>4, <1>10, <1>11

\* The command the controller works on is the one the driver waits for.
LEMMA InFlight ==
    ASSUME CallInv, QueuesInv, DataType, DataInv, slow = 0, slow' = 0, backend = "nvme",
           NEW f \in flight, nvme_move(f) \/ \E ok \in BOOLEAN : nvme_post(f, ok)
    PROVE  /\ pc = "wait" /\ flight = {f} /\ f.cmd = req /\ (f.moved => Moved(bounce)) /\ f \in Flights
           /\ Quiet(queues[Queue(req)]) /\ Quiet(queues[1 - Queue(req)]) /\ taken = NoEntry
           /\ req.op = "write" => bounce = req.val
           /\ req.op = "admin" => f.moved
<1>a. NvmeInv
  BY DEF DataInv, BackendInv
<1> QED
  BY <1>a, Zenon DEF NvmeInv, InHand, QueuesInv

\* The controller moves the data of the command in hand, between its sector and the
\* bounce buffer.
LEMMA MoveData ==
    ASSUME CallInv, QueuesInv, DataType, DataInv, slow = 0, slow' = 0, backend = "nvme",
           NEW f \in flight, nvme_move(f)
    PROVE  Core'
<1>a. Buffered /\ Kept /\ ReadsBack /\ NvmeInv
  BY DEF DataInv, BackendInv
<1>b. pc # "wait" \/ (pc \in Busy /\ req \in Cmds /\ CmdOK(req) /\ res = "none")
  BY CmdFacts DEF CallInv, Busy
<1>c. ASSUME NvmeInv', backend' = "nvme", Buffered' /\ Kept' /\ ReadsBack'
      PROVE  Core'
  BY <1>c DEF Core, BackendInv
<1> DEFINE g == [f EXCEPT !.moved = TRUE]
<1>1. /\ flight' = (flight \ {f}) \cup {g} /\ ~f.moved
      /\ UNCHANGED <<pc, req, res, want, backend, sector, queues, taken>>
  BY DEF nvme_move, callVars, fsVars
<1>2. /\ pc = "wait" /\ flight = {f} /\ f.cmd = req /\ f \in Flights /\ taken = NoEntry
      /\ Quiet(queues[Queue(req)]) /\ Quiet(queues[1 - Queue(req)]) /\ req.op # "admin"
      /\ req.op = "write" => bounce = req.val
  BY <1>1, InFlight
<1>3. g.cmd = req
  BY <1>2 DEF Flights
<1> HIDE DEF g
<1>4. /\ req.lba \in Lbas /\ medium \in [Lbas -> Contents]
      /\ medium' = IF req.op = "write" THEN [medium EXCEPT ![req.lba] = bounce] ELSE medium
      /\ bounce' = IF req.op = "write" THEN bounce ELSE medium[req.lba]
  BY <1>b, <1>2 DEF nvme_move, CmdOK, DataType
<1>5. Moved(bounce)'
  BY <1>1, <1>2, <1>4, Zenon DEF Moved
<1>6. flight' = {g}
  BY <1>1, <1>2
<1>7. NvmeInv'
  <2>1. Queue(req') = Queue(req)
    BY <1>1
  <2>2. InHand(queues[Queue(req)])'
    BY <1>1, <1>2, <1>3, <1>5, <1>6, <2>1, Zenon DEF InHand
  <2> QED
    BY <1>1, <1>2, <1>4, <2>1, <2>2, Zenon DEF NvmeInv
<1>8. Buffered' /\ Kept' /\ ReadsBack'
  BY <1>a, <1>b, <1>1, <1>2, <1>4, WorkData, Zenon
<1> QED
  BY <1>c, <1>1, <1>7, <1>8

\* The controller completes the command in hand after moving its data.
LEMMA PostData ==
    ASSUME CallInv, QueuesInv, DataType, DataInv, slow = 0, slow' = 0, backend = "nvme",
           NEW f \in flight, NEW ok \in BOOLEAN, nvme_post(f, ok)
    PROVE  Core'
<1>a. Buffered /\ Kept /\ ReadsBack /\ NvmeInv
  BY DEF DataInv, BackendInv
<1>b. pc # "wait" \/ (pc \in Busy /\ req \in Cmds /\ CmdOK(req) /\ res = "none")
  BY CmdFacts DEF CallInv, Busy
<1>c. ASSUME NvmeInv', backend' = "nvme", Buffered' /\ Kept' /\ ReadsBack'
      PROVE  Core'
  BY <1>c DEF Core, BackendInv
<1>0. PICK i : i = Queue(req)
  OBVIOUS
<1> DEFINE e == [phase |-> queues[i].tag, cmd |-> f.cmd, ok |-> ok]
<1>1. /\ pc = "wait" /\ flight = {f} /\ f.cmd = req /\ (f.moved => Moved(bounce)) /\ taken = NoEntry
      /\ Quiet(queues[i]) /\ Quiet(queues[1 - i])
      /\ req.op = "write" => bounce = req.val
  BY <1>0, InFlight, Zenon
<1>2. /\ UNCHANGED <<callVars, fsVars, sector, medium, bounce, taken>>
      /\ flight' = flight \ {f} /\ (ok => f.moved)
  BY Zenon DEF nvme_post
<1>3. UNCHANGED <<pc, req, res, want, backend, sector, medium, bounce, taken>> /\ i = Queue(req')
  BY <1>0, <1>2 DEF callVars, fsVars
<1>4. PostedTo(queues[i], queues'[i], e) /\ queues'[1 - i] = queues[1 - i]
  BY <1>0, <1>1, PostSteps, Zenon
<1>5. i \in 0 .. 1 /\ queues[i] \in QueueType /\ e.ok = ok
  BY <1>b, <1>0, <1>1, QueueOf, Zenon DEF QueuesInv, QueueOK
<1> HIDE DEF e
<1>6. Done(queues'[i]) /\ queues'[i].cq[queues'[i].head] = e
  BY <1>1, <1>4, <1>5, QuietPost, Zenon
<1>7. ok => Moved(bounce)'
  BY <1>1, <1>2, <1>3 DEF Moved
<1>8. NvmeInv'
  <2>1. InHand(queues[i])'
    BY <1>1, <1>2, <1>3, <1>5, <1>6, <1>7, Zenon DEF InHand
  <2> QED
    BY <1>1, <1>3, <1>4, <2>1, Zenon DEF NvmeInv
<1>9. Buffered' /\ Kept' /\ ReadsBack'
  BY <1>a, <1>b, <1>1, <1>3, WorkData, Zenon
<1> QED
  BY <1>c, <1>3, <1>8, <1>9

\* Every step of the NVMe driver and controller keeps the data right while no wait was
\* given up.
LEMMA NvmeData ==
    ASSUME CallInv, QueuesInv, DataType, DataInv, slow = 0, slow' = 0, backend = "nvme",
           \/ nvme_submit \/ poll_cq \/ nvme_done
           \/ \E i \in 0 .. 1 : nvme_fetch(i)
           \/ \E f \in flight : nvme_move(f) \/ \E ok \in BOOLEAN : nvme_post(f, ok)
    PROVE  Core'
BY SubmitData, TakeData, DoneData, FetchData, MoveData, PostData

\* The same for AHCI.
LEMMA AhciData ==
    ASSUME CallInv, DataType, DataInv, slow = 0, slow' = 0, backend = "ahci", taken \in EntryType,
           ahci_issue \/ ahci_done \/ port_start \/ port_move \/ port_finish \/ port_error
    PROVE  Core'
<1>1. Buffered /\ Kept /\ ReadsBack /\ AhciInv
  BY DEF DataInv, BackendInv
<1>2. ASSUME AhciInv', backend' = "ahci", Buffered' /\ Kept' /\ ReadsBack'
      PROVE  Core'
  BY <1>2 DEF Core, BackendInv
<1>3. pc \in Busy => req \in Cmds /\ CmdOK(req) /\ res = "none" /\ DOMAIN req = DOMAIN NoCmd
                     /\ req.op \in {"read", "write"} /\ req.lba \in Lbas
                     /\ (req.op = "write" => sector = req.val)
  BY <1>1, CmdFacts, CmdDomain DEF CallInv, Buffered, CmdOK, Probing
<1>4. CASE ahci_issue
  <2>1. /\ UNCHANGED <<req, res, want, backend, sector, medium, running>> /\ pc = "issue" /\ pc' = "wait"
        /\ slot' = req /\ ci' = TRUE
    BY <1>4 DEF ahci_issue, fsVars, driveVars
  <2>2. AhciInv'
    BY <1>1, <2>1 DEF AhciInv
  <2>3. Buffered' /\ Kept' /\ ReadsBack'
    BY <1>1, <1>3, <2>1, WorkData DEF Busy
  <2> QED
    BY <1>2, <2>1, <2>2, <2>3
<1>5. CASE ahci_done
  <2>1. pc = "wait" /\ ~ci /\ UNCHANGED <<slow, sector, medium, nvmeVars, ahciVars, driveVars>> /\ pc \in Busy
    BY <1>5 DEF ahci_done, Busy
  <2>2. TRUE \in BOOLEAN /\ Return(TRUE)
    BY <1>5, Zenon DEF ahci_done
  <2>3. PICK ok \in BOOLEAN : ok /\ Return(ok)
    BY <2>2, Zenon
  <2>4. taken' = NoEntry /\ ci' = ci /\ slow' \in Nat /\ UNCHANGED <<sector, medium, running>>
    BY <2>1 DEF CallInv, CallType, nvmeVars, ahciVars, driveVars
  <2>5. pc' \notin Busy /\ backend' = backend
    BY <2>1, <2>3, <2>4, Returns, Zenon DEF Return, fsVars
  <2>6. running = NoCmd /\ Moved(sector)
    BY <1>1, <2>1 DEF AhciInv
  <2>7. AhciInv'
    BY <2>1, <2>4, <2>5, <2>6 DEF AhciInv, Busy
  <2>8. Buffered' /\ Kept' /\ ReadsBack'
    BY <1>1, <2>1, <2>3, <2>4, <2>5, <2>6, ReturnData, Zenon DEF Moved
  <2> QED
    BY <1>2, <2>5, <2>7, <2>8
<1>6. ASSUME ci, UNCHANGED <<callVars, fsVars, slot>>, AhciInv',
             req.op = "write" => sector' = req.val,
             \A l \in Lbas : medium'[l] = medium[l] \/ (req.op = "write" /\ req.lba = l)
      PROVE  Core'
  <2>1. pc = "wait" /\ pc \in Busy /\ res = "none"
    BY <1>1, <1>6 DEF AhciInv, Busy, CallInv
  <2>2. UNCHANGED <<pc, req, res, want, backend>>
    BY <1>6 DEF callVars, fsVars
  <2>3. Buffered' /\ Kept' /\ ReadsBack'
    BY <1>1, <1>6, <2>1, <2>2, WorkData
  <2> QED
    BY <1>2, <1>6, <2>2, <2>3
<1>7. ci => pc = "wait" /\ pc \in Busy
  BY <1>1 DEF AhciInv, Busy
<1>8. CASE port_start
  <2>1. /\ UNCHANGED <<callVars, fsVars, slot, sector, medium, pc, req>> /\ ci /\ ci' = ci
        /\ running = NoCmd /\ running' = slot
    BY <1>8 DEF port_start, ahciVars, callVars
  <2>2. AhciInv'
    BY <1>1, <2>1 DEF AhciInv
  <2> QED
    BY <1>3, <1>6, <1>7, <2>1, <2>2
<1>9. CASE port_move
  <2>1. /\ UNCHANGED <<callVars, fsVars, slot, pc, req>> /\ ci /\ ci' = ci
        /\ running.op \in {"read", "write"} /\ running' = [running EXCEPT !.op = "moved"]
    BY <1>9 DEF port_move, ahciVars, callVars
  <2>2. [req EXCEPT !.op = "moved"].op = "moved"
    BY <1>3, <1>7, <2>1 DEF NoCmd, Cmd
  <2>3. running = req /\ slot = req
    BY <1>1, <1>7, <2>1, <2>2, NoCmdFields, Zenon DEF AhciInv
  <2>4. /\ medium' = IF req.op = "write" THEN [medium EXCEPT ![req.lba] = sector] ELSE medium
        /\ sector' = IF req.op = "write" THEN sector ELSE medium[req.lba]
        /\ medium \in [Lbas -> Contents]
    BY <1>9, <2>3 DEF port_move, DataType
  <2>5. Moved(sector)'
    BY <1>3, <1>7, <2>1, <2>4 DEF Moved
  <2>6. AhciInv'
    BY <1>7, <2>1, <2>3, <2>5 DEF AhciInv
  <2>7. \A l \in Lbas : medium'[l] = medium[l] \/ (req.op = "write" /\ req.lba = l)
    BY <1>3, <1>7, <2>1, <2>4
  <2>8. req.op = "write" => sector' = req.val
    BY <1>3, <1>7, <2>1, <2>4
  <2> QED
    BY <1>6, <2>1, <2>6, <2>7, <2>8
<1>10. CASE port_finish
  <2>1. /\ UNCHANGED <<callVars, fsVars, slot, sector, medium, pc, req>> /\ ci /\ ci' = FALSE
        /\ running' = NoCmd /\ running.op = "moved"
    BY <1>10 DEF port_finish, callVars
  <2>2. slot = req /\ Moved(sector)
    BY <1>1, <1>3, <1>7, <2>1, NoCmdFields DEF AhciInv
  <2>3. AhciInv'
    BY <1>7, <2>1, <2>2 DEF AhciInv, Moved
  <2> QED
    BY <1>3, <1>6, <1>7, <2>1, <2>3
<1>11. CASE port_error
  <2>1. /\ UNCHANGED <<callVars, fsVars, slot, sector, medium, pc, req>> /\ ci /\ ci' = ci
        /\ running' = NoCmd
    BY <1>11 DEF port_error, callVars
  <2>2. AhciInv'
    BY <1>1, <1>7, <2>1 DEF AhciInv
  <2> QED
    BY <1>3, <1>6, <1>7, <2>1, <2>2
<1> QED
  BY <1>4, <1>5, <1>8, <1>9, <1>10, <1>11

\* The same for ATA.
LEMMA AtaData ==
    ASSUME CallInv, DataType, DataInv, slow = 0, slow' = 0, backend = "ata", taken \in EntryType,
           ata_issue \/ ata_data \/ ata_fail \/ ata_stored \/ drive_step
    PROVE  Core'
<1>1. Buffered /\ Kept /\ ReadsBack /\ AtaInv
  BY DEF DataInv, BackendInv
<1>2. ASSUME AtaInv', backend' = "ata", Buffered' /\ Kept' /\ ReadsBack'
      PROVE  Core'
  BY <1>2, SMTT(20) DEF Core, BackendInv
<1>3. pc \in Busy => req \in Cmds /\ CmdOK(req) /\ res = "none" /\ DOMAIN req = DOMAIN NoCmd
                     /\ req.op \in {"read", "write"} /\ req.lba \in Lbas
                     /\ (req.op = "write" => sector = req.val)
  BY <1>1, CmdFacts, CmdDomain DEF CallInv, Buffered, CmdOK, Probing
<1>4. CASE ata_issue
  <2>1. /\ UNCHANGED <<req, res, want, backend, sector, medium>> /\ pc = "issue" /\ pc' = "drq"
    BY <1>4 DEF ata_issue, fsVars
  <2>2. AtaInv'
    BY <2>1 DEF AtaInv
  <2>3. Buffered' /\ Kept' /\ ReadsBack'
    BY <1>1, <1>3, <2>1, WorkData DEF Busy
  <2> QED
    BY <1>2, <2>1, <2>2, <2>3
<1>5. ASSUME pc \in Busy, NEW ok \in BOOLEAN, Return(ok), UNCHANGED <<medium, taken, ci>>,
             taken = NoEntry, status' # "busy",
             ok /\ req.op = "write" => medium[req.lba] = req.val,
             ok /\ req.op = "read" => sector' = medium[req.lba]
      PROVE  Core'
  <2>1. slow' \in Nat
    OBVIOUS
  <2>2. pc' \notin Busy /\ backend' = backend
    BY <1>5, <2>1, Returns DEF Return, fsVars
  <2>3. AtaInv'
    BY <1>5, <2>2 DEF AtaInv, Busy
  <2>4. Buffered' /\ Kept' /\ ReadsBack'
    BY <1>1, <1>5, <2>2, ReturnData
  <2> QED
    BY <1>2, <2>2, <2>3, <2>4
<1>6. taken = NoEntry
  BY DEF CallInv
<1>7. CASE ata_data /\ req.op = "read"
  <2>1. /\ pc \in Busy /\ sector' = medium[running.lba] /\ running = req /\ status' = "ready"
        /\ UNCHANGED <<medium, taken, ci>>
    BY <1>7 DEF ata_data, Busy, CallInv, nvmeVars, ahciVars
  <2>2. TRUE \in BOOLEAN /\ Return(TRUE)
    BY <1>7, Zenon DEF ata_data
  <2>3. PICK ok \in BOOLEAN : ok /\ Return(ok)
    BY <2>2, Zenon
  <2> QED
    BY <1>5, <1>6, <1>7, <2>1, <2>3, Zenon
<1>8. CASE ata_data /\ req.op # "read"
  <2>1. /\ pc = "drq" /\ pc \in Busy /\ pc' = "stored" /\ running = req /\ status' = "busy"
        /\ running' = [running EXCEPT !.op = "store", !.val = sector]
        /\ UNCHANGED <<req, res, want, backend, sector, medium>>
    BY <1>8 DEF ata_data, Busy, CallInv, fsVars
  <2>2. req.val = sector /\ req.op = "write" /\ req = Cmd(req.for, req.op, req.lba, req.val)
    BY <1>3, <1>8, <2>1 DEF CmdOK
  <2>3. running' = [req EXCEPT !.op = "store"]
    BY <2>1, <2>2, Zenon DEF Cmd
  <2>4. AtaInv'
    BY <2>1, <2>3, Zenon DEF AtaInv
  <2>5. Buffered' /\ Kept' /\ ReadsBack'
    BY <1>1, <1>3, <2>1, <2>2, WorkData DEF Busy
  <2> QED
    BY <1>2, <2>1, <2>4, <2>5
<1>9. CASE ata_fail
  <2>1. /\ pc \in Busy /\ UNCHANGED <<medium, taken, ci, status>>
        /\ slow' = IF status # "err" THEN slow + 1 ELSE slow
    BY <1>9, Zenon DEF ata_fail, Busy, nvmeVars, ahciVars, driveVars
  <2>2. FALSE \in BOOLEAN /\ Return(FALSE)
    BY <1>9, Zenon DEF ata_fail
  <2>3. PICK ok \in BOOLEAN : ~ok /\ Return(ok)
    BY <2>2, Zenon
  <2>4. status = "err"
    BY <2>1
  <2> QED
    BY <1>5, <1>6, <2>1, <2>3, <2>4
<1>10. CASE ata_stored
  <2>1. /\ pc = "stored" /\ pc \in Busy /\ UNCHANGED <<medium, taken, ci, status>>
        /\ slow' = IF status = "busy" THEN slow + 1 ELSE slow
    BY <1>10, Zenon DEF ata_stored, Busy, nvmeVars, ahciVars, driveVars
  <2>2. (status # "err") \in BOOLEAN /\ Return(status # "err")
    BY <1>10, Zenon DEF ata_stored
  <2>3. PICK ok \in BOOLEAN : (ok <=> status # "err") /\ Return(ok)
    BY <2>2, Zenon
  <2>4. status # "busy"
    BY <2>1
  <2>5. req.op = "write" /\ (status # "err" => medium[req.lba] = req.val)
    BY <1>1, <2>1, <2>4 DEF AtaInv, CallInv
  <2> QED
    BY <1>5, <1>6, <2>1, <2>3, <2>4, <2>5
<1>11. CASE drive_step
  <2>1. /\ UNCHANGED <<pc, req, res, want, backend, sector, running>> /\ status = "busy"
        /\ \/ /\ running.op = "store" /\ medium' = [medium EXCEPT ![running.lba] = running.val]
              /\ status' = "ready"
           \/ running.op # "store" /\ status' = "drq" /\ UNCHANGED medium
           \/ status' = "err" /\ UNCHANGED medium
    BY <1>11 DEF drive_step, callVars, fsVars
  <2>2. pc \in {"drq", "stored"} /\ pc \in Busy
    BY <1>1, <2>1 DEF AtaInv, Busy
  <2>3. CASE pc = "drq"
    <3>1. medium' = medium
      BY <1>3, <2>1, <2>2, <2>3 DEF CallInv
    <3>2. AtaInv'
      BY <2>1, <2>3, SMTT(20) DEF AtaInv
    <3>3. Buffered' /\ Kept' /\ ReadsBack'
      BY <1>1, <1>3, <2>1, <2>2, <3>1, WorkData
    <3> QED
      BY <1>2, <2>1, <3>2, <3>3, SMTT(20)
  <2>4. CASE pc = "stored"
    <3>1. running = [req EXCEPT !.op = "store"] /\ req.op = "write"
      BY <1>1, <2>1, <2>4 DEF AtaInv, CallInv
    <3>2. running.op = "store" /\ running.lba = req.lba /\ running.val = req.val
      BY <1>3, <2>2, <3>1 DEF NoCmd, Cmd
    <3>3. medium \in [Lbas -> Contents]
      BY DEF DataType
    <3>4. AtaInv'
      BY <1>3, <2>1, <2>2, <2>4, <3>2, <3>3 DEF AtaInv
    <3>5. Buffered' /\ Kept' /\ ReadsBack'
      BY <1>1, <1>3, <2>1, <2>2, <3>1, <3>2, <3>3, WorkData
    <3> QED
      BY <1>2, <2>1, <3>4, <3>5
  <2> QED
    BY <2>2, <2>3, <2>4
<1> QED
  BY <1>4, <1>7, <1>8, <1>9, <1>10, <1>11

\* The next command.
LEMMA IssueData ==
    ASSUME CallInv, CallInv', DataInv, slow = 0, pc \notin Busy, pc' = "issue", res' = "none",
           backend' \in {"ahci", "ata"} /\ req'.op = "write" => sector' = req'.val,
           UNCHANGED <<want, backend, medium, nvmeVars, ahciVars, driveVars>>
    PROVE  Core'
<1>1. Kept /\ BackendInv
  BY DEF DataInv
<1>2. UNCHANGED <<queues, flight, ci, running, status>>
  BY DEF nvmeVars, ahciVars, driveVars
<1>3. Buffered' /\ Kept' /\ ReadsBack'
  BY <1>1 DEF Buffered, Kept, ReadsBack
<1>4. backend = "nvme" => NvmeInv'
  BY <1>1, <1>2 DEF BackendInv, NvmeInv, Busy
<1>5. (backend = "ahci" => AhciInv') /\ (backend = "ata" => AtaInv')
  BY <1>1, <1>2 DEF BackendInv, AhciInv, AtaInv, Busy
<1> QED
  BY <1>3, <1>4, <1>5 DEF Core, BackendInv

\* The disk of the next backend is as it is found.
LEMMA OtherDiskData ==
    ASSUME CallInv, pc \in Setup, OtherDisk, pc' \notin Busy, backend' # "nvme",
           UNCHANGED <<req, res>>
    PROVE  Core'
<1>1. medium' = want' /\ ci' = FALSE /\ running' = NoCmd /\ status' = "ready"
  BY DEF OtherDisk
<1>2. AhciInv' /\ AtaInv' /\ Buffered'
  BY <1>1 DEF AhciInv, AtaInv, Buffered, Busy
<1>3. Kept'
  BY <1>1 DEF Kept
<1>4. ReadsBack'
  BY DEF CallInv, ReadsBack
<1> QED
  BY <1>2, <1>3, <1>4 DEF Core, BackendInv

\* The volume starts with its first content, and no request has been made.
LEMMA InitData == Init => DataInv
<1> SUFFICES ASSUME Init PROVE DataInv
  OBVIOUS
<1>1. pc = "nvme_init" /\ backend = "none" /\ res = "none" /\ medium = want /\ flight = {}
      /\ queues = [q \in 0 .. 1 |-> EmptyQueue]
  BY DEF Init
<1>2. Buffered /\ Kept /\ BackendInv /\ ReadsBack
  BY <1>1 DEF Buffered, Kept, BackendInv, ReadsBack
<1> QED
  BY <1>1, <1>2 DEF DataInv

\* Every step of the system keeps the data right.
LEMMA DataStep ==
    ASSUME CallInv, QueuesInv, WriteInv, DataInv, CallInv', [Next]_vars
    PROVE  DataInv'
<1>1. ASSUME pc' # "nvme_init" \/ UNCHANGED <<pc, queues>>, backend' # "nvme" => flight' = {},
             slow' = 0 => Core'
      PROVE  DataInv'
  BY <1>1 DEF DataInv, Core
<1>2. DataType /\ taken \in EntryType /\ slow \in Nat
  BY Zenon DEF WriteInv, QueuesInv, CallInv, CallType
<1>3. CASE fat_mount
  <2>1. PICK c \in InitCmds : c.for = pc /\ req' = c
    BY <1>3 DEF fat_mount
  <2>2. /\ pc' = "issue" /\ res' = "none"
        /\ UNCHANGED <<slow, want, backend, sector, medium, nvmeVars, ahciVars, driveVars, flight>>
    BY <1>3, SMTT(20) DEF fat_mount, fsVars, nvmeVars
  <2>3. c \in Cmds /\ CmdOK(c) /\ c.for # "user"
    BY <2>1, CmdFacts, SMTT(20) DEF Cmds, InitCmds, Cmd
  <2>4. pc \notin Busy /\ (req'.op = "write" => backend' = "nvme")
    BY <2>1, <2>2, <2>3 DEF CmdOK, Busy, Probing, Reading, CallInv
  <2>5. slow = 0 => Core'
    BY <2>2, <2>4, IssueData
  <2> QED
    BY <1>1, <2>2, <2>5 DEF DataInv
<1>4. CASE rw_abs
  <2>1. /\ pc = "idle" /\ pc' = "issue" /\ res' = "none" /\ pc \notin Busy
        /\ sector' = IF req'.op = "write" THEN req'.val ELSE sector
        /\ UNCHANGED <<slow, want, backend, medium, nvmeVars, ahciVars, driveVars, flight>>
    BY <1>4 DEF rw_abs, nvmeVars, Busy
  <2>2. slow = 0 => Core'
    BY <2>1, IssueData
  <2> QED
    BY <1>1, <2>1, <2>2 DEF DataInv
<1>5. CASE nvme_init
  <2>1. /\ pc = "nvme_init" /\ UNCHANGED <<req, res, want, slow, sector, medium, queues, flight>>
        /\ \/ pc' = "create_cq" /\ backend' = "nvme"
           \/ pc' = "ahci_init" /\ backend' = backend
    BY <1>5, SMTT(20) DEF nvme_init, nvmeVars
  <2>2. backend = "none" /\ queues = [q \in 0 .. 1 |-> EmptyQueue] /\ flight = {}
    BY <2>1 DEF CallInv, DataInv
  <2>3. ASSUME slow = 0 PROVE Core'
    <3>1. Kept /\ ReadsBack
      BY <2>3, SMTT(20) DEF DataInv
    <3>2. Buffered' /\ Kept' /\ ReadsBack'
      BY <2>1, <2>2, <3>1 DEF Buffered, Kept, ReadsBack, Busy
    <3>3. \A i \in 0 .. 1 : Quiet(queues'[i])
      BY <2>1, <2>2, EmptyQuiet
    <3>4. backend' = "nvme" => NvmeInv'
      BY <2>1, <2>2, <3>3 DEF NvmeInv
    <3> QED
      BY <2>1, <2>2, <3>2, <3>4 DEF Core, BackendInv
  <2> QED
    BY <1>1, <2>1, <2>2, <2>3
<1>6. CASE ahci_init \/ ata_init
  <2>1. /\ pc \in Setup /\ pc' \notin Busy /\ OtherDisk /\ pc' # "nvme_init" /\ backend' # "nvme"
        /\ UNCHANGED <<req, res>> /\ flight' = {}
    BY <1>6 DEF ahci_init, ata_init, Setup, Busy, OtherDisk
  <2> QED
    BY <1>1, <2>1, OtherDiskData
<1>7. CASE nvme_submit
  <2>1. backend = "nvme" /\ backend' = backend /\ slow' = slow /\ pc' = "wait"
    BY <1>7 DEF nvme_submit, fsVars
  <2>2. slow' = 0 => Core'
    BY <1>2, <1>7, <2>1, NvmeData
  <2> QED
    BY <1>1, <2>1, <2>2
<1>8. CASE poll_cq
  <2>1. backend = "nvme" /\ backend' = backend /\ slow' = slow /\ pc' = "wait"
    BY <1>8 DEF poll_cq, fsVars, callVars
  <2>2. slow' = 0 => Core'
    BY <1>2, <1>8, <2>1, NvmeData
  <2> QED
    BY <1>1, <2>1, <2>2
<1>9. CASE nvme_done
  <2>1. pc \in Busy /\ backend = "nvme" /\ backend' = backend /\ slow' = slow
    BY <1>9, Zenon DEF nvme_done, Return, fsVars, CallInv, Busy
  <2>2. slow' = 0 => Core'
    BY <1>2, <1>9, <2>1, NvmeData, SMTT(20)
  <2>3. pc' # "nvme_init"
    BY <2>1 DEF CallInv
  <2> QED
    BY <1>1, <2>1, <2>2, <2>3
<1>10. CASE \E i \in 0 .. 1 : nvme_fetch(i)
  <2>1. backend = "nvme" /\ UNCHANGED <<callVars, fsVars>>
    BY <1>10, Zenon DEF nvme_fetch
  <2>2. backend' = backend /\ slow' = slow /\ pc' = pc /\ pc # "nvme_init"
    BY <2>1 DEF fsVars, callVars, CallInv
  <2>3. slow' = 0 => Core'
    BY <1>2, <1>10, <2>1, <2>2, NvmeData
  <2> QED
    BY <1>1, <2>1, <2>2, <2>3
<1>11. CASE \E f \in flight : nvme_move(f) \/ \E ok \in BOOLEAN : nvme_post(f, ok)
  <2>1. UNCHANGED <<callVars, fsVars>>
    BY <1>11, Zenon DEF nvme_move, nvme_post
  <2>2. backend = "nvme"
    BY <1>11 DEF DataInv
  <2>3. backend' = backend /\ slow' = slow /\ pc' = pc /\ pc # "nvme_init"
    BY <2>1, <2>2 DEF fsVars, callVars, CallInv
  <2>4. slow' = 0 => Core'
    BY <1>2, <1>11, <2>2, <2>3, NvmeData
  <2> QED
    BY <1>1, <2>2, <2>3, <2>4
<1>12. CASE nvme_timeout \/ ahci_fail
  <2>1. /\ pc = "wait" /\ slow' = slow + 1 /\ UNCHANGED <<nvmeVars, fsVars>>
    BY <1>12, Zenon DEF nvme_timeout, ahci_fail, Return
  <2>2. backend' = backend /\ flight' = flight /\ backend # "none" /\ slow' # 0
    BY <1>2, <2>1, SMTT(20) DEF fsVars, nvmeVars, CallInv, Busy
  <2>3. pc' # "nvme_init"
    BY <2>2 DEF CallInv
  <2> QED
    BY <1>1, <2>2, <2>3 DEF DataInv
<1>13. CASE ahci_issue \/ ahci_done \/ port_start \/ port_move \/ port_finish \/ port_error
  <2>1. UNCHANGED <<nvmeVars, fsVars, slow>> /\ (ci \/ backend = "ahci")
    BY <1>13, Zenon DEF ahci_issue, ahci_done, port_start, port_move, port_finish, port_error, Return,
                        callVars
  <2>2. backend = "ahci" /\ backend' = backend /\ flight' = flight
    BY <2>1 DEF CallInv, fsVars, nvmeVars
  <2>3. slow' = 0 => Core'
    BY <1>2, <1>13, <2>1, <2>2, AhciData, SMTT(20)
  <2>4. pc' # "nvme_init"
    BY <2>2 DEF CallInv
  <2> QED
    BY <1>1, <2>2, <2>3, <2>4 DEF DataInv
<1>14. CASE ata_issue \/ ata_data \/ ata_fail \/ ata_stored \/ drive_step
  <2>1. /\ UNCHANGED <<nvmeVars, fsVars>> /\ slow' \in {slow, slow + 1}
        /\ pc \in {"drq", "stored"} \/ backend = "ata"
    BY <1>14, Zenon DEF ata_issue, ata_data, ata_fail, ata_stored, drive_step, Return, callVars
  <2>2. backend = "ata" /\ backend' = backend /\ flight' = flight
    BY <2>1 DEF CallInv, fsVars, nvmeVars
  <2>3. slow' = 0 => slow = 0
    BY <1>2, <2>1
  <2>4. slow' = 0 => Core'
    BY <1>2, <1>14, <2>2, <2>3, AtaData, SMTT(20)
  <2>5. pc' # "nvme_init"
    BY <2>2, SMTT(20) DEF CallInv
  <2> QED
    BY <1>1, <2>2, <2>4, <2>5 DEF DataInv
<1>15. CASE UNCHANGED vars
  BY <1>15 DEF vars, callVars, fsVars, nvmeVars, ahciVars, driveVars, DataInv, Buffered, Kept,
               BackendInv, NvmeInv, AhciInv, AtaInv, InHand, Moved, ReadsBack
<1> QED
  BY <1>3, <1>4, <1>5, <1>6, <1>7, <1>8, <1>9, <1>10, <1>11, <1>12, <1>13, <1>14, <1>15, Zenon
     DEF Next, Driver, Device

\* As long as no wait was given up: what read_abs returns is what write_abs last
\* stored, for a queue of any depth, over all three backends, failed commands and
\* a failed backend in between.
THEOREM ReadsWhatWasWritten == Spec => []ReadsBack
<1>1. CallInv /\ QueuesInv /\ WriteInv /\ DataInv /\ CallInv' /\ [Next]_vars => DataInv'
  BY DataStep
<1>2. CallInv /\ DataInv => ReadsBack
  BY DEF DataInv, ReadsBack
<1> QED
  BY InitData, QueuesInvariance, WritesInvariance, <1>1, <1>2, PTL DEF Spec

=============================================================================
