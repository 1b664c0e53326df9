---------------------------- MODULE SyscallProofs ---------------------------
(***************************************************************************)
(* Proofs about Syscall, for every number of threads, every width of the   *)
(* tick counter and every bound on the sleeps.                             *)
(***************************************************************************)
EXTENDS Syscall, SchedProofs

InProcess == SyscallContexts \cup {"user"}

SysTypeInv == /\ state \in [Slots -> {"UNUSED", "READY", "RUNNING"}]
              /\ current \in Slots \cup {Idle}
              /\ run_queue \in Seq(Slots)
              /\ sched_started \in BOOLEAN
              /\ ctx \in [Slots -> {"none", "fresh", "body"} \cup InProcess]
              /\ ifl \in BOOLEAN
              /\ timer_on \in BOOLEAN
              /\ ticks \in 0 .. TickMod - 1
              /\ active \in BOOLEAN
              /\ start \in 0 .. TickMod - 1
              /\ wait \in Nat

\* Only the console leaves its body for ring 3, only after the scheduler has
\* started, and exactly then current_proc is active; the thread that has the CPU
\* is RUNNING and past its trampoline.
ProcessInv == /\ \A t \in Slots : t # Console => ctx[t] \notin InProcess
              /\ \A t \in Slots : state[t] = "RUNNING" => ctx[t] # "fresh"
              /\ active <=> ctx[Console] \in InProcess
              /\ active => sched_started
              /\ current # Idle => sched_started /\ state[current] = "RUNNING"

SysIInv == SysTypeInv /\ QueueInv /\ ProcessInv /\ FlagClearOnlyInCall

\* The console is a thread other than kmain's own context.
LEMMA ConsoleSlot == Console \in Slots /\ Console # Idle
BY SlotFacts DEF Console, Idle

\* How the positions inside ring 3 and inside calls relate.
LEMMA ContextNames == /\ "body" \notin InProcess /\ "fresh" \notin InProcess
                      /\ "none" \notin InProcess /\ "user" \in InProcess
                      /\ "user" \notin SyscallContexts
                      /\ SyscallContexts \subseteq InProcess
BY DEF InProcess, SyscallContexts

\* Before the first program runs the invariant holds.
LEMMA SysInitInv == SysInit => SysIInv
<1> SUFFICES ASSUME SysInit PROVE SysIInv
  OBVIOUS
<1> USE ConsoleSlot, ContextNames DEF SysInit, Init
<1>1. SysTypeInv
  <2>1. ticks \in 0 .. TickMod - 1 /\ start \in 0 .. TickMod - 1 /\ wait \in Nat
    BY TickModAssumption
  <2>2. run_queue \in Seq(Slots)
    OBVIOUS
  <2>3. active \in BOOLEAN /\ ifl \in BOOLEAN /\ sched_started \in BOOLEAN /\ timer_on \in BOOLEAN
    BY Zenon
  <2> QED
    BY <2>1, <2>2, <2>3 DEF SysTypeInv
<1>2. QueueInv
  BY DEF QueueInv, Queued
<1>3. ProcessInv /\ FlagClearOnlyInCall
  BY DEF ProcessInv, FlagClearOnlyInCall
<1> QED
  BY <1>1, <1>2, <1>3 DEF SysIInv

\* A thread calls sched_on_timer and goes on at cont.  The flag follows the
\* switch: it may stay clear only if the console is inside a call.
LEMMA YieldKeeps ==
    ASSUME SysIInv, current # Idle, NEW cont, sched_on_timer(cont),
           cont = ctx[current] \/ (current = Console /\ cont \in SyscallContexts
                                   /\ ctx[current] \in SyscallContexts),
           UNCHANGED <<sched_started, timer_on, ticks, procVars>>
    PROVE  /\ SysIInv'
           /\ \A t \in Slots : t # current /\ ctx[t] # "fresh" => ctx'[t] = ctx[t]
           /\ ctx'[current] = cont
<1> USE SlotFacts, ConsoleSlot, ContextNames
<1>1. /\ SysTypeInv /\ QueueInv /\ ProcessInv /\ FlagClearOnlyInCall
      /\ sched_started /\ current \in Slots /\ state[current] = "RUNNING"
      /\ run_queue \in Seq(Slots)
  BY DEF SysIInv, SysTypeInv, ProcessInv
<1>2. /\ cont \in {"none", "fresh", "body"} \cup InProcess /\ cont # "fresh"
      /\ cont \in InProcess <=> ctx[current] \in InProcess
      /\ cont \in SyscallContexts <=> ctx[current] \in SyscallContexts
  BY <1>1 DEF SysTypeInv, ProcessInv
<1>3. UNCHANGED <<sched_started, timer_on, ticks, active, start, wait>>
  BY DEF procVars
<1>4. CASE run_queue = << >>
  <2>1. /\ ctx' = [ctx EXCEPT ![current] = cont] /\ run_queue' = run_queue
        /\ UNCHANGED <<state, current, ifl>>
    BY <1>1, <1>4, OnTimerCases
  <2>2. SysTypeInv'
    BY <1>1, <1>2, <1>3, <2>1 DEF SysTypeInv
  <2>3. QueueInv'
    BY <1>1, <2>1 DEF QueueInv, Queued
  <2>4. \A t \in Slots : ctx'[t] \in InProcess <=> ctx[t] \in InProcess
    BY <1>1, <1>2, <2>1 DEF SysTypeInv
  <2>5. ProcessInv'
    BY <1>1, <1>2, <1>3, <2>1, <2>4 DEF ProcessInv, SysTypeInv
  <2>6. FlagClearOnlyInCall'
    BY <1>1, <1>2, <1>3, <2>1 DEF FlagClearOnlyInCall, SysTypeInv
  <2> QED
    BY <1>1, <2>1, <2>2, <2>3, <2>5, <2>6 DEF SysIInv, SysTypeInv
<1>5. CASE run_queue # << >>
  <2> DEFINE h == run_queue[1]
             r == Tail(run_queue)
  <2>1. /\ h \in Slots /\ current' = h /\ h # current
        /\ state' = [t \in Slots |-> IF t = h THEN "RUNNING"
                                     ELSE IF t = current THEN "READY" ELSE state[t]]
        /\ run_queue' = Append(r, current)
        /\ ctx' = [ctx EXCEPT ![current] = cont, ![h] = IF @ = "fresh" THEN "body" ELSE @]
        /\ ifl' = FlagAfterSwitch(h)
    BY <1>1, <1>5, OnTimerCases
  <2>2. /\ NoRepeat(run_queue)
        /\ \A t \in Slots : state[t] = "READY" <=> t \in Elements(run_queue)
        /\ \A t \in Slots : state[t] = "RUNNING" => t = current
    BY <1>1, QueueInvForm
  <2>3. /\ r \in Seq(Slots) /\ NoRepeat(r) /\ h \in Elements(run_queue)
        /\ Elements(r) = Elements(run_queue) \ {h}
    BY <1>1, <1>5, <2>2, TailRest, TailFacts
  <2> HIDE DEF h, r
  <2>4. current \notin Elements(r)
    BY <1>1, <2>2, <2>3
  <2>5. /\ run_queue' \in Seq(Slots) /\ NoRepeat(run_queue')
        /\ Elements(run_queue') = Elements(r) \cup {current}
    BY <1>1, <2>1, <2>3, <2>4, AppendNew
  <2>6. QueueInv'
    <3>1. \A t \in Slots : state'[t] = "READY" <=> t \in Elements(run_queue')
      BY <1>1, <2>1, <2>2, <2>3, <2>5
    <3>2. \A t \in Slots : state'[t] = "RUNNING" => t = current'
      BY <2>1, <2>2
    <3> QED
      BY <2>5, <3>1, <3>2 DEF QueueInv, NoRepeat, Elements, Queued
  <2>7. /\ \A t \in Slots \ {h, current} : ctx'[t] = ctx[t]
        /\ ctx'[current] = cont
        /\ ctx'[h] = IF ctx[h] = "fresh" THEN "body" ELSE ctx[h]
    BY <1>1, <2>1 DEF SysTypeInv
  <2>8. SysTypeInv'
    <3>1. ifl' \in BOOLEAN
      BY <2>1 DEF FlagAfterSwitch
    <3>2. state' \in [Slots -> {"UNUSED", "READY", "RUNNING"}]
      BY <1>1, <2>1 DEF SysTypeInv
    <3>3. ctx' \in [Slots -> {"none", "fresh", "body"} \cup InProcess]
      BY <1>1, <1>2, <2>1, Zenon DEF SysTypeInv
    <3> QED
      BY <1>1, <1>3, <2>1, <2>5, <3>1, <3>2, <3>3 DEF SysTypeInv
  <2>9. \A t \in Slots : /\ ctx'[t] \in InProcess <=> ctx[t] \in InProcess
                         /\ ctx'[t] \in SyscallContexts <=> ctx[t] \in SyscallContexts
    BY <1>1, <1>2, <2>1, <2>7, Zenon
  <2>10. ProcessInv'
    <3>1. \A t \in Slots : state'[t] = "RUNNING" => t = h
      BY <2>1, <2>2
    <3>2. ctx'[h] # "fresh"
      BY <2>7
    <3>3. sched_started' /\ state'[h] = "RUNNING"
      BY <1>1, <1>3, <2>1
    <3> QED
      BY <1>1, <1>3, <2>1, <2>9, <3>1, <3>2, <3>3, Zenon DEF ProcessInv
  <2>11. FlagClearOnlyInCall'
    BY <1>1, <1>3, <2>1, <2>9, Zenon DEF FlagClearOnlyInCall, FlagAfterSwitch
  <2> QED
    BY <1>1, <2>1, <2>6, <2>7, <2>8, <2>10, <2>11, Zenon DEF SysIInv, SysTypeInv
<1> QED
  BY <1>4, <1>5

\* The console moves on in its own code, into ring 3 or in a call.
LEMMA GotoKeeps ==
    ASSUME SysIInv, NEW c, InContext(c), NEW d \in {"body"} \cup InProcess, Goto(d),
           active' \in BOOLEAN, active' <=> d \in InProcess,
           ifl' \in BOOLEAN, ifl' \/ d \in SyscallContexts,
           start' \in 0 .. TickMod - 1, wait' \in Nat
    PROVE  SysIInv'
<1> USE ConsoleSlot, ContextNames
<1>1. /\ SysTypeInv /\ QueueInv /\ ProcessInv
      /\ current = Console
      /\ ctx' = [ctx EXCEPT ![Console] = d]
      /\ UNCHANGED <<state, current, run_queue, sched_started, timer_on, ticks>>
  BY DEF SysIInv, InContext, Goto
<1>2. ctx'[Console] = d /\ \A t \in Slots \ {Console} : ctx'[t] = ctx[t]
  BY <1>1 DEF SysTypeInv
<1>3. SysTypeInv'
  BY <1>1 DEF SysTypeInv
<1>4. QueueInv'
  BY <1>1 DEF QueueInv, Queued
<1>5. ProcessInv'
  BY <1>1, <1>2 DEF ProcessInv
<1>6. FlagClearOnlyInCall'
  BY <1>2 DEF FlagClearOnlyInCall
<1> QED
  BY <1>3, <1>4, <1>5, <1>6 DEF SysIInv

\* kmain before the start of the scheduler: no process exists.
LEMMA BootKeeps == SysIInv /\ Boot => SysIInv'
<1> SUFFICES ASSUME SysIInv, Boot PROVE SysIInv'
  OBVIOUS
<1> USE SlotFacts, ConsoleSlot, ContextNames
<1>1. /\ SysTypeInv /\ QueueInv /\ ProcessInv /\ FlagClearOnlyInCall
      /\ run_queue \in Seq(Slots)
      /\ UNCHANGED <<active, start, wait>>
  BY DEF SysIInv, SysTypeInv, Boot, procVars
<1>2. CASE InKmain /\ thread_create
  <2>1. PICK t \in Slots : /\ state[t] = "UNUSED"
                           /\ state' = [state EXCEPT ![t] = "READY"]
                           /\ ctx' = [ctx EXCEPT ![t] = "fresh"]
                           /\ run_queue' = Append(run_queue, t)
    BY <1>2, Zenon DEF thread_create, sched_add
  <2>2. /\ UNCHANGED <<current, sched_started, ifl, timer_on, ticks>>
        /\ current = Idle /\ ~sched_started
    BY <1>2 DEF thread_create, timerVars, InKmain
  <2>3. /\ NoRepeat(run_queue)
        /\ \A u \in Slots : state[u] = "READY" <=> u \in Elements(run_queue)
        /\ \A u \in Slots : state[u] = "RUNNING" => u = current
    BY <1>1, QueueInvForm
  <2>4. /\ run_queue' \in Seq(Slots) /\ NoRepeat(run_queue')
        /\ Elements(run_queue') = Elements(run_queue) \cup {t}
    BY <1>1, <2>1, <2>3, AppendNew
  <2>5. SysTypeInv'
    BY <1>1, <2>1, <2>2, <2>4 DEF SysTypeInv
  <2>6. QueueInv'
    <3>1. \A u \in Slots : state'[u] = "READY" <=> u \in Elements(run_queue')
      BY <1>1, <2>1, <2>3, <2>4 DEF SysTypeInv
    <3>2. \A u \in Slots : state'[u] = "RUNNING" => u = current'
      BY <1>1, <2>1, <2>2, <2>3 DEF SysTypeInv
    <3> QED
      BY <2>4, <3>1, <3>2 DEF QueueInv, NoRepeat, Elements, Queued
  <2>7. ProcessInv'
    BY <1>1, <2>1, <2>2 DEF ProcessInv, SysTypeInv
  <2> QED
    BY <2>2, <2>5, <2>6, <2>7 DEF SysIInv, FlagClearOnlyInCall
<1>3. CASE timer_init
  <2>1. ticks' \in 0 .. TickMod - 1
    BY <1>3, TickModAssumption DEF timer_init
  <2> QED
    BY <1>1, <1>3, <2>1
       DEF SysIInv, SysTypeInv, QueueInv, Queued, ProcessInv, FlagClearOnlyInCall,
           timer_init, schedVars
<1>4. CASE sched_start
  <2>1. /\ sched_started' = TRUE /\ ifl' = TRUE /\ current = Idle /\ ~sched_started
        /\ UNCHANGED <<timer_on, ticks>>
    BY <1>4 DEF sched_start, InKmain
  <2>2. CASE run_queue = << >>
    <3>1. run_queue' = run_queue /\ UNCHANGED <<state, current, ctx>>
      BY <1>1, <1>4, <2>2, PickNext DEF sched_start
    <3> QED
      BY <1>1, <2>1, <3>1
         DEF SysIInv, SysTypeInv, QueueInv, Queued, ProcessInv, FlagClearOnlyInCall
  <2>3. CASE run_queue # << >>
    <3> DEFINE h == run_queue[1]
               r == Tail(run_queue)
    <3>1. /\ h \in Slots /\ state[h] = "READY" /\ run_queue' = r
          /\ state' = [state EXCEPT ![h] = "RUNNING"] /\ current' = h
          /\ ctx' = [ctx EXCEPT ![h] = "body"]
      BY <1>1, <1>4, <2>3, PickNext DEF sched_start
    <3>2. /\ NoRepeat(run_queue)
          /\ \A t \in Slots : state[t] = "READY" <=> t \in Elements(run_queue)
          /\ \A t \in Slots : state[t] = "RUNNING" => t = current
      BY <1>1, QueueInvForm
    <3>3. /\ r \in Seq(Slots) /\ NoRepeat(r) /\ Elements(r) = Elements(run_queue) \ {h}
      BY <1>1, <2>3, <3>2, TailRest, TailFacts
    <3> HIDE DEF h, r
    <3>4. SysTypeInv'
      BY <1>1, <2>1, <3>1, <3>3 DEF SysTypeInv
    <3>5. QueueInv'
      <4>1. \A t \in Slots : state'[t] = "READY" <=> t \in Elements(run_queue')
        BY <1>1, <3>1, <3>2, <3>3 DEF SysTypeInv
      <4>2. \A t \in Slots : state'[t] = "RUNNING" => t = current'
        BY <1>1, <2>1, <3>1, <3>2 DEF SysTypeInv
      <4> QED
        BY <3>1, <3>3, <4>1, <4>2 DEF QueueInv, NoRepeat, Elements, Queued
    <3>6. ProcessInv'
      BY <1>1, <2>1, <3>1 DEF ProcessInv, SysTypeInv
    <3> QED
      BY <2>1, <3>4, <3>5, <3>6 DEF SysIInv, FlagClearOnlyInCall
  <2> QED
    BY <2>2, <2>3
<1> QED
  BY <1>2, <1>3, <1>4 DEF Boot, Kmain

\* Every step of the scheduler, of the process and of a system call keeps the invariant.
LEMMA SysNextInv == SysIInv /\ [SysNext]_allVars => SysIInv'
<1> SUFFICES ASSUME SysIInv, [SysNext]_allVars PROVE SysIInv'
  OBVIOUS
<1> USE ConsoleSlot, ContextNames
<1>1. /\ SysTypeInv /\ QueueInv /\ ProcessInv /\ FlagClearOnlyInCall
  BY DEF SysIInv
<1>2. /\ active \in BOOLEAN /\ ifl \in BOOLEAN /\ wait \in Nat
      /\ start \in 0 .. TickMod - 1 /\ ticks \in 0 .. TickMod - 1
      /\ active <=> ctx[Console] \in InProcess
      /\ sched_started /\ ~ifl => ctx[Console] \in SyscallContexts
      /\ current = Console => sched_started
  BY <1>1 DEF SysTypeInv, ProcessInv, FlagClearOnlyInCall
<1>3. CASE Boot
  BY <1>3, BootKeeps
<1>4. CASE KernelThread
  BY <1>4, YieldKeeps DEF KernelThread, thread_yield, InBody
<1>5. CASE enter_at
  BY <1>2, <1>5, GotoKeeps DEF enter_at
<1>6. CASE process_handle_exit
  BY <1>2, <1>6, GotoKeeps, Zenon DEF process_handle_exit
<1>7. ASSUME NEW call \in SyscallContexts, int80(call), wait' \in Nat,
             start' \in 0 .. TickMod - 1
      PROVE  SysIInv'
  <2>1. /\ InContext("user") /\ Goto(call) /\ ifl' = FALSE /\ active' = active
        /\ ctx[Console] = "user"
    BY <1>7 DEF int80, InContext
  <2> QED
    BY <1>2, <1>7, <2>1, GotoKeeps, Zenon
<1>8. CASE Calls
  <2>1. {"yield", "read", "sleep", "iret"} \subseteq SyscallContexts
    BY DEF SyscallContexts
  <2>2. CASE sys_other \/ sys_yield_enter \/ sys_read_enter
    BY <1>2, <1>7, <2>1, <2>2 DEF sys_other, sys_yield_enter, sys_read_enter
  <2>3. CASE sys_sleep_enter
    <3>1. start' \in 0 .. TickMod - 1 /\ wait' \in Nat
      BY <1>2, <2>3, MaxWaitAssumption DEF sys_sleep_enter
    <3> QED
      BY <1>7, <2>1, <2>3, <3>1 DEF sys_sleep_enter
  <2> QED
    BY <1>8, <2>2, <2>3 DEF Calls
<1>9. ASSUME NEW c \in SyscallContexts, InContext(c), NEW d \in SyscallContexts, YieldFrom(d)
      PROVE  SysIInv'
  BY <1>9, YieldKeeps DEF YieldFrom, InContext
<1>10. ASSUME NEW c \in SyscallContexts, InContext(c), Goto("iret"), UNCHANGED <<ifl, procVars>>
       PROVE  SysIInv'
  <2>1. "iret" \in SyscallContexts /\ ctx[Console] = c /\ UNCHANGED <<ifl, active, start, wait>>
    BY <1>10 DEF SyscallContexts, InContext, procVars
  <2> QED
    BY <1>2, <1>10, <2>1, GotoKeeps
<1>11. CASE sys_yield \/ sys_read \/ sys_sleep
  <2>1. {"yield", "read", "sleep", "iret"} \subseteq SyscallContexts
    BY DEF SyscallContexts
  <2> QED
    BY <1>9, <1>10, <1>11, <2>1 DEF sys_yield, sys_read, sys_sleep
<1>12. CASE iretq
  <2>1. ctx[Console] = "iret" /\ "iret" \in SyscallContexts /\ UNCHANGED <<active, start, wait>>
    BY <1>12 DEF iretq, InContext, SyscallContexts, procVars
  <2> QED
    BY <1>2, <1>12, <2>1, GotoKeeps DEF iretq
<1>13. CASE Timer
  <2>1. /\ ticks' \in 0 .. TickMod - 1
        /\ UNCHANGED <<state, current, run_queue, sched_started, ifl, timer_on, active, start, wait>>
    BY <1>2, <1>13, TickModAssumption DEF Timer, timer_handler, procVars
  <2>2. ctx' = ctx
    <3>1. \A t \in Slots : ctx[t] # "hlt"
      BY <1>1 DEF SysTypeInv, InProcess, SyscallContexts
    <3> QED
      BY <1>1, <1>13, <3>1 DEF Timer, timer_handler, SysTypeInv
  <2> QED
    BY <1>1, <2>1, <2>2
       DEF SysIInv, SysTypeInv, QueueInv, Queued, ProcessInv, FlagClearOnlyInCall
<1>14. CASE UNCHANGED allVars
  BY <1>1, <1>14
     DEF allVars, vars, schedVars, timerVars, procVars,
         SysIInv, SysTypeInv, QueueInv, Queued, ProcessInv, FlagClearOnlyInCall
<1> QED
  BY <1>3, <1>4, <1>5, <1>6, <1>8, <1>11, <1>12, <1>13, <1>14
     DEF SysNext, Process, InCall

\* Queue, contexts, flag and current_proc agree, always.
THEOREM SysInvariance == SysSpec => []SysIInv
BY SysInitInv, SysNextInv, PTL DEF SysSpec

\* The run queue stays exact when system calls yield in the middle of a program
\* (thread_yield from sys_yield, sys_read and sys_sleep).
THEOREM SysQueueCorrect == SysSpec => []QueueInv
BY SysInvariance, PTL DEF SysIInv

\* The flag that int 0x80 clears is clear only while the program is inside the
\* call, however many threads run with it meanwhile.
THEOREM FlagClear == SysSpec => []FlagClearOnlyInCall
BY SysInvariance, PTL DEF SysIInv

\* SYS_EXIT finds current_proc.active set whenever a program runs, so it returns
\* to the console and never ends it.
THEOREM ExitSafe == SysSpec => []ExitReturnsToConsole
<1>1. SysIInv => ExitReturnsToConsole
  BY DEF SysIInv, ProcessInv, ExitReturnsToConsole, InProcess
<1> QED
  BY <1>1, SysInvariance, PTL

-----------------------------------------------------------------------------
(* A sleep is not short *)

SleepStep == (ctx[Console] = "sleep" /\ ctx'[Console] = "iret") => Elapsed >= wait

\* No step ends a sleep early.
LEMMA SleepStepHolds == SysIInv /\ [SysNext]_allVars => SleepStep \/ UNCHANGED allVars
<1> SUFFICES ASSUME SysIInv, SysNext, ctx[Console] = "sleep", ctx'[Console] = "iret"
             PROVE  Elapsed >= wait
  BY DEF SleepStep
<1> USE ConsoleSlot, ContextNames
<1>1. /\ SysTypeInv /\ ProcessInv /\ sched_started
  BY DEF SysIInv, ProcessInv, InProcess, SyscallContexts
<1>2. ASSUME NEW cont, sched_on_timer(cont), current # Idle,
             cont = ctx[current] \/ (current = Console /\ cont = "sleep"),
             UNCHANGED <<sched_started, timer_on, ticks, procVars>>
      PROVE  FALSE
  <2>1. "sleep" \in SyscallContexts
    BY DEF SyscallContexts
  <2>2. /\ \A t \in Slots : t # current /\ ctx[t] # "fresh" => ctx'[t] = ctx[t]
        /\ ctx'[current] = cont
    BY <1>2, <2>1, YieldKeeps
  <2> QED
    BY <1>2, <2>2
<1>3. ~Boot
  BY <1>1 DEF Boot, Kmain, InKmain, timer_init, sched_start, schedVars
<1>4. ~KernelThread
  BY <1>2 DEF KernelThread, thread_yield, InBody
<1>5. ~(Process \/ Calls \/ iretq \/ sys_yield \/ sys_read)
  BY DEF Process, enter_at, process_handle_exit, Calls, sys_other, sys_yield_enter,
         sys_read_enter, sys_sleep_enter, int80, iretq, sys_yield, sys_read, InContext
<1>6. ~Timer
  BY <1>1, Zenon DEF Timer, timer_handler
<1>7. sys_sleep
  BY <1>3, <1>4, <1>5, <1>6 DEF SysNext, InCall
<1>8. ~YieldFrom("sleep")
  BY <1>2, <1>7 DEF YieldFrom, sys_sleep, InContext
<1>9. ~(Elapsed < wait)
  BY <1>7, <1>8 DEF sys_sleep
<1>10. Elapsed \in Nat /\ wait \in Nat
  BY <1>1, TickModAssumption DEF Elapsed, SysTypeInv
<1> QED
  BY <1>9, <1>10

\* SYS_SLEEP does not return before the ticks it was asked for have passed, also
\* when the tick counter wraps in between.
THEOREM SleepLongEnough == SysSpec => SleepNotShort
BY SysInvariance, SleepStepHolds, PTL DEF SysSpec, SleepNotShort, SleepStep

=============================================================================
