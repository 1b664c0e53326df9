------------------------------- MODULE Syscall ------------------------------
(***************************************************************************)
(* The console thread, the ring-3 program it runs (process.c and           *)
(* process_asm.S) and the system calls that reach the scheduler            *)
(* (syscall.c), composed with Sched.                                       *)
(*                                                                         *)
(* int 0x80 is an interrupt gate: it clears the interrupt flag, and only   *)
(* the IRETQ at the end of the call sets it again.  A call that yields     *)
(* hands the CPU to another thread with the flag clear.                    *)
(*                                                                         *)
(* kmain creates the console in slot 1; the other threads do what bg_idle  *)
(* does, yield in a loop.  Neither function returns, so no thread exits    *)
(* and none is created after kmain.                                        *)
(***************************************************************************)
EXTENDS Sched

CONSTANT MaxWait     \* bound on the argument of SYS_SLEEP

ASSUME MaxWaitAssumption == MaxWait \in Nat /\ MaxWait < TickMod

VARIABLES active,    \* current_proc.active
          start,     \* sys_sleep: ticks at the call
          wait       \* sys_sleep: ticks_wait

procVars == <<active, start, wait>>
allVars == <<vars, procVars>>

Console == 1

\* "user": in ring 3.  "yield", "read", "sleep": in that system call, about to
\* call thread_yield or to look whether it is done.  "iret": done, the frame
\* still to be popped.
SyscallContexts == {"yield", "read", "sleep", "iret"}

SysInit == Init /\ active = FALSE /\ start = 0 /\ wait = 0

InContext(c) == current = Console /\ ctx[Console] = c

Goto(c) == /\ ctx' = [ctx EXCEPT ![Console] = c]
           /\ UNCHANGED <<state, current, run_queue, sched_started, timer_on, ticks>>

-----------------------------------------------------------------------------
(* process.c *)

\* Ring 3 starts with RFLAGS = 0x202.
enter_at ==
    /\ InContext("body")
    /\ active' = TRUE
    /\ ifl' = TRUE
    /\ Goto("user") /\ UNCHANGED <<start, wait>>

process_handle_exit_FlagKept ==
    /\ InContext("user") /\ active
    /\ active' = FALSE
    /\ ifl' = FALSE
    /\ Goto("body") /\ UNCHANGED <<start, wait>>

process_handle_exit_StaysActive ==
    /\ InContext("user") /\ active
    /\ ifl' = TRUE
    /\ Goto("body") /\ UNCHANGED procVars

\* SYS_EXIT from ring 3: the frame now returns to process_user_resume with
\* RFLAGS = 0x202, on the kernel stack enter_at left.
process_handle_exit ==
    /\ InContext("user") /\ active
    /\ active' = FALSE
    /\ ifl' = TRUE
    /\ Goto("body") /\ UNCHANGED <<start, wait>>

-----------------------------------------------------------------------------
(* syscall.c: int 0x80 and the calls that yield *)

int80(call) ==
    /\ InContext("user")
    /\ ifl' = FALSE
    /\ Goto(call) /\ UNCHANGED active

sys_yield_enter == int80("yield") /\ UNCHANGED <<start, wait>>

\* The calls that never yield, unknown numbers included.
sys_other == int80("iret") /\ UNCHANGED <<start, wait>>

sys_read_enter == int80("read") /\ UNCHANGED <<start, wait>>

sys_sleep_enter == /\ int80("sleep")
                   /\ start' = ticks
                   /\ wait' \in 0 .. MaxWait

YieldFrom(cont) == /\ sched_on_timer(cont)
                   /\ UNCHANGED <<sched_started, timer_on, ticks, procVars>>

sys_yield == InContext("yield") /\ YieldFrom("iret")

\* The serial port has a character (or none is wanted), or it has none yet.
sys_read == /\ InContext("read")
            /\ \/ Goto("iret") /\ UNCHANGED <<ifl, procVars>>
               \/ YieldFrom("read")

\* ticks - start in the width of ticks.
Elapsed == (ticks + TickMod - start) % TickMod

sys_sleep_OneShort ==
    /\ InContext("sleep")
    /\ IF Elapsed + 1 < wait THEN YieldFrom("sleep")
                             ELSE Goto("iret") /\ UNCHANGED <<ifl, procVars>>

sys_sleep == /\ InContext("sleep")
             /\ IF Elapsed < wait THEN YieldFrom("sleep")
                                  ELSE Goto("iret") /\ UNCHANGED <<ifl, procVars>>

\* The flag is in the RFLAGS that int 0x80 pushed in ring 3.
iretq == /\ InContext("iret")
         /\ ifl' = TRUE
         /\ Goto("user") /\ UNCHANGED procVars

-----------------------------------------------------------------------------

\* kmain's two thread_create calls come before sched_start.
Boot == /\ Kmain
        /\ sched_started' => \A t \in Slots : state[t] # "UNUSED"
        /\ UNCHANGED procVars

KernelThread == thread_yield /\ UNCHANGED procVars

Process == enter_at \/ process_handle_exit

Calls == sys_other \/ sys_yield_enter \/ sys_read_enter \/ sys_sleep_enter

InCall == sys_yield \/ sys_read \/ sys_sleep \/ iretq

Timer == timer_handler /\ UNCHANGED procVars

SysNext == Boot \/ KernelThread \/ Process \/ Calls \/ InCall \/ Timer

\* The CPU goes on executing: kmain, the loops of the kernel threads and the
\* code of a system call.  The timer goes on interrupting whenever the flag
\* lets it.
SysFairness == /\ WF_allVars(Boot)
               /\ WF_allVars(KernelThread)
               /\ WF_allVars(InCall)
               /\ WF_allVars(Timer)

SysSpec == SysInit /\ [][SysNext]_allVars /\ SysFairness

-----------------------------------------------------------------------------
(* Properties *)

\* After the start the flag is clear only while the program is inside a system
\* call, also when another thread runs meanwhile: ring 3 and the console always
\* run with interrupts enabled, whatever the flag was when the scheduler gave
\* the CPU back to the call.
FlagClearOnlyInCall == (sched_started /\ ~ifl) => ctx[Console] \in SyscallContexts

\* The console is in its own code exactly when no program is active, so
\* SYS_EXIT always finds current_proc.active set and never falls through to
\* thread_exit, which would kill the console.
ExitReturnsToConsole == (sched_started /\ state[Console] # "UNUSED") =>
                            (active <=> ctx[Console] \in SyscallContexts \cup {"user"})

\* SYS_YIELD comes back to the program: the other threads yield although they
\* run with interrupts disabled meanwhile.
YieldReturns == (ctx[Console] = "yield") ~> (ctx[Console] = "user")

\* A sleep never ends before the ticks it asked for have passed.
SleepNotShort == [][(ctx[Console] = "sleep" /\ ctx'[Console] = "iret") => Elapsed >= wait]_allVars

\* The README lists SYS_SLEEP among the working system calls: a program that
\* sleeps wakes up.
SleepReturns == (ctx[Console] = "sleep") ~> (ctx[Console] = "user")

=============================================================================
