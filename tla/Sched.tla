-------------------------------- MODULE Sched -------------------------------
(***************************************************************************)
(* Kernel threads of GWKernel: the thread pool (kernel/sched/thread.c),    *)
(* the cooperative round-robin scheduler (kernel/sched/sched.c), the timer *)
(* interrupt (kernel/arch/x86_64/cpu/timer.c) and the stack switch         *)
(* (kernel/arch/x86_64/cpu/switch.S).                                      *)
(*                                                                         *)
(* One CPU runs everything.  The timer handler touches only its own        *)
(* counters, which no scheduler function reads, so each scheduler call is  *)
(* one step and the handler is a step between them.                        *)
(*                                                                         *)
(* Slots are taken in order and never given back, so a thread's id is its  *)
(* slot number.                                                            *)
(***************************************************************************)
EXTENDS Naturals, Sequences, FiniteSets

CONSTANTS MaxThreads,   \* MAX_THREADS of thread.h
          TickMod       \* ticks wrap at this value (2^64 in the code)

ASSUME MaxThreadsAssumption == MaxThreads \in Nat \ {0}
ASSUME TickModAssumption == TickMod \in Nat \ {0}

VARIABLES state,          \* thread_pool[i].state
          current,        \* the thread the CPU belongs to
          run_queue,      \* the list linked through thread_t.next
          sched_started,
          ctx,            \* what a thread does when it next has the CPU
          ifl,            \* the interrupt flag of RFLAGS
          timer_on,       \* IRQ0 programmed and unmasked
          ticks

schedVars == <<state, current, run_queue, sched_started, ctx>>
timerVars == <<ifl, timer_on, ticks>>
vars == <<schedVars, timerVars>>

Slots == 1 .. MaxThreads
Idle == 0          \* &idle_thread: kmain's own context
NoThread == MaxThreads + 1   \* the NULL that sched_pick_next may return

States == {"UNUSED", "READY", "RUNNING", "DEAD"}   \* BLOCKED is never assigned

\* "fresh": the frame thread_create built, which returns into the trampoline;
\* "body": the thread's function; "exit" and "hlt": the loop of thread_exit,
\* before sched_on_timer and in the HLT after it.
Contexts == {"none", "fresh", "body", "exit", "hlt"}

Queued == {run_queue[i] : i \in 1 .. Len(run_queue)}

\* The state sched_init leaves behind.  Interrupts may be on already: the boot
\* self-test runs a ring-3 program, whose exit loads RFLAGS with 0x202.
Init == /\ state = [t \in Slots |-> "UNUSED"]
        /\ current = Idle
        /\ run_queue = << >>
        /\ sched_started = FALSE
        /\ ctx = [t \in Slots |-> "none"]
        /\ ifl \in BOOLEAN
        /\ timer_on = FALSE
        /\ ticks = 0

-----------------------------------------------------------------------------
(* The run queue *)

sched_add_Front(q, t) == <<t>> \o q

sched_add(q, t) == Append(q, t)

\* Where sched_pick_next stops: it takes at most MAX_THREADS entries off the
\* queue and drops the ones that are not READY.
ScanLimit == IF Len(run_queue) < MaxThreads THEN Len(run_queue) ELSE MaxThreads

ReadyAt == {i \in 1 .. ScanLimit : state[run_queue[i]] = "READY"}

PickIndex == CHOOSE i \in ReadyAt : \A j \in ReadyAt : i <= j

sched_pick_next == IF ReadyAt = {} THEN NoThread ELSE run_queue[PickIndex]

AfterPick_Peek == run_queue

AfterPick == LET taken == IF ReadyAt = {} THEN ScanLimit ELSE PickIndex
             IN  SubSeq(run_queue, taken + 1, Len(run_queue))

-----------------------------------------------------------------------------
(* Switching *)

Requeues_AnyState == current # Idle

Requeues_Inverted == current # Idle /\ state[current] # "RUNNING"

Requeues == current # Idle /\ state[current] = "RUNNING"

\* context_switch does not save RFLAGS: the flag stays as the old thread had
\* it, unless the new one is at the first instruction of thread_trampoline, an
\* STI.
FlagAfterSwitch_Cleared(next) == ctx[next] = "fresh"

FlagAfterSwitch(next) == ifl \/ ctx[next] = "fresh"

\* Called by the current thread, which goes on at context cont when the call
\* returns to it.  A caller that is still RUNNING goes to the end of the queue;
\* one that has exited stays DEAD and is left behind.
sched_on_timer(cont) ==
    LET next == sched_pick_next IN
    IF ~sched_started \/ next \in {NoThread, current}
    THEN /\ run_queue' = IF sched_started THEN AfterPick ELSE run_queue
         /\ ctx' = [ctx EXCEPT ![current] = cont]
         /\ UNCHANGED <<state, current, ifl>>
    ELSE /\ state' = [t \in Slots |-> IF t = next THEN "RUNNING"
                                      ELSE IF Requeues /\ t = current THEN "READY"
                                      ELSE state[t]]
         /\ run_queue' = IF Requeues THEN sched_add(AfterPick, current) ELSE AfterPick
         /\ current' = next
         /\ ctx' = [ctx EXCEPT ![current] = cont,
                               ![next] = IF @ = "fresh" THEN "body" ELSE @]
         /\ ifl' = FlagAfterSwitch(next)

-----------------------------------------------------------------------------
(* kmain: create threads, start the timer, start the scheduler *)

InKmain == current = Idle /\ ~sched_started

\* The first unused slot and a stack from kmalloc; with neither it returns -1
\* and changes nothing.  (The frame always fits: 9 words of an 8 KiB stack.)
thread_create ==
    /\ \E t \in Slots :
         /\ state[t] = "UNUSED"
         /\ \A u \in Slots : u < t => state[u] # "UNUSED"
         /\ state' = [state EXCEPT ![t] = "READY"]
         /\ ctx' = [ctx EXCEPT ![t] = "fresh"]
         /\ run_queue' = sched_add(run_queue, t)
    /\ UNCHANGED <<current, sched_started, timerVars>>

timer_init ==
    /\ InKmain /\ ~timer_on
    /\ timer_on' = TRUE
    /\ ticks' = 0
    /\ UNCHANGED <<schedVars, ifl>>

\* kmain enables interrupts just before.  With no thread to run, kmain halts
\* for good.
sched_start ==
    LET next == sched_pick_next IN
    /\ InKmain /\ timer_on
    /\ sched_started' = TRUE
    /\ run_queue' = AfterPick
    /\ IF next = NoThread
       THEN UNCHANGED <<state, current, ctx>>
       ELSE /\ state' = [state EXCEPT ![next] = "RUNNING"]
            /\ current' = next
            /\ ctx' = [ctx EXCEPT ![next] = "body"]
    /\ ifl' = TRUE
    /\ UNCHANGED <<timer_on, ticks>>

-----------------------------------------------------------------------------
(* The thread that has the CPU *)

InBody == current # Idle /\ ctx[current] = "body"

thread_yield ==
    /\ InBody
    /\ sched_on_timer("body")
    /\ UNCHANGED <<sched_started, timer_on, ticks>>

\* The thread's function returned into the trampoline.  The slot and the stack
\* are never given back.
thread_exit ==
    /\ InBody
    /\ state' = [state EXCEPT ![current] = "DEAD"]
    /\ ctx' = [ctx EXCEPT ![current] = "exit"]
    /\ UNCHANGED <<current, run_queue, sched_started, timerVars>>

\* One round of the loop at the end of thread_exit: with nobody to switch to,
\* sched_on_timer returns and the thread waits for an interrupt.
exit_loop ==
    /\ current # Idle /\ ctx[current] = "exit"
    /\ sched_on_timer("hlt")
    /\ UNCHANGED <<sched_started, timer_on, ticks>>

-----------------------------------------------------------------------------
(* IRQ0.  need_resched, which the handler also sets, is read only by
   thread_maybe_yield, which has no caller, and after the switch in sched_start,
   which never returns: it is left out. *)

timer_handler ==
    /\ timer_on /\ ifl
    /\ ticks' = (ticks + 1) % TickMod
    /\ ctx' = [t \in Slots |-> IF t = current /\ ctx[t] = "hlt" THEN "exit" ELSE ctx[t]]
    /\ UNCHANGED <<state, current, run_queue, sched_started, ifl, timer_on>>

-----------------------------------------------------------------------------

Kmain == (InKmain /\ thread_create) \/ timer_init \/ sched_start

ThreadStep == (InBody /\ thread_create) \/ thread_yield \/ thread_exit \/ exit_loop

Next == Kmain \/ ThreadStep \/ timer_handler

\* Threads are cooperative: one that has the CPU does not stay away from
\* thread_yield for ever (bg_idle and console_thread loop around it).  The
\* processor goes on executing kmain and the loop of thread_exit, and the
\* timer goes on interrupting.
Fairness == /\ WF_vars(timer_init) /\ WF_vars(sched_start)
            /\ WF_vars(thread_yield) /\ WF_vars(exit_loop)
            /\ WF_vars(timer_handler)

Spec == Init /\ [][Next]_vars

FairSpec == Spec /\ Fairness

-----------------------------------------------------------------------------
(* Properties *)

\* Every variable keeps its type.
TypeOK == /\ state \in [Slots -> States]
          /\ current \in Slots \cup {Idle}
          /\ run_queue \in Seq(Slots)
          /\ sched_started \in BOOLEAN
          /\ ctx \in [Slots -> Contexts]
          /\ ifl \in BOOLEAN
          /\ timer_on \in BOOLEAN
          /\ ticks \in 0 .. TickMod - 1

\* The queue holds each READY thread exactly once and nothing else ("RUNNING
\* should not be in queue", sched.c), and the only thread that can be RUNNING
\* is the current one.  So no thread is lost, run twice in a round, or resumed
\* on a stack that is already in use, and sched_pick_next drops nothing.
QueueInv == /\ \A i, j \in 1 .. Len(run_queue) : run_queue[i] = run_queue[j] => i = j
            /\ \A t \in Slots : state[t] = "READY" <=> t \in Queued
            /\ \A t \in Slots : state[t] = "RUNNING" => t = current

\* Once the scheduler has started a thread, interrupts stay enabled while
\* kernel threads run: a thread resumed by context_switch inherits the flag of
\* the one before it, and thread_trampoline enables it for a new one.
InterruptsOn == sched_started => ifl

\* A thread that has exited keeps its slot, is never READY again and never
\* gets the CPU back once it has lost it.
DeadStaysDead == [][\A t \in Slots : state[t] = "DEAD" =>
                        /\ state'[t] = "DEAD"
                        /\ current' = t => current = t]_vars

\* The turn order as RoundRobin sees it: the running thread, then the queue.
TurnOrder == IF current # Idle /\ state[current] = "RUNNING"
             THEN <<current>> \o run_queue ELSE run_queue

RR == INSTANCE RoundRobin WITH Threads <- Slots, order <- TurnOrder

\* The scheduler, the exits and the creations together implement the cyclic
\* order of RoundRobin, whatever the threads do in between.
ImplementsRoundRobin == RR!Spec

\* A thread that was created runs, as long as the threads before it yield.
ReadyRuns == \A t \in Slots : (state[t] = "READY") ~> (state[t] = "RUNNING")

=============================================================================
