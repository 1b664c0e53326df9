----------------------------- MODULE SchedProofs ----------------------------
(***************************************************************************)
(* Proofs about Sched, for every number of threads.                        *)
(***************************************************************************)
EXTENDS Sched, SequenceTheorems, TLAPS

\* What a thread's context says about its state, and who may be current: the
\* strengthening that makes QueueInv inductive.
CtxInv == /\ \A t \in Slots : /\ state[t] = "UNUSED" => ctx[t] = "none"
                              /\ state[t] = "READY" => ctx[t] \in {"fresh", "body"}
                              /\ state[t] = "RUNNING" => ctx[t] = "body"
                              /\ state[t] = "DEAD" => ctx[t] \in {"exit", "hlt"}
          /\ current # Idle => sched_started /\ state[current] \in {"RUNNING", "DEAD"}

IInv == TypeOK /\ QueueInv /\ CtxInv

\* The thread in Slots, the idle context and the NULL of sched_pick_next differ.
LEMMA SlotFacts == /\ Idle \notin Slots /\ NoThread \notin Slots /\ Idle # NoThread
                   /\ 1 \in Slots
BY MaxThreadsAssumption DEF Idle, NoThread, Slots

\* Taking the first element off a sequence without repetitions.
LEMMA TailFacts ==
    ASSUME NEW S, NEW q \in Seq(S), q # << >>
    PROVE  /\ Len(q) \in Nat /\ Len(q) > 0
           /\ Tail(q) \in Seq(S)
           /\ Len(Tail(q)) = Len(q) - 1
           /\ \A i \in 1 .. Len(q) - 1 : Tail(q)[i] = q[i + 1]
           /\ q[1] \in S
           /\ SubSeq(q, 2, Len(q)) = Tail(q)
OBVIOUS

NoRepeat(q) == \A i, j \in 1 .. Len(q) : q[i] = q[j] => i = j

Elements(q) == {q[i] : i \in 1 .. Len(q)}

\* A new element at the end.
LEMMA AppendNew ==
    ASSUME NEW S, NEW q \in Seq(S), NEW e \in S, NoRepeat(q), e \notin Elements(q)
    PROVE  /\ Append(q, e) \in Seq(S)
           /\ NoRepeat(Append(q, e))
           /\ Elements(Append(q, e)) = Elements(q) \cup {e}
<1> DEFINE a == Append(q, e)
<1>1. /\ a \in Seq(S) /\ Len(q) \in Nat /\ Len(a) = Len(q) + 1
      /\ \A i \in 1 .. Len(q) : a[i] = q[i]
      /\ a[Len(q) + 1] = e
  OBVIOUS
<1> HIDE DEF a
<1>2. \A i \in 1 .. Len(a) : i \in 1 .. Len(q) \/ i = Len(q) + 1
  BY <1>1
<1>3. \A i \in 1 .. Len(q) : i \in 1 .. Len(a) /\ q[i] # e
  BY <1>1 DEF Elements
<1>4. NoRepeat(a)
  BY <1>1, <1>2, <1>3 DEF NoRepeat
<1>5. Len(q) + 1 \in 1 .. Len(a)
  BY <1>1
<1>6. Elements(a) = Elements(q) \cup {e}
  BY <1>1, <1>2, <1>3, <1>5 DEF Elements
<1> QED
  BY <1>1, <1>4, <1>6 DEF a

\* The head taken off.
LEMMA TailRest ==
    ASSUME NEW S, NEW q \in Seq(S), q # << >>, NoRepeat(q)
    PROVE  /\ NoRepeat(Tail(q))
           /\ Elements(Tail(q)) = Elements(q) \ {q[1]}
           /\ q[1] \in Elements(q)
<1> DEFINE r == Tail(q)
<1>1. /\ Len(q) \in Nat /\ Len(q) > 0 /\ Len(r) = Len(q) - 1
      /\ \A i \in 1 .. Len(q) - 1 : r[i] = q[i + 1]
  BY TailFacts
<1> HIDE DEF r
<1>2. NoRepeat(r)
  BY <1>1 DEF NoRepeat
<1>3. \A x \in Elements(r) : x \in Elements(q) /\ x # q[1]
  BY <1>1 DEF NoRepeat, Elements
<1>4. ASSUME NEW x \in Elements(q), x # q[1] PROVE x \in Elements(r)
  <2>1. PICK i \in 1 .. Len(q) : x = q[i]
    BY DEF Elements
  <2>2. i - 1 \in 1 .. Len(r) /\ r[i - 1] = x
    BY <1>1, <1>4, <2>1
  <2> QED
    BY <2>2 DEF Elements
<1>5. q[1] \in Elements(q)
  BY <1>1 DEF Elements
<1> QED
  BY <1>2, <1>3, <1>4, <1>5 DEF r

\* The two queue conjuncts of QueueInv, in these terms.
LEMMA QueueInvForm ==
    QueueInv <=> /\ NoRepeat(run_queue)
                 /\ \A t \in Slots : state[t] = "READY" <=> t \in Elements(run_queue)
                 /\ \A t \in Slots : state[t] = "RUNNING" => t = current
BY DEF QueueInv, NoRepeat, Elements, Queued

\* sched_pick_next finds a READY thread at the head of every non-empty queue,
\* so it takes the head and drops nothing.
LEMMA PickNext ==
    ASSUME run_queue \in Seq(Slots), QueueInv
    PROVE  /\ run_queue = << >> => sched_pick_next = NoThread /\ AfterPick = run_queue
           /\ run_queue # << >> => /\ sched_pick_next = run_queue[1]
                                   /\ run_queue[1] \in Slots
                                   /\ state[run_queue[1]] = "READY"
                                   /\ AfterPick = Tail(run_queue)
<1>1. CASE run_queue = << >>
  <2>1. ScanLimit = 0 /\ ReadyAt = {}
    BY <1>1, MaxThreadsAssumption DEF ScanLimit, ReadyAt
  <2> QED
    BY <1>1, <2>1 DEF sched_pick_next, AfterPick
<1>2. CASE run_queue # << >>
  <2>1. /\ Len(run_queue) \in Nat /\ Len(run_queue) > 0 /\ run_queue[1] \in Slots
        /\ SubSeq(run_queue, 2, Len(run_queue)) = Tail(run_queue)
    BY <1>2, TailFacts
  <2>2. state[run_queue[1]] = "READY"
    BY <2>1 DEF QueueInv, Queued
  <2>3. ScanLimit \in Nat /\ ScanLimit >= 1
    BY <2>1, MaxThreadsAssumption DEF ScanLimit
  <2>4. 1 \in ReadyAt /\ ReadyAt \subseteq 1 .. ScanLimit
    BY <2>2, <2>3 DEF ReadyAt
  <2>5. \A i \in ReadyAt : i \in Nat /\ i >= 1
    BY <2>3, <2>4
  <2>6. \A i \in ReadyAt : (\A j \in ReadyAt : i <= j) => i = 1
    BY <2>4, <2>5
  <2>7. PickIndex = 1
    <3>1. \E i \in ReadyAt : \A j \in ReadyAt : i <= j
      BY <2>4, <2>5
    <3>2. PickIndex \in ReadyAt /\ \A j \in ReadyAt : PickIndex <= j
      BY <3>1 DEF PickIndex
    <3> QED
      BY <3>2, <2>6
  <2> QED
    BY <1>2, <2>1, <2>2, <2>4, <2>7 DEF sched_pick_next, AfterPick
<1> QED
  BY <1>1, <1>2

-----------------------------------------------------------------------------
(* Every step keeps IInv *)

\* The two outcomes of sched_on_timer: nobody waits and the caller goes on, or
\* the head of the queue gets the CPU and a caller that is still RUNNING goes to
\* the end.
LEMMA OnTimerCases ==
    ASSUME run_queue \in Seq(Slots), QueueInv, sched_started, current \in Slots,
           state[current] # "READY", NEW cont, sched_on_timer(cont)
    PROVE  \/ /\ run_queue = << >> /\ run_queue' = run_queue
              /\ ctx' = [ctx EXCEPT ![current] = cont]
              /\ UNCHANGED <<state, current, ifl>>
           \/ /\ run_queue # << >> /\ run_queue[1] \in Slots
              /\ current' = run_queue[1] /\ current' # current
              /\ state' = [t \in Slots |-> IF t = run_queue[1] THEN "RUNNING"
                                           ELSE IF state[current] = "RUNNING" /\ t = current THEN "READY"
                                           ELSE state[t]]
              /\ run_queue' = IF state[current] = "RUNNING"
                              THEN Append(Tail(run_queue), current) ELSE Tail(run_queue)
              /\ ctx' = [ctx EXCEPT ![current] = cont,
                                    ![run_queue[1]] = IF @ = "fresh" THEN "body" ELSE @]
              /\ ifl' = FlagAfterSwitch(run_queue[1])
<1>2. CASE run_queue = << >>
  BY <1>2, PickNext DEF sched_on_timer
<1>3. CASE run_queue # << >>
  <2>1. /\ sched_pick_next = run_queue[1] /\ run_queue[1] \in Slots
        /\ state[run_queue[1]] = "READY" /\ AfterPick = Tail(run_queue)
    BY <1>3, PickNext
  <2>2. run_queue[1] # current /\ run_queue[1] # NoThread /\ current # Idle
    BY <2>1, SlotFacts
  <2> QED
    BY <1>3, <2>1, <2>2 DEF sched_on_timer, Requeues, sched_add
<1> QED
  BY <1>2, <1>3

\* A call of sched_on_timer by the current thread keeps the invariant when the
\* context it leaves for the caller fits the caller's state.
LEMMA OnTimerKeeps ==
    ASSUME IInv, current # Idle, NEW cont \in Contexts, sched_on_timer(cont),
           state[current] = "RUNNING" => cont = "body",
           state[current] = "DEAD" => cont \in {"exit", "hlt"},
           UNCHANGED <<sched_started, timer_on, ticks>>
    PROVE  IInv'
<1> USE SlotFacts
<1>1. /\ sched_started /\ state[current] \in {"RUNNING", "DEAD"} /\ current \in Slots
      /\ TypeOK /\ QueueInv /\ CtxInv /\ run_queue \in Seq(Slots)
  BY DEF IInv, CtxInv, TypeOK
<1>2. CASE run_queue = << >>
  <2>1. /\ ctx' = [ctx EXCEPT ![current] = cont] /\ run_queue' = run_queue
        /\ UNCHANGED <<state, current, ifl>>
    BY <1>1, <1>2, OnTimerCases
  <2>2. TypeOK'
    BY <1>1, <2>1 DEF TypeOK
  <2>3. QueueInv'
    BY <1>1, <2>1 DEF QueueInv, Queued
  <2>4. CtxInv'
    BY <1>1, <2>1 DEF CtxInv, TypeOK
  <2> QED
    BY <2>2, <2>3, <2>4 DEF IInv
<1>3. CASE run_queue # << >>
  <2> DEFINE h == run_queue[1]
             r == Tail(run_queue)
  <2>1. /\ h \in Slots /\ current' = h /\ h # current
        /\ state' = [t \in Slots |-> IF t = h THEN "RUNNING"
                                     ELSE IF state[current] = "RUNNING" /\ t = current THEN "READY"
                                     ELSE state[t]]
        /\ run_queue' = IF state[current] = "RUNNING" THEN Append(r, current) ELSE r
        /\ ctx' = [ctx EXCEPT ![current] = cont, ![h] = IF @ = "fresh" THEN "body" ELSE @]
        /\ ifl' = FlagAfterSwitch(h)
    BY <1>1, <1>3, OnTimerCases
  <2>2. /\ NoRepeat(run_queue)
        /\ \A t \in Slots : state[t] = "READY" <=> t \in Elements(run_queue)
        /\ \A t \in Slots : state[t] = "RUNNING" => t = current
    BY <1>1, QueueInvForm
  <2>3. /\ r \in Seq(Slots) /\ NoRepeat(r) /\ h \in Elements(run_queue)
        /\ Elements(r) = Elements(run_queue) \ {h}
    BY <1>1, <1>3, <2>2, TailRest, TailFacts DEF TypeOK
  <2> HIDE DEF h, r
  <2>4. current \notin Elements(r)
    BY <1>1, <2>2, <2>3
  <2>5. /\ Append(r, current) \in Seq(Slots) /\ NoRepeat(Append(r, current))
        /\ Elements(Append(r, current)) = Elements(r) \cup {current}
    BY <1>1, <2>3, <2>4, AppendNew
  <2>6. run_queue' \in Seq(Slots) /\ NoRepeat(run_queue')
    BY <2>1, <2>3, <2>5
  <2>7. \A t \in Slots : state'[t] = "READY" <=> t \in Elements(run_queue')
    <3> SUFFICES ASSUME NEW t \in Slots PROVE state'[t] = "READY" <=> t \in Elements(run_queue')
      OBVIOUS
    <3>1. CASE state[current] = "RUNNING"
      BY <1>1, <2>1, <2>2, <2>3, <2>5, <3>1
    <3>2. CASE state[current] # "RUNNING"
      BY <1>1, <2>1, <2>2, <2>3, <3>2
    <3> QED
      BY <3>1, <3>2
  <2>8. \A t \in Slots : state'[t] = "RUNNING" => t = current'
    BY <1>1, <2>1, <2>2
  <2>9. QueueInv'
    BY <2>6, <2>7, <2>8 DEF QueueInv, NoRepeat, Elements, Queued
  <2>10. TypeOK'
    <3>1. ifl' \in BOOLEAN
      BY <2>1 DEF FlagAfterSwitch
    <3>2. state' \in [Slots -> States]
      BY <1>1, <2>1 DEF TypeOK, States
    <3>3. ctx' \in [Slots -> Contexts]
      BY <1>1, <2>1 DEF TypeOK, Contexts
    <3> QED
      BY <1>1, <2>1, <2>6, <3>1, <3>2, <3>3 DEF TypeOK
  <2>11. CtxInv'
    <3>1. state[h] = "READY" /\ ctx[h] \in {"fresh", "body"}
      BY <1>1, <2>1, <2>2, <2>3 DEF CtxInv
    <3>2. ctx'[h] = "body" /\ ctx'[current] = cont
      BY <1>1, <2>1, <3>1 DEF TypeOK
    <3>3. \A t \in Slots \ {h, current} : ctx'[t] = ctx[t] /\ state'[t] = state[t]
      BY <1>1, <2>1 DEF TypeOK
    <3>4. state'[h] = "RUNNING"
          /\ state'[current] = IF state[current] = "RUNNING" THEN "READY" ELSE state[current]
      BY <1>1, <2>1
    <3>5. ASSUME NEW t \in Slots
          PROVE  /\ state'[t] = "UNUSED" => ctx'[t] = "none"
                 /\ state'[t] = "READY" => ctx'[t] \in {"fresh", "body"}
                 /\ state'[t] = "RUNNING" => ctx'[t] = "body"
                 /\ state'[t] = "DEAD" => ctx'[t] \in {"exit", "hlt"}
      <4>1. CASE t = h
        BY <3>2, <3>4, <4>1
      <4>2. CASE t = current
        BY <1>1, <3>2, <3>4, <4>2
      <4>3. CASE t \notin {h, current}
        BY <1>1, <3>3, <4>3 DEF CtxInv
      <4> QED
        BY <4>1, <4>2, <4>3
    <3>6. sched_started' /\ state'[current'] = "RUNNING"
      BY <1>1, <2>1, <3>4
    <3> QED
      BY <3>5, <3>6 DEF CtxInv
  <2> QED
    BY <2>9, <2>10, <2>11 DEF IInv
<1> QED
  BY <1>2, <1>3

\* The state kmain leaves to sched_start satisfies the invariant.
LEMMA InitIInv == Init => IInv
<1> SUFFICES ASSUME Init PROVE IInv
  OBVIOUS
<1>1. TypeOK
  <2>1. state \in [Slots -> States] /\ ctx \in [Slots -> Contexts]
    BY DEF Init, States, Contexts
  <2>2. run_queue \in Seq(Slots) /\ ticks \in 0 .. TickMod - 1
    BY TickModAssumption DEF Init
  <2>3. sched_started \in BOOLEAN /\ timer_on \in BOOLEAN /\ ifl \in BOOLEAN
    BY Zenon DEF Init
  <2> QED
    BY <2>1, <2>2, <2>3 DEF Init, TypeOK
<1>2. QueueInv
  BY DEF Init, QueueInv, Queued
<1>3. CtxInv
  BY DEF Init, CtxInv
<1> QED
  BY <1>1, <1>2, <1>3 DEF IInv

\* thread_create queues an UNUSED slot, which is not queued yet.
LEMMA CreateKeeps == IInv /\ thread_create => IInv'
<1> SUFFICES ASSUME IInv, thread_create PROVE IInv'
  OBVIOUS
<1>1. TypeOK /\ QueueInv /\ CtxInv
  BY DEF IInv
<1>2. PICK t \in Slots : /\ state[t] = "UNUSED"
                         /\ state' = [state EXCEPT ![t] = "READY"]
                         /\ ctx' = [ctx EXCEPT ![t] = "fresh"]
                         /\ run_queue' = Append(run_queue, t)
  BY Zenon DEF thread_create, sched_add
<1>3. UNCHANGED <<current, sched_started, ifl, timer_on, ticks>>
  BY DEF thread_create, timerVars
<1>4. /\ NoRepeat(run_queue)
      /\ \A u \in Slots : state[u] = "READY" <=> u \in Elements(run_queue)
      /\ \A u \in Slots : state[u] = "RUNNING" => u = current
  BY <1>1, QueueInvForm
<1>5. run_queue \in Seq(Slots) /\ t \notin Elements(run_queue)
  BY <1>1, <1>2, <1>4 DEF TypeOK
<1>6. /\ run_queue' \in Seq(Slots) /\ NoRepeat(run_queue')
      /\ Elements(run_queue') = Elements(run_queue) \cup {t}
  BY <1>2, <1>4, <1>5, AppendNew
<1>7. TypeOK'
  BY <1>1, <1>2, <1>3, <1>6 DEF TypeOK, States, Contexts
<1>8. QueueInv'
  <2>1. \A u \in Slots : state'[u] = "READY" <=> u \in Elements(run_queue')
    BY <1>1, <1>2, <1>4, <1>6 DEF TypeOK
  <2>2. \A u \in Slots : state'[u] = "RUNNING" => u = current'
    BY <1>1, <1>2, <1>3, <1>4 DEF TypeOK
  <2> QED
    BY <1>6, <2>1, <2>2 DEF QueueInv, NoRepeat, Elements, Queued
<1>9. CtxInv'
  BY <1>1, <1>2, <1>3 DEF CtxInv, TypeOK
<1> QED
  BY <1>7, <1>8, <1>9 DEF IInv

\* sched_start takes the head of the queue, if there is one.
LEMMA StartKeeps == IInv /\ sched_start => IInv'
<1> SUFFICES ASSUME IInv, sched_start PROVE IInv'
  OBVIOUS
<1> USE SlotFacts
<1>1. TypeOK /\ QueueInv /\ CtxInv /\ current = Idle /\ run_queue \in Seq(Slots)
  BY DEF IInv, TypeOK, sched_start, InKmain
<1>2. sched_started' = TRUE /\ ifl' = TRUE /\ UNCHANGED <<timer_on, ticks>>
  BY DEF sched_start
<1>3. CASE run_queue = << >>
  <2>1. run_queue' = run_queue /\ UNCHANGED <<state, current, ctx>>
    BY <1>1, <1>3, PickNext DEF sched_start
  <2>2. TypeOK'
    BY <1>1, <1>2, <2>1 DEF TypeOK
  <2>3. QueueInv'
    BY <1>1, <2>1 DEF QueueInv, Queued
  <2>4. CtxInv'
    BY <1>1, <1>2, <2>1 DEF CtxInv
  <2> QED
    BY <2>2, <2>3, <2>4 DEF IInv
<1>4. CASE run_queue # << >>
  <2> DEFINE h == run_queue[1]
             r == Tail(run_queue)
  <2>1. /\ h \in Slots /\ state[h] = "READY" /\ run_queue' = r
        /\ state' = [state EXCEPT ![h] = "RUNNING"] /\ current' = h
        /\ ctx' = [ctx EXCEPT ![h] = "body"]
    BY <1>1, <1>4, PickNext DEF sched_start
  <2>2. /\ NoRepeat(run_queue)
        /\ \A t \in Slots : state[t] = "READY" <=> t \in Elements(run_queue)
        /\ \A t \in Slots : state[t] = "RUNNING" => t = current
    BY <1>1, QueueInvForm
  <2>3. /\ r \in Seq(Slots) /\ NoRepeat(r) /\ Elements(r) = Elements(run_queue) \ {h}
    BY <1>1, <1>4, <2>2, TailRest, TailFacts DEF TypeOK
  <2> HIDE DEF h, r
  <2>4. TypeOK'
    BY <1>1, <1>2, <2>1, <2>3 DEF TypeOK, States, Contexts
  <2>5. QueueInv'
    <3>1. \A t \in Slots : state'[t] = "READY" <=> t \in Elements(run_queue')
      BY <1>1, <2>1, <2>2, <2>3 DEF TypeOK
    <3>2. \A t \in Slots : state'[t] = "RUNNING" => t = current'
      BY <1>1, <2>1, <2>2 DEF TypeOK
    <3> QED
      BY <2>1, <2>3, <3>1, <3>2 DEF QueueInv, NoRepeat, Elements, Queued
  <2>6. CtxInv'
    BY <1>1, <1>2, <2>1 DEF CtxInv, TypeOK
  <2> QED
    BY <2>4, <2>5, <2>6 DEF IInv
<1> QED
  BY <1>3, <1>4

\* thread_exit changes the current thread only.
LEMMA ExitKeeps == IInv /\ thread_exit => IInv'
<1> SUFFICES ASSUME IInv, thread_exit PROVE IInv'
  OBVIOUS
<1>1. TypeOK /\ QueueInv /\ CtxInv
  BY DEF IInv
<1>2. /\ current \in Slots /\ ctx[current] = "body" /\ state[current] = "RUNNING"
      /\ state' = [state EXCEPT ![current] = "DEAD"]
      /\ ctx' = [ctx EXCEPT ![current] = "exit"]
      /\ UNCHANGED <<current, run_queue, sched_started, ifl, timer_on, ticks>>
  BY <1>1 DEF thread_exit, InBody, TypeOK, CtxInv, timerVars
<1>3. TypeOK'
  BY <1>1, <1>2 DEF TypeOK, States, Contexts
<1>4. QueueInv'
  BY <1>1, <1>2 DEF QueueInv, Queued, TypeOK
<1>5. CtxInv'
  BY <1>1, <1>2 DEF CtxInv, TypeOK
<1> QED
  BY <1>3, <1>4, <1>5 DEF IInv

\* The interrupt touches ticks and wakes a thread that has exited.
LEMMA TimerKeeps == IInv /\ timer_handler => IInv'
<1> SUFFICES ASSUME IInv, timer_handler PROVE IInv'
  OBVIOUS
<1>1. TypeOK /\ QueueInv /\ CtxInv
  BY DEF IInv
<1>2. ticks' \in 0 .. TickMod - 1
  BY <1>1, TickModAssumption DEF timer_handler, TypeOK
<1>3. TypeOK'
  BY <1>1, <1>2 DEF timer_handler, TypeOK, Contexts
<1>4. QueueInv'
  BY <1>1 DEF timer_handler, QueueInv, Queued
<1>5. CtxInv'
  BY <1>1 DEF timer_handler, CtxInv, TypeOK
<1> QED
  BY <1>3, <1>4, <1>5 DEF IInv

\* Every scheduler function keeps the invariant.
LEMMA NextIInv == IInv /\ [Next]_vars => IInv'
<1> SUFFICES ASSUME IInv, [Next]_vars PROVE IInv'
  OBVIOUS
<1>1. CASE thread_create
  BY <1>1, CreateKeeps
<1>2. CASE timer_init
  <2>1. TypeOK'
    BY <1>2, TickModAssumption DEF IInv, timer_init, TypeOK, schedVars
  <2> QED
    BY <1>2, <2>1 DEF IInv, timer_init, QueueInv, Queued, CtxInv, schedVars
<1>3. CASE sched_start
  BY <1>3, StartKeeps
<1>4. CASE thread_yield
  <2>1. current # Idle /\ state[current] = "RUNNING" /\ "body" \in Contexts
    BY <1>4 DEF thread_yield, InBody, IInv, CtxInv, TypeOK, Contexts
  <2> QED
    BY <1>4, <2>1, OnTimerKeeps DEF thread_yield
<1>5. CASE thread_exit
  BY <1>5, ExitKeeps
<1>6. CASE exit_loop
  <2>1. current # Idle /\ state[current] = "DEAD" /\ "hlt" \in Contexts
    BY <1>6 DEF exit_loop, IInv, CtxInv, TypeOK, Contexts
  <2> QED
    BY <1>6, <2>1, OnTimerKeeps DEF exit_loop
<1>7. CASE timer_handler
  BY <1>7, TimerKeeps
<1>8. CASE UNCHANGED vars
  BY <1>8 DEF IInv, TypeOK, QueueInv, Queued, CtxInv, vars, schedVars, timerVars
<1> QED
  BY <1>1, <1>2, <1>3, <1>4, <1>5, <1>6, <1>7, <1>8 DEF Next, Kmain, ThreadStep

\* The inductive invariant holds in every reachable state.
THEOREM Invariance == Spec => []IInv
BY InitIInv, NextIInv, PTL DEF Spec

\* Every variable of the scheduler keeps its type, whatever the number of
\* threads and the width of the tick counter.
THEOREM TypeCorrect == Spec => []TypeOK
BY Invariance, PTL DEF IInv

\* The run queue holds exactly the READY threads, each once, and at most the
\* current thread is RUNNING (sched_add, sched_pick_next, sched_on_timer).
THEOREM QueueCorrect == Spec => []QueueInv
BY Invariance, PTL DEF IInv

-----------------------------------------------------------------------------
(* Interrupts stay enabled among kernel threads *)

\* No step lets a kernel thread run with interrupts off.
LEMMA InterruptsStep == IInv /\ InterruptsOn /\ [Next]_vars => InterruptsOn'
<1> SUFFICES ASSUME IInv, InterruptsOn, [Next]_vars PROVE InterruptsOn'
  OBVIOUS
<1>1. ASSUME NEW cont, sched_on_timer(cont), current # Idle, UNCHANGED sched_started
      PROVE  InterruptsOn'
  <2>1. /\ ifl /\ sched_started /\ current \in Slots /\ state[current] # "READY"
        /\ run_queue \in Seq(Slots) /\ QueueInv
    BY <1>1 DEF IInv, CtxInv, TypeOK, InterruptsOn
  <2>2. ifl' = ifl \/ ifl' = FlagAfterSwitch(run_queue[1])
    BY <1>1, <2>1, OnTimerCases, Zenon
  <2> QED
    BY <2>1, <2>2, Zenon DEF InterruptsOn, FlagAfterSwitch
<1>2. CASE thread_create \/ timer_init
  BY <1>2, Zenon DEF InterruptsOn, thread_create, timer_init, schedVars, timerVars
<1>3. CASE sched_start
  BY <1>3 DEF InterruptsOn, sched_start
<1>4. CASE thread_yield
  BY <1>1, <1>4 DEF thread_yield, InBody
<1>5. CASE exit_loop
  BY <1>1, <1>5 DEF exit_loop
<1>6. CASE thread_exit \/ timer_handler
  BY <1>6, Zenon DEF InterruptsOn, thread_exit, timer_handler, timerVars
<1>7. CASE UNCHANGED vars
  BY <1>7 DEF InterruptsOn, vars, schedVars, timerVars
<1> QED
  BY <1>2, <1>3, <1>4, <1>5, <1>6, <1>7 DEF Next, Kmain, ThreadStep

\* From sched_start on, kernel threads run with interrupts enabled, although
\* context_switch does not save the flag.
THEOREM InterruptsStayOn == Spec => []InterruptsOn
<1>1. Init => InterruptsOn
  BY DEF Init, InterruptsOn
<1> QED
  BY <1>1, InterruptsStep, Invariance, PTL DEF Spec

-----------------------------------------------------------------------------
(* A dead thread stays dead *)

DeadStep == \A t \in Slots : state[t] = "DEAD" =>
                /\ state'[t] = "DEAD"
                /\ current' = t => current = t

\* No step revives a thread that has exited.
LEMMA DeadStepHolds == IInv /\ [Next]_vars => DeadStep \/ UNCHANGED vars
<1> SUFFICES ASSUME IInv, Next PROVE DeadStep
  BY DEF Next
<1>1. /\ TypeOK /\ QueueInv /\ CtxInv /\ run_queue \in Seq(Slots)
      /\ current # Idle => sched_started /\ current \in Slots /\ state[current] # "READY"
  BY DEF IInv, TypeOK, CtxInv
<1>2. ASSUME NEW cont, sched_on_timer(cont), current # Idle
      PROVE  DeadStep
  <2>1. CASE run_queue = << >>
    BY <1>1, <1>2, <2>1, OnTimerCases DEF DeadStep
  <2>2. CASE run_queue # << >>
    <3>1. state[run_queue[1]] = "READY" /\ run_queue[1] \in Slots
      BY <1>1, <2>2, PickNext
    <3>2. /\ current' = run_queue[1]
          /\ state' = [t \in Slots |-> IF t = run_queue[1] THEN "RUNNING"
                                       ELSE IF state[current] = "RUNNING" /\ t = current THEN "READY"
                                       ELSE state[t]]
      BY <1>1, <1>2, <2>2, OnTimerCases
    <3> QED
      BY <3>1, <3>2 DEF DeadStep
  <2> QED
    BY <2>1, <2>2
<1>3. CASE thread_create
  BY <1>1, <1>3 DEF DeadStep, thread_create, TypeOK
<1>4. CASE timer_init \/ timer_handler
  BY <1>4 DEF DeadStep, timer_init, timer_handler, schedVars
<1>5. CASE sched_start
  <2>1. CASE run_queue = << >>
    BY <1>1, <1>5, <2>1, PickNext DEF DeadStep, sched_start
  <2>2. CASE run_queue # << >>
    <3>1. /\ state[run_queue[1]] = "READY" /\ run_queue[1] \in Slots
          /\ sched_pick_next = run_queue[1] /\ run_queue[1] # NoThread
      BY <1>1, <2>2, PickNext, SlotFacts
    <3>2. current' = run_queue[1] /\ state' = [state EXCEPT ![run_queue[1]] = "RUNNING"]
      BY <1>5, <3>1 DEF sched_start
    <3> QED
      BY <1>1, <3>1, <3>2 DEF DeadStep, TypeOK
  <2> QED
    BY <2>1, <2>2
<1>6. CASE thread_yield
  BY <1>2, <1>6 DEF thread_yield, InBody
<1>7. CASE thread_exit
  BY <1>1, <1>7 DEF DeadStep, thread_exit, TypeOK
<1>8. CASE exit_loop
  BY <1>2, <1>8 DEF exit_loop
<1> QED
  BY <1>3, <1>4, <1>5, <1>6, <1>7, <1>8 DEF Next, Kmain, ThreadStep

\* thread_exit is final: no later scheduler step makes a DEAD thread READY or
\* gives it the CPU back.
THEOREM DeadThreads == Spec => DeadStaysDead
BY Invariance, DeadStepHolds, PTL DEF Spec, DeadStaysDead, DeadStep

-----------------------------------------------------------------------------
(* Sched implements RoundRobin *)

\* Facts about sequences that the four kinds of steps need.
LEMMA HeadTail ==
    ASSUME NEW S, NEW q \in Seq(S), q # << >>
    PROVE  <<q[1]>> \o Tail(q) = q
OBVIOUS

\* Requeueing the running thread rotates the turn order.
LEMMA TurnPassed ==
    ASSUME NEW S, NEW q \in Seq(S), NEW c \in S, q # << >>
    PROVE  /\ <<q[1]>> \o Append(Tail(q), c) = Append(q, c)
           /\ Len(<<c>> \o q) > 1
           /\ Head(<<c>> \o q) = c
           /\ Tail(<<c>> \o q) = q
OBVIOUS

\* A thread that leaves is the first in the turn order.
LEMMA TurnGivenUp ==
    ASSUME NEW S, NEW q \in Seq(S), NEW c \in S
    PROVE  <<c>> \o q # << >> /\ Tail(<<c>> \o q) = q
OBVIOUS

\* A new thread comes last in the turn order.
LEMMA JoinBehind ==
    ASSUME NEW S, NEW q \in Seq(S), NEW c \in S, NEW e \in S
    PROVE  /\ <<c>> \o Append(q, e) = Append(<<c>> \o q, e)
           /\ Elements(<<c>> \o q) = Elements(q) \cup {c}
<1>1. <<c>> \o Append(q, e) = Append(<<c>> \o q, e)
  OBVIOUS
<1> DEFINE a == <<c>> \o q
<1>2. /\ Len(q) \in Nat /\ Len(a) = Len(q) + 1 /\ a[1] = c
      /\ \A i \in 1 .. Len(q) : a[i + 1] = q[i]
  OBVIOUS
<1> HIDE DEF a
<1>3. \A i \in 1 .. Len(a) : i = 1 \/ (i - 1 \in 1 .. Len(q) /\ a[i] = q[i - 1])
  BY <1>2
<1>4. \A i \in 1 .. Len(q) : i + 1 \in 1 .. Len(a)
  BY <1>2
<1>5. 1 \in 1 .. Len(a)
  BY <1>2
<1>6. \A x \in Elements(a) : x \in Elements(q) \cup {c}
  BY <1>2, <1>3 DEF Elements
<1>7. \A x \in Elements(q) : x \in Elements(a)
  BY <1>2, <1>4 DEF Elements
<1>8. c \in Elements(a)
  BY <1>2, <1>5 DEF Elements
<1> QED
  BY <1>1, <1>6, <1>7, <1>8 DEF a

\* The turn order starts as RoundRobin's.
LEMMA InitRefines == Init => RR!Init
BY SlotFacts DEF Init, RR!Init, TurnOrder

\* In a step of Sched a thread joins, the turn passes on, the thread that has it
\* leaves, or the order stays the same.
LEMMA StepRefines == IInv /\ [Next]_vars => RR!Next \/ UNCHANGED TurnOrder
<1> SUFFICES ASSUME IInv, Next PROVE RR!Next \/ UNCHANGED TurnOrder
  BY DEF vars, schedVars, TurnOrder
<1> USE SlotFacts
<1>1. /\ TypeOK /\ QueueInv /\ CtxInv /\ run_queue \in Seq(Slots)
      /\ current # Idle => sched_started /\ current \in Slots /\ state[current] # "READY"
  BY DEF IInv, TypeOK, CtxInv
<1>2. CASE thread_create
  <2>1. PICK t \in Slots : /\ state[t] = "UNUSED"
                           /\ state' = [state EXCEPT ![t] = "READY"]
                           /\ run_queue' = Append(run_queue, t)
                           /\ current' = current
    BY <1>2, Zenon DEF thread_create, sched_add
  <2>2. t \notin Elements(run_queue)
    BY <1>1, <2>1, QueueInvForm
  <2>3. CASE current # Idle /\ state[current] = "RUNNING"
    <3>1. t # current /\ state'[current] = "RUNNING"
      BY <1>1, <2>1, <2>3 DEF TypeOK
    <3>2. TurnOrder = <<current>> \o run_queue /\ TurnOrder' = <<current>> \o Append(run_queue, t)
      BY <2>1, <2>3, <3>1 DEF TurnOrder
    <3>3. TurnOrder' = Append(TurnOrder, t) /\ t \notin Elements(TurnOrder)
      BY <1>1, <2>2, <2>3, <3>1, <3>2, JoinBehind
    <3> QED
      BY <3>3 DEF RR!Next, RR!Join, RR!Members, Elements
  <2>4. CASE ~(current # Idle /\ state[current] = "RUNNING")
    <3>1. ~(current' # Idle /\ state'[current'] = "RUNNING")
      BY <1>1, <2>1, <2>4 DEF TypeOK
    <3>2. TurnOrder = run_queue /\ TurnOrder' = Append(run_queue, t)
      BY <2>1, <2>4, <3>1 DEF TurnOrder
    <3> QED
      BY <2>2, <3>2 DEF RR!Next, RR!Join, RR!Members, Elements
  <2> QED
    BY <2>3, <2>4
<1>3. CASE timer_init \/ timer_handler
  BY <1>3 DEF timer_init, timer_handler, schedVars, TurnOrder
<1>4. CASE sched_start
  <2>1. current = Idle /\ TurnOrder = run_queue
    BY <1>4 DEF sched_start, InKmain, TurnOrder
  <2>2. CASE run_queue = << >>
    BY <1>1, <1>4, <2>1, <2>2, PickNext DEF sched_start, TurnOrder
  <2>3. CASE run_queue # << >>
    <3>1. /\ run_queue[1] \in Slots /\ current' = run_queue[1]
          /\ state' = [state EXCEPT ![run_queue[1]] = "RUNNING"]
          /\ run_queue' = Tail(run_queue)
      BY <1>1, <1>4, <2>3, PickNext DEF sched_start
    <3>2. TurnOrder' = <<run_queue[1]>> \o Tail(run_queue)
      BY <1>1, <3>1 DEF TurnOrder, TypeOK
    <3> QED
      BY <1>1, <2>1, <2>3, <3>2, HeadTail
  <2> QED
    BY <2>2, <2>3
<1>5. CASE thread_yield
  <2>1. /\ current # Idle /\ current \in Slots /\ state[current] = "RUNNING"
        /\ sched_on_timer("body")
    BY <1>1, <1>5 DEF thread_yield, InBody, CtxInv, TypeOK, Contexts
  <2>2. TurnOrder = <<current>> \o run_queue
    BY <2>1 DEF TurnOrder
  <2>3. CASE run_queue = << >>
    BY <1>1, <2>1, <2>3, OnTimerCases, Zenon DEF TurnOrder
  <2>4. CASE run_queue # << >>
    <3>1. /\ run_queue[1] \in Slots /\ current' = run_queue[1] /\ state'[current'] = "RUNNING"
          /\ run_queue' = Append(Tail(run_queue), current)
      BY <1>1, <2>1, <2>4, OnTimerCases
    <3>2. TurnOrder' = <<run_queue[1]>> \o Append(Tail(run_queue), current)
      BY <3>1 DEF TurnOrder
    <3>3. /\ TurnOrder' = Append(Tail(TurnOrder), Head(TurnOrder))
          /\ Len(TurnOrder) > 1
      BY <1>1, <2>1, <2>2, <2>4, <3>2, TurnPassed
    <3> QED
      BY <3>3 DEF RR!Next, RR!Rotate
  <2> QED
    BY <2>3, <2>4
<1>6. CASE thread_exit
  <2>1. /\ current # Idle /\ current \in Slots /\ state[current] = "RUNNING"
        /\ state' = [state EXCEPT ![current] = "DEAD"]
        /\ UNCHANGED <<current, run_queue>>
    BY <1>1, <1>6 DEF thread_exit, InBody, CtxInv, TypeOK
  <2>2. TurnOrder = <<current>> \o run_queue /\ TurnOrder' = run_queue
    BY <1>1, <2>1 DEF TurnOrder, TypeOK
  <2> QED
    BY <1>1, <2>1, <2>2, TurnGivenUp DEF RR!Next, RR!Leave
<1>7. CASE exit_loop
  <2>1. /\ current # Idle /\ current \in Slots /\ state[current] = "DEAD"
        /\ sched_on_timer("hlt")
    BY <1>1, <1>7 DEF exit_loop, CtxInv, TypeOK
  <2>2. TurnOrder = run_queue
    BY <2>1 DEF TurnOrder
  <2>3. CASE run_queue = << >>
    BY <1>1, <2>1, <2>3, OnTimerCases DEF TurnOrder
  <2>4. CASE run_queue # << >>
    <3>1. /\ run_queue[1] \in Slots /\ current' = run_queue[1] /\ state'[current'] = "RUNNING"
          /\ run_queue' = Tail(run_queue)
      BY <1>1, <2>1, <2>4, OnTimerCases
    <3>2. TurnOrder' = <<run_queue[1]>> \o Tail(run_queue)
      BY <3>1 DEF TurnOrder
    <3> QED
      BY <1>1, <2>2, <2>4, <3>2, HeadTail
  <2> QED
    BY <2>3, <2>4
<1> QED
  BY <1>2, <1>3, <1>4, <1>5, <1>6, <1>7 DEF Next, Kmain, ThreadStep

\* The queue, the yields and the exits implement the cyclic order of RoundRobin
\* for any number of threads.
THEOREM Refinement == Spec => ImplementsRoundRobin
BY InitRefines, StepRefines, Invariance, PTL DEF Spec, ImplementsRoundRobin, RR!Spec

=============================================================================
