--------------------------- MODULE KernelStartProofs ---------------------------
(***************************************************************************)
(* Proofs about KernelStart, for every pair of timers and every order of   *)
(* them in the device tree: no tick before what it needs, and no           *)
(* expiration counted twice.                                               *)
(***************************************************************************)
EXTENDS KernelStart, SequenceTheorems, TLAPS

\* devices_init() has initialised every timer, and with one of them sp804, when
\* the timer layer starts the timer that sp804 names.
DevicesInv ==
    /\ order # <<>>
    /\ call > 3 => drivers = <<>>
    /\ sp804 = NULL => drivers = order

\* Interrupts are enabled by local_irq_enable() first, and by the root process.
IrqInv ==
    /\ irqs_on => call > 8
    /\ ticked => call > 8
    /\ boot_thread # "none" => call > 10

\* The only line an interrupt may come by is the one of the timer it clears.
LineInv ==
    /\ irqnr = Periodic => sp804 = Periodic
    /\ bound \subseteq {Periodic}
    /\ lines \subseteq {irqnr}
    /\ lines # {} => call > 4
    /\ raised \subseteq fresh

IInv == TypeOK /\ DevicesInv /\ IrqInv /\ LineInv

\* The number of calls, and their places.
LEMMA CallsFacts ==
    /\ Len(Calls) = 12
    /\ Calls[1] = "setup_arch" /\ Calls[2] = "memory_init" /\ Calls[3] = "devices_init"
    /\ Calls[4] = "timer_init" /\ Calls[5] = "vfs_init" /\ Calls[6] = "scheduler_init"
    /\ Calls[7] = "pre_irq_init" /\ Calls[8] = "local_irq_enable"
    /\ Calls[9] = "calibrate_delay" /\ Calls[10] = "kernel_thread"
    /\ Calls[11] = "boot_completed" /\ Calls[12] = "schedule"
BY DEF Calls

\* The place of the calls that change the state.
LEMMA Places ==
    ASSUME TypeOK
    PROVE  /\ At("devices_init") => call = 3
           /\ At("timer_init") => call = 4
           /\ At("local_irq_enable") => call = 8
           /\ At("calibrate_delay") => call = 9
           /\ At("kernel_thread") => call = 10
           /\ At("boot_completed") => call = 11
           /\ At("schedule") => call = 12
BY CallsFacts DEF TypeOK, At

\* The initial states satisfy the invariant.
LEMMA InitIInv == Init => IInv
<1> SUFFICES ASSUME Init PROVE IInv
    OBVIOUS
<1>1. order \in Seq(Timer) /\ order # <<>>
    <2>1. CASE order = <<Periodic>>
        BY <2>1 DEF Timer
    <2>2. CASE order = <<Periodic, Clocksource>>
        BY <2>2 DEF Timer
    <2>3. CASE order = <<Clocksource, Periodic>>
        BY <2>3 DEF Timer
    <2> QED BY <2>1, <2>2, <2>3 DEF Init, DeviceTrees
<1>2. TypeOK
    <2>1. 0 \in 0 .. JiffiesMod - 1 /\ 1 \in 1 .. Len(Calls) + 1
        BY CallsFacts, KernelStartAssumption
    <2> QED BY <1>1, <2>1 DEF Init, TypeOK
<1>3. DevicesInv /\ IrqInv /\ LineInv
    BY <1>1, CallsFacts, KernelStartAssumption DEF Init, DevicesInv, IrqInv, LineInv, Timer
<1> QED BY <1>2, <1>3 DEF IInv

\* timer_isr() serves the timer that sp804 names.
LEMMA ServedIsCleared ==
    ASSUME IInv, NEW t \in Timer, timer_isr(t)
    PROVE  t = Periodic /\ sp804 = t /\ call > 8
BY KernelStartAssumption DEF IInv, LineInv, IrqInv, timer_isr, Timer

\* devices_init() keeps the invariant.
LEMMA DevicesInit == IInv /\ devices_init => IInv'
<1> SUFFICES ASSUME IInv, devices_init PROVE IInv'
    OBVIOUS
<1> USE DEF IInv, TypeOK, DevicesInv, IrqInv, LineInv, bootVars, driverVars, timerVars,
            tickVars, Return
<1>1. call = 3 /\ lines = {}
    BY Places DEF devices_init
<1>2. CASE drivers # <<>> /\ Head(drivers) = Periodic /\ periodic_timer_init
           /\ drivers' = Tail(drivers) /\ UNCHANGED call
    <2>1. drivers' \in Seq(Timer)
        BY <1>2, HeadTailProperties
    <2> QED BY <1>1, <1>2, <2>1, CallsFacts, KernelStartAssumption
            DEF devices_init, periodic_timer_init, Timer
<1>3. CASE drivers # <<>> /\ Head(drivers) = Clocksource /\ clocksource_timer_init
           /\ drivers' = Tail(drivers) /\ UNCHANGED call
    <2>1. drivers' \in Seq(Timer)
        BY <1>3, HeadTailProperties
    <2> QED BY <1>1, <1>3, <2>1, CallsFacts, KernelStartAssumption
            DEF devices_init, clocksource_timer_init, Timer
<1>4. CASE drivers = <<>> /\ Return /\ UNCHANGED <<drivers, driverVars, timerVars>>
    BY <1>1, <1>4, CallsFacts, KernelStartAssumption DEF devices_init
<1> QED BY <1>2, <1>3, <1>4 DEF devices_init

\* Every step of kernel_start() keeps the invariant.
LEMMA KernelStartStep == IInv /\ kernel_start => IInv'
<1> SUFFICES ASSUME IInv, kernel_start PROVE IInv'
    OBVIOUS
<1> USE DEF IInv, TypeOK, DevicesInv, IrqInv, LineInv, bootVars, driverVars, timerVars,
            tickVars, Return
<1>1. CASE Initialise
    <2>1. call \in {1, 2, 5, 6, 7}
        <3>1. call \in 1 .. 12
            BY <1>1, CallsFacts DEF Initialise
        <3>2. Calls[call] \notin {"devices_init", "timer_init", "local_irq_enable",
                    "calibrate_delay", "kernel_thread", "boot_completed", "schedule"}
            BY <1>1 DEF Initialise
        <3>3. call # 3 /\ call # 4 /\ call # 8 /\ call # 9 /\ call # 10 /\ call # 11 /\ call # 12
            BY <3>2, CallsFacts
        <3> QED BY <3>1, <3>3
    <2>2. call' = call + 1 /\ call' \in 1 .. Len(Calls) + 1
        BY <1>1, <2>1, CallsFacts DEF Initialise
    <2>3. TypeOK'
        BY <1>1, <2>2 DEF Initialise
    <2>4. DevicesInv' /\ IrqInv'
        BY <1>1, <2>1, <2>2, CallsFacts DEF Initialise
    <2>5. LineInv'
        BY <1>1, <2>2 DEF Initialise
    <2> QED BY <2>3, <2>4, <2>5
<1>2. CASE devices_init
    BY <1>2, DevicesInit
<1>3. CASE timer_init
    <2>1. call = 4 /\ sp804 # NULL
        BY <1>3, Places DEF timer_init
    <2> QED BY <1>3, <2>1, CallsFacts, KernelStartAssumption
            DEF timer_init, periodic_timer_start, Timer
<1>4. CASE EnableIrqs
    BY <1>4, Places, CallsFacts DEF EnableIrqs
<1>5. CASE calibrate_delay
    BY <1>5, Places, CallsFacts DEF calibrate_delay
<1>6. CASE StartBootThread
    BY <1>6, Places, CallsFacts DEF StartBootThread
<1>7. CASE BootCompleted
    BY <1>7, Places, CallsFacts DEF BootCompleted
<1>8. CASE Schedule
    BY <1>8, Places, CallsFacts DEF Schedule
<1> QED BY <1>1, <1>2, <1>3, <1>4, <1>5, <1>6, <1>7, <1>8 DEF kernel_start

\* Every other step does.
LEMMA OtherStep ==
    ASSUME IInv,
           \/ rest_init \/ TimerSoftirq \/ StopOrStart
           \/ \E t \in Timer : timer_isr(t) \/ TimerExpires(t)
    PROVE  IInv'
<1> USE DEF IInv, TypeOK, DevicesInv, IrqInv, LineInv, bootVars, driverVars, timerVars, tickVars
<1>1. CASE PostInit
    BY <1>1 DEF PostInit
<1>2. CASE RootRuns
    BY <1>2 DEF RootRuns
<1>3. CASE TimerSoftirq
    <2>1. CASE UNCHANGED bootVars
        <3>1. TypeOK'
            BY <1>3, <2>1 DEF TimerSoftirq
        <3>2. DevicesInv' /\ IrqInv' /\ LineInv'
            BY <1>3, <2>1 DEF TimerSoftirq
        <3> QED BY <3>1, <3>2
    <2>2. CASE /\ boot_thread = "ready" /\ boot_thread' = "post_init"
               /\ call' = Len(Calls) + 1 /\ UNCHANGED <<drivers, order, boot_stage, irqs_on>>
        <3>1. call > 10 /\ call' = 13 /\ drivers = <<>>
            BY <2>2, CallsFacts
        <3>2. TypeOK'
            <4>1. Len(Calls) + 1 = 13 /\ 13 \in 1 .. 13
                BY CallsFacts
            <4>2. call' \in 1 .. Len(Calls) + 1
                BY <3>1, <4>1
            <4> QED BY <1>3, <2>2, <4>2 DEF TimerSoftirq
        <3>3. DevicesInv' /\ IrqInv' /\ LineInv'
            BY <1>3, <2>2, <3>1 DEF TimerSoftirq
        <3> QED BY <3>2, <3>3
    <2> QED BY <1>3, <2>1, <2>2 DEF TimerSoftirq
<1>4. CASE StopOrStart
    <2>1. call > 10 /\ sp804 \in Timer
        BY <1>4, KernelStartAssumption DEF StopOrStart
    <2>2. CASE periodic_timer_stop
        BY <1>4, <2>1, <2>2, KernelStartAssumption DEF StopOrStart, periodic_timer_stop
    <2>3. CASE periodic_timer_start
        BY <1>4, <2>1, <2>3, KernelStartAssumption DEF StopOrStart, periodic_timer_start
    <2> QED BY <1>4, <2>2, <2>3 DEF StopOrStart
<1>5. ASSUME NEW t \in Timer, timer_isr(t) PROVE IInv'
    <2>1. sp804 = t /\ call > 8
        BY <1>5, ServedIsCleared
    <2>2. (jiffies + 1) % JiffiesMod \in 0 .. JiffiesMod - 1
          /\ (irq_counter + 1) % JiffiesMod \in 0 .. JiffiesMod - 1
        BY KernelStartAssumption
    <2> QED BY <1>5, <2>1, <2>2 DEF timer_isr, Cleared
<1>6. ASSUME NEW t \in Timer, TimerExpires(t) PROVE IInv'
    BY <1>6 DEF TimerExpires
<1> QED BY <1>1, <1>2, <1>3, <1>4, <1>5, <1>6 DEF rest_init

\* The invariant is inductive.
LEMMA NextIInv == IInv /\ [Next]_vars => IInv'
<1>1. IInv /\ UNCHANGED vars => IInv'
    BY DEF IInv, TypeOK, DevicesInv, IrqInv, LineInv, vars, bootVars, driverVars, timerVars,
           tickVars
<1> QED BY <1>1, KernelStartStep, OtherStep DEF Next

\* The variables keep their types; sp804 names a timer whenever the driver
\* follows it (periodic_timer_start() never writes through a NULL pointer).
THEOREM TypeCorrect == Spec => []TypeOK
<1>1. IInv => TypeOK
    BY DEF IInv
<1> QED BY <1>1, InitIInv, NextIInv, PTL DEF Spec

\* A tick finds the heap, the timer layer and the scheduler initialised, in
\* every order of the devices and whenever the timer expires.
THEOREM TicksReady == Spec => []TicksInReadySystem
<1>1. IInv => TicksInReadySystem
    <2> SUFFICES ASSUME IInv, ticked PROVE TicksInReadySystem
        BY DEF TicksInReadySystem
    <2>1. 2 \in 1 .. call - 1 /\ 3 \in 1 .. call - 1 /\ 4 \in 1 .. call - 1
          /\ 6 \in 1 .. call - 1
        BY CallsFacts DEF IInv, IrqInv, TypeOK
    <2> QED BY <2>1, CallsFacts DEF TicksInReadySystem, Called
<1> QED BY <1>1, InitIInv, NextIInv, PTL DEF Spec

\* jiffies count each expiration once: the interrupt that is served is that of
\* the timer whose interrupt is cleared.
THEOREM TickOnce == Spec => EachTickOnce
<1>1. IInv /\ [Next]_vars => [jiffies' # jiffies => \E t \in fresh : t \notin fresh']_vars
    <2> SUFFICES ASSUME IInv, Next, jiffies' # jiffies
                 PROVE  \E t \in fresh : t \notin fresh'
        OBVIOUS
    <2>1. PICK t \in Timer : timer_isr(t)
        BY DEF Next, kernel_start, rest_init, TimerSoftirq, StopOrStart, TimerExpires,
               Initialise, devices_init, timer_init, EnableIrqs, calibrate_delay,
               StartBootThread, BootCompleted, Schedule, PostInit, RootRuns, tickVars
    <2> QED BY <2>1 DEF timer_isr, IInv, LineInv
<1> QED BY <1>1, InitIInv, NextIInv, PTL DEF Spec, EachTickOnce
=============================================================================
