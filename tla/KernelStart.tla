------------------------------ MODULE KernelStart ------------------------------
(***************************************************************************)
(* The start of the kernel (so3/kernel/main.c) and the timer driver        *)
(* (devices/timer/sp804.c), up to the root process.                        *)
(*                                                                         *)
(* The two drivers of sp804.c share one static pointer, sp804, through     *)
(* which the interrupt handler and periodic_timer_start() reach the        *)
(* registers.  devices_init() initialises them in the order of the device  *)
(* tree, which is not in the repository: every order is considered.  The   *)
(* timers, the interrupt controller and the other initialisations are      *)
(* external.                                                               *)
(***************************************************************************)
EXTENDS Naturals, Sequences, SequencesExt

CONSTANTS
    Periodic, Clocksource,   \* the two timers
    JiffiesMod               \* bound: jiffies are counted modulo this number

Timer == {Periodic, Clocksource}
NULL == "NULL"

ASSUME KernelStartAssumption ==
    /\ Periodic # Clocksource /\ NULL \notin Timer
    /\ JiffiesMod \in Nat /\ JiffiesMod > 1

\* Mutant: the interrupts are enabled, and the delay calibrated, too early.
CallsIrqsEarly == <<"setup_arch", "memory_init", "devices_init", "timer_init", "vfs_init",
                    "local_irq_enable", "calibrate_delay", "scheduler_init", "pre_irq_init",
                    "kernel_thread", "boot_completed", "schedule">>

\* The calls of kernel_start(), in their order.
Calls == <<"setup_arch", "memory_init", "devices_init", "timer_init", "vfs_init",
           "scheduler_init", "pre_irq_init", "local_irq_enable", "calibrate_delay",
           "kernel_thread", "boot_completed", "schedule">>

VARIABLES
    call,        \* the next call of kernel_start(), an index of Calls
    drivers,     \* the timers devices_init() has still to initialise
    order,       \* the order in which the timers are in the device tree
    boot_stage,
    irqs_on,     \* interrupts are enabled on the CPU
    sp804,       \* the timer sp804->base is the base of, or NULL
    irqnr,       \* the timer whose line sp804->irq_def names, or NULL
    bound,       \* the lines timer_isr() is bound to
    lines,       \* the lines enabled in the interrupt controller
    enabled,     \* the timers with TIMER_CTRL_ENABLE set
    ie,          \* the timers with TIMER_CTRL_IE set
    raised,      \* the timers whose interrupt is asserted
    fresh,       \* the timers that have expired since they were last handled
    jiffies, irq_counter,
    ticked,      \* jiffies have changed since the start
    softirq,     \* TIMER_SOFTIRQ is raised
    boot_thread  \* "none", "ready", "post_init", "create_root", or "exited"

bootVars == <<call, drivers, order, boot_stage, irqs_on, boot_thread>>
driverVars == <<sp804, irqnr, bound>>
timerVars == <<lines, enabled, ie, raised, fresh>>
tickVars == <<jiffies, irq_counter, ticked, softirq>>
vars == <<bootVars, driverVars, timerVars, tickVars>>

TypeOK ==
    /\ call \in 1 .. Len(Calls) + 1
    /\ drivers \in Seq(Timer) /\ order \in Seq(Timer)
    /\ boot_stage \in {"INIT", "IRQ_ENABLE", "COMPLETED"}
    /\ irqs_on \in BOOLEAN
    /\ sp804 \in Timer \cup {NULL} /\ irqnr \in Timer \cup {NULL}
    /\ bound \subseteq Timer /\ lines \subseteq Timer \cup {NULL}
    /\ enabled \subseteq Timer /\ ie \subseteq Timer
    /\ raised \subseteq Timer /\ fresh \subseteq Timer
    /\ jiffies \in 0 .. JiffiesMod - 1 /\ irq_counter \in 0 .. JiffiesMod - 1
    /\ ticked \in BOOLEAN /\ softirq \in BOOLEAN
    /\ boot_thread \in {"none", "ready", "post_init", "create_root", "exited"}

\* The timers of the device tree, in any order.
DeviceTrees == {<<Periodic>>, <<Periodic, Clocksource>>, <<Clocksource, Periodic>>}

Init ==
    /\ call = 1
    /\ order \in DeviceTrees /\ drivers = order
    /\ boot_stage = "INIT"
    /\ irqs_on = FALSE
    /\ sp804 = NULL /\ irqnr = NULL /\ bound = {}
    /\ lines = {} /\ enabled = {} /\ ie = {} /\ raised = {} /\ fresh = {}
    /\ jiffies = 0 /\ irq_counter = 0 /\ ticked = FALSE /\ softirq = FALSE
    /\ boot_thread = "none"

-----------------------------------------------------------------------------
\* The timer driver

\* A new sp804_t, with the base and the line of the periodic timer, whose
\* line the handler is bound to.
periodic_timer_init ==
    /\ sp804' = Periodic
    /\ irqnr' = Periodic
    /\ bound' = bound \cup {Periodic}
    /\ UNCHANGED timerVars

\* A new sp804_t as well, in which irq_def is not set: the counter is started,
\* without interrupts.
clocksource_timer_init ==
    /\ sp804' = Clocksource
    /\ irqnr' = NULL
    /\ enabled' = enabled \cup {Clocksource}
    /\ ie' = ie \ {Clocksource}
    /\ UNCHANGED <<bound, lines, raised, fresh>>

\* Mutant: the last write to the control register is forgotten.
StartDisabled ==
    /\ ie' = ie \cup {sp804}
    /\ lines' = lines \cup {irqnr}
    /\ UNCHANGED <<raised, fresh, enabled>>

\* Of the timer sp804 points to, and of the line it names.
periodic_timer_start ==
    /\ enabled' = enabled \cup {sp804}
    /\ ie' = ie \cup {sp804}
    /\ lines' = lines \cup {irqnr}
    /\ UNCHANGED <<raised, fresh>>

\* Every control bit is set but TIMER_CTRL_ENABLE.
periodic_timer_stop ==
    /\ enabled' = enabled \ {sp804}
    /\ ie' = ie \cup {sp804}
    /\ UNCHANGED <<lines, raised, fresh>>

\* Mutant: the interrupt is not cleared.
NotCleared(t) == raised

\* The handler clears the interrupt of the timer sp804 points to.
Cleared(t) == raised \ {sp804}

\* timer_isr(), for the interrupt of t.
timer_isr(t) ==
    /\ irqs_on /\ t \in raised \cap bound \cap lines
    /\ raised' = Cleared(t)
    /\ fresh' = fresh \ {t}
    /\ jiffies' = (jiffies + 1) % JiffiesMod
    /\ irq_counter' = (irq_counter + 1) % JiffiesMod
    /\ ticked' = TRUE
    /\ softirq' = TRUE
    /\ UNCHANGED <<bootVars, driverVars, lines, enabled, ie>>

\* The hardware: an enabled timer comes to zero, starts again, and asserts its
\* interrupt if it may.
TimerExpires(t) ==
    /\ t \in enabled \cap ie
    /\ raised' = raised \cup {t}
    /\ fresh' = fresh \cup {t}
    /\ UNCHANGED <<bootVars, driverVars, tickVars, lines, enabled, ie>>

-----------------------------------------------------------------------------
\* kernel_start()

At(name) == call <= Len(Calls) /\ Calls[call] = name

Return == call' = call + 1

\* The initialisations that leave the state of this module alone.
Initialise ==
    /\ call <= Len(Calls)
    /\ Calls[call] \in {"setup_arch", "memory_init", "vfs_init", "scheduler_init",
                        "pre_irq_init"}
    /\ Return
    /\ UNCHANGED <<drivers, order, boot_stage, irqs_on, boot_thread, driverVars, timerVars,
                   tickVars>>

devices_init ==
    /\ At("devices_init")
    /\ \/ /\ drivers # <<>>
          /\ \/ Head(drivers) = Periodic /\ periodic_timer_init
             \/ Head(drivers) = Clocksource /\ clocksource_timer_init
          /\ drivers' = Tail(drivers)
          /\ UNCHANGED call
       \/ /\ drivers = <<>>
          /\ Return
          /\ UNCHANGED <<drivers, driverVars, timerVars>>
    /\ UNCHANGED <<order, boot_stage, irqs_on, boot_thread, tickVars>>

\* The timer layer calls periodic_timer.start().
timer_init ==
    /\ At("timer_init")
    /\ periodic_timer_start
    /\ Return
    /\ UNCHANGED <<drivers, order, boot_stage, irqs_on, boot_thread, driverVars, tickVars>>

EnableIrqs ==
    /\ At("local_irq_enable")
    /\ boot_stage' = "IRQ_ENABLE"
    /\ irqs_on' = TRUE
    /\ Return
    /\ UNCHANGED <<drivers, order, boot_thread, driverVars, timerVars, tickVars>>

\* The loop of calibrate_delay() waits for jiffies to change.
calibrate_delay ==
    /\ At("calibrate_delay")
    /\ ticked
    /\ Return
    /\ UNCHANGED <<drivers, order, boot_stage, irqs_on, boot_thread, driverVars, timerVars,
                   tickVars>>

StartBootThread ==
    /\ At("kernel_thread")
    /\ boot_thread' = "ready"
    /\ Return
    /\ UNCHANGED <<drivers, order, boot_stage, irqs_on, driverVars, timerVars, tickVars>>

BootCompleted ==
    /\ At("boot_completed")
    /\ boot_stage' = "COMPLETED"
    /\ Return
    /\ UNCHANGED <<drivers, order, irqs_on, boot_thread, driverVars, timerVars, tickVars>>

\* schedule() gives the CPU to the boot thread, and never comes back.
Schedule ==
    /\ At("schedule")
    /\ boot_thread = "ready"
    /\ boot_thread' = "post_init"
    /\ Return
    /\ UNCHANGED <<drivers, order, boot_stage, irqs_on, driverVars, timerVars, tickVars>>

kernel_start ==
    \/ Initialise \/ devices_init \/ timer_init \/ EnableIrqs \/ calibrate_delay
    \/ StartBootThread \/ BootCompleted \/ Schedule

-----------------------------------------------------------------------------
\* The boot thread

\* rest_init(): the remaining initialisations with the interrupts on, then
\* create_root_process(), which disables them.
PostInit ==
    /\ boot_thread = "post_init"
    /\ boot_thread' = "create_root"
    /\ irqs_on' = FALSE
    /\ UNCHANGED <<call, drivers, order, boot_stage, driverVars, timerVars, tickVars>>

\* thread_exit() leads to the root process, which runs with the interrupts on.
RootRuns ==
    /\ boot_thread = "create_root"
    /\ boot_thread' = "exited"
    /\ irqs_on' = TRUE
    /\ UNCHANGED <<call, drivers, order, boot_stage, driverVars, timerVars, tickVars>>

\* What the softirq of a tick does is in the scheduler, which may give the CPU
\* to the boot thread, of the highest priority.  The context of kernel_start()
\* is no thread and is not scheduled again: if the tick comes before the
\* assignment, boot_stage is never BOOT_STAGE_COMPLETED.
TimerSoftirq ==
    /\ softirq /\ softirq' = FALSE
    /\ \/ UNCHANGED bootVars
       \/ /\ boot_thread = "ready"
          /\ boot_thread' = "post_init"
          /\ call' = Len(Calls) + 1
          /\ UNCHANGED <<drivers, order, boot_stage, irqs_on>>
    /\ UNCHANGED <<driverVars, timerVars, jiffies, irq_counter, ticked>>

\* The kernel may stop its timer, and start it again, once it runs.
StopOrStart ==
    /\ boot_thread = "exited"
    /\ periodic_timer_stop \/ periodic_timer_start
    /\ UNCHANGED <<bootVars, driverVars, tickVars>>

rest_init == PostInit \/ RootRuns

Next == kernel_start \/ rest_init \/ TimerSoftirq \/ StopOrStart
        \/ \E t \in Timer : timer_isr(t) \/ TimerExpires(t)

Spec == Init /\ [][Next]_vars

\* The CPU executes, serves interrupts, and the timers count.
Fairness ==
    /\ WF_vars(kernel_start) /\ WF_vars(rest_init)
    /\ \A t \in Timer : WF_vars(timer_isr(t)) /\ WF_vars(TimerExpires(t))

FairSpec == Spec /\ Fairness

-----------------------------------------------------------------------------
\* Properties

\* What kernel_start() has called.
Called == {Calls[k] : k \in 1 .. call - 1}

\* No interrupt is served before the heap, the timer layer and the scheduler
\* that timer_isr() and its softirq rely on are initialised, whenever the timer
\* expires: periodic_timer_start() comes first, local_irq_enable() last.
TicksInReadySystem ==
    ticked => {"memory_init", "devices_init", "timer_init", "scheduler_init"} \subseteq Called

\* Each expiration is counted once at most: timer_isr() clears the interrupt it
\* serves, although it reaches the registers by a pointer that both drivers set.
EachTickOnce ==
    [][jiffies' # jiffies => \E t \in fresh : t \notin fresh']_vars

\* The root process is started: calibrate_delay() gets its ticks, unless the
\* clocksource timer is the last to be initialised, when sp804 no longer names
\* the timer that interrupts.
RootStarts == Last(order) = Periodic => <>(boot_thread = "exited")
=============================================================================
