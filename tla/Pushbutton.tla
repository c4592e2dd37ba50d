------------------------------ MODULE Pushbutton ------------------------------
(***************************************************************************)
(* pushbutton.c: two buttons wired to ground with pull-ups.  A rising edge *)
(* interrupts and restarts a one-shot timer; when it expires the timer     *)
(* task reads the pin and, if the button is released, notifies the owner.  *)
(* The interrupt, the timer task and the owner run concurrently.  A press  *)
(* or release makes the contact bounce for a while.                        *)
(***************************************************************************)
EXTENDS AppEvents, Integers

CONSTANTS
  Debounce,       \* PUSHBUTTON_DEBOUNCE_US, in ticks
  MaxBounce,      \* ticks a contact bounces
  MaxReleases     \* bound on releases of each button

ASSUME PushbuttonAssumption ==
    /\ Debounce \in Nat /\ MaxBounce \in Nat \ {0} /\ MaxBounce < Debounce
    /\ MaxReleases \in Nat

VARIABLES
  held,           \* external: the finger is on the button
  level,          \* external: gpio_get_level
  bounce,         \* external: ticks until the contact is at rest
  has_timer,      \* debounce_timer exists
  has_handler,    \* the interrupt handler is installed
  irq,            \* an interrupt is pending
  timer,          \* ticks until the timer expires, or NotArmed
  cb,             \* the timer task: [btn, stage, pin]
  releases, events, overtaken,  \* history: releases, notifications, callbacks that
                                \* read 1 after another edge had restarted the timer
  unreported      \* history: released with the handler installed, not notified since

contactVars == <<held, level, bounce>>
driverVars  == <<has_timer, has_handler>>
timerVars   == <<irq, timer, cb>>
historyVars == <<releases, events, overtaken, unreported>>
buttonVars  == <<contactVars, driverVars, timerVars, historyVars>>

NotArmed == -1
Idle     == [btn |-> "none", stage |-> "idle", pin |-> 0]

Rest(btn) == IF held[btn] THEN 0 ELSE 1

ButtonsInit ==
    /\ held \in [Ports -> BOOLEAN]
    /\ level = [btn \in Ports |-> Rest(btn)]
    /\ bounce = [btn \in Ports |-> 0]
    /\ has_timer = [btn \in Ports |-> FALSE] /\ has_handler = [btn \in Ports |-> FALSE]
    /\ irq = [btn \in Ports |-> FALSE]
    /\ timer = [btn \in Ports |-> NotArmed]
    /\ cb = Idle
    /\ releases = [btn \in Ports |-> 0] /\ events = [btn \in Ports |-> 0]
    /\ overtaken = [btn \in Ports |-> 0]
    /\ unreported = [btn \in Ports |-> FALSE]

------------------------------------------------------------------------------
(* The contact *)

\* The finger moves once the contact is at rest.
Push(btn) ==
    /\ ~held[btn] /\ bounce[btn] = 0
    /\ held' = [held EXCEPT ![btn] = TRUE]
    /\ bounce' = [bounce EXCEPT ![btn] = MaxBounce]
    /\ UNCHANGED <<note, level, driverVars, timerVars, historyVars>>

Release(btn) ==
    /\ held[btn] /\ bounce[btn] = 0
    /\ releases[btn] < MaxReleases
    /\ held' = [held EXCEPT ![btn] = FALSE]
    /\ bounce' = [bounce EXCEPT ![btn] = MaxBounce]
    /\ releases' = [releases EXCEPT ![btn] = @ + 1]
    /\ unreported' = [unreported EXCEPT ![btn] = has_handler[btn]]
    /\ UNCHANGED <<note, level, driverVars, timerVars, events, overtaken>>

\* A tick: a bouncing contact opens or closes at will and comes to rest in its
\* last tick.  The interrupt of the tick before has been served.
Elapse ==
    /\ \E btn \in Ports : bounce[btn] > 0 \/ timer[btn] > 0
    /\ \A btn \in Ports : ~irq[btn]
    /\ level' \in [Ports -> {0, 1}]
    /\ \A btn \in Ports : bounce[btn] <= 1 => level'[btn] = Rest(btn)
    /\ bounce' = [btn \in Ports |-> IF bounce[btn] > 0 THEN bounce[btn] - 1 ELSE 0]
    /\ timer' = [btn \in Ports |-> IF timer[btn] > 0 THEN timer[btn] - 1 ELSE timer[btn]]
    /\ UNCHANGED <<note, held, driverVars, cb, historyVars>>

\* Seeded fault: GPIO_INTR_NEGEDGE.
TickFalling ==
    /\ Elapse
    /\ irq' = [btn \in Ports |-> level[btn] = 1 /\ level'[btn] = 0 /\ has_handler[btn]]

\* gpio_config: GPIO_INTR_POSEDGE.
Tick ==
    /\ Elapse
    /\ irq' = [btn \in Ports |-> level[btn] = 0 /\ level'[btn] = 1 /\ has_handler[btn]]

------------------------------------------------------------------------------
(* Interrupt and timer task *)

\* pushbutton_isr_handler: stop, then start.
Isr(btn) ==
    /\ irq[btn]
    /\ irq' = [irq EXCEPT ![btn] = FALSE]
    /\ timer' = [timer EXCEPT ![btn] = Debounce]
    /\ UNCHANGED <<note, contactVars, driverVars, cb, historyVars>>

\* The timer task takes an expired timer off its list and calls the callback.
Dispatch(btn) ==
    /\ cb = Idle /\ timer[btn] = 0
    /\ timer' = [timer EXCEPT ![btn] = NotArmed]
    /\ cb' = [btn |-> btn, stage |-> "read", pin |-> 0]
    /\ UNCHANGED <<note, contactVars, driverVars, irq, historyVars>>

Overtaken(btn) == irq[btn] \/ timer[btn] # NotArmed

ReadLevel ==
    /\ cb.stage = "read"
    /\ cb' = [cb EXCEPT !.stage = "notify", !.pin = level[cb.btn]]
    /\ overtaken' = [overtaken EXCEPT ![cb.btn] =
                        IF level[cb.btn] = 1 /\ Overtaken(cb.btn) THEN @ + 1 ELSE @]
    /\ UNCHANGED <<note, contactVars, driverVars, irq, timer, releases, events, unreported>>

\* Seeded fault: the level is not tested.
PostEventAlways ==
    /\ cb.stage = "notify"
    /\ cb' = Idle
    /\ Notify({ToggleEvt[cb.btn]})
    /\ events' = [events EXCEPT ![cb.btn] = @ + 1]
    /\ unreported' = [unreported EXCEPT ![cb.btn] = FALSE]
    /\ UNCHANGED <<contactVars, driverVars, irq, timer, releases, overtaken>>

\* The second half of pushbutton_debounce_cb.
PostEvent ==
    /\ cb.stage = "notify"
    /\ cb' = Idle
    /\ IF cb.pin = 1
       THEN /\ Notify({ToggleEvt[cb.btn]})
            /\ events' = [events EXCEPT ![cb.btn] = @ + 1]
            /\ unreported' = [unreported EXCEPT ![cb.btn] = FALSE]
       ELSE UNCHANGED <<note, events, unreported>>
    /\ UNCHANGED <<contactVars, driverVars, irq, timer, releases, overtaken>>

TimerTask == (\E btn \in Ports : Dispatch(btn)) \/ ReadLevel \/ PostEvent

ButtonsStep ==
    \/ \E btn \in Ports : Push(btn) \/ Release(btn) \/ Isr(btn)
    \/ Tick
    \/ TimerTask
==============================================================================
