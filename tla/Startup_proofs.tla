----------------------------- MODULE Startup_proofs -----------------------------
(***************************************************************************)
(* Theorems about Startup for every debounce time, every shorter bounce,   *)
(* every number of releases and everything flash may hold: one release     *)
(* posts at most one event, no handler runs without its timer, and the     *)
(* configuration fits the sizes the handshake counts on.                   *)
(***************************************************************************)
EXTENDS Startup, TLAPS

------------------------------------------------------------------------------
(* The invariant *)

\* The callback of a button is about to notify, or about to read the pin.
Due(c)     == cb.btn = c /\ cb.stage = "notify" /\ cb.pin = 1
Reading(c) == cb.btn = c /\ cb.stage = "read"

\* An interrupt, a running timer or a callback may still look at the button.
Chain(c) == irq[c] \/ timer[c] # NotArmed \/ Reading(c)

\* The events a button may still post.
Credit(c) == releases[c] + overtaken[c] - events[c] - (IF Due(c) THEN 1 ELSE 0)

TypeOK ==
    /\ held \in [Ports -> BOOLEAN] /\ irq \in [Ports -> BOOLEAN]
    /\ has_timer \in [Ports -> BOOLEAN] /\ has_handler \in [Ports -> BOOLEAN]
    /\ unreported \in [Ports -> BOOLEAN]
    /\ level \in [Ports -> {0, 1}]
    /\ bounce \in [Ports -> 0..MaxBounce]
    /\ timer \in [Ports -> (-1)..Debounce]
    /\ cb \in [btn : Ports \cup {"none"}, stage : {"idle", "read", "notify"}, pin : {0, 1}]
    /\ cb.stage # "idle" => cb.btn \in Ports
    /\ releases \in [Ports -> Nat] /\ events \in [Ports -> Nat] /\ overtaken \in [Ports -> Nat]

AtRest(c) == bounce[c] = 0 => level[c] = Rest(c)

HandlerBehind(c) == Chain(c) => has_handler[c]

\* While a released contact bounces, every rise of the level has started the
\* timer again, and the timer outlasts the bouncing.
Rearmed(c) ==
    Chain(c) /\ level[c] = 1 /\ ~held[c] /\ bounce[c] > 0 => irq[c] \/ timer[c] > bounce[c]

\* Without credit nothing looks at a released button, and at a pushed one
\* only when it has come to rest.
QuietReleased(c) == ~held[c] /\ Credit(c) = 0 => bounce[c] = 0 /\ ~Chain(c)
QuietHeld(c) ==
    held[c] /\ Credit(c) = 0 /\ bounce[c] > 0
        => ~Reading(c) /\ (timer[c] = NotArmed \/ timer[c] > bounce[c])

ButtonInv(c) ==
    /\ AtRest(c)
    /\ Credit(c) \in Nat
    /\ HandlerBehind(c) /\ Rearmed(c)
    /\ QuietReleased(c) /\ QuietHeld(c)

ButtonsInv == TypeOK /\ \A c \in Ports : ButtonInv(c)

------------------------------------------------------------------------------
(* Lemmas *)

LEMMA Times ==
    /\ Debounce \in Nat /\ MaxBounce \in Nat /\ MaxBounce < Debounce
    /\ 0 \in 0..MaxBounce /\ MaxBounce \in 0..MaxBounce
    /\ Debounce \in (-1)..Debounce /\ NotArmed \in (-1)..Debounce
BY PushbuttonAssumption DEF NotArmed

LEMMA Values ==
    ASSUME TypeOK, NEW c \in Ports
    PROVE  /\ level[c] \in {0, 1} /\ bounce[c] \in 0..MaxBounce
           /\ timer[c] \in (-1)..Debounce
           /\ releases[c] \in Nat /\ events[c] \in Nat /\ overtaken[c] \in Nat
BY DEF TypeOK

\* A step that leaves everything about a button alone keeps its invariant.
LEMMA Untouched ==
    ASSUME NEW c \in Ports, ButtonInv(c),
           held'[c] = held[c], level'[c] = level[c], bounce'[c] = bounce[c],
           timer'[c] = timer[c], irq'[c] = irq[c],
           has_handler[c] => has_handler'[c],
           releases'[c] = releases[c], events'[c] = events[c], overtaken'[c] = overtaken[c],
           Due(c)' <=> Due(c), Reading(c)' <=> Reading(c)
    PROVE  ButtonInv(c)'
<1>1. Chain(c)' <=> Chain(c)
  BY DEF Chain
<1>2. Credit(c)' = Credit(c)
  BY DEF Credit
<1>3. Rest(c)' = Rest(c)
  BY DEF Rest
<1>4. AtRest(c)' /\ HandlerBehind(c)'
  BY <1>1, <1>3 DEF ButtonInv, AtRest, HandlerBehind
<1>5. Rearmed(c)' /\ QuietReleased(c)' /\ QuietHeld(c)'
  BY <1>1, <1>2 DEF ButtonInv, Rearmed, QuietReleased, QuietHeld
<1>6. QED BY <1>2, <1>4, <1>5 DEF ButtonInv

LEMMA InitButtons == Init => ButtonsInv
<1> SUFFICES ASSUME Init PROVE ButtonsInv
  OBVIOUS
<1> USE DEF Init, ButtonsInit
<1>1. cb = Idle /\ cb.stage = "idle" /\ \A c \in Ports : ~Due(c) /\ ~Reading(c)
  BY DEF Idle, Due, Reading
<1>2. TypeOK
  <2>1. level \in [Ports -> {0, 1}]
    BY DEF Rest
  <2>2. bounce \in [Ports -> 0..MaxBounce] /\ timer \in [Ports -> (-1)..Debounce]
    BY Times
  <2>3. cb \in [btn : Ports \cup {"none"}, stage : {"idle", "read", "notify"}, pin : {0, 1}]
    BY <1>1 DEF Idle
  <2>4. QED BY <1>1, <2>1, <2>2, <2>3 DEF TypeOK
<1>3. ASSUME NEW c \in Ports PROVE ButtonInv(c)
  <2>1. ~Chain(c) /\ bounce[c] = 0 /\ level[c] = Rest(c)
    BY <1>1 DEF Chain
  <2>2. releases[c] = 0 /\ overtaken[c] = 0 /\ events[c] = 0
    OBVIOUS
  <2>3. Credit(c) = 0 + 0 - 0 - 0
    BY <1>1, <2>2, Zenon DEF Credit
  <2>4. Credit(c) = 0
    BY <2>3
  <2>5. QED BY <2>1, <2>4 DEF ButtonInv, AtRest, HandlerBehind, Rearmed, QuietReleased, QuietHeld
<1>4. QED BY <1>2, <1>3 DEF ButtonsInv

------------------------------------------------------------------------------
(* The contact *)

LEMMA PushInv ==
    ASSUME ButtonsInv, NEW btn \in Ports, Push(btn)
    PROVE  ButtonsInv'
<1> USE DEF Push, driverVars, timerVars, historyVars
<1>1. TypeOK' /\ held'[btn] = TRUE /\ bounce'[btn] = MaxBounce /\ level'[btn] = level[btn]
  BY Times DEF ButtonsInv, TypeOK
<1>2. \A c \in Ports : /\ Due(c)' <=> Due(c)
                       /\ Reading(c)' <=> Reading(c)
                       /\ Chain(c)' <=> Chain(c)
  BY DEF Due, Reading, Chain
<1>3. \A c \in Ports : Credit(c)' = Credit(c)
  BY <1>2 DEF Credit
<1>4. ButtonInv(btn)'
  <2>1. ~held[btn] /\ held'[btn] /\ bounce'[btn] # 0 /\ ButtonInv(btn)
    BY <1>1, Times, PushbuttonAssumption DEF ButtonsInv
  <2>2. AtRest(btn)' /\ HandlerBehind(btn)' /\ Rearmed(btn)' /\ QuietReleased(btn)'
    BY <1>2, <2>1 DEF AtRest, ButtonInv, HandlerBehind, Rearmed, QuietReleased
  <2>3. QuietHeld(btn)'
    <3>1. Credit(btn) = 0 => ~Chain(btn)
      BY <2>1 DEF ButtonInv, QuietReleased
    <3>2. ~Chain(btn) => ~Reading(btn)' /\ timer'[btn] = NotArmed
      BY <1>2 DEF Chain
    <3>3. QED BY <1>3, <3>1, <3>2 DEF QuietHeld
  <2>4. QED BY <1>3, <2>1, <2>2, <2>3 DEF ButtonInv
<1>5. ASSUME NEW c \in Ports, c # btn PROVE ButtonInv(c)'
  <2>1. held'[c] = held[c] /\ bounce'[c] = bounce[c]
    BY <1>5 DEF ButtonsInv, TypeOK
  <2>2. QED BY <1>2, <2>1, Untouched DEF ButtonsInv
<1>6. QED BY <1>1, <1>4, <1>5 DEF ButtonsInv

\* A release is a new credit.
LEMMA ReleaseInv ==
    ASSUME ButtonsInv, NEW btn \in Ports, Release(btn)
    PROVE  ButtonsInv'
<1> USE DEF Release, driverVars, timerVars
<1>1. /\ TypeOK' /\ held'[btn] = FALSE /\ bounce'[btn] = MaxBounce
      /\ releases'[btn] = releases[btn] + 1
  BY Times DEF ButtonsInv, TypeOK
<1>2. \A c \in Ports : /\ Due(c)' <=> Due(c)
                       /\ Reading(c)' <=> Reading(c)
                       /\ Chain(c)' <=> Chain(c)
  BY DEF Due, Reading, Chain
<1>3. Credit(btn)' = Credit(btn) + 1 /\ Credit(btn) \in Nat /\ Credit(btn)' # 0
  <2>1. events'[btn] = events[btn] /\ overtaken'[btn] = overtaken[btn]
    OBVIOUS
  <2>2. Credit(btn) \in Nat
    BY DEF ButtonsInv, ButtonInv
  <2>3. /\ releases[btn] \in Nat /\ events[btn] \in Nat /\ overtaken[btn] \in Nat
    BY Values DEF ButtonsInv
  <2>4. Credit(btn)' = Credit(btn) + 1
    BY <1>1, <1>2, <2>1, <2>3 DEF Credit
  <2>5. QED BY <2>2, <2>4
<1>4. ButtonInv(btn)'
  <2>1. /\ held[btn] /\ ~held'[btn] /\ bounce'[btn] # 0 /\ level'[btn] = 0
        /\ ButtonInv(btn)
    BY <1>1, Times, PushbuttonAssumption DEF ButtonsInv, ButtonInv, AtRest, Rest
  <2>2. AtRest(btn)' /\ HandlerBehind(btn)' /\ Rearmed(btn)' /\ QuietHeld(btn)'
    BY <1>2, <2>1 DEF AtRest, ButtonInv, HandlerBehind, Rearmed, QuietHeld
  <2>3. Credit(btn)' \in Nat
    BY <1>3
  <2>4. QuietReleased(btn)'
    BY <1>3 DEF QuietReleased
  <2>5. QED BY <2>2, <2>3, <2>4 DEF ButtonInv
<1>5. ASSUME NEW c \in Ports, c # btn PROVE ButtonInv(c)'
  <2>1. held'[c] = held[c] /\ bounce'[c] = bounce[c] /\ releases'[c] = releases[c]
    BY <1>5 DEF ButtonsInv, TypeOK
  <2>2. QED BY <1>2, <2>1, Untouched DEF ButtonsInv
<1>6. QED BY <1>1, <1>4, <1>5 DEF ButtonsInv

\* Bounce and timer run down together, and a rise of the level interrupts.
LEMMA TickInv == ButtonsInv /\ Tick => ButtonsInv'
<1> SUFFICES ASSUME ButtonsInv, Tick PROVE ButtonsInv'
  OBVIOUS
<1> USE DEF Tick, Elapse, driverVars, historyVars
<1>1. ASSUME NEW c \in Ports
      PROVE  /\ bounce'[c] = IF bounce[c] > 0 THEN bounce[c] - 1 ELSE 0
             /\ timer'[c] = IF timer[c] > 0 THEN timer[c] - 1 ELSE timer[c]
             /\ bounce'[c] \in 0..MaxBounce /\ timer'[c] \in (-1)..Debounce
             /\ timer'[c] = NotArmed <=> timer[c] = NotArmed
             /\ bounce'[c] > 0 => bounce[c] > 0 /\ (timer[c] > bounce[c] => timer'[c] > bounce'[c])
             /\ bounce[c] = 0 => bounce'[c] = 0
             /\ bounce'[c] = 0 => bounce[c] <= 1
  <2>1. bounce'[c] = IF bounce[c] > 0 THEN bounce[c] - 1 ELSE 0
    OBVIOUS
  <2>2. timer'[c] = IF timer[c] > 0 THEN timer[c] - 1 ELSE timer[c]
    OBVIOUS
  <2>3. bounce[c] \in 0..MaxBounce /\ timer[c] \in (-1)..Debounce
    BY Values DEF ButtonsInv
  <2>4. QED BY <2>1, <2>2, <2>3, Times DEF NotArmed
<1>2. TypeOK'
  <2>1. bounce' \in [Ports -> 0..MaxBounce] /\ timer' \in [Ports -> (-1)..Debounce]
    BY <1>1
  <2>2. irq' \in [Ports -> BOOLEAN]
    OBVIOUS
  <2>3. QED BY <2>1, <2>2 DEF ButtonsInv, TypeOK
<1>3. \A c \in Ports : (Due(c)' <=> Due(c)) /\ (Reading(c)' <=> Reading(c))
  BY DEF Due, Reading
<1>4. \A c \in Ports : Credit(c)' = Credit(c)
  BY <1>3 DEF Credit
<1>5. ASSUME NEW c \in Ports PROVE ButtonInv(c)'
  <2>1. /\ ButtonInv(c) /\ ~irq[c] /\ level[c] \in {0, 1} /\ level'[c] \in {0, 1}
        /\ held'[c] = held[c] /\ has_handler'[c] = has_handler[c]
        /\ irq'[c] <=> level[c] = 0 /\ level'[c] = 1 /\ has_handler[c]
    BY Values DEF ButtonsInv
  <2>2. AtRest(c)'
    <3>1. bounce'[c] = 0 => level'[c] = Rest(c)
      BY <1>1
    <3>2. Rest(c)' = Rest(c)
      BY DEF Rest
    <3>3. QED BY <3>1, <3>2 DEF AtRest
  <2>3. Chain(c)' => Chain(c) \/ irq'[c]
    BY <1>1, <1>3 DEF Chain
  <2>4. HandlerBehind(c)'
    BY <2>1, <2>3 DEF ButtonInv, HandlerBehind
  <2>5. Rearmed(c)'
    <3> SUFFICES ASSUME Chain(c)', level'[c] = 1, ~held[c], bounce'[c] > 0
                 PROVE  irq'[c] \/ timer'[c] > bounce'[c]
      BY <2>1 DEF Rearmed
    <3>1. CASE level[c] = 0
      <4>1. has_handler[c]
        BY <2>1, <2>3 DEF ButtonInv, HandlerBehind
      <4>2. QED BY <2>1, <3>1, <4>1
    <3>2. CASE level[c] = 1
      <4>1. Chain(c) /\ ~irq[c]
        BY <2>1, <2>3, <3>2
      <4>2. bounce[c] > 0
        BY <1>1
      <4>3. timer[c] > bounce[c]
        BY <2>1, <3>2, <4>1, <4>2 DEF ButtonInv, Rearmed
      <4>4. QED BY <1>1, <4>3
    <3>3. QED BY <2>1, <3>1, <3>2
  <2>6. QuietReleased(c)'
    <3> SUFFICES ASSUME ~held[c], Credit(c) = 0
                 PROVE  bounce'[c] = 0 /\ ~Chain(c)'
      BY <1>4, <2>1 DEF QuietReleased
    <3>1. bounce[c] = 0 /\ ~Chain(c)
      BY <2>1 DEF ButtonInv, QuietReleased
    <3>2. level[c] = 1
      BY <2>1, <3>1 DEF ButtonInv, AtRest, Rest
    <3>3. ~irq'[c] /\ bounce'[c] = 0
      BY <1>1, <2>1, <3>1, <3>2
    <3>4. QED BY <2>3, <3>1, <3>3
  <2>7. QuietHeld(c)'
    <3> SUFFICES ASSUME held[c], Credit(c) = 0, bounce'[c] > 0
                 PROVE  ~Reading(c)' /\ (timer'[c] = NotArmed \/ timer'[c] > bounce'[c])
      BY <1>4, <2>1 DEF QuietHeld
    <3>1. ~Reading(c) /\ (timer[c] = NotArmed \/ timer[c] > bounce[c])
      BY <1>1, <2>1 DEF ButtonInv, QuietHeld
    <3>2. QED BY <1>1, <1>3, <3>1
  <2>8. Credit(c)' \in Nat
    BY <1>4, <2>1 DEF ButtonInv
  <2>9. QED BY <2>2, <2>4, <2>5, <2>6, <2>7, <2>8 DEF ButtonInv
<1>6. QED BY <1>2, <1>5 DEF ButtonsInv

------------------------------------------------------------------------------
(* Interrupt and timer task *)

LEMMA IsrInv ==
    ASSUME ButtonsInv, NEW btn \in Ports, Isr(btn)
    PROVE  ButtonsInv'
<1> USE DEF Isr, contactVars, driverVars, historyVars
<1>1. /\ TypeOK' /\ irq[btn] /\ timer'[btn] = Debounce
      /\ \A c \in Ports : c # btn => timer'[c] = timer[c] /\ irq'[c] = irq[c]
  BY Times DEF ButtonsInv, TypeOK
<1>2. \A c \in Ports : (Due(c)' <=> Due(c)) /\ (Reading(c)' <=> Reading(c))
  BY DEF Due, Reading
<1>3. \A c \in Ports : Credit(c)' = Credit(c)
  BY <1>2 DEF Credit
<1>4. ButtonInv(btn)'
  <2>1. ButtonInv(btn) /\ Chain(btn)
    BY <1>1 DEF ButtonsInv, Chain
  <2>2. timer'[btn] > bounce'[btn]
    <3>1. bounce'[btn] = bounce[btn] /\ bounce[btn] \in 0..MaxBounce
      BY Values DEF ButtonsInv
    <3>2. QED BY <1>1, <3>1, Times
  <2>3. AtRest(btn)' /\ HandlerBehind(btn)' /\ Rearmed(btn)'
    BY <2>1, <2>2 DEF ButtonInv, AtRest, Rest, HandlerBehind, Rearmed
  <2>4. QuietReleased(btn)' /\ QuietHeld(btn)'
    BY <1>2, <1>3, <2>1, <2>2 DEF ButtonInv, QuietReleased, QuietHeld
  <2>5. QED BY <1>3, <2>1, <2>3, <2>4 DEF ButtonInv
<1>5. ASSUME NEW c \in Ports, c # btn PROVE ButtonInv(c)'
  BY <1>1, <1>2, <1>5, Untouched DEF ButtonsInv
<1>6. QED BY <1>1, <1>4, <1>5 DEF ButtonsInv

\* The timer has run out, so it did not outlast a bounce still going on.
LEMMA DispatchInv ==
    ASSUME ButtonsInv, NEW btn \in Ports, Dispatch(btn)
    PROVE  ButtonsInv'
<1> USE DEF Dispatch, contactVars, driverVars, historyVars
<1>1. /\ TypeOK' /\ timer[btn] = 0 /\ timer'[btn] = NotArmed
      /\ \A c \in Ports : c # btn => timer'[c] = timer[c]
  BY Times DEF ButtonsInv, TypeOK
<1>2. \A c \in Ports : ~Due(c)' /\ ~Due(c) /\ ~Reading(c) /\ (Reading(c)' <=> c = btn)
  BY DEF Due, Reading, Idle
<1>3. \A c \in Ports : Credit(c)' = Credit(c)
  BY <1>2 DEF Credit
<1>4. ButtonInv(btn)'
  <2>1. ButtonInv(btn) /\ Chain(btn) /\ bounce[btn] \in 0..MaxBounce
    <3>1. timer[btn] # NotArmed
      BY <1>1 DEF NotArmed
    <3>2. QED BY <3>1, Values DEF ButtonsInv, Chain
  <2>2. bounce[btn] > 0 => ~(timer[btn] > bounce[btn]) /\ timer[btn] # NotArmed
    BY <1>1, <2>1 DEF NotArmed
  <2>3. AtRest(btn)' /\ HandlerBehind(btn)'
    BY <2>1 DEF ButtonInv, AtRest, Rest, HandlerBehind
  <2>4. Rearmed(btn)'
    BY <2>1, <2>2 DEF ButtonInv, Rearmed
  <2>5. QuietReleased(btn)' /\ QuietHeld(btn)'
    BY <1>3, <2>1, <2>2 DEF ButtonInv, QuietReleased, QuietHeld
  <2>6. QED BY <1>3, <2>1, <2>3, <2>4, <2>5 DEF ButtonInv
<1>5. ASSUME NEW c \in Ports, c # btn PROVE ButtonInv(c)'
  BY <1>1, <1>2, <1>5, Untouched DEF ButtonsInv
<1>6. QED BY <1>1, <1>4, <1>5 DEF ButtonsInv

\* Reading 1 costs one credit, unless an edge has overtaken the callback.
LEMMA ReadLevelInv == ButtonsInv /\ ReadLevel => ButtonsInv'
<1> SUFFICES ASSUME ButtonsInv, ReadLevel PROVE ButtonsInv'
  OBVIOUS
<1> USE DEF ReadLevel, contactVars, driverVars
<1> DEFINE btn == cb.btn
<1>1. btn \in Ports /\ level[btn] \in {0, 1} /\ cb'.btn = btn /\ cb'.stage = "notify"
      /\ cb'.pin = level[btn]
  BY Values DEF ButtonsInv, TypeOK
<1>2. /\ \A c \in Ports : c # btn => overtaken'[c] = overtaken[c]
      /\ overtaken'[btn] = IF level[btn] = 1 /\ Overtaken(btn) THEN overtaken[btn] + 1
                           ELSE overtaken[btn]
  BY <1>1 DEF ButtonsInv, TypeOK
<1>3. overtaken' \in [Ports -> Nat]
  <2>1. overtaken'[btn] \in Nat
    BY <1>1, <1>2, Values DEF ButtonsInv
  <2>2. QED BY <1>1, <2>1 DEF ButtonsInv, TypeOK
<1>4. TypeOK'
  <2>1. cb' \in [btn : Ports \cup {"none"}, stage : {"idle", "read", "notify"}, pin : {0, 1}]
    BY <1>1 DEF ButtonsInv, TypeOK
  <2>2. QED BY <1>1, <1>3, <2>1 DEF ButtonsInv, TypeOK
<1>5. Reading(btn) /\ ~Reading(btn)' /\ ~Due(btn) /\ (Due(btn)' <=> level[btn] = 1)
  BY <1>1 DEF Reading, Due
<1>6. ButtonInv(btn)'
  <2>1. ButtonInv(btn) /\ Chain(btn) /\ Credit(btn) \in Nat /\ bounce[btn] \in 0..MaxBounce
    BY <1>1, <1>5, Values DEF ButtonsInv, ButtonInv, Chain
  <2>2. AtRest(btn)'
    BY <2>1 DEF ButtonInv, AtRest, Rest
  <2>3. Chain(btn)' => Chain(btn)
    BY <1>5 DEF Chain
  <2>4. HandlerBehind(btn)' /\ Rearmed(btn)'
    BY <2>1, <2>3 DEF ButtonInv, HandlerBehind, Rearmed
  <2>5. /\ releases'[btn] = releases[btn] /\ events'[btn] = events[btn]
        /\ releases[btn] \in Nat /\ events[btn] \in Nat /\ overtaken[btn] \in Nat
    BY <1>1, Values DEF ButtonsInv
  <2>6. CASE level[btn] = 0 \/ Overtaken(btn)
    <3>1. Credit(btn)' = Credit(btn)
      <4>1. CASE level[btn] = 0
        BY <1>2, <1>5, <2>5, <4>1 DEF Credit
      <4>2. CASE level[btn] = 1 /\ Overtaken(btn)
        BY <1>2, <1>5, <2>5, <4>2 DEF Credit
      <4>3. QED BY <1>1, <2>6, <4>1, <4>2
    <3>2. QuietReleased(btn)' /\ QuietHeld(btn)'
      BY <1>5, <2>1, <2>3, <3>1 DEF ButtonInv, QuietReleased, QuietHeld
    <3>3. QED BY <2>1, <2>2, <2>4, <3>1, <3>2 DEF ButtonInv
  <2>7. CASE level[btn] = 1 /\ ~Overtaken(btn)
    <3>1. Credit(btn)' = Credit(btn) - 1
      BY <1>2, <1>5, <2>5, <2>7 DEF Credit
    <3>2. ~irq[btn] /\ timer[btn] = NotArmed /\ ~Chain(btn)'
      BY <1>5, <2>7 DEF Overtaken, Chain
    <3>3. ~held[btn] => bounce[btn] = 0
      <4>1. ~(timer[btn] > bounce[btn])
        BY <2>1, <3>2 DEF NotArmed
      <4>2. ~(bounce[btn] > 0) => bounce[btn] = 0
        BY <2>1
      <4>3. QED BY <2>1, <2>7, <3>2, <4>1, <4>2 DEF ButtonInv, Rearmed
    <3>4. held[btn] => bounce[btn] > 0
      <4>1. bounce[btn] = 0 => level[btn] = Rest(btn)
        BY <2>1 DEF ButtonInv, AtRest
      <4>2. held[btn] => Rest(btn) = 0
        BY DEF Rest
      <4>3. bounce[btn] # 0 => bounce[btn] > 0
        BY <2>1
      <4>4. QED BY <2>7, <4>1, <4>2, <4>3
    <3>5. Credit(btn) # 0
      BY <1>5, <2>1, <3>4 DEF ButtonInv, QuietReleased, QuietHeld
    <3>6. Credit(btn)' \in Nat
      BY <2>1, <3>1, <3>5
    <3>7. QuietReleased(btn)' /\ QuietHeld(btn)'
      BY <1>5, <3>2, <3>3 DEF QuietReleased, QuietHeld
    <3>8. QED BY <2>2, <2>4, <3>6, <3>7 DEF ButtonInv
  <2>8. QED BY <1>1, <2>6, <2>7
<1>7. ASSUME NEW c \in Ports, c # btn PROVE ButtonInv(c)'
  <2>1. ~Due(c) /\ ~Due(c)' /\ ~Reading(c) /\ ~Reading(c)'
    BY <1>1, <1>7 DEF Due, Reading
  <2>2. QED BY <1>2, <1>7, <2>1, Untouched DEF ButtonsInv
<1>8. QED BY <1>4, <1>6, <1>7 DEF ButtonsInv

LEMMA PostEventInv == ButtonsInv /\ PostEvent => ButtonsInv'
<1> SUFFICES ASSUME ButtonsInv, PostEvent PROVE ButtonsInv'
  OBVIOUS
<1> USE DEF PostEvent, contactVars, driverVars
<1> DEFINE btn == cb.btn
<1>1. btn \in Ports /\ cb' = Idle /\ cb.pin \in {0, 1}
  BY DEF ButtonsInv, TypeOK
<1>2. /\ \A c \in Ports : c # btn => events'[c] = events[c]
      /\ events'[btn] = IF cb.pin = 1 THEN events[btn] + 1 ELSE events[btn]
      /\ unreported' \in [Ports -> BOOLEAN]
  BY <1>1 DEF ButtonsInv, TypeOK
<1>3. TypeOK'
  <2>1. events' \in [Ports -> Nat]
    BY <1>1, Values DEF ButtonsInv, TypeOK
  <2>2. cb' \in [btn : Ports \cup {"none"}, stage : {"idle", "read", "notify"}, pin : {0, 1}]
        /\ cb'.stage = "idle"
    BY <1>1 DEF Idle
  <2>3. QED BY <1>2, <2>1, <2>2 DEF ButtonsInv, TypeOK
<1>4. \A c \in Ports : ~Reading(c) /\ ~Reading(c)' /\ ~Due(c)' /\ (Due(c) <=> c = btn /\ cb.pin = 1)
  BY <1>1 DEF Reading, Due, Idle
<1>5. \A c \in Ports : Chain(c)' <=> Chain(c)
  BY <1>4 DEF Chain
<1>6. ASSUME NEW c \in Ports PROVE ButtonInv(c)'
  <2>1. Credit(c)' = Credit(c)
    <3>1. /\ releases[c] \in Nat /\ events[c] \in Nat /\ overtaken[c] \in Nat
          /\ releases'[c] = releases[c] /\ overtaken'[c] = overtaken[c]
      BY Values DEF ButtonsInv
    <3>2. CASE Due(c)
      BY <1>2, <1>4, <3>1, <3>2 DEF Credit
    <3>3. CASE ~Due(c)
      BY <1>1, <1>2, <1>4, <3>1, <3>3 DEF Credit
    <3>4. QED BY <3>2, <3>3
  <2>2. ButtonInv(c)
    BY DEF ButtonsInv
  <2>3. AtRest(c)' /\ HandlerBehind(c)' /\ Rearmed(c)'
    BY <1>5, <2>2 DEF ButtonInv, AtRest, Rest, HandlerBehind, Rearmed
  <2>4. QuietReleased(c)' /\ QuietHeld(c)'
    BY <1>4, <1>5, <2>1, <2>2 DEF ButtonInv, QuietReleased, QuietHeld
  <2>5. QED BY <2>1, <2>2, <2>3, <2>4 DEF ButtonInv
<1>7. QED BY <1>3, <1>6 DEF ButtonsInv

------------------------------------------------------------------------------
(* app_main *)

\* app_main touches the drivers only, and never removes a handler.
LEMMA AppMainButtons == ButtonsInv /\ AppMain => ButtonsInv'
<1> SUFFICES ASSUME ButtonsInv, AppMain PROVE ButtonsInv'
  OBVIOUS
<1>1. /\ UNCHANGED <<contactVars, timerVars, historyVars>>
      /\ has_timer' \in [Ports -> BOOLEAN]
      /\ has_handler' \in [Ports -> BOOLEAN]
      /\ \A c \in Ports : has_handler[c] => has_handler'[c]
  <2>1. has_timer \in [Ports -> BOOLEAN] /\ has_handler \in [Ports -> BOOLEAN]
    BY DEF ButtonsInv, TypeOK
  <2>2. CASE CallSucceeds \/ ReadField \/ OwnerTakes
    BY <2>1, <2>2 DEF CallSucceeds, ReadField, OwnerTakes, buttonVars, driverVars
  <2>3. CASE CallFails
    BY <2>1, <2>3 DEF CallFails
  <2>4. CASE \E btn \in Ports : TimerCreated(btn)
    BY <2>1, <2>4 DEF TimerCreated
  <2>5. CASE \E btn \in Ports : HandlerAdded(btn)
    BY <2>1, <2>5 DEF HandlerAdded
  <2>6. QED BY <2>2, <2>3, <2>4, <2>5 DEF AppMain
<1> USE DEF contactVars, timerVars, historyVars
<1>2. TypeOK'
  BY <1>1 DEF ButtonsInv, TypeOK
<1>3. ASSUME NEW c \in Ports PROVE ButtonInv(c)'
  <2>1. (Due(c)' <=> Due(c)) /\ (Reading(c)' <=> Reading(c))
    BY <1>1 DEF Due, Reading
  <2>2. QED BY <1>1, <2>1, Untouched DEF ButtonsInv
<1>4. QED BY <1>2, <1>3 DEF ButtonsInv

LEMMA ButtonsStepButtons == ButtonsInv /\ ButtonsStep => ButtonsInv'
BY PushInv, ReleaseInv, TickInv, IsrInv, DispatchInv, ReadLevelInv, PostEventInv
   DEF ButtonsStep, TimerTask

THEOREM ButtonsInvariant == Spec => []ButtonsInv
<1>1. ButtonsInv /\ UNCHANGED vars => ButtonsInv'
  <2> SUFFICES ASSUME ButtonsInv, UNCHANGED vars PROVE ButtonsInv'
    OBVIOUS
  <2> USE DEF vars, buttonVars, contactVars, driverVars, timerVars, historyVars
  <2>1. TypeOK'
    BY DEF ButtonsInv, TypeOK
  <2>2. ASSUME NEW c \in Ports PROVE ButtonInv(c)'
    <3>1. (Due(c)' <=> Due(c)) /\ (Reading(c)' <=> Reading(c))
      BY DEF Due, Reading
    <3>2. QED BY <3>1, Untouched DEF ButtonsInv
  <2>3. QED BY <2>1, <2>2 DEF ButtonsInv
<1>2. ButtonsInv /\ [Next]_vars => ButtonsInv'
  BY <1>1, AppMainButtons, ButtonsStepButtons DEF Next, Buttons, InMain
<1>3. QED BY InitButtons, <1>2, PTL DEF Spec

\* However long the contact bounces short of the debounce time, a release posts
\* at most one event, except for callbacks that an edge has overtaken.
THEOREM OneEvent == Spec => []OneEventPerRelease
<1>1. ButtonsInv => OneEventPerRelease
  <2> SUFFICES ASSUME ButtonsInv, NEW c \in Ports
               PROVE  events[c] <= releases[c] + overtaken[c]
    BY DEF OneEventPerRelease
  <2>1. releases[c] \in Nat /\ events[c] \in Nat /\ overtaken[c] \in Nat
    BY Values DEF ButtonsInv
  <2>2. Credit(c) \in Nat
    BY DEF ButtonsInv, ButtonInv
  <2>3. CASE Due(c)
    BY <2>1, <2>2, <2>3 DEF Credit
  <2>4. CASE ~Due(c)
    BY <2>1, <2>2, <2>4 DEF Credit
  <2>5. QED BY <2>3, <2>4
<1>2. QED BY ButtonsInvariant, <1>1, PTL

------------------------------------------------------------------------------
(* The drivers *)

\* The position of gpio_isr_handler_add for a button.
HandlerAt(btn) == IF btn = "AC" THEN 10 ELSE 13

\* A timer exists from the call of the handler on, a handler after it.
DriverInv ==
    /\ boot \in {Calls[i] : i \in 1..15} \cup {"returned"}
    /\ has_timer \in [Ports -> BOOLEAN] /\ has_handler \in [Ports -> BOOLEAN]
    /\ \A btn \in Ports :
        /\ boot = "returned" => has_handler[btn] = has_timer[btn]
        /\ \A i \in 1..15 : boot = Calls[i] =>
              /\ has_timer[btn] <=> i >= HandlerAt(btn)
              /\ has_handler[btn] <=> i > HandlerAt(btn)

LEMMA CallNames ==
    /\ DOMAIN Calls = 1..15
    /\ \A i, j \in 1..15 : Calls[i] = Calls[j] => i = j
    /\ \A i \in 1..15 : Calls[i] # "returned" /\ (Calls[i] = "connect" => i = 15)
    /\ \A i \in 1..15 : Calls[i] \in Plain \cup Fields => i \in {1, 2, 3, 4, 5, 6, 7, 8, 11, 14}
    /\ Calls[9] = "AC_timer" /\ Calls[12] = "DC_timer"
    /\ \A btn \in Ports : HandlerAt(btn) \in 1..15 /\ Calls[HandlerAt(btn)] = HandlerCall(btn)
BY DEF Calls, Plain, Fields, HandlerAt, HandlerCall, Ports

LEMMA NextCall ==
    ASSUME NEW i \in 1..14, boot = Calls[i], Proceed
    PROVE  boot' = Calls[i + 1]
<1>1. (CHOOSE j \in DOMAIN Calls : Calls[j] = boot) = i
  BY CallNames
<1>2. boot' = Calls[1 + i]
  BY <1>1, Zenon DEF Proceed
<1>3. 1 + i = i + 1
  OBVIOUS
<1>4. QED BY <1>2, <1>3

\* A call that succeeds without touching a driver.
LEMMA OtherCalls ==
    ASSUME DriverInv, Proceed, boot \in Plain \cup Fields, UNCHANGED driverVars
    PROVE  DriverInv'
<1>1. PICK i \in {1, 2, 3, 4, 5, 6, 7, 8, 11, 14} : boot = Calls[i]
  BY CallNames DEF DriverInv, Plain, Fields
<1>2. boot' = Calls[i + 1] /\ i + 1 \in 1..15
  BY <1>1, NextCall
<1>3. \A btn \in Ports : /\ i >= HandlerAt(btn) <=> i + 1 >= HandlerAt(btn)
                         /\ i > HandlerAt(btn) <=> i + 1 > HandlerAt(btn)
  BY <1>1 DEF HandlerAt
<1>4. \A j \in 1..15 : boot' = Calls[j] => j = i + 1
  BY <1>2, CallNames
<1>5. boot' # "returned"
  BY <1>2, CallNames
<1>6. \A btn \in Ports : /\ has_timer[btn] <=> i >= HandlerAt(btn)
                         /\ has_handler[btn] <=> i > HandlerAt(btn)
  BY <1>1 DEF DriverInv
<1>7. QED BY <1>2, <1>3, <1>4, <1>5, <1>6 DEF DriverInv, driverVars

LEMMA TimerCall ==
    ASSUME DriverInv, NEW btn \in Ports, TimerCreated(btn)
    PROVE  DriverInv'
<1> DEFINE i == HandlerAt(btn) - 1
<1>1. boot = Calls[i] /\ i \in 1..14 /\ i + 1 \in 1..15
  BY CallNames DEF TimerCreated, HandlerAt, Ports
<1>2. boot' = Calls[i + 1]
  BY <1>1, NextCall DEF TimerCreated
<1>3. \A j \in 1..15 : boot' = Calls[j] => j = i + 1
  BY <1>1, <1>2, CallNames
<1>4. boot' # "returned" /\ boot' \in {Calls[j] : j \in 1..15}
  BY <1>1, <1>2, CallNames
<1>5. /\ has_timer' \in [Ports -> BOOLEAN] /\ has_handler' = has_handler
      /\ has_timer'[btn] = TRUE /\ \A c \in Ports : c # btn => has_timer'[c] = has_timer[c]
  BY DEF TimerCreated, DriverInv
<1>6. ASSUME NEW c \in Ports
      PROVE  (has_timer'[c] <=> i + 1 >= HandlerAt(c)) /\ (has_handler'[c] <=> i + 1 > HandlerAt(c))
  <2>1. (has_timer[c] <=> i >= HandlerAt(c)) /\ (has_handler[c] <=> i > HandlerAt(c))
    BY <1>1 DEF DriverInv
  <2>2. /\ c # btn => (i >= HandlerAt(c) <=> i + 1 >= HandlerAt(c))
        /\ i > HandlerAt(c) <=> i + 1 > HandlerAt(c)
        /\ i + 1 >= HandlerAt(btn)
    BY DEF HandlerAt, Ports
  <2>3. QED BY <1>5, <2>1, <2>2
<1>7. QED BY <1>3, <1>4, <1>5, <1>6 DEF DriverInv

LEMMA HandlerCalled ==
    ASSUME DriverInv, NEW btn \in Ports, HandlerAdded(btn)
    PROVE  DriverInv'
<1> DEFINE i == HandlerAt(btn)
<1>1. boot = Calls[i] /\ i \in 1..14 /\ i \in 1..15 /\ i + 1 \in 1..15
  BY CallNames DEF HandlerAdded, HandlerAt, Ports
<1>2. boot' = Calls[i + 1]
  BY <1>1, NextCall DEF HandlerAdded
<1>3. \A j \in 1..15 : boot' = Calls[j] => j = i + 1
  BY <1>1, <1>2, CallNames
<1>4. boot' # "returned" /\ boot' \in {Calls[j] : j \in 1..15}
  BY <1>1, <1>2, CallNames
<1>5. /\ has_handler' \in [Ports -> BOOLEAN] /\ has_timer' = has_timer
      /\ has_handler'[btn] = TRUE
      /\ \A c \in Ports : c # btn => has_handler'[c] = has_handler[c]
  BY DEF HandlerAdded, DriverInv
<1>6. ASSUME NEW c \in Ports
      PROVE  (has_timer'[c] <=> i + 1 >= HandlerAt(c)) /\ (has_handler'[c] <=> i + 1 > HandlerAt(c))
  <2>1. (has_timer[c] <=> i >= HandlerAt(c)) /\ (has_handler[c] <=> i > HandlerAt(c))
    BY <1>1 DEF DriverInv
  <2>2. /\ c # btn => (i > HandlerAt(c) <=> i + 1 > HandlerAt(c))
        /\ i >= HandlerAt(c) <=> i + 1 >= HandlerAt(c)
        /\ i + 1 > HandlerAt(btn)
    BY DEF HandlerAt, Ports
  <2>3. QED BY <1>5, <2>1, <2>2
<1>7. QED BY <1>3, <1>4, <1>5, <1>6 DEF DriverInv

\* The failing call is the installation of the handler of one button at most.
LEMMA FailedCall == DriverInv /\ CallFails => DriverInv'
<1> SUFFICES ASSUME DriverInv, CallFails PROVE DriverInv'
  OBVIOUS
<1>1. PICK i \in 1..15 : boot = Calls[i]
  BY DEF CallFails, Booting, DriverInv
<1>2. /\ boot' = "returned" /\ has_handler' = has_handler
      /\ has_timer' \in [Ports -> BOOLEAN]
      /\ \A c \in Ports : has_timer'[c] = (has_timer[c] /\ boot # HandlerCall(c))
  BY DEF CallFails, DriverInv
<1>3. ASSUME NEW c \in Ports PROVE has_handler'[c] = has_timer'[c]
  <2>1. (has_timer[c] <=> i >= HandlerAt(c)) /\ (has_handler[c] <=> i > HandlerAt(c))
    BY <1>1 DEF DriverInv
  <2>2. boot # HandlerCall(c) <=> i # HandlerAt(c)
    BY <1>1, CallNames
  <2>3. i > HandlerAt(c) <=> i >= HandlerAt(c) /\ i # HandlerAt(c)
    BY DEF HandlerAt
  <2>4. has_handler'[c] <=> has_timer'[c]
    BY <1>2, <2>1, <2>2, <2>3
  <2>5. has_handler'[c] \in BOOLEAN /\ has_timer'[c] \in BOOLEAN
    BY <1>2 DEF DriverInv
  <2>6. QED BY <2>4, <2>5
<1>4. boot' \notin {Calls[j] : j \in 1..15}
  BY <1>2, CallNames
<1>5. QED BY <1>2, <1>3, <1>4 DEF DriverInv

LEMMA ButtonsLeaveDrivers == ButtonsStep => UNCHANGED driverVars
BY DEF ButtonsStep, Push, Release, Isr, Tick, Elapse, TimerTask, Dispatch, ReadLevel, PostEvent

\* Each button has both its timer and its handler or neither, however app_main
\* gets through its start.
THEOREM TimerWithHandler == Spec => []AllOrNothing
<1>1. Init => DriverInv
  <2> SUFFICES ASSUME Init PROVE DriverInv
    OBVIOUS
  <2>1. boot = Calls[1] /\ \A j \in 1..15 : boot = Calls[j] => j = 1
    BY CallNames DEF Init
  <2>2. boot # "returned" /\ boot \in {Calls[i] : i \in 1..15}
    BY <2>1, CallNames
  <2>3. /\ has_timer \in [Ports -> BOOLEAN] /\ has_handler \in [Ports -> BOOLEAN]
        /\ \A btn \in Ports : ~has_timer[btn] /\ ~has_handler[btn]
    BY DEF Init, ButtonsInit
  <2>4. \A btn \in Ports : ~(1 >= HandlerAt(btn)) /\ ~(1 > HandlerAt(btn))
    BY DEF HandlerAt
  <2>5. QED BY <2>1, <2>2, <2>3, <2>4 DEF DriverInv
<1>2. DriverInv /\ [Next]_vars => DriverInv'
  <2> SUFFICES ASSUME DriverInv, [Next]_vars PROVE DriverInv'
    OBVIOUS
  <2>1. CASE CallSucceeds \/ ReadField
    BY <2>1, OtherCalls DEF CallSucceeds, ReadField, buttonVars
  <2>2. CASE CallFails
    BY <2>2, FailedCall
  <2>3. CASE \E btn \in Ports : TimerCreated(btn) \/ HandlerAdded(btn)
    BY <2>3, TimerCall, HandlerCalled
  <2>4. CASE OwnerTakes \/ Buttons \/ UNCHANGED vars
    <3>1. UNCHANGED <<boot, has_timer, has_handler>>
      BY <2>4, ButtonsLeaveDrivers
         DEF OwnerTakes, Buttons, InMain, vars, buttonVars, driverVars, bootVars
    <3>2. QED BY <3>1 DEF DriverInv
  <2>5. QED BY <2>1, <2>2, <2>3, <2>4 DEF Next, AppMain
<1>3. DriverInv => AllOrNothing
  <2> SUFFICES ASSUME DriverInv, NEW btn \in Ports, boot # HandlerCall(btn)
               PROVE  has_handler[btn] = has_timer[btn]
    BY DEF AllOrNothing
  <2>1. ASSUME NEW i \in 1..15, boot = Calls[i] PROVE has_handler[btn] = has_timer[btn]
    <3>1. (has_timer[btn] <=> i >= HandlerAt(btn)) /\ (has_handler[btn] <=> i > HandlerAt(btn))
      BY <2>1 DEF DriverInv
    <3>2. i # HandlerAt(btn)
      BY <2>1, CallNames
    <3>3. i >= HandlerAt(btn) <=> i > HandlerAt(btn)
      BY <3>2 DEF HandlerAt
    <3>4. has_handler[btn] \in BOOLEAN /\ has_timer[btn] \in BOOLEAN
      BY DEF DriverInv
    <3>5. QED BY <3>1, <3>3, <3>4
  <2>2. QED BY <2>1 DEF DriverInv
<1>4. QED BY <1>1, <1>2, <1>3, PTL DEF Spec

------------------------------------------------------------------------------
(* The configuration *)

\* What has been read fits; a field that has not been read is empty.
ConfigInv ==
    /\ nvs \in Stored
    /\ cfg \in [Fields -> Nat]
    /\ \A f \in Fields : cfg[f] = 0 \/ Fits(f, cfg[f])

\* Whatever flash holds, what app_main connects with fits the arrays and the
\* digest's buffer.
THEOREM ConfigurationFits == Spec => []DigestFits
<1>1. Init => ConfigInv
  BY DEF Init, ConfigInv
<1>2. ConfigInv /\ [Next]_vars => ConfigInv'
  <2> SUFFICES ASSUME ConfigInv, [Next]_vars PROVE ConfigInv'
    OBVIOUS
  <2>1. CASE ReadField
    <3>1. boot \in Fields /\ Fits(boot, nvs[boot]) /\ cfg' = [cfg EXCEPT ![boot] = nvs[boot]]
          /\ nvs' = nvs
      BY <2>1 DEF ReadField
    <3>2. nvs[boot] \in Nat
      BY <3>1, StartupAssumption DEF ConfigInv, Fields
    <3>3. QED BY <3>1, <3>2 DEF ConfigInv
  <2>2. CASE UNCHANGED <<nvs, cfg>>
    BY <2>2 DEF ConfigInv
  <2>3. QED BY <2>1, <2>2 DEF Next, AppMain, CallSucceeds, CallFails, OwnerTakes, TimerCreated,
                             HandlerAdded, Buttons, InMain, bootVars, vars
<1>3. ConfigInv => DigestFits
  <2> SUFFICES ASSUME ConfigInv
               PROVE  /\ cfg.ef_user < USER_ID_SIZE /\ cfg.ef_serial < SERIAL_SIZE
                      /\ cfg.ef_user + cfg.ef_serial <= USER_ID_SIZE + 20
    BY DEF DigestFits
  <2>1. cfg["ef_user"] \in Nat /\ cfg["ef_serial"] \in Nat
    BY DEF ConfigInv, Fields
  <2>2. cfg["ef_user"] = 0 \/ cfg["ef_user"] + 1 <= 20
    BY DEF ConfigInv, Fields, Fits, NvsGetStr, USER_ID_SIZE
  <2>3. cfg["ef_serial"] = 0 \/ cfg["ef_serial"] + 1 <= 17
    BY DEF ConfigInv, Fields, Fits, NvsGetStr, SERIAL_SIZE
  <2>4. QED BY <2>1, <2>2, <2>3 DEF USER_ID_SIZE, SERIAL_SIZE
<1>4. QED BY <1>1, <1>2, <1>3, PTL DEF Spec
==============================================================================
