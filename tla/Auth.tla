--------------------------------- MODULE Auth ---------------------------------
(***************************************************************************)
(* river2_auth_run (river2_auth.c): the four-step handshake the owner task *)
(* runs over a subscribed link.  Each step sends one request and waits for *)
(* its reply in wait_for_frame, which skips frames of the other type       *)
(* without restarting its deadline; steps 3 and 4 call it again, with a    *)
(* fresh deadline, after every packet they do not want.                    *)
(*                                                                         *)
(* A frame is [type, kind]; keys, checksums and addresses are abstracted   *)
(* into the kind, that is into what the handshake makes of the frame:      *)
(*   COMMAND frames: "pubkey", "session", and "bad" for replies of the     *)
(*     wrong type, curve or length;                                        *)
(*   DATA frames: "status" (the 0x89 reply), "accept" and "refuse" (the    *)
(*     0x86 reply with code 0 or another), "other" (any other packet),     *)
(*     "garbage" (decrypts to no packet) and "long" (more than the 256     *)
(*     bytes there is room for, so decryption fails).                      *)
(***************************************************************************)
EXTENDS Naturals, Sequences

CONSTANTS
  Timeout,      \* STEP_TIMEOUT_MS, in ticks
  QueueCap,     \* frames the notification queue and the reassembler hold
  MaxBad,       \* bound on wrong replies
  MaxLost,      \* bound on frames lost although there is room
  ExtraKinds,   \* DATA frames the station sends before it has accepted the app
  MaxExtra      \* bound on those

ASSUME AuthAssumption ==
    /\ Timeout \in Nat \ {0} /\ QueueCap \in Nat \ {0}
    /\ MaxBad \in Nat /\ MaxLost \in Nat /\ MaxExtra \in Nat
    /\ ExtraKinds \subseteq {"other", "garbage", "long", "status"}

VARIABLES
  step,         \* 1..4: the step under way, 5: succeeded, 0: failed
  waiting,      \* the request of this step has been sent
  timer,        \* ticks until the deadline of wait_for_frame
  waited,       \* history: ticks since the request was sent, up to WaitCap
  tx,           \* requests written, not yet served
  rx,           \* frames received, not yet looked at
  held,         \* how many of them, from the oldest on, are in the reassembler;
                \* the others wait in the notification queue
  link,         \* the connection is up
  served,       \* external: the last request the station has served
  verdict,      \* external: what the station decided: "none", "accepted", "refused"
  bad, lost, extra    \* counters of the bounded events

appVars == <<step, waiting, timer, waited>>
airVars == <<tx, rx, held, link>>
stationVars == <<served, verdict, bad, lost, extra>>
vars == <<appVars, airVars, stationVars>>

Cmd(kind)  == [type |-> "COMMAND", kind |-> kind]
Data(kind) == [type |-> "DATA", kind |-> kind]

WaitCap == Timeout * (1 + MaxExtra) + 1   \* where the count of ticks stops

SUCCEEDED == 5
FAILED    == 0
Running   == step \in 1..4

Init ==
    /\ step = 1 /\ waiting = FALSE /\ timer = 0 /\ waited = 0
    /\ tx = <<>> /\ rx = <<>> /\ held = 0 /\ link = TRUE
    /\ served = 0 /\ verdict = "none"
    /\ bad = 0 /\ lost = 0 /\ extra = 0

------------------------------------------------------------------------------
(* The handshake *)

\* Seeded fault: the step does not wait for its reply.
SendRequestAgain ==
    /\ Running /\ ~waiting /\ link
    /\ tx' = Append(tx, step)
    /\ waiting' = FALSE /\ timer' = Timeout /\ waited' = 0
    /\ UNCHANGED <<step, rx, held, link, stationVars>>

SendRequest ==
    /\ Running /\ ~waiting /\ link
    /\ tx' = Append(tx, step)
    /\ waiting' = TRUE /\ timer' = Timeout /\ waited' = 0
    /\ UNCHANGED <<step, rx, held, link, stationVars>>

Goto(next) == step' = next /\ waiting' = FALSE /\ timer' = 0 /\ waited' = 0

\* river2_ble_write fails: no connection, or NimBLE refuses the write.
SendFails ==
    /\ Running /\ ~waiting
    /\ Goto(FAILED)
    /\ UNCHANGED <<airVars, stationVars>>

\* With nothing left in the reassembler and time left, the next notification is
\* read from the queue; it completes one or more frames.
ReceiveNotification ==
    /\ Running /\ waiting /\ timer > 0 /\ held = 0
    /\ held' \in 1..Len(rx)
    /\ UNCHANGED <<appVars, tx, rx, link, stationVars>>

\* river2_framebuf_append has no memory for it.
ReceiveFails ==
    /\ Running /\ waiting /\ timer > 0 /\ held = 0 /\ rx # <<>>
    /\ Goto(FAILED)
    /\ UNCHANGED <<airVars, stationVars>>

\* Looking at the oldest frame in the reassembler, also after the deadline.
TakeFrame ==
    /\ Running /\ waiting
    /\ held > 0 /\ held' = held - 1
    /\ rx' = Tail(rx)
    /\ UNCHANGED <<tx, link, stationVars>>

Wanted == IF step <= 2 THEN "COMMAND" ELSE "DATA"

\* Seeded fault: skipping a frame starts a new deadline.
SkipFrameRestarts ==
    /\ TakeFrame
    /\ Head(rx).type # Wanted
    /\ timer' = Timeout
    /\ UNCHANGED <<step, waiting, waited>>

\* Seeded fault: a frame of the other type is an error.
SkipFrameFails ==
    /\ TakeFrame
    /\ Head(rx).type # Wanted
    /\ Goto(FAILED)

\* wait_for_frame: the deadline runs on.
SkipFrame ==
    /\ TakeFrame
    /\ Head(rx).type # Wanted
    /\ UNCHANGED appVars

KeyExchanged ==
    /\ TakeFrame
    /\ step = 1 /\ Head(rx).type = Wanted
    /\ Goto(IF Head(rx).kind = "pubkey" THEN 2 ELSE FAILED)

SessionKeyDerived ==
    /\ TakeFrame
    /\ step = 2 /\ Head(rx).type = Wanted
    /\ Goto(IF Head(rx).kind = "session" THEN 3 ELSE FAILED)

\* Any packet of the auth board ends step 3.
StatusReceived ==
    /\ TakeFrame
    /\ step = 3 /\ Head(rx).kind \in {"status", "accept", "refuse"}
    /\ Goto(4)

\* Seeded fault: the code in the reply is not looked at.
ResultReceivedUnread ==
    /\ TakeFrame
    /\ step = 4 /\ Head(rx).kind \in {"accept", "refuse", "status", "other"}
    /\ Goto(SUCCEEDED)

\* Only the 0x86 reply can refuse; every other packet counts as acceptance.
ResultReceived ==
    /\ TakeFrame
    /\ step = 4 /\ Head(rx).kind \in {"accept", "refuse", "status", "other"}
    /\ Goto(IF Head(rx).kind = "refuse" THEN FAILED ELSE SUCCEEDED)

\* The loops of steps 3 and 4 wait again, with a new deadline.
WaitAgain ==
    /\ TakeFrame
    /\ \/ step = 3 /\ Head(rx).kind \in {"garbage", "other"}
       \/ step = 4 /\ Head(rx).kind = "garbage"
    /\ timer' = Timeout
    /\ UNCHANGED <<step, waiting, waited>>

\* river2_session_decrypt has no room for the frame.
DecryptFails ==
    /\ TakeFrame
    /\ step \in {3, 4} /\ Head(rx).kind = "long"
    /\ Goto(FAILED)

\* Seeded fault: a timeout starts the wait over.
TimedOutRetries ==
    /\ Running /\ waiting /\ timer = 0 /\ held = 0
    /\ timer' = Timeout
    /\ UNCHANGED <<step, waiting, waited, airVars, stationVars>>

\* The deadline has passed, and the reassembler holds no frame.
TimedOut ==
    /\ Running /\ waiting /\ timer = 0 /\ held = 0
    /\ Goto(FAILED)
    /\ UNCHANGED <<airVars, stationVars>>

App ==
    \/ SendRequest \/ SendFails
    \/ ReceiveNotification \/ ReceiveFails
    \/ SkipFrame \/ KeyExchanged \/ SessionKeyDerived
    \/ StatusReceived \/ ResultReceived \/ WaitAgain \/ DecryptFails
    \/ TimedOut

Tick ==
    /\ Running /\ waiting /\ timer > 0
    /\ timer' = timer - 1
    /\ waited' = IF waited < WaitCap THEN waited + 1 ELSE waited
    /\ UNCHANGED <<step, waiting, airVars, stationVars>>

------------------------------------------------------------------------------
(* The station and the link, from the protocol the code implements *)

\* A notification: dropped if the queue is full, or lost on the way.
Deliver(frame) ==
    \/ Len(rx) < QueueCap /\ rx' = Append(rx, frame) /\ UNCHANGED lost
    \/ Len(rx) = QueueCap /\ UNCHANGED <<rx, lost>>
    \/ lost < MaxLost /\ lost' = lost + 1 /\ UNCHANGED rx

Reply(k) == <<Cmd("pubkey"), Cmd("session"), Data("status")>>[k]

Serve ==
    /\ link /\ tx # <<>>
    /\ tx' = Tail(tx) /\ served' = Head(tx)
    /\ \/ Head(tx) < 4 /\ Deliver(Reply(Head(tx))) /\ UNCHANGED <<verdict, bad>>
       \/ Head(tx) < 3 /\ bad < MaxBad /\ bad' = bad + 1 /\ Deliver(Cmd("bad"))
          /\ UNCHANGED verdict
       \/ Head(tx) = 4 /\ verdict' = "accepted" /\ Deliver(Data("accept")) /\ UNCHANGED bad
       \/ Head(tx) = 4 /\ verdict' = "refused" /\ Deliver(Data("refuse")) /\ UNCHANGED bad
    /\ UNCHANGED <<appVars, held, link, extra>>

\* Telemetry, once the station has accepted the app.
Telemetry ==
    /\ link /\ verdict = "accepted"
    /\ Len(rx) < QueueCap
    /\ rx' = Append(rx, Data("other"))
    /\ UNCHANGED <<appVars, tx, held, link, stationVars>>

\* A packet nobody asked for, once there is a session key.
Unasked ==
    /\ link /\ served >= 2 /\ extra < MaxExtra
    /\ extra' = extra + 1
    /\ \E kind \in ExtraKinds : Deliver(Data(kind))
    /\ UNCHANGED <<appVars, tx, held, link, served, verdict, bad>>

LinkLoss ==
    /\ link
    /\ link' = FALSE /\ tx' = <<>>
    /\ UNCHANGED <<appVars, rx, held, stationVars>>

Next == App \/ Tick \/ Serve \/ Telemetry \/ Unasked \/ LinkLoss

Spec == Init /\ [][Next]_vars

\* The owner task runs, and time passes.
FairSpec == Spec /\ WF_vars(App) /\ WF_vars(Tick)

------------------------------------------------------------------------------
(* Properties *)

Frame ==
    [type : {"COMMAND"}, kind : {"pubkey", "session", "bad"}]
    \cup [type : {"DATA"},
          kind : {"status", "accept", "refuse", "other", "garbage", "long"}]

\* At most one request is under way, and the receiving side holds at most
\* QueueCap frames.
TypeOK ==
    /\ step \in 0..5 /\ waiting \in BOOLEAN
    /\ timer \in 0..Timeout /\ waited \in 0..WaitCap
    /\ tx \in Seq(1..4) /\ Len(tx) <= 1
    /\ rx \in Seq(Frame) /\ Len(rx) <= QueueCap /\ held \in 0..Len(rx)
    /\ link \in BOOLEAN
    /\ served \in 0..4 /\ verdict \in {"none", "accepted", "refused"}
    /\ bad \in 0..MaxBad /\ lost \in 0..MaxLost /\ extra \in 0..MaxExtra

\* The app believes it is authenticated only if the station has accepted it.
\* Step 4 takes any packet but a 0x86 refusal for an acceptance
\* (river2_auth.c:465-473), so this rests on what the station sends.
SuccessMeansAccepted == step = SUCCEEDED => verdict = "accepted"

\* The handshake ends in success or failure: river2_auth.h says it blocks until
\* authentication succeeds, fails, or times out.
AuthEnds == <>(step \in {SUCCEEDED, FAILED})

\* Steps 1 and 2 wait one timeout whatever arrives; steps 3 and 4 wait one more
\* for each packet nobody asked for, their loops calling wait_for_frame again.
WaitBounded == waited <= Timeout * (IF step <= 2 THEN 1 ELSE 1 + extra)

\* A frame makes the handshake fail only if it is a wrong reply, a refusal or too
\* long for the buffer; frames of the other type and undecodable ones that fit
\* are dropped (river2_auth.c:152, 401, 461).
UnaskedIsHarmless ==
    [][step # FAILED /\ step' = FAILED /\ rx' # rx
       => Head(rx).kind \in {"bad", "refuse", "long"}]_vars
==============================================================================
