-------------------------------- MODULE Startup --------------------------------
(***************************************************************************)
(* app_main from its first line to connect_and_authenticate: flash, the    *)
(* configuration (config.c), the interrupt service, both buttons and the   *)
(* BLE stack, one call after the other, returning at the first failure.    *)
(* The buttons can be used as soon as each of them is installed.           *)
(***************************************************************************)
EXTENDS Pushbutton, Sequences

CONSTANTS
  Stored          \* what flash may hold: lengths, a string's without its NUL

ASSUME StartupAssumption ==
    Stored \subseteq [ef_user : Nat, ef_mac : Nat, ef_serial : Nat, lookup_table : Nat]

VARIABLES
  boot,           \* the call that comes next, "connect" or "returned"
  nvs,            \* external: what flash holds
  cfg             \* lengths of what has been read

bootVars == <<boot, nvs, cfg>>
vars == <<note, buttonVars, bootVars>>

USER_ID_SIZE == 20
MAC_SIZE     == 6
SERIAL_SIZE  == 17
LUT_SIZE     == 65280

------------------------------------------------------------------------------
(* config.c *)

\* Seeded fault: no room is left for the NUL.
NvsGetStrFull(len, size) == len <= size

\* A string is read only if it fits with its NUL, a blob if it fits.
NvsGetStr(len, size)  == len + 1 <= size
NvsGetBlob(len, size) == len <= size

Fits(field, len) ==
    CASE field = "ef_user"      -> NvsGetStr(len, USER_ID_SIZE)
      [] field = "ef_mac"       -> NvsGetBlob(len, MAC_SIZE)
      [] field = "ef_serial"    -> NvsGetStr(len, SERIAL_SIZE)
      [] field = "lookup_table" -> NvsGetBlob(len, LUT_SIZE)

Fields == {"ef_user", "ef_mac", "ef_serial", "lookup_table"}

------------------------------------------------------------------------------
(* app_main *)

Calls == <<"nvs_flash_init", "nvs_open", "ef_user", "ef_mac", "ef_serial", "lookup_table",
           "isr_service", "AC_gpio", "AC_timer", "AC_handler",
           "DC_gpio", "DC_timer", "DC_handler", "ble_init", "connect">>

Booting == boot \notin {"connect", "returned"}

Proceed ==
    boot' = Calls[1 + CHOOSE i \in DOMAIN Calls : Calls[i] = boot]

Init ==
    /\ note = {}
    /\ ButtonsInit
    /\ boot = Calls[1]
    /\ nvs \in Stored
    /\ cfg = [f \in Fields |-> 0]

\* Calls that only succeed or fail.
Plain == {"nvs_flash_init", "nvs_open", "isr_service", "AC_gpio", "DC_gpio", "ble_init"}

CallSucceeds ==
    /\ boot \in Plain
    /\ Proceed
    /\ UNCHANGED <<note, buttonVars, nvs, cfg>>

\* The configuration is a static variable: what is not read stays zero.
ReadField ==
    /\ boot \in Fields /\ Fits(boot, nvs[boot])
    /\ cfg' = [cfg EXCEPT ![boot] = nvs[boot]]
    /\ Proceed
    /\ UNCHANGED <<note, buttonVars, nvs>>

TimerCreated(btn) ==
    /\ boot = (IF btn = "AC" THEN "AC_timer" ELSE "DC_timer")
    /\ has_timer' = [has_timer EXCEPT ![btn] = TRUE]
    /\ Proceed
    /\ UNCHANGED <<note, contactVars, has_handler, timerVars, historyVars, nvs, cfg>>

HandlerCall(btn) == IF btn = "AC" THEN "AC_handler" ELSE "DC_handler"

HandlerAdded(btn) ==
    /\ boot = HandlerCall(btn)
    /\ has_handler' = [has_handler EXCEPT ![btn] = TRUE]
    /\ Proceed
    /\ UNCHANGED <<note, contactVars, has_timer, timerVars, historyVars, nvs, cfg>>

\* Seeded fault: the timer of a button without a handler is kept.
CallFailsKeepsTimer ==
    /\ Booting
    /\ boot' = "returned"
    /\ UNCHANGED <<note, buttonVars, nvs, cfg>>

\* A call fails and app_main returns; a timer without a handler is deleted.
CallFails ==
    /\ Booting
    /\ boot' = "returned"
    /\ has_timer' = [btn \in Ports |-> has_timer[btn] /\ boot # HandlerCall(btn)]
    /\ UNCHANGED <<note, contactVars, has_handler, timerVars, historyVars, nvs, cfg>>

\* connect_and_authenticate and the streaming loop take whatever bits there are.
OwnerTakes ==
    /\ boot = "connect"
    /\ TakeNotification
    /\ UNCHANGED <<buttonVars, bootVars>>

AppMain ==
    \/ CallSucceeds \/ ReadField \/ CallFails \/ OwnerTakes
    \/ \E btn \in Ports : TimerCreated(btn) \/ HandlerAdded(btn)

\* The buttons' state lives on app_main's stack: the model ends when it returns.
InMain(Step) == boot # "returned" /\ Step /\ UNCHANGED bootVars

Buttons == InMain(ButtonsStep)

Next == AppMain \/ Buttons

Spec == Init /\ [][Next]_vars

\* Time passes, and the interrupt and the timer task are served.
FairSpec ==
    /\ Spec
    /\ WF_vars(InMain(Tick))
    /\ \A btn \in Ports : WF_vars(InMain(Isr(btn)))
    /\ WF_vars(InMain(TimerTask))

------------------------------------------------------------------------------
(* Properties *)

\* One release posts at most one event, bouncing or not, except for a callback
\* that an edge overtakes between its dispatch and its look at the pin: then
\* that callback and the next one both find the button released.
OneEventPerRelease ==
    \A btn \in Ports : events[btn] <= releases[btn] + overtaken[btn]

\* A button released for good is reported, however its contact bounces.
ReleaseReported ==
    \A btn \in Ports :
        unreported[btn] ~> ~unreported[btn] \/ held[btn] \/ boot = "returned"

\* A handler never runs without its timer, and an initialisation that fails
\* leaves neither behind.
AllOrNothing ==
    \A btn \in Ports : boot # HandlerCall(btn) => has_handler[btn] = has_timer[btn]

\* The sizes the handshake counts on (river2_auth.c:416-426): user id and
\* serial number are terminated in their arrays and fit the digest's buffer, so
\* its size check never fires.
DigestFits ==
    boot = "connect" =>
        /\ cfg.ef_user < USER_ID_SIZE /\ cfg.ef_serial < SERIAL_SIZE
        /\ cfg.ef_user + cfg.ef_serial <= USER_ID_SIZE + 20
==============================================================================
