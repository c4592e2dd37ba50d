------------------------------ MODULE AppEvents ------------------------------
(***************************************************************************)
(* app_events.h: the task-notification bits of the owner task (the task    *)
(* that runs app_main), and the notification value itself.  Every other    *)
(* context (the NimBLE host task, the telemetry task, the esp_timer task)  *)
(* talks to the owner task by setting bits with xTaskNotify(.., eSetBits); *)
(* the owner takes and clears all of them with xTaskNotifyWait.            *)
(***************************************************************************)

Ports == {"AC", "DC"}

BleEvents == {"HOST_SYNC", "CONNECTED", "CONNECT_ERROR", "DISCONNECTED"}

StateEvt  == [AC |-> "AC_STATE",  DC |-> "DC_STATE"]
ToggleEvt == [AC |-> "TOGGLE_AC", DC |-> "TOGGLE_DC"]

\* The bits the streaming loop of app_main reacts to; all others are dropped.
Handled == {"AC_STATE", "DC_STATE", "BATTERY_LEVEL", "TOGGLE_AC", "TOGGLE_DC"}

Events == BleEvents \cup Handled

VARIABLE note       \* set of bits pending in the owner's notification value

\* xTaskNotify(owner, evts, eSetBits)
Notify(evts) == note' = note \cup evts

\* xTaskNotifyWait(0, UINT32_MAX, &bits, ..) returning: all bits are cleared.
TakeNotification == note # {} /\ note' = {}
==============================================================================
