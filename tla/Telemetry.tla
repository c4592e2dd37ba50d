------------------------------ MODULE Telemetry ------------------------------
(***************************************************************************)
(* river2_telemetry.c: the background task that takes notification data,   *)
(* decodes PD and MPPT heartbeats into three static variables and tells    *)
(* the owner task about changes.  The statics are written before the       *)
(* owner is notified and are read by the owner without a lock, so each     *)
(* store and the notification are steps of their own.                      *)
(*                                                                         *)
(* A packet is [src, cmd_set, cmd_id, val]; val maps the fields that the   *)
(* payload is long enough to hold to their bytes, so a short payload is a  *)
(* val with a smaller domain.  A frame that is not a data frame, does not  *)
(* decrypt or does not parse is dropped like a packet with a foreign       *)
(* cmd_id.                                                                 *)
(***************************************************************************)
EXTENDS Integers, BleLink

CONSTANT BatteryInterval      \* interval_ms, in ticks of the clock

ASSUME TelemetryAssumption == BatteryInterval \in Nat

VARIABLES
  s_battery_percent,  \* last decoded soc, -1 before the first
  s_port,             \* s_ac_enabled and s_dc_out_state, -1 before the first
  tpc,                \* where the task is: "recv", "PD", "AC", "DC", "notify"
  pkt,                \* the packet being decoded
  notify_bits,        \* bits collected for this packet
  cooldown            \* ticks until now_us >= next_notify_us

telemetryVars == <<s_battery_percent, s_port, tpc, pkt, notify_bits, cooldown>>

HEARTBEAT == 2        \* RIVER2_CMDID_HEARTBEAT
HB_SET    == 32       \* RIVER2_CMDSET_HEARTBEAT

\* A payload too short for any field the decoder looks at.
NoFields == [f \in {} |-> 0]

\* The cast (int8_t)byte.
Int8(byte) == IF byte < 128 THEN byte ELSE byte - 256

\* Where the decoder goes with a packet; "recv" drops it.  The PD branch
\* tests cmd_set, the MPPT branch does not.
Dispatch(p) ==
    IF p.cmd_id = HEARTBEAT /\ p.src = "PD" /\ p.cmd_set = HB_SET THEN "PD"
    ELSE IF p.cmd_id = HEARTBEAT /\ p.src = "MPPT" THEN "AC"
    ELSE "recv"

TelemetryInit ==
    /\ s_battery_percent = -1
    /\ s_port = [p \in Ports |-> -1]
    /\ tpc = "recv"
    /\ pkt = [src |-> "none", cmd_set |-> 0, cmd_id |-> 0, val |-> NoFields]
    /\ notify_bits = {}
    /\ cooldown = 0

TelemetryReceive ==
    /\ tpc = "recv"
    /\ WaitNotification
    /\ pkt' = Head(rxq)
    /\ tpc' = Dispatch(Head(rxq))
    /\ notify_bits' = {}
    /\ UNCHANGED <<note, s_battery_percent, s_port, cooldown>>

\* Seeded fault: every heartbeat restarts the throttle.
TelemetryBatteryRestarts ==
    /\ tpc = "PD"
    /\ tpc' = "notify"
    /\ IF "soc" \in DOMAIN pkt.val
       THEN /\ s_battery_percent' = Int8(pkt.val["soc"])
            /\ notify_bits' = IF cooldown = 0 THEN {"BATTERY_LEVEL"} ELSE {}
            /\ cooldown' = BatteryInterval
       ELSE UNCHANGED <<s_battery_percent, notify_bits, cooldown>>
    /\ UNCHANGED <<note, linkVars, s_port, pkt>>

\* Seeded fault: the owner is told although the payload was too short.
TelemetryBatteryUnchecked ==
    /\ tpc = "PD"
    /\ tpc' = "notify"
    /\ s_battery_percent' = IF "soc" \in DOMAIN pkt.val THEN Int8(pkt.val["soc"])
                            ELSE s_battery_percent
    /\ notify_bits' = IF cooldown = 0 THEN {"BATTERY_LEVEL"} ELSE {}
    /\ cooldown' = IF cooldown = 0 THEN BatteryInterval ELSE cooldown
    /\ UNCHANGED <<note, linkVars, s_port, pkt>>

\* The battery level is always stored; only its notification is throttled.
TelemetryBattery ==
    /\ tpc = "PD"
    /\ tpc' = "notify"
    /\ IF "soc" \in DOMAIN pkt.val
       THEN /\ s_battery_percent' = Int8(pkt.val["soc"])
            /\ IF cooldown = 0
               THEN /\ notify_bits' = notify_bits \cup {"BATTERY_LEVEL"}
                    /\ cooldown' = BatteryInterval
               ELSE UNCHANGED <<notify_bits, cooldown>>
       ELSE UNCHANGED <<s_battery_percent, notify_bits, cooldown>>
    /\ UNCHANGED <<note, linkVars, s_port, pkt>>

\* Seeded fault: notify_bits is assigned where the code ORs into it.
TelemetryPortOverwrites(p) ==
    /\ tpc = p
    /\ tpc' = IF p = "AC" THEN "DC" ELSE "notify"
    /\ IF p \in DOMAIN pkt.val /\ Int8(pkt.val[p]) # s_port[p]
       THEN /\ s_port' = [s_port EXCEPT ![p] = Int8(pkt.val[p])]
            /\ notify_bits' = {StateEvt[p]}
       ELSE UNCHANGED <<s_port, notify_bits>>
    /\ UNCHANGED <<note, linkVars, s_battery_percent, pkt, cooldown>>

\* Seeded fault: the owner is told but the value is not stored.
TelemetryPortUnstored(p) ==
    /\ tpc = p
    /\ tpc' = IF p = "AC" THEN "DC" ELSE "notify"
    /\ notify_bits' = IF p \in DOMAIN pkt.val /\ Int8(pkt.val[p]) # s_port[p]
                      THEN notify_bits \cup {StateEvt[p]} ELSE notify_bits
    /\ UNCHANGED <<note, linkVars, s_port, s_battery_percent, pkt, cooldown>>

\* Port states are edge-triggered: the owner hears of a change only.
TelemetryPort(p) ==
    /\ tpc = p
    /\ tpc' = IF p = "AC" THEN "DC" ELSE "notify"
    /\ IF p \in DOMAIN pkt.val /\ Int8(pkt.val[p]) # s_port[p]
       THEN /\ s_port' = [s_port EXCEPT ![p] = Int8(pkt.val[p])]
            /\ notify_bits' = notify_bits \cup {StateEvt[p]}
       ELSE UNCHANGED <<s_port, notify_bits>>
    /\ UNCHANGED <<note, linkVars, s_battery_percent, pkt, cooldown>>

TelemetryNotify ==
    /\ tpc = "notify"
    /\ tpc' = "recv"
    /\ Notify(notify_bits)
    /\ notify_bits' = {}
    /\ UNCHANGED <<linkVars, s_battery_percent, s_port, pkt, cooldown>>

TelemetryStep ==
    \/ TelemetryReceive
    \/ TelemetryBattery
    \/ \E p \in Ports : TelemetryPort(p)
    \/ TelemetryNotify

\* Time passes (esp_timer_get_time), as far as the throttle can tell.
Tick ==
    /\ cooldown > 0
    /\ cooldown' = cooldown - 1
    /\ UNCHANGED <<note, linkVars, s_battery_percent, s_port, tpc, pkt, notify_bits>>
==============================================================================
