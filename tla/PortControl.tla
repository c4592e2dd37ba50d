----------------------------- MODULE PortControl -----------------------------
(***************************************************************************)
(* The running system after authentication: the streaming loop, the        *)
(* telemetry task, the BLE link between them and the power station, and    *)
(* the two buttons.  The power station and NimBLE are not part of the      *)
(* repository and are modelled from how the code uses them.                *)
(***************************************************************************)
EXTENDS AppMain

CONSTANTS
  OutBytes,       \* bytes a heartbeat may carry for a port's state
  SocBytes,       \* bytes a heartbeat may carry for the battery level
  Forms,          \* packets the station emits: [src, cmd_set, cmd_id, fields]
  MaxPresses,     \* bound on button events
  MaxPanel,       \* bound on changes made at the station itself
  MaxRefusals     \* bound on commands the station receives but does not obey

ASSUME PortControlAssumption ==
    /\ OutBytes \subseteq 0..255 /\ SocBytes \subseteq 0..255
    /\ {0, 1} \subseteq OutBytes
    /\ MaxPresses \in Nat /\ MaxPanel \in Nat /\ MaxRefusals \in Nat
    /\ \A f \in Forms : /\ f.cmd_set \in Nat /\ f.cmd_id \in Nat
                        /\ f.fields \subseteq Ports \cup {"soc"}

VARIABLES
  dev,        \* external: the state byte of each port of the station
  presses,    \* button events so far
  panel,      \* changes made at the station so far
  refusals    \* commands not obeyed so far

stationVars == <<dev, presses, panel, refusals>>
vars == <<note, linkVars, telemetryVars, mainVars, stationVars>>

------------------------------------------------------------------------------
(* The station and the buttons *)

\* A well-formed MPPT heartbeat reports the ports as they are.  Offsets 56
\* and 66 of any other packet hold unrelated bytes.
Truthful(form, val) ==
    form.src = "MPPT" /\ form.cmd_set = HB_SET =>
        \A p \in form.fields \cap Ports : val[p] = dev[p]

Packets(form) ==
    {[src |-> form.src, cmd_set |-> form.cmd_set, cmd_id |-> form.cmd_id, val |-> v] :
        v \in {w \in [form.fields -> OutBytes \cup SocBytes] :
                 /\ \A f \in form.fields : w[f] \in IF f = "soc" THEN SocBytes ELSE OutBytes
                 /\ Truthful(form, w)}}

StationReport(form) ==
    /\ \E p \in Packets(form) : NotifyRx(p)
    /\ UNCHANGED <<note, telemetryVars, mainVars, stationVars>>

\* The station receives the oldest command and obeys it.
StationApply ==
    /\ outbox # <<>>
    /\ outbox' = Tail(outbox)
    /\ dev' = [dev EXCEPT ![Head(outbox).port] = IF Head(outbox).enable THEN 1 ELSE 0]
    /\ UNCHANGED <<note, conn, rxq, telemetryVars, mainVars, presses, panel, refusals>>

\* The station receives the oldest command and leaves the port as it is.
StationRefuse ==
    /\ outbox # <<>>
    /\ refusals < MaxRefusals
    /\ refusals' = refusals + 1
    /\ outbox' = Tail(outbox)
    /\ UNCHANGED <<note, conn, rxq, telemetryVars, mainVars, dev, presses, panel>>

\* Somebody uses the switch on the station.
StationPanel(p) ==
    /\ panel < MaxPanel
    /\ panel' = panel + 1
    /\ \E b \in OutBytes \ {dev[p]} : dev' = [dev EXCEPT ![p] = b]
    /\ UNCHANGED <<note, linkVars, telemetryVars, mainVars, presses, refusals>>

\* pushbutton_debounce_cb found the button released.
Press(p) ==
    /\ presses < MaxPresses
    /\ presses' = presses + 1
    /\ Notify({ToggleEvt[p]})
    /\ UNCHANGED <<linkVars, telemetryVars, mainVars, dev, panel, refusals>>

LinkLoss ==
    /\ GapDisconnect
    /\ UNCHANGED <<telemetryVars, mainVars, stationVars>>

------------------------------------------------------------------------------
Init ==
    /\ note \in SUBSET {"TOGGLE_AC", "TOGGLE_DC"}   \* pressed while connecting
    /\ conn = TRUE /\ rxq = <<>> /\ outbox = <<>>
    /\ TelemetryInit
    /\ MainInit
    /\ dev \in [Ports -> OutBytes \cap {0, 1}]
    /\ presses = 0 /\ panel = 0 /\ refusals = 0

TelemetryTask == TelemetryStep /\ UNCHANGED <<mainVars, stationVars>>
MainTask      == MainStep /\ UNCHANGED stationVars
Clock         == Tick /\ UNCHANGED <<mainVars, stationVars>>

Next ==
    \/ TelemetryTask
    \/ MainTask
    \/ Clock
    \/ \E form \in Forms : StationReport(form)
    \/ StationApply
    \/ StationRefuse
    \/ \E p \in Ports : StationPanel(p) \/ Press(p)
    \/ LinkLoss

Spec == Init /\ [][Next]_vars

\* Both tasks run whenever they can (FreeRTOS never suspends a ready task for
\* good on this two-core chip), NimBLE keeps delivering writes, the station
\* keeps reporting, and a report finds room in the queue again and again:
\* the telemetry task empties the queue far faster than heartbeats arrive.
Fairness ==
    /\ WF_vars(TelemetryTask)
    /\ WF_vars(MainTask)
    /\ WF_vars(StationApply)
    /\ WF_vars(Clock)
    /\ \A form \in Forms : SF_vars(StationReport(form))

FairSpec == Spec /\ Fairness

------------------------------------------------------------------------------
(* Properties *)

Int8s == -128..127

Packet == [src : {f.src : f \in Forms}, cmd_set : Nat, cmd_id : Nat,
           val : UNION {[f.fields -> OutBytes \cup SocBytes] : f \in Forms}]

Command == [port : Ports, enable : BOOLEAN]

\* Every variable holds a value of its C type; both queues respect their
\* capacity.
TypeOK ==
    /\ note \subseteq Events
    /\ conn \in BOOLEAN
    /\ rxq \in Seq(Packet) /\ Len(rxq) <= QueueCap
    /\ outbox \in Seq(Command) /\ Len(outbox) <= OutboxCap
    /\ s_battery_percent \in Int8s
    /\ s_port \in [Ports -> Int8s]
    /\ tpc \in {"recv", "PD", "AC", "DC", "notify"}
    /\ tpc # "recv" => pkt \in Packet
    /\ notify_bits \subseteq {"BATTERY_LEVEL", "AC_STATE", "DC_STATE"}
    /\ cooldown \in 0..BatteryInterval
    /\ bits \subseteq Handled
    /\ on \in [Ports -> BOOLEAN]
    /\ known \in [Ports -> BOOLEAN]
    /\ optimistic \in [Ports -> BOOLEAN]
    /\ dev \in [Ports -> OutBytes]
    /\ presses \in 0..MaxPresses /\ panel \in 0..MaxPanel
    /\ refusals \in 0..MaxRefusals

\* A change of port p is still on its way to the owner.
InFlight(p) == StateEvt[p] \in notify_bits \cup note \cup bits

\* No edge is lost: once no change of a port is on its way to the owner, the
\* owner knows the port if telemetry does, and unless a toggle of its own came
\* later it holds exactly what telemetry last decoded.  The code stores the
\* value, posts the bit and reads the value back in three unsynchronised steps.
NoLostEdge ==
    \A p \in Ports : ~InFlight(p) /\ s_port[p] # -1 =>
        /\ known[p]
        /\ optimistic[p] \/ on[p] = (s_port[p] # 0)

\* The getters are safe when the header says they are: an owner that sees a
\* telemetry bit, and a bit that is still pending, always finds a decoded value.
BitImpliesValue ==
    /\ \A p \in Ports : InFlight(p) => s_port[p] # -1
    /\ "BATTERY_LEVEL" \in notify_bits \cup note \cup bits => s_battery_percent # -1

\* A command is in flight only for a port whose state telemetry has reported:
\* presses made before the first report never reach the station.
CommandsOnlyWhenKnown ==
    \A i \in DOMAIN outbox : s_port[outbox[i].port] # -1

\* The newest command still in flight for a port asks for the state the owner
\* believes in, unless telemetry has told the owner something else since.
LastCommandIsBelief ==
    \A p \in Ports : optimistic[p] =>
        \A i \in DOMAIN outbox :
            outbox[i].port = p /\ (\A j \in DOMAIN outbox : j > i => outbox[j].port # p)
            => outbox[i].enable = on[p]

\* The owner's view and the station agree for good in the end, if the
\* link stays up: presses and changes at the station are bounded.
ViewConverges ==
    []conn => \A p \in Ports : <>[](known[p] /\ on[p] = (dev[p] # 0))

\* While the station keeps sending PD heartbeats the battery level is logged
\* again and again: the throttle delays a report, it never suppresses all.
BatteryLogRecurs ==
    []conn => []<>("BATTERY_LEVEL" \in bits)
==============================================================================
