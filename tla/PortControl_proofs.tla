-------------------------- MODULE PortControl_proofs --------------------------
(***************************************************************************)
(* Proofs about PortControl, for every value of its constants: any queue   *)
(* lengths, any heartbeat forms and bytes, any number of presses, changes  *)
(* at the station and refused commands.                                    *)
(***************************************************************************)
EXTENDS PortControl, TLAPS

USE BleLinkAssumption, TelemetryAssumption, PortControlAssumption
    DEF Ports, linkVars, telemetryVars, mainVars, stationVars

------------------------------------------------------------------------------
(* Facts about the data *)

\* The byte cast of river2_telemetry.c:83,90 yields an int8_t, and only the
\* byte 255 becomes the "none arrived" value.
LEMMA Int8Type ==
    ASSUME NEW b \in 0..255
    PROVE  Int8(b) \in Int8s /\ (Int8(b) = -1 <=> b = 255)
BY DEF Int8, Int8s

\* What the station puts on the air is a packet of the type the queue holds.
LEMMA PacketsType ==
    ASSUME NEW form \in Forms, NEW p \in Packets(form)
    PROVE  p \in Packet
BY DEF Packets, Packet

LEMMA PacketVal ==
    ASSUME NEW p \in Packet, NEW f \in DOMAIN p.val
    PROVE  p.val[f] \in OutBytes \cup SocBytes /\ p.val[f] \in 0..255
<1>1. PICK form \in Forms : p.val \in [form.fields -> OutBytes \cup SocBytes]
  BY DEF Packet
<1>2. QED BY <1>1

LEMMA EventNames ==
    /\ \A p \in Ports : /\ StateEvt[p] \in Handled /\ ToggleEvt[p] \in Handled
                        /\ StateEvt[p] \in {"BATTERY_LEVEL", "AC_STATE", "DC_STATE"}
                        /\ ToggleEvt[p] \notin {"BATTERY_LEVEL", "AC_STATE", "DC_STATE"}
                        /\ StateEvt[p] # "BATTERY_LEVEL"
    /\ \A p, q \in Ports : p # q => StateEvt[p] # StateEvt[q]
    /\ Handled \subseteq Events /\ "DISCONNECTED" \in Events
    /\ {"BATTERY_LEVEL", "AC_STATE", "DC_STATE"} \subseteq Handled
BY DEF StateEvt, ToggleEvt, Handled, Events, BleEvents

------------------------------------------------------------------------------
(* Type correctness *)

LEMMA TypeInit == Init => TypeOK
BY EventNames DEF Init, TelemetryInit, MainInit, TypeOK, Events, Handled, Int8s

LEMMA TypeTelemetry == TypeOK /\ TelemetryTask => TypeOK'
<1> SUFFICES ASSUME TypeOK, TelemetryTask PROVE TypeOK'
  OBVIOUS
<1> USE DEF TypeOK, TelemetryTask
<1>1. CASE TelemetryReceive
  <2>1. /\ rxq' \in Seq(Packet) /\ Len(rxq') <= QueueCap
        /\ Head(rxq) \in Packet
    BY <1>1 DEF TelemetryReceive, WaitNotification
  <2>2. tpc' \in {"recv", "PD", "AC"}
    BY <1>1 DEF TelemetryReceive, Dispatch
  <2>3. QED
    BY <1>1, <2>1, <2>2 DEF TelemetryReceive, WaitNotification
<1>2. CASE TelemetryBattery
  <2>1. pkt \in Packet
    BY <1>2 DEF TelemetryBattery
  <2>2. s_battery_percent' \in Int8s
    <3>1. CASE "soc" \in DOMAIN pkt.val
      <4>1. pkt.val["soc"] \in 0..255
        BY <2>1, <3>1, PacketVal
      <4>2. Int8(pkt.val["soc"]) \in Int8s
        BY <4>1, Int8Type
      <4>3. QED
        BY <1>2, <3>1, <4>2 DEF TelemetryBattery
    <3>2. CASE "soc" \notin DOMAIN pkt.val
      BY <1>2, <3>2 DEF TelemetryBattery
    <3>3. QED
      BY <3>1, <3>2
  <2>3. cooldown' \in 0..BatteryInterval
    BY <1>2 DEF TelemetryBattery
  <2>4. QED
    BY <1>2, <2>1, <2>2, <2>3 DEF TelemetryBattery
<1>3. ASSUME NEW p \in Ports, TelemetryPort(p) PROVE TypeOK'
  <2>1. pkt \in Packet
    BY <1>3 DEF TelemetryPort
  <2>2. s_port' \in [Ports -> Int8s]
    <3>1. CASE p \in DOMAIN pkt.val
      <4>1. pkt.val[p] \in 0..255
        BY <2>1, <3>1, PacketVal
      <4>2. Int8(pkt.val[p]) \in Int8s
        BY <4>1, Int8Type
      <4>3. QED
        BY <1>3, <3>1, <4>2, SMTT(30) DEF TelemetryPort
    <3>2. CASE p \notin DOMAIN pkt.val
      BY <1>3, <3>2 DEF TelemetryPort
    <3>3. QED
      BY <3>1, <3>2
  <2>3. notify_bits' \subseteq {"BATTERY_LEVEL", "AC_STATE", "DC_STATE"}
    BY <1>3, EventNames, ZenonT(40) DEF TelemetryPort
  <2>4. QED
    BY <1>3, <2>1, <2>2, <2>3 DEF TelemetryPort
<1>4. CASE TelemetryNotify
  <2>1. note' \subseteq Events
    BY <1>4, EventNames, ZenonT(40) DEF TelemetryNotify, Notify
  <2>2. QED
    BY <1>4, <2>1 DEF TelemetryNotify
<1>5. QED
  BY <1>1, <1>2, <1>3, <1>4 DEF TelemetryStep

LEMMA TypeMain == TypeOK /\ MainTask => TypeOK'
<1> SUFFICES ASSUME TypeOK, MainTask PROVE TypeOK'
  OBVIOUS
<1> USE DEF TypeOK, MainTask
<1>1. CASE MainWait
  BY <1>1 DEF MainWait, TakeNotification
<1>2. CASE MainBattery
  BY <1>2 DEF MainBattery, Done
<1>3. ASSUME NEW p \in Ports, MainPortState(p) PROVE TypeOK'
  BY <1>3 DEF MainPortState, Done
<1>4. ASSUME NEW p \in Ports, MainToggleIgnored(p) PROVE TypeOK'
  BY <1>4 DEF MainToggleIgnored, Done
<1>5. ASSUME NEW p \in Ports, MainToggleSent(p) PROVE TypeOK'
  <2>1. [port |-> p, enable |-> ~on[p]] \in Command
    BY DEF Command
  <2>2. outbox' \in Seq(Command) /\ Len(outbox') <= OutboxCap
    BY <1>5, <2>1 DEF MainToggleSent, BleWriteOk
  <2>3. QED
    BY <1>5, <2>2 DEF MainToggleSent, BleWriteOk, Done
<1>6. ASSUME NEW p \in Ports, MainToggleFailed(p) PROVE TypeOK'
  BY <1>6 DEF MainToggleFailed, BleWriteFails, Done
<1>7. QED
  BY <1>1, <1>2, <1>3, <1>4, <1>5, <1>6 DEF MainStep

LEMMA TypeEnvironment ==
    ASSUME TypeOK,
           \/ Clock
           \/ \E form \in Forms : StationReport(form)
           \/ StationApply
           \/ StationRefuse
           \/ \E p \in Ports : StationPanel(p) \/ Press(p)
           \/ LinkLoss
    PROVE  TypeOK'
<1> USE DEF TypeOK
<1>1. CASE Clock
  BY <1>1 DEF Clock, Tick
<1>2. ASSUME NEW form \in Forms, StationReport(form) PROVE TypeOK'
  <2>1. PICK p \in Packets(form) : NotifyRx(p)
    BY <1>2 DEF StationReport
  <2>2. rxq' \in Seq(Packet) /\ Len(rxq') <= QueueCap
    BY <2>1, PacketsType DEF NotifyRx
  <2>3. QED
    BY <1>2, <2>1, <2>2 DEF StationReport, NotifyRx
<1>3. CASE StationApply
  <2>1. Head(outbox) \in Command /\ outbox' \in Seq(Command) /\ Len(outbox') <= OutboxCap
    BY <1>3 DEF StationApply
  <2>2. dev' \in [Ports -> OutBytes]
    BY <1>3, <2>1 DEF StationApply, Command
  <2>3. QED
    BY <1>3, <2>1, <2>2 DEF StationApply
<1>4. CASE StationRefuse
  BY <1>4 DEF StationRefuse
<1>5. ASSUME NEW p \in Ports, StationPanel(p) PROVE TypeOK'
  <2>1. PICK b \in OutBytes : dev' = [dev EXCEPT ![p] = b]
    BY <1>5 DEF StationPanel
  <2>2. dev' \in [Ports -> OutBytes]
    BY <2>1
  <2>3. QED
    BY <1>5, <2>2 DEF StationPanel
<1>6. ASSUME NEW p \in Ports, Press(p) PROVE TypeOK'
  BY <1>6, EventNames DEF Press, Notify
<1>7. CASE LinkLoss
  <2>1. outbox' \in Seq(Command) /\ Len(outbox') <= OutboxCap
    BY <1>7 DEF LinkLoss, GapDisconnect
  <2>2. note' \subseteq Events
    BY <1>7, EventNames DEF LinkLoss, GapDisconnect, Notify
  <2>3. QED
    BY <1>7, <2>1, <2>2 DEF LinkLoss, GapDisconnect
<1>8. QED
  BY <1>1, <1>2, <1>3, <1>4, <1>5, <1>6, <1>7

LEMMA TypeStutter == TypeOK /\ UNCHANGED vars => TypeOK'
BY DEF TypeOK, vars

\* Every variable keeps a value of its C type and both queues respect their
\* capacity, whatever the lengths of the queues and the bytes received.
THEOREM TypeCorrect == Spec => []TypeOK
<1>1. TypeOK /\ [Next]_vars => TypeOK'
  BY TypeTelemetry, TypeMain, TypeEnvironment, TypeStutter DEF Next
<1>2. QED
  BY TypeInit, <1>1, PTL DEF Spec
------------------------------------------------------------------------------
(* No edge is lost *)

\* Between packets the telemetry task holds no bit back.
Quiet == tpc = "recv" => notify_bits = {}

EdgeInv == TypeOK /\ Quiet /\ NoLostEdge

\* A step that takes no state bit out of the pipeline and leaves the owner's
\* view and the decoded values alone cannot lose an edge.
LEMMA EdgeFrame ==
    ASSUME NoLostEdge, \A p \in Ports : InFlight(p) => InFlight(p)',
           UNCHANGED <<s_port, known, on, optimistic>>
    PROVE  NoLostEdge'
BY DEF NoLostEdge

LEMMA EdgeInit == Init => EdgeInv
<1> SUFFICES ASSUME Init PROVE EdgeInv
  OBVIOUS
<1>1. TypeOK
  BY TypeInit
<1>2. QED
  BY <1>1 DEF Init, TelemetryInit, EdgeInv, Quiet, NoLostEdge

LEMMA EdgeTelemetry ==
    ASSUME EdgeInv, TelemetryTask
    PROVE  Quiet' /\ NoLostEdge'
<1> USE DEF EdgeInv, TelemetryTask, Quiet
<1>1. CASE TelemetryReceive
  <2>1. \A p \in Ports : InFlight(p) => InFlight(p)'
    BY <1>1 DEF TelemetryReceive, InFlight
  <2>2. QED
    BY <1>1, <2>1, EdgeFrame DEF TelemetryReceive
<1>2. CASE TelemetryBattery
  <2>1. \A p \in Ports : InFlight(p) => InFlight(p)'
    BY <1>2 DEF TelemetryBattery, InFlight
  <2>2. QED
    BY <1>2, <2>1, EdgeFrame DEF TelemetryBattery
<1>3. ASSUME NEW q \in Ports, TelemetryPort(q) PROVE Quiet' /\ NoLostEdge'
  <2>1. Quiet'
    BY <1>3 DEF TelemetryPort
  <2>2. ASSUME NEW p \in Ports, ~InFlight(p)', s_port'[p] # -1
        PROVE  known'[p] /\ (optimistic'[p] \/ on'[p] = (s_port'[p] # 0))
    <3>1. ~InFlight(p)
      BY <1>3, <2>2 DEF TelemetryPort, InFlight
    <3>2. s_port'[p] = s_port[p]
      <4>1. CASE p = q
        BY <1>3, <2>2, <4>1 DEF TelemetryPort, InFlight
      <4>2. CASE p # q
        BY <1>3, <4>2 DEF TelemetryPort, TypeOK
      <4>3. QED
        BY <4>1, <4>2
    <3>3. QED
      BY <1>3, <2>2, <3>1, <3>2 DEF TelemetryPort, NoLostEdge
  <2>3. QED
    BY <2>1, <2>2 DEF NoLostEdge
<1>4. CASE TelemetryNotify
  <2>1. \A p \in Ports : InFlight(p) => InFlight(p)'
    BY <1>4 DEF TelemetryNotify, Notify, InFlight
  <2>2. QED
    BY <1>4, <2>1, EdgeFrame DEF TelemetryNotify
<1>5. QED
  BY <1>1, <1>2, <1>3, <1>4 DEF TelemetryStep

\* A toggle event is no state bit, so working it off takes no edge out.
LEMMA OtherBitDone ==
    ASSUME NEW evt, \A p \in Ports : StateEvt[p] # evt, Done(evt),
           UNCHANGED <<note, notify_bits>>
    PROVE  \A p \in Ports : InFlight(p) <=> InFlight(p)'
BY DEF Done, InFlight

LEMMA EdgeMain ==
    ASSUME EdgeInv, MainTask
    PROVE  Quiet' /\ NoLostEdge'
<1> USE DEF EdgeInv, MainTask
<1>0. Quiet'
  BY DEF MainStep, MainWait, MainBattery, MainPortState, MainToggleIgnored,
         MainToggleSent, MainToggleFailed, Quiet
<1>1. CASE MainWait
  <2>1. \A p \in Ports : InFlight(p) => InFlight(p)'
    BY <1>1, EventNames DEF MainWait, TakeNotification, InFlight
  <2>2. QED
    BY <1>0, <1>1, <2>1, EdgeFrame DEF MainWait
<1>2. CASE MainBattery
  <2>1. \A p \in Ports : InFlight(p) => InFlight(p)'
    BY <1>2, OtherBitDone, EventNames DEF MainBattery
  <2>2. QED
    BY <1>0, <1>2, <2>1, EdgeFrame DEF MainBattery
<1>3. ASSUME NEW q \in Ports, MainPortState(q) PROVE Quiet' /\ NoLostEdge'
  <2>1. ASSUME NEW p \in Ports, ~InFlight(p)', s_port'[p] # -1
        PROVE  known'[p] /\ (optimistic'[p] \/ on'[p] = (s_port'[p] # 0))
    <3>1. CASE p = q
      BY <1>3, <3>1 DEF MainPortState, TypeOK
    <3>2. CASE p # q
      <4>1. ~InFlight(p)
        BY <1>3, <2>1, <3>2, EventNames DEF MainPortState, Done, InFlight
      <4>2. /\ known'[p] = known[p] /\ optimistic'[p] = optimistic[p]
            /\ on'[p] = on[p] /\ s_port' = s_port
        BY <1>3, <3>2 DEF MainPortState, TypeOK
      <4>3. QED
        BY <2>1, <4>1, <4>2 DEF NoLostEdge
    <3>3. QED
      BY <3>1, <3>2
  <2>2. QED
    BY <1>0, <2>1 DEF NoLostEdge
<1>4. ASSUME NEW q \in Ports, MainToggleIgnored(q) PROVE Quiet' /\ NoLostEdge'
  <2>1. \A p \in Ports : InFlight(p) => InFlight(p)'
    BY <1>4, OtherBitDone, EventNames DEF MainToggleIgnored
  <2>2. QED
    BY <1>0, <1>4, <2>1, EdgeFrame DEF MainToggleIgnored
<1>5. ASSUME NEW q \in Ports, MainToggleSent(q) PROVE Quiet' /\ NoLostEdge'
  <2>1. \A p \in Ports : InFlight(p) <=> InFlight(p)'
    BY <1>5, OtherBitDone, EventNames DEF MainToggleSent
  <2>2. ASSUME NEW p \in Ports, ~InFlight(p)', s_port'[p] # -1
        PROVE  known'[p] /\ (optimistic'[p] \/ on'[p] = (s_port'[p] # 0))
    <3>1. known'[p]
      BY <1>5, <2>1, <2>2 DEF MainToggleSent, NoLostEdge
    <3>2. CASE p = q
      BY <1>5, <3>1, <3>2 DEF MainToggleSent, TypeOK
    <3>3. CASE p # q
      <4>1. on'[p] = on[p] /\ optimistic'[p] = optimistic[p] /\ s_port' = s_port
        BY <1>5, <3>3 DEF MainToggleSent, TypeOK
      <4>2. QED
        BY <2>1, <2>2, <3>1, <4>1 DEF NoLostEdge
    <3>4. QED
      BY <3>2, <3>3
  <2>3. QED
    BY <1>0, <2>2 DEF NoLostEdge
<1>6. ASSUME NEW q \in Ports, MainToggleFailed(q) PROVE Quiet' /\ NoLostEdge'
  <2>1. \A p \in Ports : InFlight(p) => InFlight(p)'
    BY <1>6, OtherBitDone, EventNames DEF MainToggleFailed
  <2>2. QED
    BY <1>0, <1>6, <2>1, EdgeFrame DEF MainToggleFailed
<1>7. QED
  BY <1>1, <1>2, <1>3, <1>4, <1>5, <1>6 DEF MainStep

\* Whatever the station, the buttons and the clock do, they only add bits.
LEMMA EdgeEnvironment ==
    ASSUME EdgeInv,
           \/ Clock
           \/ \E form \in Forms : StationReport(form)
           \/ StationApply
           \/ StationRefuse
           \/ \E p \in Ports : StationPanel(p) \/ Press(p)
           \/ LinkLoss
           \/ UNCHANGED vars
    PROVE  Quiet' /\ NoLostEdge'
<1>1. /\ note \subseteq note'
      /\ UNCHANGED <<bits, notify_bits, tpc, s_port, known, on, optimistic>>
  <2>1. CASE \E form \in Forms : StationReport(form)
    BY <2>1 DEF StationReport, NotifyRx
  <2>2. CASE \E p \in Ports : StationPanel(p) \/ Press(p)
    BY <2>2 DEF StationPanel, Press, Notify
  <2>3. CASE LinkLoss
    BY <2>3 DEF LinkLoss, GapDisconnect, Notify
  <2>4. CASE Clock \/ StationApply \/ StationRefuse \/ UNCHANGED vars
    BY <2>4 DEF Clock, Tick, StationApply, StationRefuse, vars
  <2>5. QED
    BY <2>1, <2>2, <2>3, <2>4
<1>2. \A p \in Ports : InFlight(p) => InFlight(p)'
  BY <1>1 DEF InFlight
<1>3. QED
  BY <1>1, <1>2, EdgeFrame DEF EdgeInv, Quiet

\* The owner never misses a change that telemetry has decoded, although the
\* value, the bit and the read of the value are three unsynchronised steps.
THEOREM EdgesKept == Spec => []NoLostEdge
<1>1. TypeOK' /\ EdgeInv /\ [Next]_vars => EdgeInv'
  BY EdgeTelemetry, EdgeMain, EdgeEnvironment DEF Next, EdgeInv
<1>2. EdgeInv => NoLostEdge
  BY DEF EdgeInv
<1>3. QED
  BY EdgeInit, TypeCorrect, <1>1, <1>2, PTL DEF Spec
------------------------------------------------------------------------------
(* A pending bit means a decoded value, and no command precedes the first
   report: true as long as no heartbeat carries the byte 255, which the cast
   to int8_t turns into the "none arrived" value. *)

\* A port the owner knows has been decoded.
KnownIsDecoded == \A p \in Ports : known[p] => s_port[p] # -1

ValueInv == BitImpliesValue /\ KnownIsDecoded /\ CommandsOnlyWhenKnown

\* Once a value has been decoded it is never "none" again.
DecodedForGood ==
    /\ \A p \in Ports : s_port[p] # -1 => s_port'[p] # -1
    /\ s_battery_percent # -1 => s_battery_percent' # -1

\* A step that adds no telemetry bit, learns no port and sends no command.
LEMMA ValueFrame ==
    ASSUME ValueInv, DecodedForGood,
           \A p \in Ports : InFlight(p)' => InFlight(p),
           "BATTERY_LEVEL" \in (notify_bits \cup note \cup bits)'
               => "BATTERY_LEVEL" \in notify_bits \cup note \cup bits,
           \A p \in Ports : known'[p] => known[p]
    PROVE  BitImpliesValue' /\ KnownIsDecoded'
BY DEF ValueInv, BitImpliesValue, KnownIsDecoded, DecodedForGood

\* Commands in flight stay commands for decoded ports when they move up.
LEMMA CommandFrame ==
    ASSUME TypeOK, CommandsOnlyWhenKnown, DecodedForGood,
           outbox' \in {outbox, <<>>} \/ (outbox # <<>> /\ outbox' = Tail(outbox))
    PROVE  CommandsOnlyWhenKnown'
<1>0. \A i \in DOMAIN outbox : outbox[i].port \in Ports
  <2>1. outbox \in Seq(Command)
    BY DEF TypeOK
  <2>2. ASSUME NEW i \in DOMAIN outbox PROVE outbox[i] \in Command
    BY <2>1, <2>2
  <2>3. QED
    BY <2>2 DEF Command
<1> USE DEF CommandsOnlyWhenKnown, DecodedForGood, TypeOK
<1>1. CASE outbox' = outbox
  BY <1>0, <1>1
<1>2. CASE outbox' = <<>>
  BY <1>2
<1>3. CASE outbox # <<>> /\ outbox' = Tail(outbox)
  <2>1. ASSUME NEW i \in DOMAIN outbox' PROVE s_port'[outbox'[i].port] # -1
    <3>1. i + 1 \in DOMAIN outbox /\ outbox'[i] = outbox[i + 1]
      BY <1>3, <2>1
    <3>2. outbox[i + 1].port \in Ports /\ s_port[outbox[i + 1].port] # -1
      BY <1>0, <3>1
    <3>3. QED
      BY <3>1, <3>2
  <2>2. QED
    BY <2>1
<1>4. QED
  BY <1>1, <1>2, <1>3

LEMMA ValueTelemetry ==
    ASSUME 255 \notin OutBytes \cup SocBytes,
           TypeOK, ValueInv, TelemetryTask
    PROVE  ValueInv'
<1> USE DEF TelemetryTask
<1>0. outbox' = outbox /\ known' = known
  BY DEF TelemetryStep, TelemetryReceive, TelemetryBattery, TelemetryPort,
         TelemetryNotify, WaitNotification
<1>1. ASSUME NEW f \in DOMAIN pkt.val, tpc # "recv" PROVE Int8(pkt.val[f]) # -1
  <2>1. pkt.val[f] \in 0..255 /\ pkt.val[f] # 255
    BY <1>1, PacketVal DEF TypeOK
  <2>2. QED
    BY <2>1, Int8Type
<1>2. CASE TelemetryReceive
  <2>1. DecodedForGood
    BY <1>2 DEF TelemetryReceive, DecodedForGood
  <2>2. BitImpliesValue' /\ KnownIsDecoded'
    BY <1>2, <2>1, <1>0, ValueFrame DEF TelemetryReceive, InFlight
  <2>3. QED
    BY <1>0, <2>1, <2>2, CommandFrame DEF ValueInv
<1>3. CASE TelemetryBattery
  <2>1. s_battery_percent' # -1 \/ (s_battery_percent' = s_battery_percent
                                    /\ notify_bits' = notify_bits)
    BY <1>1, <1>3 DEF TelemetryBattery
  <2>2. DecodedForGood
    BY <1>3, <2>1 DEF TelemetryBattery, DecodedForGood
  <2>3. \A p \in Ports : InFlight(p)' => InFlight(p)
    BY <1>3, EventNames DEF TelemetryBattery, InFlight
  <2>4. BitImpliesValue' /\ KnownIsDecoded'
    <3>1. "BATTERY_LEVEL" \in (notify_bits \cup note \cup bits)' => s_battery_percent' # -1
      BY <1>3, <2>1 DEF TelemetryBattery, ValueInv, BitImpliesValue
    <3>2. QED
      BY <1>0, <2>2, <2>3, <3>1
         DEF BitImpliesValue, KnownIsDecoded, ValueInv, DecodedForGood
  <2>5. QED
    BY <1>0, <2>2, <2>4, CommandFrame DEF ValueInv
<1>4. ASSUME NEW q \in Ports, TelemetryPort(q) PROVE ValueInv'
  <2>1. \/ s_port' = s_port /\ notify_bits' = notify_bits
        \/ /\ s_port'[q] # -1 /\ \A p \in Ports \ {q} : s_port'[p] = s_port[p]
           /\ notify_bits' = notify_bits \cup {StateEvt[q]}
    <3>1. CASE q \in DOMAIN pkt.val
      <4>1. Int8(pkt.val[q]) # -1
        BY <1>1, <1>4, <3>1 DEF TelemetryPort
      <4>2. QED
        BY <1>4, <3>1, <4>1 DEF TelemetryPort, TypeOK
    <3>2. CASE q \notin DOMAIN pkt.val
      BY <1>4, <3>2 DEF TelemetryPort
    <3>3. QED
      BY <3>1, <3>2
  <2>2. DecodedForGood
    BY <1>4, <2>1 DEF TelemetryPort, DecodedForGood
  <2>3. ASSUME NEW p \in Ports, InFlight(p)' PROVE s_port'[p] # -1
    <3>1. CASE InFlight(p)
      BY <2>2, <3>1 DEF DecodedForGood, ValueInv, BitImpliesValue
    <3>2. CASE ~InFlight(p)
      BY <1>4, <2>1, <2>3, <3>2, EventNames DEF TelemetryPort, InFlight
    <3>3. QED
      BY <3>1, <3>2
  <2>4. "BATTERY_LEVEL" \in (notify_bits \cup note \cup bits)' => s_battery_percent' # -1
    BY <1>4, <2>1, EventNames DEF TelemetryPort, ValueInv, BitImpliesValue
  <2>5. BitImpliesValue' /\ KnownIsDecoded'
    BY <1>0, <2>2, <2>3, <2>4
       DEF BitImpliesValue, KnownIsDecoded, ValueInv, DecodedForGood
  <2>6. QED
    BY <1>0, <2>2, <2>5, CommandFrame DEF ValueInv
<1>5. CASE TelemetryNotify
  <2>1. DecodedForGood
    BY <1>5 DEF TelemetryNotify, DecodedForGood
  <2>2. BitImpliesValue' /\ KnownIsDecoded'
    BY <1>5, <2>1, <1>0, ValueFrame DEF TelemetryNotify, Notify, InFlight
  <2>3. QED
    BY <1>0, <2>1, <2>2, CommandFrame DEF ValueInv
<1>6. QED
  BY <1>2, <1>3, <1>4, <1>5 DEF TelemetryStep

LEMMA ValueMain ==
    ASSUME TypeOK, ValueInv, MainTask
    PROVE  ValueInv'
<1> USE DEF MainTask
<1>1. UNCHANGED <<s_port, s_battery_percent>> /\ DecodedForGood
  BY DEF MainStep, MainWait, MainBattery, MainPortState, MainToggleIgnored,
         MainToggleSent, MainToggleFailed, DecodedForGood
<1>2. CASE MainWait
  <2>1. /\ \A p \in Ports : InFlight(p)' => InFlight(p)
        /\ "BATTERY_LEVEL" \in (notify_bits \cup note \cup bits)'
               => "BATTERY_LEVEL" \in notify_bits \cup note \cup bits
    BY <1>2 DEF MainWait, TakeNotification, InFlight
  <2>2. BitImpliesValue' /\ KnownIsDecoded'
    BY <1>1, <1>2, <2>1, ValueFrame DEF MainWait
  <2>3. QED
    BY <1>1, <1>2, <2>2, CommandFrame DEF MainWait, ValueInv
<1>3. ASSUME bits' \subseteq bits, UNCHANGED <<note, notify_bits>>,
             \A p \in Ports : known'[p] => known[p] \/ s_port[p] # -1
      PROVE  BitImpliesValue' /\ KnownIsDecoded'
  BY <1>1, <1>3 DEF ValueInv, BitImpliesValue, KnownIsDecoded, InFlight
<1>4. CASE MainBattery
  BY <1>1, <1>3, <1>4, CommandFrame DEF MainBattery, Done, ValueInv
<1>5. ASSUME NEW q \in Ports, MainPortState(q) PROVE ValueInv'
  <2>1. s_port[q] # -1
    BY <1>5 DEF MainPortState, Turn, ValueInv, BitImpliesValue, InFlight
  <2>2. \A p \in Ports : known'[p] => known[p] \/ s_port[p] # -1
    BY <1>5, <2>1 DEF MainPortState, TypeOK
  <2>3. BitImpliesValue' /\ KnownIsDecoded'
    BY <1>3, <1>5, <2>2 DEF MainPortState, Done
  <2>4. QED
    BY <1>1, <1>5, <2>3, CommandFrame DEF MainPortState, ValueInv
<1>6. ASSUME NEW q \in Ports, MainToggleIgnored(q) PROVE ValueInv'
  BY <1>1, <1>3, <1>6, CommandFrame DEF MainToggleIgnored, Done, ValueInv
<1>7. ASSUME NEW q \in Ports, MainToggleSent(q) PROVE ValueInv'
  <2>1. s_port[q] # -1
    BY <1>7 DEF MainToggleSent, ValueInv, KnownIsDecoded
  <2>2. outbox' = Append(outbox, [port |-> q, enable |-> ~on[q]])
    BY <1>7 DEF MainToggleSent, BleWriteOk
  <2>3. outbox \in Seq(Command)
    BY DEF TypeOK
  <2>4. CommandsOnlyWhenKnown'
    <3>1. ASSUME NEW i \in DOMAIN outbox' PROVE s_port'[outbox'[i].port] # -1
      <4>1. CASE i \in DOMAIN outbox
        BY <1>1, <2>2, <2>3, <4>1 DEF ValueInv, CommandsOnlyWhenKnown
      <4>2. CASE i = Len(outbox) + 1
        <5>1. outbox'[i] = [port |-> q, enable |-> ~on[q]]
          BY <2>2, <2>3, <4>2
        <5>2. QED
          BY <1>1, <2>1, <5>1
      <4>3. QED
        BY <2>2, <2>3, <4>1, <4>2
    <3>2. QED
      BY <3>1 DEF CommandsOnlyWhenKnown
  <2>5. BitImpliesValue' /\ KnownIsDecoded'
    BY <1>3, <1>7 DEF MainToggleSent, BleWriteOk, Done
  <2>6. QED
    BY <2>4, <2>5 DEF ValueInv
<1>8. ASSUME NEW q \in Ports, MainToggleFailed(q) PROVE ValueInv'
  BY <1>1, <1>3, <1>8, CommandFrame DEF MainToggleFailed, BleWriteFails, Done, ValueInv
<1>9. QED
  BY <1>2, <1>4, <1>5, <1>6, <1>7, <1>8 DEF MainStep

LEMMA ValueEnvironment ==
    ASSUME TypeOK, ValueInv,
           \/ Clock
           \/ \E form \in Forms : StationReport(form)
           \/ StationApply
           \/ StationRefuse
           \/ \E p \in Ports : StationPanel(p) \/ Press(p)
           \/ LinkLoss
           \/ UNCHANGED vars
    PROVE  ValueInv'
<1>1. /\ {"BATTERY_LEVEL", "AC_STATE", "DC_STATE"} \cap note' \subseteq note
      /\ UNCHANGED <<bits, notify_bits, s_port, s_battery_percent, known>>
      /\ outbox' \in {outbox, <<>>} \/ (outbox # <<>> /\ outbox' = Tail(outbox))
  <2>1. CASE \E form \in Forms : StationReport(form)
    BY <2>1 DEF StationReport, NotifyRx
  <2>2. CASE \E p \in Ports : StationPanel(p) \/ Press(p)
    BY <2>2, EventNames DEF StationPanel, Press, Notify
  <2>3. CASE LinkLoss
    BY <2>3, EventNames DEF LinkLoss, GapDisconnect, Notify
  <2>4. CASE Clock \/ StationApply \/ StationRefuse \/ UNCHANGED vars
    BY <2>4 DEF Clock, Tick, StationApply, StationRefuse, vars
  <2>5. QED
    BY <2>1, <2>2, <2>3, <2>4
<1>2. DecodedForGood
  BY <1>1 DEF DecodedForGood
<1>3. /\ \A p \in Ports : InFlight(p)' => InFlight(p)
      /\ "BATTERY_LEVEL" \in (notify_bits \cup note \cup bits)'
             => "BATTERY_LEVEL" \in notify_bits \cup note \cup bits
  BY <1>1, EventNames DEF InFlight
<1>4. BitImpliesValue' /\ KnownIsDecoded'
  BY <1>1, <1>2, <1>3, ValueFrame
<1>5. QED
  BY <1>1, <1>2, <1>4, CommandFrame DEF ValueInv

LEMMA ValueInit == Init => ValueInv
BY EventNames DEF Init, MainInit, TelemetryInit, ValueInv, BitImpliesValue,
   KnownIsDecoded, CommandsOnlyWhenKnown, InFlight

\* If no heartbeat carries the byte 255, an owner that holds a telemetry bit
\* finds a decoded value behind the getter.
THEOREM BitsAreSafe ==
    ASSUME 255 \notin OutBytes \cup SocBytes
    PROVE  Spec => []BitImpliesValue
<1>1. TypeOK /\ ValueInv /\ [Next]_vars => ValueInv'
  BY ValueTelemetry, ValueMain, ValueEnvironment DEF Next
<1>2. ValueInv => BitImpliesValue
  BY DEF ValueInv
<1>3. QED
  BY ValueInit, TypeCorrect, <1>1, <1>2, PTL DEF Spec

\* Under the same condition no command reaches the link for a port the
\* station has never reported.
THEOREM NoBlindCommands ==
    ASSUME 255 \notin OutBytes \cup SocBytes
    PROVE  Spec => []CommandsOnlyWhenKnown
<1>1. TypeOK /\ ValueInv /\ [Next]_vars => ValueInv'
  BY ValueTelemetry, ValueMain, ValueEnvironment DEF Next
<1>2. ValueInv => CommandsOnlyWhenKnown
  BY DEF ValueInv
<1>3. QED
  BY ValueInit, TypeCorrect, <1>1, <1>2, PTL DEF Spec
------------------------------------------------------------------------------
(* The newest command in flight asks for the state the owner believes in *)

BeliefInv == TypeOK /\ LastCommandIsBelief

\* Commands reaching the station, or dying with the link, leave the newest
\* command of a port the newest one.
LEMMA BeliefFrame ==
    ASSUME BeliefInv,
           outbox' \in {outbox, <<>>} \/ (outbox # <<>> /\ outbox' = Tail(outbox)),
           UNCHANGED on, \A p \in Ports : optimistic'[p] => optimistic[p]
    PROVE  LastCommandIsBelief'
<1>0. outbox \in Seq(Command)
  BY DEF BeliefInv, TypeOK
<1> SUFFICES ASSUME NEW p \in Ports, optimistic'[p], NEW i \in DOMAIN outbox',
                    outbox'[i].port = p,
                    \A j \in DOMAIN outbox' : j > i => outbox'[j].port # p
             PROVE  outbox'[i].enable = on[p]
  BY DEF LastCommandIsBelief
<1>1. CASE outbox' = outbox
  BY <1>1 DEF BeliefInv, LastCommandIsBelief
<1>2. CASE outbox' = <<>>
  BY <1>2
<1>3. CASE outbox # <<>> /\ outbox' = Tail(outbox)
  <2>1. \A j \in DOMAIN outbox' : j + 1 \in DOMAIN outbox /\ outbox'[j] = outbox[j + 1]
    BY <1>0, <1>3
  <2>2. \A j \in DOMAIN outbox : j > i + 1 => outbox[j].port # p
    <3>1. ASSUME NEW j \in DOMAIN outbox, j > i + 1 PROVE outbox[j].port # p
      <4>1. j - 1 \in DOMAIN outbox' /\ j - 1 > i
        BY <1>0, <1>3, <3>1
      <4>2. outbox'[j - 1] = outbox[j]
        BY <1>0, <2>1, <4>1
      <4>3. QED
        BY <4>1, <4>2
    <3>2. QED
      BY <3>1
  <2>3. QED
    BY <2>1, <2>2 DEF BeliefInv, LastCommandIsBelief
<1>4. QED
  BY <1>1, <1>2, <1>3

LEMMA BeliefSent ==
    ASSUME BeliefInv, NEW q \in Ports, MainToggleSent(q)
    PROVE  LastCommandIsBelief'
<1>0. /\ outbox \in Seq(Command) /\ on \in [Ports -> BOOLEAN]
      /\ optimistic \in [Ports -> BOOLEAN]
  BY DEF BeliefInv, TypeOK
<1>1. /\ outbox' = Append(outbox, [port |-> q, enable |-> ~on[q]])
      /\ on' = [on EXCEPT ![q] = ~on[q]]
      /\ optimistic' = [optimistic EXCEPT ![q] = TRUE]
  BY DEF MainToggleSent, BleWriteOk
<1> SUFFICES ASSUME NEW p \in Ports, optimistic'[p], NEW i \in DOMAIN outbox',
                    outbox'[i].port = p,
                    \A j \in DOMAIN outbox' : j > i => outbox'[j].port # p
             PROVE  outbox'[i].enable = on'[p]
  BY DEF LastCommandIsBelief
<1>2. /\ DOMAIN outbox' = 1..(Len(outbox) + 1) /\ DOMAIN outbox = 1..Len(outbox)
      /\ \A j \in DOMAIN outbox : outbox'[j] = outbox[j]
      /\ outbox'[Len(outbox) + 1] = [port |-> q, enable |-> ~on[q]]
      /\ Len(outbox) \in Nat
  BY <1>0, <1>1
<1>3. CASE i = Len(outbox) + 1
  <2>1. p = q /\ outbox'[i].enable = ~on[q]
    BY <1>2, <1>3
  <2>2. QED
    BY <1>0, <1>1, <2>1
<1>4. CASE i \in DOMAIN outbox
  <2>1. p # q
    <3>1. Len(outbox) + 1 \in DOMAIN outbox' /\ Len(outbox) + 1 > i
      BY <1>2, <1>4
    <3>2. outbox'[Len(outbox) + 1].port # p
      BY <3>1
    <3>3. QED
      BY <1>2, <3>2
  <2>2. on'[p] = on[p] /\ optimistic[p]
    BY <1>0, <1>1, <2>1
  <2>3. outbox[i].port = p /\ \A j \in DOMAIN outbox : j > i => outbox[j].port # p
    BY <1>2, <1>4
  <2>4. outbox[i].enable = on[p]
    BY <1>4, <2>2, <2>3 DEF BeliefInv, LastCommandIsBelief
  <2>5. QED
    BY <1>2, <1>4, <2>2, <2>4
<1>5. QED
  BY <1>2, <1>3, <1>4

LEMMA BeliefStep == BeliefInv /\ [Next]_vars => LastCommandIsBelief'
<1> SUFFICES ASSUME BeliefInv, [Next]_vars PROVE LastCommandIsBelief'
  OBVIOUS
<1>1. CASE TelemetryTask
  BY <1>1, BeliefFrame DEF TelemetryTask, TelemetryStep, TelemetryReceive,
     WaitNotification, TelemetryBattery, TelemetryPort, TelemetryNotify
<1>2. CASE MainTask
  <2> USE DEF MainTask
  <2>1. CASE MainWait \/ MainBattery
    BY <2>1, BeliefFrame DEF MainWait, MainBattery
  <2>2. ASSUME NEW q \in Ports, MainPortState(q) PROVE LastCommandIsBelief'
    <3>1. ASSUME NEW p \in Ports, optimistic'[p] PROVE optimistic[p] /\ on'[p] = on[p]
      BY <2>2, <3>1 DEF MainPortState, BeliefInv, TypeOK
    <3>2. outbox' = outbox
      BY <2>2 DEF MainPortState
    <3>3. QED
      BY <3>1, <3>2 DEF BeliefInv, LastCommandIsBelief
  <2>3. ASSUME NEW q \in Ports, MainToggleIgnored(q) \/ MainToggleFailed(q)
        PROVE  LastCommandIsBelief'
    BY <2>3, BeliefFrame DEF MainToggleIgnored, MainToggleFailed, BleWriteFails
  <2>4. QED
    BY <1>2, <2>1, <2>2, <2>3, BeliefSent DEF MainStep
<1>3. CASE Clock \/ StationApply \/ StationRefuse \/ UNCHANGED vars
  BY <1>3, BeliefFrame DEF Clock, Tick, StationApply, StationRefuse, vars
<1>4. CASE \E form \in Forms : StationReport(form)
  BY <1>4, BeliefFrame DEF StationReport, NotifyRx
<1>5. CASE \E p \in Ports : StationPanel(p) \/ Press(p)
  BY <1>5, BeliefFrame DEF StationPanel, Press
<1>6. CASE LinkLoss
  BY <1>6, BeliefFrame DEF LinkLoss, GapDisconnect
<1>7. QED
  BY <1>1, <1>2, <1>3, <1>4, <1>5, <1>6 DEF Next

\* The optimistic value the owner keeps after a toggle is always the one its
\* newest command in flight asks for.
THEOREM BeliefMatches == Spec => []LastCommandIsBelief
<1>1. Init => BeliefInv
  <2>1. Init => LastCommandIsBelief
    BY DEF Init, LastCommandIsBelief
  <2>2. QED
    BY <2>1, TypeInit DEF BeliefInv
<1>2. TypeOK' /\ BeliefInv /\ [Next]_vars => BeliefInv'
  BY BeliefStep DEF BeliefInv
<1>3. BeliefInv => LastCommandIsBelief
  BY DEF BeliefInv
<1>4. QED
  BY TypeCorrect, <1>1, <1>2, <1>3, PTL DEF Spec
==============================================================================
