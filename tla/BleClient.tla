------------------------------ MODULE BleClient ------------------------------
(***************************************************************************)
(* The connection half of ble_client.c: one connection attempt, from       *)
(* ble_gap_connect through service, characteristic and descriptor          *)
(* discovery to the subscription.  Everything here runs in the NimBLE host *)
(* task; each callback is one action.  NimBLE and the device are modelled  *)
(* from how the callbacks use them: a discovery procedure reports its      *)
(* items one by one and then BLE_HS_EDONE, any procedure may end with      *)
(* another status, and a broken link ends every procedure with an error    *)
(* before the disconnect event is delivered.                               *)
(***************************************************************************)
EXTENDS Naturals, Sequences, AppEvents

CONSTANTS
  Tables,        \* GATT tables: sequences of services, each a sequence of
                 \* characteristics
  MaxServices,   \* MAX_SERVICES
  MaxFaults      \* bound on procedures that fail and links that break

\* Characteristic uuids: write and notify of the two variants, and others;
\* cccd: the characteristic has a CCCD.
WriteUuids     == {"RFCOMM_WRITE", "NUS_WRITE"}
NotifyUuids    == {"RFCOMM_NOTIFY", "NUS_NOTIFY"}
Characteristic == [uuid : WriteUuids \cup NotifyUuids \cup {"other"}, cccd : BOOLEAN]

ASSUME BleClientAssumption ==
    /\ MaxServices \in Nat \ {0} /\ MaxFaults \in Nat
    /\ \A t \in Tables : t \in Seq(Seq(Characteristic))

VARIABLES
  table,         \* external: the device's table
  disc,          \* external: the GAP or discovery procedure under way, or "none"
  pos,           \* external: the next item that procedure reports
  writing,       \* external: the CCCD write is under way
  link,          \* external: "down", "up" or "broken"
  s_conn,        \* s_conn_handle # BLE_HS_CONN_HANDLE_NONE
  s_services,    \* s_services[0 .. s_service_count): positions in the table
  s_service_idx, \* counted from 1
  s_write_handle, s_notify_handle,
  s_notify_svc,  \* the service s_notify_svc_end belongs to
  s_cccd_found,
  cccd,          \* the CCCD written: the characteristic it belongs to
  subscribed,    \* history: the CCCD write was acknowledged
  outcomes,      \* history: results reported for this attempt
  faults,        \* procedures failed and links broken so far
  owner          \* the task behind s_owner_task: "alive" or "deleted"

nimbleVars == <<disc, pos, writing, link>>
foundVars  == <<s_services, s_service_idx, s_write_handle, s_notify_handle, s_notify_svc>>
cccdVars   == <<s_cccd_found, cccd, subscribed>>
bleVars    == <<table, nimbleVars, s_conn, foundVars, cccdVars, outcomes, faults, owner>>

NoHandle == <<0, 0>>          \* handle 0; others are <<service, characteristic>>

BleInit ==
    /\ table \in Tables
    /\ disc = "none" /\ pos = 1 /\ writing = FALSE /\ link = "down"
    /\ s_conn = FALSE
    /\ s_services = <<>> /\ s_service_idx = 1
    /\ s_write_handle = NoHandle /\ s_notify_handle = NoHandle /\ s_notify_svc = 0
    /\ s_cccd_found = FALSE /\ cccd = NoHandle /\ subscribed = FALSE
    /\ outcomes = <<>> /\ faults = 0

------------------------------------------------------------------------------
(* Helpers *)

Fault == faults < MaxFaults /\ faults' = faults + 1
NoFault == UNCHANGED faults

\* finish_connect
Finish(evt) == Notify({evt}) /\ outcomes' = Append(outcomes, evt)
NotFinished == UNCHANGED <<note, outcomes>>

\* begin_descriptor_discovery, begin_chr_discovery_for_service and the call
\* of ble_gattc_disc_all_svcs: start a procedure, or report that it fails.
Begin(procedure) ==
    \/ disc' = procedure /\ pos' = 1 /\ NoFault /\ NotFinished
    \/ disc' = "none" /\ pos' = 1 /\ Fault /\ Finish("CONNECT_ERROR")

\* The procedure under way moves on to its next item.
NextItem == pos' = pos + 1 /\ NoFault /\ NotFinished /\ UNCHANGED disc

\* The procedure under way ends and reports a result.
EndWith(evt) == disc' = "none" /\ pos' = 1 /\ Finish(evt)

\* Seeded fault: the discovery starts at the beginning of the service.
CccdsOfService ==
    {c \in DOMAIN table[s_notify_svc] : table[s_notify_svc][c].cccd}

\* The CCCDs between the notify characteristic and the end of its service, by
\* the position of the characteristic they belong to.
Cccds ==
    {c \in DOMAIN table[s_notify_svc] :
        c >= s_notify_handle[2] /\ table[s_notify_svc][c].cccd}

\* Those the descriptor discovery has still to report; other descriptors are
\* left out.
CccdsAhead == {c \in Cccds : c >= pos}

------------------------------------------------------------------------------
(* river2_ble_start_connect, called by the owner task *)

StartConnect ==
    /\ disc' = "connect" /\ pos' = 1
    /\ UNCHANGED <<writing, link, table, s_conn, foundVars, cccdVars, outcomes, faults, owner>>

(* gap_event_cb *)

GapConnected ==
    /\ disc = "connect"
    /\ link' = "up" /\ s_conn' = TRUE
    /\ s_services' = <<>> /\ s_service_idx' = 1
    /\ s_write_handle' = NoHandle /\ s_notify_handle' = NoHandle
    /\ s_cccd_found' = FALSE
    /\ Begin("svc")
    /\ UNCHANGED <<table, writing, s_notify_svc, cccd, subscribed, owner>>

\* Refused, or NimBLE's own connect timeout.
GapConnectFailed ==
    /\ disc = "connect"
    /\ Fault
    /\ EndWith("CONNECT_ERROR")
    /\ UNCHANGED <<table, writing, link, s_conn, foundVars, cccdVars, owner>>

LinkBreaks ==
    /\ link = "up"
    /\ Fault
    /\ link' = "broken"
    /\ UNCHANGED <<note, table, disc, pos, writing, s_conn, foundVars, cccdVars, outcomes, owner>>

GapDisconnected ==
    /\ link = "broken" /\ disc = "none" /\ ~writing
    /\ link' = "down" /\ s_conn' = FALSE
    /\ Notify({"DISCONNECTED"})
    /\ UNCHANGED <<table, disc, pos, writing, foundVars, cccdVars, outcomes, faults, owner>>

(* disc_svc_cb *)

DiscSvc ==
    /\ disc = "svc" /\ link = "up" /\ pos <= Len(table)
    /\ s_services' = IF Len(s_services) < MaxServices THEN Append(s_services, pos)
                     ELSE s_services
    /\ NextItem
    /\ UNCHANGED <<table, writing, link, s_conn, s_service_idx, s_write_handle,
                   s_notify_handle, s_notify_svc, cccdVars, owner>>

DiscSvcDone ==
    /\ disc = "svc" /\ link = "up" /\ pos > Len(table)
    /\ IF s_services = <<>>
       THEN EndWith("CONNECT_ERROR") /\ NoFault /\ UNCHANGED s_service_idx
       ELSE Begin("chr") /\ s_service_idx' = 1
    /\ UNCHANGED <<table, writing, link, s_conn, s_services, s_write_handle,
                   s_notify_handle, s_notify_svc, cccdVars, owner>>

(* disc_chr_cb *)

Chrs == table[s_services[s_service_idx]]

\* Seeded fault: the last write characteristic wins, not the first.
DiscChrLast ==
    /\ disc = "chr" /\ link = "up" /\ pos <= Len(Chrs)
    /\ LET here == <<s_services[s_service_idx], pos>>
           uuid == Chrs[pos].uuid
       IN  /\ s_write_handle' = IF uuid \in WriteUuids THEN here ELSE s_write_handle
           /\ IF s_notify_handle = NoHandle /\ uuid \in NotifyUuids
              THEN s_notify_handle' = here /\ s_notify_svc' = here[1]
              ELSE UNCHANGED <<s_notify_handle, s_notify_svc>>
    /\ NextItem
    /\ UNCHANGED <<table, writing, link, s_conn, s_services, s_service_idx, cccdVars, owner>>

DiscChr ==
    /\ disc = "chr" /\ link = "up" /\ pos <= Len(Chrs)
    /\ LET here == <<s_services[s_service_idx], pos>>
           uuid == Chrs[pos].uuid
       IN  /\ s_write_handle' = IF s_write_handle = NoHandle /\ uuid \in WriteUuids
                                THEN here ELSE s_write_handle
           /\ IF s_notify_handle = NoHandle /\ uuid \in NotifyUuids
              THEN s_notify_handle' = here /\ s_notify_svc' = here[1]
              ELSE UNCHANGED <<s_notify_handle, s_notify_svc>>
    /\ NextItem
    /\ UNCHANGED <<table, writing, link, s_conn, s_services, s_service_idx, cccdVars, owner>>

\* Seeded fault: the verdict is given after every service.
DiscChrDoneEarly ==
    /\ disc = "chr" /\ link = "up" /\ pos > Len(Chrs)
    /\ s_service_idx' = s_service_idx + 1
    /\ IF NoHandle \in {s_write_handle, s_notify_handle}
       THEN EndWith("CONNECT_ERROR") /\ NoFault
       ELSE Begin("dsc")
    /\ UNCHANGED <<table, writing, link, s_conn, s_services, s_write_handle,
                   s_notify_handle, s_notify_svc, cccdVars, owner>>

DiscChrDone ==
    /\ disc = "chr" /\ link = "up" /\ pos > Len(Chrs)
    /\ s_service_idx' = s_service_idx + 1
    /\ IF s_service_idx' <= Len(s_services) THEN Begin("chr")
       ELSE IF NoHandle \in {s_write_handle, s_notify_handle}
       THEN EndWith("CONNECT_ERROR") /\ NoFault
       ELSE Begin("dsc")
    /\ UNCHANGED <<table, writing, link, s_conn, s_services, s_write_handle,
                   s_notify_handle, s_notify_svc, cccdVars, owner>>

(* disc_dsc_cb *)

\* The first CCCD is written; the discovery goes on meanwhile.
DiscDsc ==
    /\ disc = "dsc" /\ link = "up"
    /\ \E c \in CccdsAhead :
          /\ \A later \in CccdsAhead : c <= later
          /\ disc' = disc /\ pos' = c + 1
          /\ s_cccd_found' = TRUE
          /\ IF s_cccd_found
             THEN NoFault /\ NotFinished /\ UNCHANGED <<cccd, writing>>
             ELSE /\ cccd' = <<s_notify_svc, c>>
                  /\ \/ writing' = TRUE /\ NoFault /\ NotFinished
                     \/ writing' = FALSE /\ Fault /\ Finish("CONNECT_ERROR")
    /\ UNCHANGED <<table, link, s_conn, foundVars, subscribed, owner>>

\* Seeded fault: nobody is told that there was no CCCD.
DiscDscDoneSilent ==
    /\ disc = "dsc" /\ link = "up" /\ CccdsAhead = {}
    /\ disc' = "none" /\ pos' = 1
    /\ NotFinished
    /\ UNCHANGED <<table, writing, link, s_conn, foundVars, cccdVars, faults, owner>>

DiscDscDone ==
    /\ disc = "dsc" /\ link = "up" /\ CccdsAhead = {}
    /\ disc' = "none" /\ pos' = 1
    /\ IF s_cccd_found THEN NotFinished ELSE Finish("CONNECT_ERROR")
    /\ UNCHANGED <<table, writing, link, s_conn, foundVars, cccdVars, faults, owner>>

\* The last branch of the three discovery callbacks: any other status.
DiscFailed ==
    /\ disc \in {"svc", "chr", "dsc"}
    /\ IF link = "broken" THEN NoFault ELSE Fault
    /\ EndWith("CONNECT_ERROR")
    /\ UNCHANGED <<table, writing, link, s_conn, foundVars, cccdVars, owner>>

(* on_cccd_write *)

OnCccdWrite ==
    /\ writing /\ link = "up"
    /\ writing' = FALSE
    /\ subscribed' = TRUE
    /\ Finish("CONNECTED")
    /\ UNCHANGED <<table, disc, pos, link, s_conn, foundVars, s_cccd_found, cccd, faults, owner>>

\* Seeded fault: the status of the write is not looked at.
OnCccdWriteIgnored ==
    /\ writing
    /\ IF link = "broken" THEN NoFault ELSE Fault
    /\ writing' = FALSE
    /\ Finish("CONNECTED")
    /\ UNCHANGED <<table, disc, pos, link, s_conn, foundVars, cccdVars, owner>>

OnCccdWriteFailed ==
    /\ writing
    /\ IF link = "broken" THEN NoFault ELSE Fault
    /\ writing' = FALSE
    /\ Finish("CONNECT_ERROR")
    /\ UNCHANGED <<table, disc, pos, link, s_conn, foundVars, cccdVars, owner>>

HostStep ==
    \/ GapConnected \/ GapConnectFailed \/ GapDisconnected
    \/ DiscSvc \/ DiscSvcDone
    \/ DiscChr \/ DiscChrDone
    \/ DiscDsc \/ DiscDscDone
    \/ DiscFailed
    \/ OnCccdWrite \/ OnCccdWriteFailed
==============================================================================
