------------------------------- MODULE BleLink -------------------------------
(***************************************************************************)
(* The part of ble_client.c that works once a connection exists: the       *)
(* connection handle, the queue that carries notification data from the    *)
(* NimBLE host task to its reader, and outgoing GATT writes.               *)
(* A chunk is one delivered unit of telemetry (a whole packet); its bytes  *)
(* and its reassembly are the subject of FrameBuf.                         *)
(***************************************************************************)
EXTENDS Naturals, Sequences, AppEvents

CONSTANTS QueueCap,   \* length of s_notify_queue (16 in the code)
          OutboxCap   \* writes NimBLE can hold before it runs out of buffers

ASSUME BleLinkAssumption == QueueCap \in Nat \ {0} /\ OutboxCap \in Nat \ {0}

VARIABLES conn,       \* s_conn_handle # BLE_HS_CONN_HANDLE_NONE
          rxq,        \* s_notify_queue
          outbox      \* GATT writes accepted by NimBLE, not yet applied

linkVars == <<conn, rxq, outbox>>

\* Seeded fault: a queue that grows past its length.
NotifyRxUnbounded(chunk) ==
    /\ conn
    /\ rxq' = Append(rxq, chunk)
    /\ UNCHANGED <<conn, outbox>>

\* gap_event_cb, BLE_GAP_EVENT_NOTIFY_RX: xQueueSend with no wait, so data
\* that meets a full queue is dropped, never the data already queued.
NotifyRx(chunk) ==
    /\ conn
    /\ Len(rxq) < QueueCap
    /\ rxq' = Append(rxq, chunk)
    /\ UNCHANGED <<conn, outbox>>

\* gap_event_cb, BLE_GAP_EVENT_DISCONNECT.  Writes still inside NimBLE die
\* with the connection; data already queued stays readable.
GapDisconnect ==
    /\ conn
    /\ conn' = FALSE
    /\ outbox' = <<>>
    /\ Notify({"DISCONNECTED"})
    /\ UNCHANGED rxq

\* river2_ble_wait_notification with data available.
WaitNotification ==
    /\ rxq # <<>>
    /\ rxq' = Tail(rxq)
    /\ UNCHANGED <<conn, outbox>>

\* river2_ble_write returning ESP_OK: the write is queued, its response is
\* never looked at (no callback is passed to ble_gattc_write_flat).
BleWriteOk(msg) ==
    /\ conn
    /\ Len(outbox) < OutboxCap
    /\ outbox' = Append(outbox, msg)
    /\ UNCHANGED <<conn, rxq>>

\* river2_ble_write returning an error: ESP_ERR_INVALID_STATE without a
\* connection, ESP_FAIL when NimBLE refuses the write.
BleWriteFails == UNCHANGED linkVars
==============================================================================
