------------------------------- MODULE Connect -------------------------------
(***************************************************************************)
(* connect_and_authenticate (app_main.c) together with the NimBLE host     *)
(* task that answers it.  The owner task waits for bits with a timeout;    *)
(* time is not modelled, so a wait may time out whenever nothing is        *)
(* pending: connecting and discovery may take longer than the 30 s wait.   *)
(* When connect_and_authenticate fails, app_main returns and its task is   *)
(* deleted, while the host task and the buttons live on.                   *)
(***************************************************************************)
EXTENDS BleClient

CONSTANTS MaxSyncs,      \* bound on host syncs (one more per host reset)
          MaxPresses     \* bound on button events

ASSUME ConnectAssumption == MaxSyncs \in Nat /\ MaxPresses \in Nat

VARIABLES
  state,      \* WAIT_HOST_SYNC, CONNECTING, then "auth" or "returned"
  syncs,      \* syncs so far
  presses     \* button events so far

connectVars == <<state, syncs, presses>>
vars == <<note, bleVars, connectVars>>

Init ==
    /\ note = {}
    /\ BleInit
    /\ owner = "alive"
    /\ state = "WAIT_HOST_SYNC"
    /\ syncs = 0 /\ presses = 0

------------------------------------------------------------------------------
(* The owner task *)

\* app_main returns: ESP-IDF deletes the task.
Return == state' = "returned" /\ owner' = "deleted"

WaitTimesOut ==
    /\ state \in {"WAIT_HOST_SYNC", "CONNECTING"}
    /\ note = {}
    /\ Return
    /\ UNCHANGED <<note, table, nimbleVars, s_conn, foundVars, cccdVars, outcomes, faults,
                   syncs, presses>>

StrayEvent ==
    /\ \/ state = "WAIT_HOST_SYNC" /\ "HOST_SYNC" \notin note
       \/ state = "CONNECTING" /\ note \cap {"CONNECT_ERROR", "CONNECTED"} = {}
    /\ TakeNotification
    /\ UNCHANGED <<bleVars, connectVars>>

HostSynced ==
    /\ state = "WAIT_HOST_SYNC" /\ "HOST_SYNC" \in note
    /\ TakeNotification
    /\ StartConnect
    /\ state' = "CONNECTING"
    /\ UNCHANGED <<syncs, presses>>

\* river2_ble_start_connect fails.
StartConnectFails ==
    /\ state = "WAIT_HOST_SYNC" /\ "HOST_SYNC" \in note
    /\ TakeNotification
    /\ Fault
    /\ Return
    /\ UNCHANGED <<table, nimbleVars, s_conn, foundVars, cccdVars, outcomes,
                   syncs, presses>>

\* CONNECT_ERROR is tested first.
ConnectFailed ==
    /\ state = "CONNECTING" /\ "CONNECT_ERROR" \in note
    /\ TakeNotification
    /\ Return
    /\ UNCHANGED <<table, nimbleVars, s_conn, foundVars, cccdVars, outcomes, faults,
                   syncs, presses>>

\* river2_auth_run is called; what it does is the subject of Auth.
Connected ==
    /\ state = "CONNECTING" /\ "CONNECT_ERROR" \notin note /\ "CONNECTED" \in note
    /\ TakeNotification
    /\ state' = "auth"
    /\ UNCHANGED <<bleVars, syncs, presses>>

OwnerStep == StrayEvent \/ HostSynced \/ StartConnectFails \/ ConnectFailed \/ Connected

------------------------------------------------------------------------------
(* The other tasks *)

OnSync ==
    /\ syncs < MaxSyncs
    /\ syncs' = syncs + 1
    /\ Notify({"HOST_SYNC"})
    /\ UNCHANGED <<bleVars, state, presses>>

Press(p) ==
    /\ presses < MaxPresses
    /\ presses' = presses + 1
    /\ Notify({ToggleEvt[p]})
    /\ UNCHANGED <<bleVars, state, syncs>>

HostTask == HostStep /\ UNCHANGED connectVars

Next ==
    \/ OwnerStep \/ WaitTimesOut
    \/ HostTask
    \/ LinkBreaks /\ UNCHANGED connectVars
    \/ OnSync
    \/ \E p \in Ports : Press(p)

Spec == Init /\ [][Next]_vars

\* The owner takes pending bits and NimBLE runs its procedures to their end
\* (its own timeouts see to that); nothing makes a wait time out.
FairSpec == Spec /\ WF_vars(OwnerStep) /\ WF_vars(HostTask)

------------------------------------------------------------------------------
(* Properties *)

Uuid(h) == table[h[1]][h[2]].uuid

Variants == {<<"RFCOMM_WRITE", "RFCOMM_NOTIFY">>, <<"NUS_WRITE", "NUS_NOTIFY">>}

\* Authentication starts, and CONNECTED is reported, only on a connection
\* with both characteristics resolved and notifications switched on.
ConnectedMeansReady ==
    state = "auth" \/ "CONNECTED" \in note =>
        /\ NoHandle \notin {s_write_handle, s_notify_handle}
        /\ Uuid(s_write_handle) \in WriteUuids /\ Uuid(s_notify_handle) \in NotifyUuids
        /\ subscribed

\* A notify characteristic has a CCCD, as GATT demands, or at least none of
\* those behind it in its service has one.
CccdsInPlace(t) ==
    \A s \in DOMAIN t : \A n, later \in DOMAIN t[s] :
        t[s][n].uuid \in NotifyUuids /\ n < later /\ t[s][later].cccd => t[s][n].cccd

\* The subscription goes to the notify characteristic and to no other one
\* that happens to have a CCCD, on a device with its CCCDs in place.
CccdBelongs == CccdsInPlace(table) /\ cccd # NoHandle => cccd = s_notify_handle

Has(service, uuid) == \E c \in DOMAIN service : service[c].uuid = uuid

\* A service with one characteristic of a variant has the other one too, and
\* none of the other variant.
VariantsComplete(t) ==
    \A s \in DOMAIN t : \A v, w \in Variants :
        Has(t[s], v[1]) \/ Has(t[s], v[2]) =>
            /\ Has(t[s], v[1]) /\ Has(t[s], v[2])
            /\ v # w => ~Has(t[s], w[1]) /\ ~Has(t[s], w[2])

\* If each variant is complete in its service, the two characteristics are a
\* pair of one variant, although they are searched for one by one.
PairMatches ==
    VariantsComplete(table) /\ NoHandle \notin {s_write_handle, s_notify_handle} =>
        <<Uuid(s_write_handle), Uuid(s_notify_handle)>> \in Variants

\* Both characteristics of a variant are in one of the services the client has
\* room for, and every notify characteristic has its CCCD.
Supported(t) ==
    /\ \E s \in DOMAIN t : \E v \in Variants :
          s <= MaxServices /\ Has(t[s], v[1]) /\ Has(t[s], v[2])
    /\ \A s \in DOMAIN t : \A n \in DOMAIN t[s] : t[s][n].uuid \in NotifyUuids => t[s][n].cccd

\* A supported device is turned away only when something really failed.
NoFalseRejection ==
    Supported(table) /\ faults = 0 => \A i \in DOMAIN outcomes : outcomes[i] = "CONNECTED"

\* The chain of callbacks has no dead end: an attempt is decided by an event
\* even if no wait of the owner ever times out.
ConnectDecides == state = "CONNECTING" ~> state # "CONNECTING"

\* The owner task still exists when the host task reports an event to it.
OwnerOutlivesAttempt == [][outcomes' # outcomes => owner = "alive"]_outcomes
==============================================================================
