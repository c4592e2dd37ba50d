----------------------------- MODULE Connect_proofs -----------------------------
(***************************************************************************)
(* For every GATT table, every number of services there is room for, and   *)
(* any number of failing procedures, broken links, host syncs and presses: *)
(* authentication starts only on a connection that is ready for it, with   *)
(* the right characteristics, and a supported device gets that far.        *)
(***************************************************************************)
EXTENDS Connect, SequenceTheorems, TLAPS

Resolved == NoHandle \notin {s_write_handle, s_notify_handle}

\* A handle that is set is that of a characteristic of the right kind.
HandlesBelong ==
    /\ s_write_handle # NoHandle => Uuid(s_write_handle) \in WriteUuids
    /\ s_notify_handle # NoHandle => Uuid(s_notify_handle) \in NotifyUuids

\* Before the connection is up nothing has been subscribed or reported: the
\* handles are cleared then, so nothing may rest on them.
NothingYet == ~writing /\ ~subscribed /\ "CONNECTED" \notin note /\ state # "auth"

\* The attempt is made once, descriptors are asked for and the CCCD is written
\* with both handles resolved, and the result follows from the subscription.
ConnectInv ==
    /\ HandlesBelong
    /\ state = "WAIT_HOST_SYNC" => disc = "none" /\ NothingYet
    /\ disc = "connect" => NothingYet
    /\ disc = "dsc" \/ writing \/ subscribed => Resolved
    /\ "CONNECTED" \in note \/ state = "auth" => subscribed

------------------------------------------------------------------------------
LEMMA InitConnect == Init => ConnectInv
BY DEF Init, BleInit, ConnectInv, HandlesBelong, NothingYet

\* A procedure starts, or the attempt is given up.
LEMMA BeginMeans ==
    ASSUME NEW procedure, Begin(procedure)
    PROVE  disc' \in {procedure, "none"} /\ ("CONNECTED" \in note' => "CONNECTED" \in note)
BY DEF Begin, NotFinished, Finish, Notify

LEMMA GapConnectedInv == ConnectInv /\ GapConnected /\ UNCHANGED connectVars => ConnectInv'
<1> SUFFICES ASSUME ConnectInv, GapConnected, UNCHANGED connectVars PROVE ConnectInv'
  OBVIOUS
<1>1. disc' \in {"svc", "none"} /\ ("CONNECTED" \in note' => "CONNECTED" \in note)
  BY BeginMeans DEF GapConnected
<1>2. NothingYet /\ NothingYet'
  BY <1>1 DEF GapConnected, ConnectInv, NothingYet, cccdVars, connectVars
<1>3. HandlesBelong'
  BY DEF GapConnected, HandlesBelong
<1>4. state # "WAIT_HOST_SYNC" /\ state' = state
  BY DEF GapConnected, ConnectInv, connectVars
<1>5. QED BY <1>1, <1>2, <1>3, <1>4 DEF ConnectInv, NothingYet

\* Steps of the host task that leave the handles and the subscription alone.
LEMMA HandlesKept ==
    ASSUME ConnectInv, UNCHANGED <<table, s_write_handle, s_notify_handle, subscribed, state>>,
           writing' => writing \/ disc = "dsc",
           disc' = disc \/ (disc' # "connect" /\ state # "WAIT_HOST_SYNC"
                            /\ (disc' = "dsc" => Resolved)),
           "CONNECTED" \in note' => "CONNECTED" \in note
    PROVE  ConnectInv'
<1>1. HandlesBelong' /\ (Resolved' <=> Resolved)
  BY DEF ConnectInv, HandlesBelong, Resolved, Uuid
<1>2. NothingYet /\ disc # "dsc" => NothingYet'
  BY DEF NothingYet
<1>3. (disc' = "dsc" \/ writing' \/ subscribed') => Resolved'
  BY <1>1 DEF ConnectInv
<1>4. state' = "WAIT_HOST_SYNC" => disc' = "none" /\ NothingYet'
  BY <1>2 DEF ConnectInv
<1>5. disc' = "connect" => NothingYet'
  BY <1>2 DEF ConnectInv
<1>6. QED BY <1>1, <1>3, <1>4, <1>5 DEF ConnectInv

\* The handles found are those of the characteristics reported.
LEMMA DiscChrInv == ConnectInv /\ DiscChr /\ UNCHANGED connectVars => ConnectInv'
<1> SUFFICES ASSUME ConnectInv, DiscChr, UNCHANGED connectVars PROVE ConnectInv'
  OBVIOUS
<1> DEFINE here == <<s_services[s_service_idx], pos>>
<1>1. /\ s_write_handle' = (IF s_write_handle = NoHandle /\ Chrs[pos].uuid \in WriteUuids
                            THEN here ELSE s_write_handle)
      /\ \/ s_notify_handle' = here /\ s_notify_handle = NoHandle
            /\ Chrs[pos].uuid \in NotifyUuids
         \/ s_notify_handle' = s_notify_handle
      /\ UNCHANGED <<table, disc, writing, subscribed, note, state>>
      /\ disc = "chr"
  BY DEF DiscChr, NextItem, NotFinished, cccdVars, connectVars
<1>2. HandlesBelong'
  <2>1. \A h : table'[h[1]][h[2]].uuid = Uuid(h)
    BY <1>1 DEF Uuid
  <2>2. Uuid(here) = Chrs[pos].uuid
    BY DEF Uuid, Chrs
  <2>3. s_write_handle' # NoHandle => Uuid(s_write_handle') \in WriteUuids
    BY <1>1, <2>2 DEF ConnectInv, HandlesBelong
  <2>4. s_notify_handle' # NoHandle => Uuid(s_notify_handle') \in NotifyUuids
    BY <1>1, <2>2 DEF ConnectInv, HandlesBelong
  <2>5. QED BY <1>1, <2>1, <2>3, <2>4 DEF HandlesBelong, Uuid
<1>3. Resolved => Resolved'
  BY <1>1 DEF Resolved
<1>4. QED BY <1>1, <1>2, <1>3 DEF ConnectInv, NothingYet

LEMMA HostInv == ConnectInv /\ HostTask => ConnectInv'
<1> SUFFICES ASSUME ConnectInv, HostTask PROVE ConnectInv'
  OBVIOUS
<1> USE DEF HostTask, connectVars, foundVars, cccdVars
<1>1. CASE GapConnected
  BY <1>1, GapConnectedInv
<1>2. CASE GapConnectFailed
  BY <1>2, HandlesKept DEF GapConnectFailed, EndWith, Finish, Notify, ConnectInv
<1>3. CASE GapDisconnected
  BY <1>3, HandlesKept DEF GapDisconnected, Notify
<1>4. CASE DiscSvc
  BY <1>4, HandlesKept DEF DiscSvc, NextItem, NotFinished
<1>5. CASE DiscSvcDone
  <2>1. state # "WAIT_HOST_SYNC"
    BY <1>5 DEF DiscSvcDone, ConnectInv
  <2>2. disc' \in {"chr", "none"} /\ ("CONNECTED" \in note' => "CONNECTED" \in note)
    BY <1>5, BeginMeans DEF DiscSvcDone, EndWith, Finish, Notify
  <2>3. QED BY <1>5, <2>1, <2>2, HandlesKept DEF DiscSvcDone
<1>6. CASE DiscChr
  BY <1>6, DiscChrInv
<1>7. CASE DiscChrDone
  <2>1. state # "WAIT_HOST_SYNC"
    BY <1>7 DEF DiscChrDone, ConnectInv
  <2>2. /\ disc' \in {"chr", "none"} \/ (disc' = "dsc" /\ Resolved)
        /\ "CONNECTED" \in note' => "CONNECTED" \in note
    BY <1>7, BeginMeans DEF DiscChrDone, EndWith, Finish, Notify, Resolved
  <2>3. QED BY <1>7, <2>1, <2>2, HandlesKept DEF DiscChrDone
<1>8. CASE DiscDsc
  BY <1>8, HandlesKept DEF DiscDsc, NotFinished, Finish, Notify
<1>9. CASE DiscDscDone
  BY <1>9, HandlesKept DEF DiscDscDone, NotFinished, Finish, Notify, ConnectInv
<1>10. CASE DiscFailed
  BY <1>10, HandlesKept DEF DiscFailed, EndWith, Finish, Notify, ConnectInv
<1>11. CASE OnCccdWrite
  <2>1. Resolved /\ Resolved' /\ HandlesBelong' /\ subscribed'
    BY <1>11 DEF OnCccdWrite, ConnectInv, Resolved, HandlesBelong, Uuid
  <2>2. state' # "WAIT_HOST_SYNC" /\ disc' # "connect"
    BY <1>11 DEF OnCccdWrite, ConnectInv, NothingYet
  <2>3. QED BY <2>1, <2>2 DEF ConnectInv
<1>12. CASE OnCccdWriteFailed
  BY <1>12, HandlesKept DEF OnCccdWriteFailed, Finish, Notify
<1>13. QED BY <1>1, <1>2, <1>3, <1>4, <1>5, <1>6, <1>7, <1>8, <1>9, <1>10, <1>11, <1>12
           DEF HostStep

LEMMA OwnerInv == ConnectInv /\ (OwnerStep \/ WaitTimesOut) => ConnectInv'
<1> SUFFICES ASSUME ConnectInv, OwnerStep \/ WaitTimesOut PROVE ConnectInv'
  OBVIOUS
<1>1. /\ UNCHANGED <<table, s_write_handle, s_notify_handle, writing, subscribed>>
      /\ "CONNECTED" \in note' => "CONNECTED" \in note
      /\ \/ disc' = disc /\ (state' = state \/ state' \in {"returned"}
                             \/ (state' = "auth" /\ "CONNECTED" \in note))
         \/ disc' = "connect" /\ state = "WAIT_HOST_SYNC" /\ state' = "CONNECTING"
  BY DEF OwnerStep, WaitTimesOut, StrayEvent, HostSynced, StartConnectFails, ConnectFailed,
         Connected, Return, TakeNotification, StartConnect, bleVars, nimbleVars, foundVars,
         cccdVars, connectVars
<1>2. HandlesBelong' /\ (Resolved' <=> Resolved)
  BY <1>1 DEF ConnectInv, HandlesBelong, Resolved, Uuid
<1>3. NothingYet => NothingYet'
  BY <1>1 DEF NothingYet
<1>4. QED BY <1>1, <1>2, <1>3 DEF ConnectInv

LEMMA ConnectStep == ConnectInv /\ [Next]_vars => ConnectInv'
<1> SUFFICES ASSUME ConnectInv, [Next]_vars PROVE ConnectInv'
  OBVIOUS
<1>1. CASE HostTask
  BY <1>1, HostInv
<1>2. CASE OwnerStep \/ WaitTimesOut
  BY <1>2, OwnerInv
<1>3. CASE LinkBreaks /\ UNCHANGED connectVars
  BY <1>3, HandlesKept DEF LinkBreaks, connectVars, foundVars, cccdVars
<1>4. CASE OnSync \/ \E p \in Ports : Press(p)
  <2>1. "CONNECTED" \in note' => "CONNECTED" \in note
    BY <1>4 DEF OnSync, Press, Notify, ToggleEvt, Ports
  <2>2. UNCHANGED <<table, disc, writing, s_write_handle, s_notify_handle, subscribed, state>>
    BY <1>4 DEF OnSync, Press, bleVars, nimbleVars, foundVars, cccdVars
  <2>3. QED BY <2>1, <2>2, HandlesKept
<1>5. CASE UNCHANGED vars
  BY <1>5, HandlesKept DEF vars, bleVars, nimbleVars, foundVars, cccdVars, connectVars
<1>6. QED BY <1>1, <1>2, <1>3, <1>4, <1>5 DEF Next

\* Authentication starts, and CONNECTED is pending, only with both handles
\* resolved to characteristics of their kind and notifications switched on.
THEOREM ConnectedIsReady == Spec => []ConnectedMeansReady
<1>1. ConnectInv => ConnectedMeansReady
  BY DEF ConnectInv, HandlesBelong, Resolved, ConnectedMeansReady
<1>2. QED BY InitConnect, ConnectStep, <1>1, PTL DEF Spec

------------------------------------------------------------------------------
(* What the discovery has found *)

\* h is a characteristic of the table.
IsPlace(h) == \E s \in DOMAIN table : \E c \in DOMAIN table[s] : h = <<s, c>>

TypesInv ==
    /\ table \in Tables /\ pos \in Nat \ {0} /\ faults \in Nat
    /\ outcomes \in Seq(BleEvents) /\ s_services \in Seq(Nat)

\* s_services are the first services of the table, as many as there is room for.
ServicesInv ==
    /\ Len(s_services) <= Len(table) /\ Len(s_services) <= MaxServices
    /\ \A i \in 1..Len(s_services) : s_services[i] = i
    /\ disc = "svc" => /\ pos <= Len(table) + 1
                       /\ \/ Len(s_services) = pos - 1
                          \/ Len(s_services) = MaxServices /\ MaxServices < pos
    /\ disc = "chr" => /\ Len(s_services) \in {Len(table), MaxServices}
                       /\ s_service_idx \in 1..Len(s_services)
                       /\ pos <= Len(table[s_service_idx]) + 1

\* A characteristic of either kind that has been reported has set its handle.
Seen(s, c) ==
    /\ table[s][c].uuid \in WriteUuids => s_write_handle # NoHandle
    /\ table[s][c].uuid \in NotifyUuids => s_notify_handle # NoHandle

FoundInv ==
    /\ s_write_handle # NoHandle => IsPlace(s_write_handle)
    /\ s_notify_handle # NoHandle => IsPlace(s_notify_handle) /\ s_notify_svc = s_notify_handle[1]
    /\ disc = "svc" => s_write_handle = NoHandle /\ s_notify_handle = NoHandle
    /\ disc = "chr" => \A s \in 1..s_service_idx : \A c \in DOMAIN table[s] :
                          s < s_service_idx \/ c < pos => Seen(s, c)

\* While one handle is missing, the other is in the service being searched.
PairInv ==
    VariantsComplete(table) =>
        /\ Resolved => s_write_handle[1] = s_notify_handle[1]
        /\ disc = "chr" /\ s_write_handle # NoHandle /\ s_notify_handle = NoHandle =>
              s_write_handle[1] = s_service_idx
        /\ disc = "chr" /\ s_write_handle = NoHandle /\ s_notify_handle # NoHandle =>
              s_notify_handle[1] = s_service_idx

CccdInv ==
    /\ state = "WAIT_HOST_SYNC" \/ disc \in {"connect", "svc", "chr"} =>
          ~s_cccd_found /\ cccd = NoHandle
    /\ disc = "dsc" /\ ~s_cccd_found => pos = 1 /\ cccd = NoHandle
    /\ CccdBelongs

RejectInv == (faults = 0 => link # "broken") /\ NoFalseRejection

DiscoveryInv ==
    /\ ConnectInv /\ TypesInv
    /\ ServicesInv /\ FoundInv /\ PairInv
    /\ CccdInv /\ RejectInv

foundAndTable == <<table, s_services, s_service_idx, s_write_handle, s_notify_handle,
                   s_notify_svc, s_cccd_found, cccd>>

------------------------------------------------------------------------------
LEMMA TableType ==
    ASSUME TypesInv
    PROVE  /\ table \in Seq(Seq(Characteristic)) /\ Len(table) \in Nat
           /\ DOMAIN table = 1..Len(table)
           /\ \A s \in 1..Len(table) : /\ Len(table[s]) \in Nat
                                       /\ DOMAIN table[s] = 1..Len(table[s])
<1>1. table \in Seq(Seq(Characteristic))
  BY BleClientAssumption DEF TypesInv
<1>2. Len(table) \in Nat /\ DOMAIN table = 1..Len(table)
  BY <1>1, LenProperties
<1>3. ASSUME NEW s \in 1..Len(table)
      PROVE  Len(table[s]) \in Nat /\ DOMAIN table[s] = 1..Len(table[s])
  <2>1. table[s] \in Seq(Characteristic)
    BY <1>1, ElementOfSeq
  <2>2. QED BY <2>1, LenProperties
<1>4. QED BY <1>1, <1>2, <1>3

\* Steps that leave what was found alone, and at most end the procedure.
LEMMA FoundKept ==
    ASSUME ServicesInv, FoundInv, PairInv, CccdInv, UNCHANGED foundAndTable,
           state' = "WAIT_HOST_SYNC" => state = "WAIT_HOST_SYNC",
           \/ UNCHANGED <<disc, pos>>
           \/ disc' = "none"
           \/ disc' = "connect" /\ state = "WAIT_HOST_SYNC"
    PROVE  ServicesInv' /\ FoundInv' /\ PairInv' /\ CccdInv'
<1> USE DEF foundAndTable
<1>1. ServicesInv'
  BY DEF ServicesInv
<1>2. FoundInv'
  <2>1. IsPlace(s_write_handle)' = IsPlace(s_write_handle)
        /\ IsPlace(s_notify_handle)' = IsPlace(s_notify_handle)
    BY DEF IsPlace
  <2>2. \A s, c : Seen(s, c)' = Seen(s, c)
    BY DEF Seen
  <2>3. QED BY <2>1, <2>2 DEF FoundInv
<1>3. PairInv'
  BY DEF PairInv, Resolved
<1>4. CccdInv'
  BY DEF CccdInv, CccdBelongs
<1>5. QED BY <1>1, <1>2, <1>3, <1>4

\* Steps that report no failure, and steps that had a reason to.
LEMMA OutcomeKept ==
    ASSUME RejectInv, TypesInv, UNCHANGED table,
           \/ UNCHANGED faults /\ link' \in {link, "up", "down"}
           \/ faults' = faults + 1,
           \/ UNCHANGED outcomes
           \/ outcomes' = Append(outcomes, "CONNECTED")
           \/ faults' # 0 /\ outcomes' = Append(outcomes, "CONNECT_ERROR")
           \/ ~Supported(table) /\ outcomes' = Append(outcomes, "CONNECT_ERROR")
    PROVE  RejectInv' /\ faults' \in Nat /\ outcomes' \in Seq(BleEvents)
<1>1. /\ faults \in Nat /\ outcomes \in Seq(BleEvents) /\ faults' \in Nat
      /\ faults' = 0 => faults = 0 /\ faults' = faults
  BY DEF TypesInv
<1>2. outcomes' \in Seq(BleEvents)
  BY <1>1 DEF BleEvents
<1>3. faults' = 0 => link' # "broken"
  BY <1>1 DEF RejectInv
<1>4. ASSUME Supported(table), faults' = 0
      PROVE  \A i \in DOMAIN outcomes' : outcomes'[i] = "CONNECTED"
  <2>1. \A i \in DOMAIN outcomes : outcomes[i] = "CONNECTED"
    BY <1>1, <1>4 DEF RejectInv, NoFalseRejection
  <2>2. CASE UNCHANGED outcomes
    BY <2>1, <2>2
  <2>3. CASE outcomes' = Append(outcomes, "CONNECTED")
    BY <1>1, <2>1, <2>3
  <2>4. QED BY <1>4, <2>2, <2>3
<1>5. Supported(table') <=> Supported(table)
  OBVIOUS
<1>6. QED BY <1>1, <1>2, <1>3, <1>4, <1>5 DEF RejectInv, NoFalseRejection

LEMMA InitDiscovery == Init => DiscoveryInv
<1> SUFFICES ASSUME Init PROVE DiscoveryInv
  OBVIOUS
<1> USE DEF Init, BleInit
<1>1. TypesInv
  BY DEF TypesInv
<1>2. ServicesInv
  <2>1. Len(s_services) = 0 /\ 0 <= MaxServices /\ 0 <= Len(table)
    BY <1>1, TableType, BleClientAssumption
  <2>2. QED BY <2>1 DEF ServicesInv
<1>3. FoundInv /\ PairInv /\ CccdInv /\ RejectInv
  BY DEF FoundInv, PairInv, CccdInv, CccdBelongs, RejectInv, NoFalseRejection, Resolved, NoHandle
<1>4. QED BY <1>1, <1>2, <1>3, InitConnect DEF DiscoveryInv

------------------------------------------------------------------------------
(* The discovery, callback by callback *)

LEMMA GapConnectedFound ==
    ASSUME DiscoveryInv, GapConnected, UNCHANGED connectVars
    PROVE  /\ ServicesInv' /\ FoundInv' /\ PairInv' /\ CccdInv'
           /\ RejectInv' /\ TypesInv'
<1>1. /\ UNCHANGED <<table, cccd, state>> /\ link' = "up" /\ disc = "connect"
      /\ s_services' = <<>> /\ s_write_handle' = NoHandle /\ s_notify_handle' = NoHandle
      /\ ~s_cccd_found' /\ disc' \in {"svc", "none"} /\ pos' = 1
      /\ \/ UNCHANGED faults /\ UNCHANGED outcomes
         \/ faults' = faults + 1 /\ outcomes' = Append(outcomes, "CONNECT_ERROR")
  BY DEF GapConnected, Begin, NoFault, NotFinished, Fault, Finish, connectVars
<1>2. Len(<<>>) = 0 /\ Len(table) \in Nat /\ MaxServices \in Nat
  BY TableType, BleClientAssumption DEF DiscoveryInv
<1>3. ServicesInv'
  BY <1>1, <1>2 DEF ServicesInv
<1>4. FoundInv' /\ PairInv'
  BY <1>1 DEF FoundInv, PairInv, Resolved
<1>5. CccdInv'
  BY <1>1 DEF DiscoveryInv, CccdInv, CccdBelongs
<1>6. RejectInv' /\ faults' \in Nat /\ outcomes' \in Seq(BleEvents)
  <2>1. faults \in Nat
    BY DEF DiscoveryInv, TypesInv
  <2>2. faults' = faults + 1 => faults' # 0
    BY <2>1
  <2>3. QED BY <1>1, <2>2, OutcomeKept DEF DiscoveryInv
<1>7. TypesInv'
  BY <1>1, <1>6 DEF DiscoveryInv, TypesInv
<1>8. QED BY <1>3, <1>4, <1>5, <1>6, <1>7

LEMMA DiscSvcFound ==
    ASSUME DiscoveryInv, DiscSvc, UNCHANGED connectVars
    PROVE  /\ ServicesInv' /\ FoundInv' /\ PairInv' /\ CccdInv'
           /\ RejectInv' /\ TypesInv'
<1>1. /\ UNCHANGED <<table, cccd, s_cccd_found, state, link, s_write_handle, s_notify_handle,
                     s_notify_svc, faults, outcomes, disc>>
      /\ disc = "svc" /\ pos' = pos + 1 /\ pos <= Len(table)
      /\ s_services' = IF Len(s_services) < MaxServices THEN Append(s_services, pos)
                       ELSE s_services
  BY DEF DiscSvc, NextItem, NoFault, NotFinished, cccdVars, connectVars
<1>2. /\ Len(table) \in Nat /\ MaxServices \in Nat /\ pos \in Nat
      /\ s_services \in Seq(Nat) /\ Len(s_services) \in Nat
  BY TableType, BleClientAssumption, LenProperties DEF DiscoveryInv, TypesInv
<1>3. /\ Len(s_services) <= Len(table) /\ Len(s_services) <= MaxServices
      /\ \A i \in 1..Len(s_services) : s_services[i] = i
      /\ \/ Len(s_services) = pos - 1
         \/ Len(s_services) = MaxServices /\ MaxServices < pos
  BY <1>1 DEF DiscoveryInv, ServicesInv
<1>4. s_services' \in Seq(Nat) /\ ServicesInv'
  <2>1. CASE Len(s_services) < MaxServices
    <3>1. Len(s_services) = pos - 1 /\ s_services' = Append(s_services, pos)
      BY <1>1, <1>2, <1>3, <2>1
    <3>2. /\ s_services' \in Seq(Nat) /\ Len(s_services') = pos
          /\ \A i \in 1..Len(s_services) : s_services'[i] = s_services[i]
          /\ s_services'[pos] = pos
      BY <1>2, <3>1, AppendProperties
    <3>3. \A i \in 1..Len(s_services') : s_services'[i] = i
      BY <1>2, <1>3, <3>1, <3>2
    <3>4. /\ Len(s_services') <= Len(table') /\ Len(s_services') <= MaxServices
          /\ pos' <= Len(table') + 1 /\ Len(s_services') = pos' - 1
      BY <1>1, <1>2, <2>1, <3>1, <3>2
    <3>5. QED BY <1>1, <3>2, <3>3, <3>4 DEF ServicesInv
  <2>2. CASE ~(Len(s_services) < MaxServices)
    <3>1. /\ s_services' = s_services /\ Len(s_services) = MaxServices
          /\ pos' <= Len(table') + 1 /\ MaxServices < pos'
      BY <1>1, <1>2, <1>3, <2>2
    <3>2. QED BY <1>1, <1>2, <1>3, <3>1 DEF ServicesInv
  <2>3. QED BY <2>1, <2>2
<1>5. FoundInv' /\ PairInv'
  BY <1>1 DEF DiscoveryInv, FoundInv, PairInv, Resolved
<1>6. CccdInv'
  BY <1>1 DEF DiscoveryInv, CccdInv, CccdBelongs
<1>7. RejectInv' /\ TypesInv'
  BY <1>1, <1>2, <1>4, OutcomeKept DEF DiscoveryInv, TypesInv
<1>8. QED BY <1>4, <1>5, <1>6, <1>7

LEMMA DiscSvcDoneFound ==
    ASSUME DiscoveryInv, DiscSvcDone, UNCHANGED connectVars
    PROVE  /\ ServicesInv' /\ FoundInv' /\ PairInv' /\ CccdInv'
           /\ RejectInv' /\ TypesInv'
<1>1. /\ UNCHANGED <<table, cccd, s_cccd_found, state, link, s_services,
                     s_write_handle, s_notify_handle, s_notify_svc>>
      /\ disc = "svc" /\ pos > Len(table) /\ pos' = 1 /\ disc' \in {"chr", "none"}
      /\ \/ UNCHANGED faults /\ UNCHANGED outcomes
         \/ faults' = faults + 1 /\ outcomes' = Append(outcomes, "CONNECT_ERROR")
         \/ UNCHANGED faults /\ s_services = <<>> /\ outcomes' = Append(outcomes, "CONNECT_ERROR")
      /\ disc' = "chr" => s_service_idx' = 1 /\ s_services # <<>>
  BY DEF DiscSvcDone, EndWith, Begin, NoFault, NotFinished, Fault, Finish, cccdVars, connectVars
<1>2. /\ Len(table) \in Nat /\ MaxServices \in Nat \ {0} /\ pos \in Nat
      /\ \A s \in 1..Len(table) : Len(table[s]) \in Nat
      /\ s_services \in Seq(Nat) /\ Len(s_services) \in Nat
      /\ faults \in Nat
  BY TableType, BleClientAssumption, LenProperties DEF DiscoveryInv, TypesInv
<1>3. /\ Len(s_services) <= Len(table) /\ Len(s_services) <= MaxServices
      /\ \A i \in 1..Len(s_services) : s_services[i] = i
      /\ Len(s_services) \in {Len(table), MaxServices}
  <2>1. /\ pos <= Len(table) + 1 
        /\ \/ Len(s_services) = pos - 1
           \/ Len(s_services) = MaxServices /\ MaxServices < pos
    BY <1>1 DEF DiscoveryInv, ServicesInv
  <2>2. Len(s_services) \in {Len(table), MaxServices}
    BY <1>1, <1>2, <2>1
  <2>3. QED BY <2>2 DEF DiscoveryInv, ServicesInv
<1>4. ServicesInv'
  <2>1. disc' = "chr" => 1 \in 1..Len(s_services) /\ 1 <= Len(table[1]) + 1
    <3> SUFFICES ASSUME disc' = "chr" PROVE 1 \in 1..Len(s_services) /\ 1 <= Len(table[1]) + 1
      OBVIOUS
    <3>1. Len(s_services) # 0
      BY <1>1, <1>2, EmptySeq
    <3>2. 1 \in 1..Len(s_services) /\ 1 \in 1..Len(table)
      BY <1>2, <1>3, <3>1
    <3>3. QED BY <1>2, <3>2
  <2>2. QED BY <1>1, <1>3, <2>1 DEF ServicesInv
<1>5. FoundInv' /\ PairInv'
  <2>1. s_write_handle' = NoHandle /\ s_notify_handle' = NoHandle
    BY <1>1 DEF DiscoveryInv, FoundInv
  <2>2. disc' = "chr" =>
           \A s \in 1..s_service_idx' : \A c \in DOMAIN table'[s] :
              s < s_service_idx' \/ c < pos' => Seen(s, c)'
    <3> SUFFICES ASSUME disc' = "chr", NEW s \in 1..s_service_idx', NEW c \in DOMAIN table[s]
                 PROVE  ~(s < s_service_idx' \/ c < pos')
      BY <1>1
    <3>1. s_service_idx' = 1 /\ 1 \in 1..Len(table)
      <4>1. s_service_idx' = 1 /\ Len(s_services) # 0
        BY <1>1, <1>2, EmptySeq
      <4>2. QED BY <1>2, <1>3, <4>1
    <3>2. s = 1
      BY <3>1
    <3>3. c \in 1..Len(table[1])
      BY <3>1, <3>2, TableType DEF DiscoveryInv
    <3>4. QED BY <1>1, <1>2, <3>1, <3>2, <3>3
  <2>3. QED BY <1>1, <2>1, <2>2 DEF FoundInv, PairInv, Resolved
<1>6. CccdInv'
  BY <1>1 DEF DiscoveryInv, CccdInv, CccdBelongs
<1>7. s_services = <<>> => ~Supported(table)
  <2> SUFFICES ASSUME s_services = <<>>, Supported(table) PROVE FALSE
    OBVIOUS
  <2>1. Len(table) = 0
    <3>1. Len(s_services) = 0
      OBVIOUS
    <3>2. QED BY <1>2, <1>3, <3>1
  <2>2. DOMAIN table = 1..Len(table)
    BY TableType DEF DiscoveryInv
  <2>3. QED BY <2>1, <2>2 DEF Supported
<1>8. RejectInv' /\ TypesInv'
  <2>1. faults' = faults + 1 => faults' # 0
    BY <1>2
  <2>2. RejectInv' /\ faults' \in Nat /\ outcomes' \in Seq(BleEvents)
    BY <1>1, <1>7, <2>1, OutcomeKept DEF DiscoveryInv
  <2>3. QED BY <1>1, <1>2, <2>2 DEF DiscoveryInv, TypesInv
<1>9. QED BY <1>4, <1>5, <1>6, <1>8

LEMMA DiscDscFound ==
    ASSUME DiscoveryInv, DiscDsc, UNCHANGED connectVars
    PROVE  /\ ServicesInv' /\ FoundInv' /\ PairInv' /\ CccdInv'
           /\ RejectInv' /\ TypesInv'
<1>1. PICK c \in CccdsAhead :
         /\ \A later \in CccdsAhead : c <= later
         /\ disc = "dsc" /\ disc' = disc /\ pos' = c + 1 /\ s_cccd_found'
         /\ UNCHANGED <<table, link, s_services, s_service_idx, s_write_handle,
                        s_notify_handle, s_notify_svc, state>>
         /\ \/ s_cccd_found /\ UNCHANGED cccd
            \/ ~s_cccd_found /\ cccd' = <<s_notify_svc, c>>
         /\ \/ UNCHANGED faults /\ UNCHANGED outcomes
            \/ faults' = faults + 1 /\ outcomes' = Append(outcomes, "CONNECT_ERROR")
  BY DEF DiscDsc, NoFault, NotFinished, Fault, Finish, foundVars, connectVars
<1>2. s_notify_handle # NoHandle /\ Uuid(s_notify_handle) \in NotifyUuids
  BY <1>1 DEF DiscoveryInv, ConnectInv, Resolved, HandlesBelong
<1>3. PICK s \in DOMAIN table : \E n \in DOMAIN table[s] :
         s_notify_handle = <<s, n>> /\ s_notify_svc = s
  BY <1>2 DEF DiscoveryInv, FoundInv, IsPlace
<1>4. PICK n \in DOMAIN table[s] : s_notify_handle = <<s, n>> /\ s_notify_svc = s
  BY <1>3
<1>5. /\ DOMAIN table[s] = 1..Len(table[s]) /\ Len(table[s]) \in Nat
      /\ c \in 1..Len(table[s]) /\ c >= n /\ table[s][c].cccd
  BY <1>1, <1>3, <1>4, TableType DEF DiscoveryInv, CccdsAhead, Cccds
<1>6. ServicesInv' /\ FoundInv' /\ PairInv'
  <2>1. IsPlace(s_write_handle)' = IsPlace(s_write_handle)
        /\ IsPlace(s_notify_handle)' = IsPlace(s_notify_handle)
    BY <1>1 DEF IsPlace
  <2>2. QED BY <1>1, <2>1 DEF DiscoveryInv, ServicesInv, FoundInv, PairInv, Resolved
<1>7. ASSUME CccdsInPlace(table), ~s_cccd_found PROVE c = n
  <2> SUFFICES ASSUME c # n PROVE FALSE
    OBVIOUS
  <2>1. n < c /\ n \in 1..Len(table[s]) /\ pos = 1
    BY <1>1, <1>5, <1>7 DEF DiscoveryInv, CccdInv
  <2>2. table[s][n].uuid \in NotifyUuids
    BY <1>2, <1>4 DEF Uuid
  <2>3. table[s][n].cccd
    BY <1>5, <1>7, <2>1, <2>2 DEF CccdsInPlace
  <2>4. n \in CccdsAhead
    BY <1>4, <1>5, <2>1, <2>3 DEF CccdsAhead, Cccds
  <2>5. c <= n
    BY <1>1, <2>4
  <2>6. QED BY <1>5, <2>1, <2>5
<1>8. CccdInv'
  <2>1. CccdBelongs'
    BY <1>1, <1>4, <1>7 DEF DiscoveryInv, CccdInv, CccdBelongs
  <2>2. state # "WAIT_HOST_SYNC"
    BY <1>1 DEF DiscoveryInv, ConnectInv
  <2>3. QED BY <1>1, <2>1, <2>2 DEF CccdInv
<1>9. RejectInv' /\ TypesInv'
  <2>1. faults \in Nat /\ pos' \in Nat \ {0}
    BY <1>1, <1>5 DEF DiscoveryInv, TypesInv
  <2>2. faults' = faults + 1 => faults' # 0
    BY <2>1
  <2>3. RejectInv' /\ faults' \in Nat /\ outcomes' \in Seq(BleEvents)
    BY <1>1, <2>2, OutcomeKept DEF DiscoveryInv
  <2>4. QED BY <1>1, <2>1, <2>3 DEF DiscoveryInv, TypesInv
<1>10. QED BY <1>6, <1>8, <1>9

\* The service being searched is the one its index says.
LEMMA SearchedService ==
    ASSUME DiscoveryInv, disc = "chr"
    PROVE  /\ s_services[s_service_idx] = s_service_idx /\ Chrs = table[s_service_idx]
           /\ s_service_idx \in 1..Len(s_services) /\ s_service_idx \in 1..Len(table)
           /\ s_service_idx \in DOMAIN table
           /\ Len(s_services) \in Nat /\ Len(table) \in Nat /\ pos \in Nat \ {0}
           /\ \A s \in 1..Len(table) : /\ Len(table[s]) \in Nat
                                       /\ DOMAIN table[s] = 1..Len(table[s])
<1>1. /\ Len(s_services) \in Nat /\ Len(table) \in Nat /\ pos \in Nat \ {0}
      /\ DOMAIN table = 1..Len(table)
      /\ \A s \in 1..Len(table) : /\ Len(table[s]) \in Nat
                                  /\ DOMAIN table[s] = 1..Len(table[s])
  BY TableType, LenProperties DEF DiscoveryInv, TypesInv
<1>2. /\ s_service_idx \in 1..Len(s_services) /\ s_services[s_service_idx] = s_service_idx
      /\ Len(s_services) <= Len(table)
  BY DEF DiscoveryInv, ServicesInv
<1>3. s_service_idx \in 1..Len(table) /\ s_service_idx \in DOMAIN table
  BY <1>1, <1>2
<1>4. QED BY <1>1, <1>2, <1>3 DEF Chrs

LEMMA DiscChrFound ==
    ASSUME DiscoveryInv, DiscChr, UNCHANGED connectVars
    PROVE  /\ ServicesInv' /\ FoundInv' /\ PairInv' /\ CccdInv'
           /\ RejectInv' /\ TypesInv'
<1> DEFINE here == <<s_service_idx, pos>>
           uuid == table[s_service_idx][pos].uuid
<1>1. /\ s_services[s_service_idx] = s_service_idx /\ Chrs = table[s_service_idx]
      /\ s_service_idx \in 1..Len(table) /\ s_service_idx \in DOMAIN table
      /\ Len(table) \in Nat /\ pos \in Nat \ {0}
      /\ \A s \in 1..Len(table) : /\ Len(table[s]) \in Nat
                                  /\ DOMAIN table[s] = 1..Len(table[s])
      /\ disc = "chr"
  <2>1. disc = "chr"
    BY DEF DiscChr
  <2>2. QED BY <2>1, SearchedService
<1>2. /\ UNCHANGED <<table, cccd, s_cccd_found, state, link, s_services, s_service_idx,
                     disc, faults, outcomes>>
      /\ pos' = pos + 1 /\ pos <= Len(table[s_service_idx])
  BY <1>1 DEF DiscChr, NextItem, NoFault, NotFinished, cccdVars, connectVars
<1>3. /\ s_write_handle' = IF s_write_handle = NoHandle /\ uuid \in WriteUuids
                           THEN here ELSE s_write_handle
      /\ IF s_notify_handle = NoHandle /\ uuid \in NotifyUuids
         THEN s_notify_handle' = here /\ s_notify_svc' = here[1]
         ELSE UNCHANGED <<s_notify_handle, s_notify_svc>>
  BY <1>1 DEF DiscChr
<1>4. /\ pos \in DOMAIN table[s_service_idx] /\ here # NoHandle /\ IsPlace(here)
      /\ here[1] = s_service_idx
  BY <1>1, <1>2 DEF IsPlace, NoHandle
<1>5. \A h : IsPlace(h)' <=> IsPlace(h)
  BY <1>2 DEF IsPlace
<1> HIDE DEF here, uuid
<1>6. /\ s_write_handle' # NoHandle => IsPlace(s_write_handle')
      /\ s_notify_handle' # NoHandle =>
            IsPlace(s_notify_handle') /\ s_notify_svc' = s_notify_handle'[1]
      /\ s_write_handle # NoHandle => s_write_handle' = s_write_handle
      /\ s_notify_handle # NoHandle => s_notify_handle' = s_notify_handle
      /\ uuid \in WriteUuids => s_write_handle' # NoHandle
      /\ uuid \in NotifyUuids => s_notify_handle' # NoHandle
  BY <1>3, <1>4 DEF DiscoveryInv, FoundInv
<1>7. ServicesInv'
  <2>1. pos' <= Len(table[s_service_idx]) + 1
    BY <1>1, <1>2
  <2>2. QED BY <1>1, <1>2, <2>1 DEF DiscoveryInv, ServicesInv
<1>8. FoundInv'
  <2>1. ASSUME NEW s \in 1..s_service_idx, NEW c \in DOMAIN table[s],
               s < s_service_idx \/ c < pos + 1
        PROVE  Seen(s, c)'
    <3>1. s \in 1..Len(table) /\ c \in 1..Len(table[s])
      BY <1>1
    <3>2. CASE s < s_service_idx \/ c < pos
      <4>1. Seen(s, c)
        BY <1>1, <2>1, <3>2 DEF DiscoveryInv, FoundInv
      <4>2. QED BY <1>2, <1>6, <4>1 DEF Seen
    <3>3. CASE ~(s < s_service_idx \/ c < pos)
      <4>1. s = s_service_idx /\ c = pos
        BY <1>1, <2>1, <3>1, <3>3
      <4>2. table'[s][c].uuid = uuid
        BY <1>2, <4>1 DEF uuid
      <4>3. QED BY <1>6, <4>2 DEF Seen
    <3>4. QED BY <3>2, <3>3
  <2>2. QED BY <1>1, <1>2, <1>5, <1>6, <2>1 DEF FoundInv
<1>9. PairInv'
  BY <1>1, <1>2, <1>3, <1>4, <1>6 DEF DiscoveryInv, PairInv, Resolved
<1>10. CccdInv'
  BY <1>1, <1>2 DEF DiscoveryInv, CccdInv, CccdBelongs
<1>11. RejectInv' /\ TypesInv'
  <2>1. RejectInv'
    BY <1>2, OutcomeKept DEF DiscoveryInv
  <2>2. TypesInv'
    BY <1>1, <1>2 DEF DiscoveryInv, TypesInv
  <2>3. QED BY <2>1, <2>2
<1>12. QED BY <1>7, <1>8, <1>9, <1>10, <1>11

\* At the end of a service whose variants are complete, both handles or none
\* have been found.
LEMMA BothOrNone ==
    ASSUME DiscoveryInv, disc = "chr", pos > Len(table[s_service_idx]), VariantsComplete(table)
    PROVE  s_write_handle = NoHandle <=> s_notify_handle = NoHandle
<1>1. /\ s_service_idx \in 1..Len(table) /\ s_service_idx \in DOMAIN table
      /\ pos \in Nat \ {0}
      /\ \A s \in 1..Len(table) : /\ Len(table[s]) \in Nat
                                  /\ DOMAIN table[s] = 1..Len(table[s])
  BY SearchedService
<1>2. \A c \in DOMAIN table[s_service_idx] : Seen(s_service_idx, c)
  <2>1. \A c \in DOMAIN table[s_service_idx] : c < pos /\ s_service_idx \in 1..s_service_idx
    BY <1>1
  <2>2. QED BY <2>1 DEF DiscoveryInv, FoundInv
<1>3. ASSUME NEW h, IsPlace(h), h[1] = s_service_idx, Uuid(h) \in WriteUuids \cup NotifyUuids
      PROVE  s_write_handle # NoHandle /\ s_notify_handle # NoHandle
  <2>1. PICK c \in DOMAIN table[s_service_idx] : h = <<s_service_idx, c>>
    BY <1>3 DEF IsPlace
  <2>2. PICK v \in Variants : table[s_service_idx][c].uuid \in {v[1], v[2]}
    BY <1>3, <2>1 DEF Uuid, Variants, WriteUuids, NotifyUuids
  <2>3. Has(table[s_service_idx], v[1]) /\ Has(table[s_service_idx], v[2])
    BY <1>1, <2>2 DEF VariantsComplete, Has
  <2>4. v[1] \in WriteUuids /\ v[2] \in NotifyUuids
    BY DEF Variants, WriteUuids, NotifyUuids
  <2>5. QED BY <1>2, <2>3, <2>4 DEF Has, Seen
<1>4. ASSUME s_write_handle # NoHandle PROVE s_notify_handle # NoHandle
  <2> SUFFICES ASSUME s_notify_handle = NoHandle PROVE FALSE
    OBVIOUS
  <2>1. s_write_handle[1] = s_service_idx
    BY <1>4 DEF DiscoveryInv, PairInv
  <2>2. IsPlace(s_write_handle) /\ Uuid(s_write_handle) \in WriteUuids
    BY <1>4 DEF DiscoveryInv, FoundInv, ConnectInv, HandlesBelong
  <2>3. QED BY <1>3, <2>1, <2>2
<1>5. ASSUME s_notify_handle # NoHandle PROVE s_write_handle # NoHandle
  <2> SUFFICES ASSUME s_write_handle = NoHandle PROVE FALSE
    OBVIOUS
  <2>1. s_notify_handle[1] = s_service_idx
    BY <1>5 DEF DiscoveryInv, PairInv
  <2>2. IsPlace(s_notify_handle) /\ Uuid(s_notify_handle) \in NotifyUuids
    BY <1>5 DEF DiscoveryInv, FoundInv, ConnectInv, HandlesBelong
  <2>3. QED BY <1>3, <2>1, <2>2
<1>6. QED BY <1>4, <1>5

\* After the last service both handles of a supported device have been found.
LEMMA SupportedFound ==
    ASSUME DiscoveryInv, disc = "chr", pos > Len(table[s_service_idx]),
           s_service_idx = Len(s_services), Supported(table)
    PROVE  Resolved
<1>1. /\ s_service_idx \in 1..Len(table) /\ Len(table) \in Nat
      /\ pos \in Nat \ {0}
      /\ \A s \in 1..Len(table) : /\ Len(table[s]) \in Nat
                                  /\ DOMAIN table[s] = 1..Len(table[s])
  BY SearchedService
<1>2. PICK s \in DOMAIN table : \E v \in Variants :
         s <= MaxServices /\ Has(table[s], v[1]) /\ Has(table[s], v[2])
  BY DEF Supported
<1>3. PICK v \in Variants :
         s <= MaxServices /\ Has(table[s], v[1]) /\ Has(table[s], v[2])
  BY <1>2
<1>4. s \in 1..s_service_idx /\ s \in 1..Len(table)
  <2>1. s \in 1..Len(table)
    BY TableType DEF DiscoveryInv
  <2>2. Len(s_services) \in {Len(table), MaxServices}
    BY DEF DiscoveryInv, ServicesInv
  <2>3. QED BY <1>1, <1>3, <2>1, <2>2, BleClientAssumption
<1>5. \A c \in DOMAIN table[s] : Seen(s, c)
  <2>1. \A c \in DOMAIN table[s] : s < s_service_idx \/ c < pos
    BY <1>1, <1>4
  <2>2. QED BY <1>4, <2>1 DEF DiscoveryInv, FoundInv
<1>6. v[1] \in WriteUuids /\ v[2] \in NotifyUuids
  BY DEF Variants, WriteUuids, NotifyUuids
<1>7. QED BY <1>3, <1>5, <1>6 DEF Has, Seen, Resolved

LEMMA DiscChrDoneFound ==
    ASSUME DiscoveryInv, DiscChrDone, UNCHANGED connectVars
    PROVE  /\ ServicesInv' /\ FoundInv' /\ PairInv' /\ CccdInv'
           /\ RejectInv' /\ TypesInv'
<1>1. disc = "chr"
  BY DEF DiscChrDone
<1>2. /\ s_services[s_service_idx] = s_service_idx /\ Chrs = table[s_service_idx]
      /\ s_service_idx \in 1..Len(s_services) /\ s_service_idx \in 1..Len(table)
      /\ Len(s_services) \in Nat /\ Len(table) \in Nat /\ pos \in Nat \ {0}
      /\ \A s \in 1..Len(table) : /\ Len(table[s]) \in Nat
                                  /\ DOMAIN table[s] = 1..Len(table[s])
  BY <1>1, SearchedService
<1>3. /\ UNCHANGED <<table, cccd, s_cccd_found, state, link, s_services,
                     s_write_handle, s_notify_handle, s_notify_svc>>
      /\ s_service_idx' = s_service_idx + 1 /\ pos' = 1 /\ pos > Len(table[s_service_idx])
      /\ disc' \in {"chr", "dsc", "none"}
      /\ disc' = "chr" => s_service_idx' <= Len(s_services)
      /\ \/ UNCHANGED faults /\ UNCHANGED outcomes
         \/ faults' = faults + 1 /\ outcomes' = Append(outcomes, "CONNECT_ERROR")
         \/ /\ UNCHANGED faults /\ ~Resolved /\ ~(s_service_idx' <= Len(s_services))
            /\ outcomes' = Append(outcomes, "CONNECT_ERROR")
  BY <1>2 DEF DiscChrDone, EndWith, Begin, NoFault, NotFinished, Fault, Finish, cccdVars,
              connectVars, Resolved
<1>4. ServicesInv'
  <2>1. disc' = "chr" =>
           s_service_idx' \in 1..Len(s_services) /\ 1 <= Len(table[s_service_idx']) + 1
    <3> SUFFICES ASSUME disc' = "chr"
                 PROVE  /\ s_service_idx' \in 1..Len(s_services)
                        /\ 1 <= Len(table[s_service_idx']) + 1
      OBVIOUS
    <3>1. s_service_idx' \in 1..Len(s_services)
      BY <1>2, <1>3
    <3>2. s_service_idx' \in 1..Len(table)
      BY <1>2, <3>1 DEF DiscoveryInv, ServicesInv
    <3>3. QED BY <1>2, <3>1, <3>2
  <2>2. QED BY <1>1, <1>3, <2>1 DEF DiscoveryInv, ServicesInv
<1>5. FoundInv'
  <2>1. \A h : IsPlace(h)' <=> IsPlace(h)
    BY <1>3 DEF IsPlace
  <2>2. ASSUME disc' = "chr", NEW s \in 1..s_service_idx', NEW c \in DOMAIN table[s],
               s < s_service_idx' \/ c < 1
        PROVE  Seen(s, c)'
    <3>1. s_service_idx' \in 1..Len(table)
      BY <1>2, <1>3, <2>2 DEF DiscoveryInv, ServicesInv
    <3>2. s \in 1..Len(table)
      BY <1>2, <3>1
    <3>3. c \in 1..Len(table[s])
      BY <1>2, <3>2
    <3>4. s \in 1..s_service_idx /\ (s < s_service_idx \/ c < pos)
      <4>1. s < s_service_idx \/ s = s_service_idx
        BY <1>2, <1>3, <2>2, <3>3
      <4>2. QED BY <1>2, <1>3, <3>2, <3>3, <4>1
    <3>5. Seen(s, c)
      BY <1>1, <3>4 DEF DiscoveryInv, FoundInv
    <3>6. QED BY <1>3, <3>5 DEF Seen
  <2>3. QED BY <1>3, <2>1, <2>2 DEF DiscoveryInv, FoundInv
<1>6. PairInv'
  <2>1. VariantsComplete(table) => (s_write_handle = NoHandle <=> s_notify_handle = NoHandle)
    BY <1>1, <1>3, BothOrNone
  <2>2. QED BY <1>3, <2>1 DEF DiscoveryInv, PairInv, Resolved
<1>7. CccdInv'
  BY <1>1, <1>3 DEF DiscoveryInv, CccdInv, CccdBelongs
<1>8. RejectInv' /\ TypesInv'
  <2>1. faults \in Nat
    BY DEF DiscoveryInv, TypesInv
  <2>2. faults' = faults + 1 => faults' # 0
    BY <2>1
  <2>3. ~Resolved /\ ~(s_service_idx' <= Len(s_services)) => ~Supported(table)
    <3>1. ~(s_service_idx' <= Len(s_services)) => s_service_idx = Len(s_services)
      BY <1>2, <1>3
    <3>2. QED BY <1>1, <1>3, <3>1, SupportedFound
  <2>4. RejectInv' /\ faults' \in Nat /\ outcomes' \in Seq(BleEvents)
    BY <1>3, <2>2, <2>3, OutcomeKept DEF DiscoveryInv
  <2>5. QED BY <1>3, <2>4 DEF DiscoveryInv, TypesInv
<1>9. QED BY <1>4, <1>5, <1>6, <1>7, <1>8

------------------------------------------------------------------------------
(* The other steps *)

\* The discovery of a supported device's descriptors does not end without a CCCD.
LEMMA CccdFound ==
    ASSUME DiscoveryInv, disc = "dsc", CccdsAhead = {}, Supported(table)
    PROVE  s_cccd_found
<1> SUFFICES ASSUME ~s_cccd_found PROVE FALSE
  OBVIOUS
<1>1. s_notify_handle # NoHandle /\ Uuid(s_notify_handle) \in NotifyUuids /\ pos = 1
  BY DEF DiscoveryInv, ConnectInv, Resolved, HandlesBelong, CccdInv
<1>2. PICK s \in DOMAIN table : \E n \in DOMAIN table[s] :
         s_notify_handle = <<s, n>> /\ s_notify_svc = s
  BY <1>1 DEF DiscoveryInv, FoundInv, IsPlace
<1>3. PICK n \in DOMAIN table[s] : s_notify_handle = <<s, n>> /\ s_notify_svc = s
  BY <1>2
<1>4. table[s][n].cccd
  BY <1>1, <1>3 DEF Supported, Uuid
<1>5. n \in Nat /\ n >= 1
  BY <1>2, TableType DEF DiscoveryInv
<1>6. n \in CccdsAhead
  BY <1>1, <1>3, <1>4, <1>5 DEF CccdsAhead, Cccds
<1>7. QED BY <1>6

\* Steps of the host task that search for nothing.
LEMMA EventFound ==
    ASSUME DiscoveryInv, UNCHANGED connectVars,
           \/ GapConnectFailed \/ GapDisconnected \/ DiscDscDone \/ DiscFailed
           \/ OnCccdWrite \/ OnCccdWriteFailed
    PROVE  /\ ServicesInv' /\ FoundInv' /\ PairInv' /\ CccdInv'
           /\ RejectInv' /\ TypesInv'
<1>1. /\ UNCHANGED foundAndTable /\ state' = state
      /\ UNCHANGED <<disc, pos>> \/ (disc' = "none" /\ pos' = 1)
  BY DEF GapConnectFailed, GapDisconnected, DiscDscDone, DiscFailed, OnCccdWrite,
         OnCccdWriteFailed, EndWith, foundVars, cccdVars, foundAndTable, connectVars
<1>2. ServicesInv' /\ FoundInv' /\ PairInv' /\ CccdInv'
  BY <1>1, FoundKept DEF DiscoveryInv
<1>3. faults \in Nat /\ (faults' = faults + 1 => faults' # 0)
      /\ (link = "broken" => faults # 0)
  BY DEF DiscoveryInv, TypesInv, RejectInv
<1>4. /\ \/ UNCHANGED faults /\ link' \in {link, "up", "down"}
         \/ faults' = faults + 1
      /\ \/ UNCHANGED outcomes
         \/ outcomes' = Append(outcomes, "CONNECTED")
         \/ faults' # 0 /\ outcomes' = Append(outcomes, "CONNECT_ERROR")
         \/ ~Supported(table) /\ outcomes' = Append(outcomes, "CONNECT_ERROR")
  <2>1. CASE GapConnectFailed \/ DiscFailed \/ OnCccdWriteFailed
    BY <1>3, <2>1 DEF GapConnectFailed, DiscFailed, OnCccdWriteFailed, Fault, NoFault, EndWith, Finish
  <2>2. CASE GapDisconnected
    BY <2>2 DEF GapDisconnected
  <2>3. CASE OnCccdWrite
    BY <2>3 DEF OnCccdWrite, Finish
  <2>4. CASE DiscDscDone
    <3>1. disc = "dsc" /\ CccdsAhead = {} /\ UNCHANGED <<faults, link>>
      BY <2>4 DEF DiscDscDone
    <3>2. UNCHANGED outcomes \/ (~s_cccd_found /\ outcomes' = Append(outcomes, "CONNECT_ERROR"))
      BY <2>4 DEF DiscDscDone, NotFinished, Finish
    <3>3. QED BY <3>1, <3>2, CccdFound
  <2>5. QED BY <2>1, <2>2, <2>3, <2>4
<1>5. RejectInv' /\ faults' \in Nat /\ outcomes' \in Seq(BleEvents)
  BY <1>1, <1>4, OutcomeKept DEF DiscoveryInv, foundAndTable
<1>6. TypesInv'
  BY <1>1, <1>5 DEF DiscoveryInv, TypesInv, foundAndTable
<1>7. QED BY <1>2, <1>5, <1>6

\* Steps of the other tasks, and breaking links.
LEMMA OthersFound ==
    ASSUME DiscoveryInv,
           \/ OwnerStep \/ WaitTimesOut \/ (LinkBreaks /\ UNCHANGED connectVars) \/ OnSync
           \/ (\E p \in Ports : Press(p)) \/ UNCHANGED vars
    PROVE  /\ ServicesInv' /\ FoundInv' /\ PairInv' /\ CccdInv'
           /\ RejectInv' /\ TypesInv'
<1>1. /\ UNCHANGED <<foundAndTable, outcomes>>
      /\ UNCHANGED <<faults, link>> \/ faults' = faults + 1
      /\ state' = "WAIT_HOST_SYNC" => state = "WAIT_HOST_SYNC"
      /\ \/ UNCHANGED <<disc, pos>>
         \/ disc' = "connect" /\ state = "WAIT_HOST_SYNC" /\ pos' = 1
  <2>1. CASE OwnerStep \/ WaitTimesOut
    BY <2>1
    DEF OwnerStep, WaitTimesOut, StrayEvent, HostSynced, StartConnectFails, ConnectFailed,
        Connected, Return, StartConnect, Fault, bleVars, nimbleVars, foundVars, cccdVars,
        connectVars, foundAndTable
  <2>2. CASE LinkBreaks /\ UNCHANGED connectVars
    BY <2>2 DEF LinkBreaks, Fault, foundVars, cccdVars, connectVars, foundAndTable
  <2>3. CASE OnSync \/ \E p \in Ports : Press(p)
    BY <2>3 DEF OnSync, Press, bleVars, nimbleVars, foundVars, cccdVars, foundAndTable
  <2>4. CASE UNCHANGED vars
    BY <2>4 DEF vars, bleVars, nimbleVars, foundVars, cccdVars, connectVars, foundAndTable
  <2>5. QED BY <2>1, <2>2, <2>3, <2>4
<1>2. ServicesInv' /\ FoundInv' /\ PairInv' /\ CccdInv'
  BY <1>1, FoundKept DEF DiscoveryInv
<1>3. RejectInv' /\ faults' \in Nat /\ outcomes' \in Seq(BleEvents)
  BY <1>1, OutcomeKept DEF DiscoveryInv, foundAndTable
<1>4. TypesInv'
  BY <1>1, <1>3 DEF DiscoveryInv, TypesInv, foundAndTable
<1>5. QED BY <1>2, <1>3, <1>4

LEMMA StepDiscovery == DiscoveryInv /\ [Next]_vars => DiscoveryInv'
<1> SUFFICES ASSUME DiscoveryInv, [Next]_vars PROVE DiscoveryInv'
  OBVIOUS
<1>1. ConnectInv'
  BY ConnectStep DEF DiscoveryInv
<1>2. CASE HostTask
  <2>1. ServicesInv' /\ FoundInv' /\ PairInv' /\ CccdInv' /\ RejectInv' /\ TypesInv'
    BY <1>2, GapConnectedFound, DiscSvcFound, DiscSvcDoneFound, DiscChrFound,
       DiscChrDoneFound, DiscDscFound, EventFound
    DEF HostTask, HostStep
  <2>2. QED BY <1>1, <2>1 DEF DiscoveryInv
<1>3. CASE ~HostTask
  <2>1. ServicesInv' /\ FoundInv' /\ PairInv' /\ CccdInv' /\ RejectInv' /\ TypesInv'
    BY <1>3, OthersFound DEF Next
  <2>2. QED BY <1>1, <2>1 DEF DiscoveryInv
<1>4. QED BY <1>2, <1>3

THEOREM DiscoveryInvariant == Spec => []DiscoveryInv
BY InitDiscovery, StepDiscovery, PTL DEF Spec

\* Notifications are switched on at the characteristic they will come from.
THEOREM SubscriptionBelongs == Spec => []CccdBelongs
<1>1. DiscoveryInv => CccdBelongs
  BY DEF DiscoveryInv, CccdInv
<1>2. QED BY <1>1, DiscoveryInvariant, PTL

\* The two searches, each for the first characteristic of its kind, end with
\* characteristics of the same variant.
THEOREM OneVariant == Spec => []PairMatches
<1>1. DiscoveryInv => PairMatches
  <2> SUFFICES ASSUME DiscoveryInv, VariantsComplete(table), Resolved
               PROVE  <<Uuid(s_write_handle), Uuid(s_notify_handle)>> \in Variants
    BY DEF PairMatches, Resolved
  <2>1. /\ s_write_handle[1] = s_notify_handle[1]
        /\ IsPlace(s_write_handle) /\ IsPlace(s_notify_handle)
        /\ Uuid(s_write_handle) \in WriteUuids /\ Uuid(s_notify_handle) \in NotifyUuids
    BY DEF DiscoveryInv, PairInv, FoundInv, ConnectInv, HandlesBelong, Resolved
  <2>2. PICK s \in DOMAIN table : /\ Has(table[s], Uuid(s_write_handle))
                                  /\ Has(table[s], Uuid(s_notify_handle))
    <3>1. PICK s \in DOMAIN table : \E w \in DOMAIN table[s] : s_write_handle = <<s, w>>
      BY <2>1 DEF IsPlace
    <3>2. PICK w \in DOMAIN table[s] : s_write_handle = <<s, w>>
      BY <3>1
    <3>3. PICK n \in DOMAIN table[s] : s_notify_handle = <<s, n>>
      BY <2>1, <3>2 DEF IsPlace
    <3>4. QED BY <3>2, <3>3 DEF Has, Uuid
  <2>3. PICK v \in Variants, w \in Variants :
           v[1] = Uuid(s_write_handle) /\ w[2] = Uuid(s_notify_handle)
    <3>1. \E v \in Variants : v[1] = Uuid(s_write_handle)
      BY <2>1 DEF Variants, WriteUuids
    <3>2. \E w \in Variants : w[2] = Uuid(s_notify_handle)
      BY <2>1 DEF Variants, NotifyUuids
    <3>3. QED BY <3>1, <3>2
  <2>4. v = w
    BY <2>2, <2>3 DEF VariantsComplete
  <2>5. v = <<v[1], v[2]>>
    BY DEF Variants
  <2>6. QED BY <2>3, <2>4, <2>5
<1>2. QED BY <1>1, DiscoveryInvariant, PTL

\* Whatever order the device lists its services and characteristics in, a
\* supported one is rejected only after a procedure or the link has failed.
THEOREM SupportedAccepted == Spec => []NoFalseRejection
<1>1. DiscoveryInv => NoFalseRejection
  BY DEF DiscoveryInv, RejectInv
<1>2. QED BY <1>1, DiscoveryInvariant, PTL
==============================================================================
