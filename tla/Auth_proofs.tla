------------------------------ MODULE Auth_proofs ------------------------------
(***************************************************************************)
(* Proofs about Auth, for every timeout, queue length and number of bad,   *)
(* lost and unasked frames.  What an unasked frame may be is restricted to *)
(* what the handshake cannot decode: a packet that decodes may end steps 3 *)
(* and 4 by itself.                                                        *)
(***************************************************************************)
EXTENDS Auth, SequenceTheorems, FiniteSetTheorems, FunctionTheorems, TLAPS

OnlyUndecodable == ExtraKinds \subseteq {"garbage", "long"}

------------------------------------------------------------------------------
(* One request at a time, and its reply *)

\* The request under way has not been served; the station is never ahead.
Asked ==
    /\ Running => tx = <<>> \/ (waiting /\ tx = <<step>>)
    /\ tx # <<>> => served < tx[1]
    /\ Running => served <= step /\ (served = step => waiting /\ tx = <<>>)
    /\ verdict # "none" => served = 4
    /\ step = SUCCEEDED => verdict = "accepted" /\ tx = <<>>

\* Replies of which there is one for a request.
IsReply(f) == f.kind \in {"pubkey", "session", "bad", "status"}

\* A frame that is still to be looked at belongs to the step under way.
Belongs(f) ==
    /\ f.kind = "pubkey"  => served = 1 /\ step = 1
    /\ f.kind = "session" => served = 2 /\ step = 2
    /\ f.kind = "bad"     => served = step /\ step <= 2
    /\ f.kind = "status"  => served = 3 /\ step = 3
    /\ f.kind \in {"accept", "other"} => verdict = "accepted"
    /\ f.kind = "refuse"  => verdict = "refused"

RepliesBelong == Running => \A i \in DOMAIN rx : Belongs(rx[i])

OneReply ==
    Running => \A i, j \in DOMAIN rx : IsReply(rx[i]) /\ IsReply(rx[j]) => i = j

AuthInv == TypeOK /\ Asked /\ RepliesBelong /\ OneReply

LEMMA Types ==
    ASSUME TypeOK
    PROVE  /\ Timeout \in Nat /\ Timeout > 0 /\ QueueCap \in Nat /\ QueueCap > 0
           /\ MaxBad \in Nat /\ MaxLost \in Nat /\ MaxExtra \in Nat
           /\ Len(rx) \in Nat /\ DOMAIN rx = 1..Len(rx)
           /\ Len(tx) \in Nat
BY AuthAssumption, LenProperties DEF TypeOK

------------------------------------------------------------------------------
(* Taking a frame *)

LEMMA TailOfRx ==
    ASSUME TypeOK, rx # <<>>, rx' = Tail(rx)
    PROVE  /\ Head(rx) \in Frame /\ Head(rx) = rx[1] /\ 1 \in DOMAIN rx
           /\ rx' \in Seq(Frame) /\ Len(rx') <= QueueCap /\ Len(rx') = Len(rx) - 1
           /\ DOMAIN rx' = 1..(Len(rx) - 1)
           /\ \A i \in DOMAIN rx' : i + 1 \in DOMAIN rx /\ rx'[i] = rx[i + 1]
<1>1. rx \in Seq(Frame) /\ Len(rx) \in Nat /\ Len(rx) <= QueueCap /\ QueueCap \in Nat
      /\ DOMAIN rx = 1..Len(rx)
  BY Types DEF TypeOK
<1>2. /\ Head(rx) \in Frame /\ Tail(rx) \in Seq(Frame) /\ Len(Tail(rx)) = Len(rx) - 1
      /\ \A i \in 1..Len(Tail(rx)) : Tail(rx)[i] = rx[i + 1]
  BY <1>1, HeadTailProperties
<1>3. Head(rx) = rx[1]
  OBVIOUS
<1>4. Len(rx) >= 1
  BY <1>1, EmptySeq
<1>5. DOMAIN Tail(rx) = 1..(Len(rx) - 1)
  BY <1>2, LenProperties
<1>6. QED BY <1>1, <1>2, <1>3, <1>4, <1>5

\* A frame is taken from the reassembler only if there is one.
LEMMA FrameTaken ==
    ASSUME TypeOK, TakeFrame
    PROVE  /\ rx # <<>> /\ rx' = Tail(rx) /\ held' \in 0..Len(rx')
           /\ UNCHANGED <<tx, link, served, verdict, bad, lost, extra>>
           /\ Running /\ waiting
<1>1. /\ held > 0 /\ held' = held - 1 /\ rx' = Tail(rx) /\ Running /\ waiting
      /\ UNCHANGED <<tx, link, served, verdict, bad, lost, extra>>
  BY DEF TakeFrame, stationVars
<1>2. held \in 0..Len(rx) /\ Len(rx) \in Nat
  BY Types DEF TypeOK
<1>3. rx # <<>>
  <2>1. Len(rx) # 0
    BY <1>1, <1>2
  <2>2. QED BY <2>1, EmptySeq
<1>4. Len(rx') = Len(rx) - 1
  BY <1>1, <1>3, TailOfRx
<1>5. held' \in 0..Len(rx')
  BY <1>1, <1>2, <1>4
<1>6. QED BY <1>1, <1>3, <1>5

\* What is left after a frame has been taken still belongs to the step, as
\* long as the step stays the same.
LEMMA TakeKeeps ==
    ASSUME AuthInv, rx # <<>>, rx' = Tail(rx), UNCHANGED <<served, verdict>>,
           step' = step
    PROVE  RepliesBelong' /\ OneReply'
<1>1. /\ \A i \in DOMAIN rx' : i + 1 \in DOMAIN rx /\ rx'[i] = rx[i + 1]
      /\ \A i \in DOMAIN rx' : i \in Nat
  BY TailOfRx, Types DEF AuthInv
<1>2. RepliesBelong'
  BY <1>1 DEF AuthInv, RepliesBelong, Belongs, Running
<1>3. OneReply'
  BY <1>1 DEF AuthInv, OneReply, IsReply, Running
<1>4. QED BY <1>2, <1>3

\* A reply that is taken was the only one: what is left is data nobody asked for.
LEMMA ReplyTaken ==
    ASSUME AuthInv, Running, step <= 3, rx # <<>>, rx' = Tail(rx), IsReply(Head(rx)),
           UNCHANGED <<served, verdict>>
    PROVE  RepliesBelong' /\ OneReply'
<1>1. /\ \A i \in DOMAIN rx' : i \in Nat /\ i >= 1 /\ i + 1 \in DOMAIN rx /\ rx'[i] = rx[i + 1]
      /\ 1 \in DOMAIN rx /\ Head(rx) = rx[1]
  BY TailOfRx, Types DEF AuthInv
<1>2. \A i \in DOMAIN rx' : ~IsReply(rx'[i])
  BY <1>1 DEF AuthInv, OneReply, Running
<1>3. \A i \in DOMAIN rx' : rx'[i].kind \notin {"accept", "other", "refuse"}
  <2>1. verdict = "none"
    BY DEF AuthInv, Asked, Running, TypeOK
  <2>2. QED BY <1>1, <2>1 DEF AuthInv, RepliesBelong, Belongs
<1>4. RepliesBelong' /\ OneReply'
  BY <1>2, <1>3 DEF RepliesBelong, OneReply, Belongs, IsReply
<1>5. QED BY <1>4

------------------------------------------------------------------------------
(* The handshake's steps *)

LEMMA GotoTypes ==
    ASSUME NEW next \in 0..5, TypeOK, Goto(next)
    PROVE  /\ step' = next /\ waiting' = FALSE /\ waiting' \in BOOLEAN
           /\ timer' \in 0..Timeout /\ waited' \in 0..WaitCap
<1>1. WaitCap \in Nat
  <2>1. Timeout * (1 + MaxExtra) \in Nat
    BY Types
  <2>2. QED BY <2>1 DEF WaitCap
<1>2. waiting' = FALSE /\ waiting' \in BOOLEAN
  BY DEF Goto
<1>3. timer' \in 0..Timeout /\ waited' \in 0..WaitCap
  BY <1>1, Types DEF Goto
<1>4. QED BY <1>2, <1>3 DEF Goto

\* The handshake's own steps disturb its variables and rx only.
LEMMA AppTypes ==
    ASSUME TypeOK, UNCHANGED <<tx, link, served, verdict, bad, lost, extra>>,
           step' \in 0..5, waiting' \in BOOLEAN,
           timer' \in 0..Timeout, waited' \in 0..WaitCap,
           rx' \in Seq(Frame), Len(rx') <= QueueCap, held' \in 0..Len(rx')
    PROVE  TypeOK'
BY DEF TypeOK

LEMMA SendRequestInv == AuthInv /\ SendRequest => AuthInv'
<1> SUFFICES ASSUME AuthInv, SendRequest PROVE AuthInv'
  OBVIOUS
<1>1. /\ Running /\ ~waiting /\ tx' = Append(tx, step) /\ waiting' = TRUE
      /\ timer' = Timeout /\ waited' = 0
      /\ UNCHANGED <<step, rx, held, link, served, verdict, bad, lost, extra>>
  BY DEF SendRequest, stationVars
<1>2. tx = <<>> /\ served < step /\ step \in 1..4
  BY <1>1 DEF AuthInv, Asked, Running, TypeOK
<1>3. tx' = <<step>> /\ tx' \in Seq(1..4) /\ Len(tx') = 1 /\ tx'[1] = step /\ tx' # <<>>
  BY <1>1, <1>2
<1>4. WaitCap \in Nat
  <2>1. Timeout * (1 + MaxExtra) \in Nat
    BY Types DEF AuthInv
  <2>2. QED BY <2>1 DEF WaitCap
<1>5. TypeOK'
  BY <1>1, <1>3, <1>4, Types DEF AuthInv, TypeOK
<1>6. Asked'
  BY <1>1, <1>2, <1>3 DEF AuthInv, Asked, TypeOK, Running, SUCCEEDED
<1>7. RepliesBelong' /\ OneReply'
  BY <1>1 DEF AuthInv, RepliesBelong, OneReply, Belongs, IsReply, Running
<1>8. QED BY <1>5, <1>6, <1>7 DEF AuthInv

\* A step that fails leaves nothing to be said but the types.
LEMMA FailsInv ==
    ASSUME AuthInv, Goto(FAILED), UNCHANGED <<tx, link, stationVars>>,
           UNCHANGED <<rx, held>> \/ TakeFrame
    PROVE  AuthInv'
<1>1. /\ step' = 0 /\ step' \in 0..5 /\ waiting' = FALSE /\ waiting' \in BOOLEAN
      /\ timer' \in 0..Timeout /\ waited' \in 0..WaitCap
  BY GotoTypes DEF AuthInv, FAILED
<1>2. rx' \in Seq(Frame) /\ Len(rx') <= QueueCap /\ held' \in 0..Len(rx')
  <2>1. CASE UNCHANGED <<rx, held>>
    BY <2>1 DEF AuthInv, TypeOK
  <2>2. CASE TakeFrame
    BY <2>2, FrameTaken, TailOfRx DEF AuthInv
  <2>3. QED BY <2>1, <2>2
<1>3. TypeOK'
  BY <1>1, <1>2, AppTypes DEF AuthInv, stationVars
<1>4. Asked' /\ RepliesBelong' /\ OneReply'
  BY <1>1 DEF AuthInv, Asked, RepliesBelong, OneReply, Running, SUCCEEDED, stationVars
<1>5. QED BY <1>3, <1>4 DEF AuthInv

\* Taking a frame and staying in the step.
LEMMA StaysInv ==
    ASSUME AuthInv, TakeFrame, step' = step, waiting' = waiting, waited' = waited,
           timer' \in {timer, Timeout}
    PROVE  AuthInv'
<1>1. /\ rx # <<>> /\ rx' = Tail(rx) /\ held' \in 0..Len(rx')
      /\ UNCHANGED <<tx, link, served, verdict, bad, lost, extra>>
  BY FrameTaken DEF AuthInv
<1>2. RepliesBelong' /\ OneReply'
  BY <1>1, TakeKeeps
<1>3. rx' \in Seq(Frame) /\ Len(rx') <= QueueCap
  BY <1>1, TailOfRx DEF AuthInv
<1>4. TypeOK'
  <2>1. step' \in 0..5 /\ waiting' \in BOOLEAN
    BY DEF AuthInv, TypeOK
  <2>2. timer' \in 0..Timeout /\ waited' \in 0..WaitCap
    BY Types DEF AuthInv, TypeOK
  <2>3. QED BY <1>1, <1>3, <2>1, <2>2, AppTypes DEF AuthInv
<1>5. Asked'
  BY <1>1 DEF AuthInv, Asked, Running
<1>6. QED BY <1>2, <1>4, <1>5 DEF AuthInv

\* The reply of this step leads to the next one.
LEMMA NextStepInv ==
    ASSUME AuthInv, TakeFrame, step <= 3, Goto(step + 1), IsReply(Head(rx))
    PROVE  AuthInv'
<1>1. /\ Running /\ rx # <<>> /\ rx' = Tail(rx) /\ held' \in 0..Len(rx')
      /\ UNCHANGED <<tx, link, served, verdict, bad, lost, extra>>
  BY FrameTaken DEF AuthInv
<1>2. step \in 1..3 /\ step + 1 \in 2..4
  BY <1>1 DEF Running
<1>3. /\ step' = step + 1 /\ waiting' = FALSE /\ waiting' \in BOOLEAN
      /\ timer' \in 0..Timeout /\ waited' \in 0..WaitCap /\ step' \in 0..5
  <2>1. step + 1 \in 0..5
    BY <1>2
  <2>2. QED BY <2>1, GotoTypes DEF AuthInv
<1>4. RepliesBelong' /\ OneReply'
  BY <1>1, ReplyTaken
<1>5. rx' \in Seq(Frame) /\ Len(rx') <= QueueCap /\ Head(rx) = rx[1] /\ 1 \in DOMAIN rx
  BY <1>1, TailOfRx DEF AuthInv
<1>6. TypeOK'
  BY <1>1, <1>3, <1>5, AppTypes DEF AuthInv
<1>7. served = step
  BY <1>1, <1>5 DEF AuthInv, RepliesBelong, Belongs, IsReply
<1>8. tx = <<>> /\ verdict = "none"
  BY <1>1, <1>2, <1>7 DEF AuthInv, Asked, TypeOK
<1>9. Asked'
  BY <1>1, <1>2, <1>3, <1>7, <1>8 DEF Asked, Running, SUCCEEDED
<1>10. QED BY <1>4, <1>6, <1>9 DEF AuthInv

LEMMA ResultInv == AuthInv /\ ResultReceived => AuthInv'
<1> SUFFICES ASSUME AuthInv, ResultReceived PROVE AuthInv'
  OBVIOUS
<1>1. /\ rx # <<>> /\ rx' = Tail(rx) /\ step = 4 /\ Running /\ TakeFrame
      /\ held' \in 0..Len(rx') /\ Head(rx).kind \in {"accept", "refuse", "status", "other"}
      /\ UNCHANGED <<tx, link, served, verdict, bad, lost, extra>>
  BY FrameTaken DEF ResultReceived, AuthInv
<1>2. CASE Head(rx).kind = "refuse"
  BY <1>1, <1>2, FailsInv DEF ResultReceived, stationVars
<1>3. CASE Head(rx).kind # "refuse"
  <2>1. Head(rx) = rx[1] /\ 1 \in DOMAIN rx /\ rx' \in Seq(Frame) /\ Len(rx') <= QueueCap
    BY <1>1, TailOfRx DEF AuthInv
  <2>2. verdict = "accepted"
    BY <1>1, <1>3, <2>1 DEF AuthInv, RepliesBelong, Belongs
  <2>3. tx = <<>>
    BY <1>1, <2>2 DEF AuthInv, Asked
  <2>4. /\ step' = 5 /\ step' \in 0..5 /\ waiting' = FALSE /\ waiting' \in BOOLEAN
        /\ timer' \in 0..Timeout /\ waited' \in 0..WaitCap
    BY <1>3, GotoTypes DEF AuthInv, ResultReceived, SUCCEEDED
  <2>5. TypeOK'
    BY <1>1, <2>1, <2>4, AppTypes DEF AuthInv
  <2>6. Asked' /\ RepliesBelong' /\ OneReply'
    BY <1>1, <2>2, <2>3, <2>4
    DEF AuthInv, Asked, RepliesBelong, OneReply, Running, SUCCEEDED
  <2>7. QED BY <2>5, <2>6 DEF AuthInv
<1>4. QED BY <1>2, <1>3

LEMMA KeyExchangedInv == AuthInv /\ (KeyExchanged \/ SessionKeyDerived) => AuthInv'
<1> SUFFICES ASSUME AuthInv, KeyExchanged \/ SessionKeyDerived PROVE AuthInv'
  OBVIOUS
<1>1. TakeFrame /\ UNCHANGED <<tx, link, stationVars>>
  BY DEF KeyExchanged, SessionKeyDerived, TakeFrame
<1>2. \/ Goto(FAILED)
      \/ step <= 3 /\ Goto(step + 1) /\ IsReply(Head(rx))
  BY DEF KeyExchanged, SessionKeyDerived, IsReply
<1>3. QED BY <1>1, <1>2, FailsInv, NextStepInv

LEMMA StatusReceivedInv == AuthInv /\ StatusReceived => AuthInv'
<1> SUFFICES ASSUME AuthInv, StatusReceived PROVE AuthInv'
  OBVIOUS
<1>1. /\ TakeFrame /\ rx # <<>> /\ rx' = Tail(rx) /\ Running /\ step = 3 /\ Goto(4)
      /\ Head(rx).kind \in {"status", "accept", "refuse"}
  BY FrameTaken DEF StatusReceived, AuthInv
<1>2. Head(rx) = rx[1] /\ 1 \in DOMAIN rx
  BY <1>1, TailOfRx DEF AuthInv
<1>3. verdict = "none"
  BY <1>1 DEF AuthInv, Asked, TypeOK
<1>4. IsReply(Head(rx))
  BY <1>1, <1>2, <1>3 DEF AuthInv, RepliesBelong, Belongs, IsReply
<1>5. Goto(step + 1) /\ step <= 3
  BY <1>1
<1>6. QED BY <1>1, <1>4, <1>5, NextStepInv

\* A notification moves frames from the queue to the reassembler.
LEMMA ReceiveInv == AuthInv /\ ReceiveNotification => AuthInv'
<1> SUFFICES ASSUME AuthInv, ReceiveNotification PROVE AuthInv'
  OBVIOUS
<1>1. /\ UNCHANGED <<step, waiting, timer, waited, tx, rx, link, served, verdict, bad, lost, extra>>
      /\ held' \in 1..Len(rx)
  BY DEF ReceiveNotification, appVars, stationVars
<1>2. held' \in 0..Len(rx')
  BY <1>1, Types DEF AuthInv
<1>3. TypeOK'
  BY <1>1, <1>2 DEF AuthInv, TypeOK
<1>4. Asked' /\ RepliesBelong' /\ OneReply'
  BY <1>1 DEF AuthInv, Asked, RepliesBelong, OneReply, Belongs, IsReply, Running
<1>5. QED BY <1>3, <1>4 DEF AuthInv

LEMMA AppInv == AuthInv /\ App => AuthInv'
<1> SUFFICES ASSUME AuthInv, App PROVE AuthInv'
  OBVIOUS
<1>1. CASE SendRequest
  BY <1>1, SendRequestInv
<1>2. CASE SendFails \/ ReceiveFails \/ TimedOut
  BY <1>2, FailsInv DEF SendFails, ReceiveFails, TimedOut, airVars
<1>3. CASE SkipFrame \/ WaitAgain
  BY <1>3, StaysInv DEF SkipFrame, WaitAgain, appVars
<1>4. CASE KeyExchanged \/ SessionKeyDerived
  BY <1>4, KeyExchangedInv
<1>5. CASE StatusReceived
  BY <1>5, StatusReceivedInv
<1>6. CASE ResultReceived
  BY <1>6, ResultInv
<1>7. CASE DecryptFails
  BY <1>7, FailsInv DEF DecryptFails, TakeFrame
<1>8. CASE ReceiveNotification
  BY <1>8, ReceiveInv
<1>9. QED BY <1>1, <1>2, <1>3, <1>4, <1>5, <1>6, <1>7, <1>8 DEF App

------------------------------------------------------------------------------
(* Frames that arrive *)

LEMMA DeliverTypes ==
    ASSUME TypeOK, NEW f \in Frame, Deliver(f)
    PROVE  /\ rx' \in Seq(Frame) /\ Len(rx') <= QueueCap /\ lost' \in 0..MaxLost
           /\ held' = held => held' \in 0..Len(rx')
           /\ \/ rx' = rx
              \/ /\ Len(rx) < QueueCap /\ rx' = Append(rx, f)
                 /\ DOMAIN rx' = 1..(Len(rx) + 1)
                 /\ rx'[Len(rx) + 1] = f
                 /\ \A i \in DOMAIN rx : rx'[i] = rx[i]
<1>1. /\ rx \in Seq(Frame) /\ Len(rx) \in Nat /\ DOMAIN rx = 1..Len(rx) /\ QueueCap \in Nat
      /\ Len(rx) <= QueueCap /\ held \in 0..Len(rx)
  BY Types DEF TypeOK
<1>2. lost' \in 0..MaxLost
  BY Types DEF Deliver, TypeOK
<1>3. CASE rx' = rx
  BY <1>1, <1>2, <1>3
<1>4. CASE Len(rx) < QueueCap /\ rx' = Append(rx, f)
  <2>1. /\ rx' \in Seq(Frame) /\ Len(rx') = Len(rx) + 1
        /\ \A i \in 1..Len(rx) : rx'[i] = rx[i]
        /\ rx'[Len(rx) + 1] = f
    BY <1>1, <1>4, AppendProperties
  <2>2. DOMAIN rx' = 1..(Len(rx) + 1)
    BY <2>1, LenProperties
  <2>3. Len(rx') <= QueueCap
    BY <1>1, <1>4, <2>1
  <2>4. \A i \in DOMAIN rx : rx'[i] = rx[i]
    BY <1>1, <2>1
  <2>5. held' = held => held' \in 0..Len(rx')
    BY <1>1, <2>1
  <2>6. QED BY <1>2, <1>4, <2>1, <2>2, <2>3, <2>4, <2>5
<1>5. rx' = rx \/ (Len(rx) < QueueCap /\ rx' = Append(rx, f))
  BY DEF Deliver
<1>6. QED BY <1>3, <1>4, <1>5

\* A frame that arrives finds frames of the same step, or only such as belong
\* to no request.
LEMMA DeliverKeeps ==
    ASSUME AuthInv, NEW f \in Frame, Deliver(f), step' = step,
           Running => Belongs(f)',
           \/ UNCHANGED <<served, verdict>> /\ ~IsReply(f)
           \/ Running => \A i \in DOMAIN rx : rx[i].kind \in {"garbage", "long"}
    PROVE  RepliesBelong' /\ OneReply'
<1>1. SUFFICES ASSUME Running
               PROVE  /\ \A i \in DOMAIN rx' : Belongs(rx[i])' 
                      /\ \A i, j \in DOMAIN rx' : IsReply(rx'[i]) /\ IsReply(rx'[j]) => i = j
  BY DEF RepliesBelong, OneReply, Running, IsReply
<1>2. \A i \in DOMAIN rx : Belongs(rx[i])
  BY <1>1 DEF AuthInv, RepliesBelong
<1>3. \A i \in DOMAIN rx : rx'[i] = rx[i] => Belongs(rx[i])'
  BY <1>1, <1>2 DEF Belongs, IsReply
<1>4. \A i, j \in DOMAIN rx : IsReply(rx[i]) /\ IsReply(rx[j]) => i = j
  BY <1>1 DEF AuthInv, OneReply
<1>5. CASE rx' = rx
  BY <1>3, <1>4, <1>5
<1>6. CASE /\ DOMAIN rx' = 1..(Len(rx) + 1)
           /\ rx'[Len(rx) + 1] = f
           /\ \A i \in DOMAIN rx : rx'[i] = rx[i]
  <2>1. \A i \in DOMAIN rx' : i \in DOMAIN rx \/ i = Len(rx) + 1
    BY <1>6, Types DEF AuthInv
  <2>2. \A i \in DOMAIN rx' : Belongs(rx[i])'
    BY <1>1, <1>3, <1>6, <2>1 DEF Belongs
  <2>3. IsReply(f) => \A i \in DOMAIN rx : ~IsReply(rx[i])
    BY <1>1 DEF IsReply
  <2>4. \A i, j \in DOMAIN rx' : IsReply(rx'[i]) /\ IsReply(rx'[j]) => i = j
    <3>1. \A i \in DOMAIN rx' : (i \in DOMAIN rx /\ rx'[i] = rx[i]) \/ (i = Len(rx) + 1 /\ rx'[i] = f)
      BY <1>6, <2>1
    <3>2. QED BY <1>4, <2>3, <3>1
  <2>5. QED BY <2>2, <2>4
<1>7. QED BY <1>5, <1>6, DeliverTypes DEF AuthInv

\* The station serves the one request there is.
LEMMA ServeInv == AuthInv /\ Serve => AuthInv'
<1> SUFFICES ASSUME AuthInv, Serve PROVE AuthInv'
  OBVIOUS
<1>1. /\ tx # <<>> /\ tx' = Tail(tx) /\ served' = Head(tx)
      /\ UNCHANGED <<step, waiting, timer, waited, held, link, extra>>
  BY DEF Serve, appVars
<1>2. Head(tx) = tx[1] /\ Head(tx) \in 1..4 /\ tx' = <<>>
  <2>1. tx \in Seq(1..4) /\ Len(tx) \in Nat /\ Len(tx) <= 1
    BY Types DEF AuthInv, TypeOK
  <2>2. /\ Head(tx) \in 1..4 /\ Tail(tx) \in Seq(1..4) /\ Len(Tail(tx)) = Len(tx) - 1
    BY <1>1, <2>1, HeadTailProperties
  <2>3. Len(tx) >= 1
    BY <1>1, <2>1, EmptySeq
  <2>4. Len(Tail(tx)) = 0
    BY <2>1, <2>2, <2>3
  <2>5. Tail(tx) = <<>>
    BY <2>2, <2>4, EmptySeq
  <2>6. QED BY <1>1, <2>2, <2>5
<1>3. PICK f \in Frame :
         /\ Deliver(f)
         /\ \/ Head(tx) = 1 /\ f.kind \in {"pubkey", "bad"} /\ verdict' = verdict
            \/ Head(tx) = 2 /\ f.kind \in {"session", "bad"} /\ verdict' = verdict
            \/ Head(tx) = 3 /\ f.kind = "status" /\ verdict' = verdict
            \/ Head(tx) = 4 /\ f.kind = "accept" /\ verdict' = "accepted"
            \/ Head(tx) = 4 /\ f.kind = "refuse" /\ verdict' = "refused"
  <2>1. /\ \A k \in {"pubkey", "session", "bad"} : Cmd(k) \in Frame /\ Cmd(k).kind = k
        /\ \A k \in {"status", "accept", "refuse"} : Data(k) \in Frame /\ Data(k).kind = k
    BY DEF Cmd, Data, Frame
  <2>2. Reply(1) = Cmd("pubkey") /\ Reply(2) = Cmd("session") /\ Reply(3) = Data("status")
    BY DEF Reply
  <2>3. CASE Head(tx) < 4 /\ Deliver(Reply(Head(tx))) /\ UNCHANGED <<verdict, bad>>
    <3>1. Head(tx) \in {1, 2, 3}
      BY <1>2, <2>3
    <3>2. QED BY <2>1, <2>2, <2>3, <3>1
  <2>4. CASE Head(tx) < 3 /\ Deliver(Cmd("bad")) /\ UNCHANGED verdict
    <3>1. Head(tx) \in {1, 2}
      BY <1>2, <2>4
    <3>2. QED BY <2>1, <2>4, <3>1
  <2>5. CASE Head(tx) = 4 /\ verdict' = "accepted" /\ Deliver(Data("accept"))
    BY <2>1, <2>5
  <2>6. CASE Head(tx) = 4 /\ verdict' = "refused" /\ Deliver(Data("refuse"))
    BY <2>1, <2>6
  <2>7. QED BY <2>3, <2>4, <2>5, <2>6 DEF Serve
<1>4. bad' \in 0..MaxBad
  BY Types DEF Serve, AuthInv, TypeOK
<1>5. TypeOK'
  <2>1. rx' \in Seq(Frame) /\ Len(rx') <= QueueCap /\ lost' \in 0..MaxLost
        /\ held' \in 0..Len(rx')
    BY <1>1, <1>3, DeliverTypes DEF AuthInv
  <2>2. tx' \in Seq(1..4) /\ Len(tx') <= 1
    BY <1>2, EmptySeq
  <2>3. served' \in 0..4 /\ verdict' \in {"none", "accepted", "refused"}
    BY <1>1, <1>2, <1>3 DEF AuthInv, TypeOK
  <2>4. QED BY <1>1, <1>4, <2>1, <2>2, <2>3 DEF AuthInv, TypeOK
<1>6. served < Head(tx) /\ verdict = "none"
  BY <1>1, <1>2 DEF AuthInv, Asked, TypeOK
<1>7. Running => waiting /\ Head(tx) = step
  BY <1>1, <1>2 DEF AuthInv, Asked
<1>8. Asked'
  BY <1>1, <1>2, <1>3, <1>6, <1>7 DEF AuthInv, Asked, Running, SUCCEEDED
<1>9. Running => \A i \in DOMAIN rx : rx[i].kind \in {"garbage", "long"}
  <2>1. \A g \in Frame : \/ IsReply(g)
                         \/ g.kind \in {"accept", "other", "refuse", "garbage", "long"}
    BY DEF Frame, IsReply
  <2>2. \A i \in DOMAIN rx : rx[i] \in Frame
    BY Types, ElementOfSeq DEF AuthInv, TypeOK
  <2>3. Running => \A i \in DOMAIN rx : Belongs(rx[i])
    BY DEF AuthInv, RepliesBelong
  <2>4. Running => served < step
    BY <1>6, <1>7
  <2>5. served \in 0..4 /\ step \in 0..5
    BY DEF AuthInv, TypeOK
  <2>6. QED BY <1>6, <2>1, <2>2, <2>3, <2>4, <2>5 DEF Belongs, IsReply
<1>10. Running => Belongs(f)'
  BY <1>1, <1>2, <1>3, <1>7 DEF Belongs
<1>11. RepliesBelong' /\ OneReply'
  BY <1>1, <1>3, <1>9, <1>10, DeliverKeeps
<1>12. QED BY <1>5, <1>8, <1>11 DEF AuthInv

LEMMA UnaskedInv == OnlyUndecodable /\ AuthInv /\ (Telemetry \/ Unasked) => AuthInv'
<1> SUFFICES ASSUME OnlyUndecodable, AuthInv, Telemetry \/ Unasked PROVE AuthInv'
  OBVIOUS
<1>1. UNCHANGED <<step, waiting, timer, waited, tx, held, link, served, verdict, bad>>
  BY DEF Telemetry, Unasked, appVars, stationVars
<1>2. extra' \in 0..MaxExtra
  BY Types DEF Telemetry, Unasked, stationVars, AuthInv, TypeOK
<1>3. PICK f \in Frame :
         /\ Deliver(f)
         /\ f.kind \in {"garbage", "long"} \/ (f.kind = "other" /\ verdict = "accepted")
  <2>1. \A k \in {"other", "garbage", "long"} : Data(k) \in Frame /\ Data(k).kind = k
    BY DEF Data, Frame
  <2>2. CASE Telemetry
    BY <2>1, <2>2 DEF Telemetry, Deliver, stationVars
  <2>3. CASE Unasked
    BY <2>1, <2>3 DEF Unasked, OnlyUndecodable
  <2>4. QED BY <2>2, <2>3
<1>4. TypeOK'
  <2>1. rx' \in Seq(Frame) /\ Len(rx') <= QueueCap /\ lost' \in 0..MaxLost
        /\ held' \in 0..Len(rx')
    BY <1>1, <1>3, DeliverTypes DEF AuthInv
  <2>2. QED BY <1>1, <1>2, <2>1 DEF AuthInv, TypeOK
<1>5. Asked'
  BY <1>1 DEF AuthInv, Asked, Running
<1>6. ~IsReply(f) /\ Belongs(f)'
  BY <1>1, <1>3 DEF IsReply, Belongs
<1>7. RepliesBelong' /\ OneReply'
  BY <1>1, <1>3, <1>6, DeliverKeeps
<1>8. QED BY <1>4, <1>5, <1>7 DEF AuthInv

LEMMA QuietStepsInv == AuthInv /\ (Tick \/ LinkLoss \/ UNCHANGED vars) => AuthInv'
<1> SUFFICES ASSUME AuthInv, Tick \/ LinkLoss \/ UNCHANGED vars PROVE AuthInv'
  OBVIOUS
<1>1. /\ UNCHANGED <<step, waiting, rx, held, served, verdict, bad, lost, extra>>
      /\ tx' = tx \/ tx' = <<>>
  BY DEF Tick, LinkLoss, vars, appVars, airVars, stationVars
<1>2. timer' \in 0..Timeout /\ waited' \in 0..WaitCap /\ link' \in BOOLEAN
  <2>1. WaitCap \in Nat
    <3>1. Timeout * (1 + MaxExtra) \in Nat
      BY Types DEF AuthInv
    <3>2. QED BY <3>1 DEF WaitCap
  <2>2. timer' \in 0..Timeout /\ waited' \in 0..WaitCap
    <3>1. timer \in 0..Timeout /\ waited \in 0..WaitCap
      BY DEF AuthInv, TypeOK
    <3>2. CASE Tick
      <4>1. /\ timer > 0 /\ timer' = timer - 1
            /\ waited' = IF waited < WaitCap THEN waited + 1 ELSE waited
        BY <3>2 DEF Tick
      <4>2. timer' \in 0..Timeout
        BY <3>1, <4>1, Types DEF AuthInv
      <4>3. waited' \in 0..WaitCap
        BY <2>1, <3>1, <4>1
      <4>4. QED BY <4>2, <4>3
    <3>3. CASE UNCHANGED <<timer, waited>>
      BY <3>1, <3>3
    <3>4. QED BY <3>2, <3>3 DEF LinkLoss, vars, appVars
  <2>3. link' = link \/ link' = FALSE
    BY DEF Tick, LinkLoss, vars, airVars
  <2>4. QED BY <2>2, <2>3 DEF AuthInv, TypeOK
<1>3. TypeOK'
  <2>1. tx' \in Seq(1..4) /\ Len(tx') <= 1
    <3>1. tx \in Seq(1..4) /\ Len(tx) <= 1
      BY DEF AuthInv, TypeOK
    <3>2. <<>> \in Seq(1..4) /\ Len(<<>>) <= 1
      BY EmptySeq
    <3>3. QED BY <1>1, <3>1, <3>2
  <2>2. QED BY <1>1, <1>2, <2>1 DEF AuthInv, TypeOK
<1>4. Asked'
  BY <1>1 DEF AuthInv, Asked, Running
<1>5. RepliesBelong' /\ OneReply'
  BY <1>1 DEF AuthInv, RepliesBelong, OneReply, Belongs, IsReply, Running
<1>6. QED BY <1>3, <1>4, <1>5 DEF AuthInv

------------------------------------------------------------------------------
(* The theorems *)

LEMMA InitInv == Init => AuthInv
<1> SUFFICES ASSUME Init PROVE AuthInv
  OBVIOUS
<1>1. WaitCap \in Nat /\ Timeout \in Nat /\ QueueCap \in Nat
      /\ MaxBad \in Nat /\ MaxLost \in Nat /\ MaxExtra \in Nat
  <2>1. Timeout * (1 + MaxExtra) \in Nat
    BY AuthAssumption
  <2>2. QED BY <2>1, AuthAssumption DEF WaitCap
<1>2. <<>> \in Seq(1..4) /\ <<>> \in Seq(Frame) /\ Len(<<>>) = 0 /\ DOMAIN <<>> = {}
  BY EmptySeq
<1>3. waiting \in BOOLEAN /\ link \in BOOLEAN
  BY DEF Init
<1>4. TypeOK
  <2>1. rx = <<>> /\ held = 0
    BY DEF Init
  <2>2. held \in 0..Len(rx)
    BY <1>2, <2>1
  <2>3. QED BY <1>1, <1>2, <1>3, <2>2 DEF Init, TypeOK
<1>5. Asked /\ RepliesBelong /\ OneReply
  BY <1>2 DEF Init, Asked, RepliesBelong, OneReply, Running, SUCCEEDED
<1>6. QED BY <1>4, <1>5 DEF AuthInv

LEMMA StepInv == OnlyUndecodable /\ AuthInv /\ [Next]_vars => AuthInv'
BY AppInv, ServeInv, UnaskedInv, QuietStepsInv DEF Next

THEOREM AuthInvariant == ASSUME OnlyUndecodable PROVE Spec => []AuthInv
<1>1. Init => AuthInv
  BY InitInv
<1>2. AuthInv /\ [Next]_vars => AuthInv'
  BY StepInv
<1>3. QED BY <1>1, <1>2, PTL DEF Spec

\* At most one request is under way and the queue keeps within its length.
THEOREM AuthTypes == ASSUME OnlyUndecodable PROVE Spec => []TypeOK
BY AuthInvariant, PTL DEF AuthInv

\* A handshake that reports success has been accepted by the station, however
\* frames are lost, damaged or delayed.
THEOREM SuccessNeedsConsent == ASSUME OnlyUndecodable PROVE Spec => []SuccessMeansAccepted
<1>1. AuthInv => SuccessMeansAccepted
  BY DEF AuthInv, Asked, SuccessMeansAccepted
<1>2. QED BY <1>1, AuthInvariant, PTL

------------------------------------------------------------------------------
(* How long a step waits *)

\* Packets in the queue that will make steps 3 and 4 wait again.
GarbageIn(queue) == {i \in DOMAIN queue : queue[i].kind = "garbage"}

\* Unasked packets that have come and gone.
Spent == extra - Cardinality(GarbageIn(rx))

Allowed == Timeout * (IF step <= 2 THEN 1 ELSE 1 + Spent)

WaitInv ==
    /\ Spent \in Nat
    /\ ~waiting => waited = 0
    /\ waiting => waited + timer <= Allowed

LEMMA GarbageCount ==
    ASSUME NEW queue \in Seq(Frame)
    PROVE  IsFiniteSet(GarbageIn(queue)) /\ Cardinality(GarbageIn(queue)) \in Nat
<1>1. DOMAIN queue = 1..Len(queue) /\ Len(queue) \in Nat
  BY LenProperties
<1>2. IsFiniteSet(DOMAIN queue)
  BY <1>1, FS_Interval
<1>3. GarbageIn(queue) \in SUBSET DOMAIN queue
  BY DEF GarbageIn
<1>4. IsFiniteSet(GarbageIn(queue))
  BY <1>2, <1>3, FS_Subset
<1>5. QED BY <1>4, FS_CardinalityType

LEMMA GarbageTaken ==
    ASSUME NEW queue \in Seq(Frame), queue # <<>>
    PROVE  Cardinality(GarbageIn(queue)) =
             Cardinality(GarbageIn(Tail(queue))) + (IF queue[1].kind = "garbage" THEN 1 ELSE 0)
<1> DEFINE later == GarbageIn(queue) \ {1}
           shift == [i \in GarbageIn(Tail(queue)) |-> i + 1]
<1>1. /\ Tail(queue) \in Seq(Frame) /\ Len(queue) \in Nat /\ Len(queue) >= 1
      /\ DOMAIN queue = 1..Len(queue) /\ DOMAIN Tail(queue) = 1..(Len(queue) - 1)
      /\ \A i \in 1..(Len(queue) - 1) : Tail(queue)[i] = queue[i + 1]
  <2>1. /\ Tail(queue) \in Seq(Frame) /\ Len(Tail(queue)) = Len(queue) - 1
        /\ \A i \in 1..Len(Tail(queue)) : Tail(queue)[i] = queue[i + 1]
    BY HeadTailProperties
  <2>2. Len(queue) \in Nat /\ Len(queue) >= 1 /\ DOMAIN queue = 1..Len(queue)
    BY LenProperties, EmptySeq
  <2>3. DOMAIN Tail(queue) = 1..(Len(queue) - 1)
    BY <2>1, LenProperties
  <2>4. QED BY <2>1, <2>2, <2>3
<1>2. shift \in [GarbageIn(Tail(queue)) -> later]
  BY <1>1 DEF GarbageIn
<1>3. \A i, j \in GarbageIn(Tail(queue)) : shift[i] = shift[j] => i = j
  BY <1>1 DEF GarbageIn
<1>4. \A k \in later : \E i \in GarbageIn(Tail(queue)) : shift[i] = k
  <2> SUFFICES ASSUME NEW k \in later
               PROVE  \E i \in GarbageIn(Tail(queue)) : shift[i] = k
    OBVIOUS
  <2>1. k \in 2..Len(queue) /\ queue[k].kind = "garbage"
    BY <1>1 DEF GarbageIn
  <2>2. k - 1 \in 1..(Len(queue) - 1) /\ (k - 1) + 1 = k
    BY <1>1, <2>1
  <2>3. k - 1 \in GarbageIn(Tail(queue))
    BY <1>1, <2>1, <2>2 DEF GarbageIn
  <2>4. QED BY <2>2, <2>3
<1>5. ExistsBijection(GarbageIn(Tail(queue)), later)
  <2>1. shift \in Bijection(GarbageIn(Tail(queue)), later)
    BY <1>2, <1>3, <1>4, Fun_IsBij
  <2>2. QED BY <2>1 DEF ExistsBijection
<1>6. Cardinality(later) = Cardinality(GarbageIn(Tail(queue)))
  BY <1>1, <1>5, GarbageCount, FS_Bijection
<1>7. /\ IsFiniteSet(GarbageIn(queue)) /\ Cardinality(GarbageIn(queue)) \in Nat
      /\ Cardinality(later) = IF 1 \in GarbageIn(queue) THEN Cardinality(GarbageIn(queue)) - 1
                              ELSE Cardinality(GarbageIn(queue))
  BY GarbageCount, FS_RemoveElement
<1>8. 1 \in GarbageIn(queue) <=> queue[1].kind = "garbage"
  BY <1>1 DEF GarbageIn
<1>9. QED BY <1>6, <1>7, <1>8

LEMMA GarbageAdded ==
    ASSUME NEW queue \in Seq(Frame), NEW f \in Frame
    PROVE  Cardinality(GarbageIn(Append(queue, f))) =
             Cardinality(GarbageIn(queue)) + (IF f.kind = "garbage" THEN 1 ELSE 0)
<1> DEFINE new == Len(queue) + 1
<1>1. /\ Len(queue) \in Nat /\ DOMAIN queue = 1..Len(queue)
      /\ DOMAIN Append(queue, f) = 1..new /\ Append(queue, f)[new] = f
      /\ \A i \in 1..Len(queue) : Append(queue, f)[i] = queue[i]
  <2>1. /\ Append(queue, f) \in Seq(Frame) /\ Len(Append(queue, f)) = Len(queue) + 1
        /\ \A i \in 1..Len(queue) : Append(queue, f)[i] = queue[i]
        /\ Append(queue, f)[Len(queue) + 1] = f
    BY AppendProperties
  <2>2. QED BY <2>1, LenProperties
<1>2. new \notin GarbageIn(queue) /\ \A i \in 1..new : i \in 1..Len(queue) \/ i = new
  BY <1>1 DEF GarbageIn
<1>3. CASE f.kind = "garbage"
  <2>1. GarbageIn(Append(queue, f)) = GarbageIn(queue) \cup {new}
    BY <1>1, <1>2, <1>3 DEF GarbageIn
  <2>2. QED BY <1>2, <1>3, <2>1, GarbageCount, FS_AddElement
<1>4. CASE f.kind # "garbage"
  <2>1. GarbageIn(Append(queue, f)) = GarbageIn(queue)
    BY <1>1, <1>2, <1>4 DEF GarbageIn
  <2>2. QED BY <1>4, <2>1, GarbageCount
<1>5. QED BY <1>3, <1>4

LEMMA InitWait == Init => WaitInv
<1> SUFFICES ASSUME Init PROVE WaitInv
  OBVIOUS
<1>1. GarbageIn(rx) = {}
  BY EmptySeq DEF Init, GarbageIn
<1>2. Spent = 0
  BY <1>1, FS_EmptySet DEF Init, Spent
<1>3. QED BY <1>2 DEF Init, WaitInv

\* More packets gone never makes the allowance smaller.
LEMMA AllowedGrows ==
    ASSUME NEW m \in Nat, NEW k \in Nat, m <= k, NEW t \in Nat
    PROVE  /\ t * (1 + m) \in Nat /\ t * (1 + k) \in Nat
           /\ t * (1 + m) <= t * (1 + k) /\ t <= t * (1 + m)
           /\ t * (1 + (m + 1)) = t * (1 + m) + t
<1>1. PICK d \in Nat : k = m + d
  <2>1. k - m \in Nat /\ k = m + (k - m)
    OBVIOUS
  <2>2. QED BY <2>1
<1>2. t * (1 + k) = t * (1 + m) + t * d /\ t * d \in Nat
  BY <1>1
<1>3. t * (1 + m) = t + t * m /\ t * m \in Nat /\ t * (1 + m) \in Nat
  OBVIOUS
<1>4. t * (1 + (m + 1)) = t * (1 + m) + t
  OBVIOUS
<1>5. QED BY <1>2, <1>3, <1>4

\* What taking the oldest frame does to the count.
LEMMA SpentTaken ==
    ASSUME TypeOK, rx # <<>>, rx' = Tail(rx), extra' = extra
    PROVE  Spent' = IF Head(rx).kind = "garbage" THEN Spent + 1 ELSE Spent
<1>1. rx \in Seq(Frame) /\ rx' \in Seq(Frame) /\ Head(rx) = rx[1] /\ extra \in Nat
  BY TailOfRx, Types DEF TypeOK
<1>2. /\ Cardinality(GarbageIn(rx)) \in Nat /\ Cardinality(GarbageIn(rx')) \in Nat
      /\ Cardinality(GarbageIn(rx)) =
           Cardinality(GarbageIn(rx')) + (IF rx[1].kind = "garbage" THEN 1 ELSE 0)
  BY <1>1, GarbageCount, GarbageTaken
<1>3. QED BY <1>1, <1>2 DEF Spent

LEMMA SpentDelivered ==
    ASSUME TypeOK, NEW f \in Frame, Deliver(f),
           extra' = extra + 1 \/ (extra' = extra /\ f.kind # "garbage")
    PROVE  Spent' \in {Spent, Spent + 1}
<1>1. rx \in Seq(Frame) /\ extra \in Nat /\ (rx' = rx \/ rx' = Append(rx, f))
  BY Types DEF TypeOK, Deliver
<1>2. Cardinality(GarbageIn(rx)) \in Nat
  BY <1>1, GarbageCount
<1>3. CASE rx' = rx
  BY <1>1, <1>2, <1>3 DEF Spent
<1>4. CASE rx' = Append(rx, f)
  <2>1. Cardinality(GarbageIn(rx')) =
          Cardinality(GarbageIn(rx)) + (IF f.kind = "garbage" THEN 1 ELSE 0)
    BY <1>1, <1>4, GarbageAdded
  <2>2. QED BY <1>1, <1>2, <2>1 DEF Spent
<1>5. QED BY <1>1, <1>3, <1>4

\* Steps that do not touch the wait, and let nothing garbage go unnoticed.
LEMMA WaitKept ==
    ASSUME TypeOK, WaitInv, UNCHANGED <<step, waiting, timer, waited>>,
           Spent' \in {Spent, Spent + 1}
    PROVE  WaitInv'
<1>1. Spent \in Nat /\ Spent' \in Nat /\ Spent <= Spent' /\ Timeout \in Nat
  BY Types DEF WaitInv
<1>2. Timeout * (1 + Spent) <= Timeout * (1 + Spent')
  BY <1>1, AllowedGrows
<1>3. CASE step <= 2
  BY <1>1, <1>3 DEF WaitInv, Allowed
<1>4. CASE ~(step <= 2)
  <2>1. Allowed = Timeout * (1 + Spent) /\ Allowed' = Timeout * (1 + Spent')
    BY <1>4 DEF Allowed
  <2>2. timer \in Nat /\ waited \in Nat /\ Allowed \in Nat /\ Allowed' \in Nat
    <3>1. timer \in Nat /\ waited \in Nat
      BY <1>1, Types DEF TypeOK, WaitCap
    <3>2. Timeout * (1 + Spent) \in Nat /\ Timeout * (1 + Spent') \in Nat
      BY <1>1, AllowedGrows
    <3>3. Allowed \in Nat /\ Allowed' \in Nat
      BY <2>1, <3>2
    <3>4. QED BY <3>1, <3>3
  <2>3. waiting => waited + timer <= Allowed
    BY DEF WaitInv
  <2>4. waiting' => waited' + timer' <= Allowed'
    BY <1>2, <2>1, <2>2, <2>3
  <2>5. QED BY <1>1, <2>4 DEF WaitInv
<1>5. QED BY <1>3, <1>4

LEMMA GotoWait ==
    ASSUME TypeOK, WaitInv, NEW next, Goto(next), extra' = extra,
           rx' = rx \/ (rx # <<>> /\ rx' = Tail(rx))
    PROVE  WaitInv'
<1>1. Spent' \in {Spent, Spent + 1}
  BY SpentTaken DEF Spent
<1>2. Spent' \in Nat
  BY <1>1 DEF WaitInv
<1>3. waiting' = FALSE /\ waited' = 0
  BY DEF Goto
<1>4. QED BY <1>2, <1>3 DEF WaitInv

LEMMA WaitAgainWait == AuthInv /\ WaitInv /\ WaitAgain => WaitInv'
<1> SUFFICES ASSUME AuthInv, WaitInv, WaitAgain PROVE WaitInv'
  OBVIOUS
<1>1. /\ rx # <<>> /\ rx' = Tail(rx) /\ extra' = extra /\ Running /\ step \in {3, 4}
      /\ step' = step /\ waiting' = waiting /\ waited' = waited /\ timer' = Timeout /\ waiting
  BY FrameTaken DEF WaitAgain, AuthInv
<1>2. Head(rx).kind = "garbage"
  <2>1. Head(rx) = rx[1] /\ 1 \in DOMAIN rx
    BY <1>1, TailOfRx DEF AuthInv
  <2>2. ASSUME step = 3, Head(rx).kind = "other" PROVE FALSE
    <3>1. verdict = "accepted"
      BY <1>1, <2>1, <2>2 DEF AuthInv, RepliesBelong, Belongs
    <3>2. served = 4 /\ served <= step
      BY <1>1, <3>1 DEF AuthInv, Asked
    <3>3. QED BY <2>2, <3>2
  <2>3. QED BY <2>2 DEF WaitAgain
<1>3. Spent' = Spent + 1 /\ Spent \in Nat
  BY <1>1, <1>2, SpentTaken DEF AuthInv, WaitInv
<1>4. Timeout \in Nat /\ timer \in Nat /\ waited \in Nat
  BY Types DEF AuthInv, TypeOK, WaitCap
<1>5. Timeout * (1 + (Spent + 1)) = Timeout * (1 + Spent) + Timeout
  BY <1>3, <1>4, AllowedGrows
<1>6. Allowed = Timeout * (1 + Spent) /\ Allowed' = Timeout * (1 + (Spent + 1))
  BY <1>1, <1>3 DEF Allowed
<1>7. waited + timer <= Allowed
  BY <1>1 DEF WaitInv
<1>8. Allowed \in Nat
  BY <1>3, <1>4, <1>6
<1>9. waited' + timer' <= Allowed'
  BY <1>1, <1>4, <1>5, <1>6, <1>7, <1>8
<1>10. Spent' \in Nat
  BY <1>3
<1>11. QED BY <1>1, <1>9, <1>10 DEF WaitInv

LEMMA AppWait == AuthInv /\ WaitInv /\ App => WaitInv'
<1> SUFFICES ASSUME AuthInv, WaitInv, App PROVE WaitInv'
  OBVIOUS
<1>1. TypeOK
  BY DEF AuthInv
<1>2. CASE SendRequest
  <2>1. /\ waiting' = TRUE /\ timer' = Timeout /\ waited' = 0
        /\ UNCHANGED <<step, rx, extra>>
    BY <1>2 DEF SendRequest, stationVars
  <2>2. Spent' = Spent /\ Spent \in Nat /\ Timeout \in Nat
    BY <1>1, <2>1, Types DEF WaitInv, Spent
  <2>3. Timeout <= Timeout * (1 + Spent)
    BY <2>2, AllowedGrows
  <2>4. Timeout <= Allowed'
    BY <2>1, <2>2, <2>3 DEF Allowed
  <2>5. waited' + timer' <= Allowed'
    BY <2>1, <2>2, <2>4
  <2>6. QED BY <2>1, <2>2, <2>5 DEF WaitInv
<1>3. CASE SendFails \/ ReceiveFails \/ TimedOut
  BY <1>1, <1>3, GotoWait DEF SendFails, ReceiveFails, TimedOut, airVars, stationVars
<1>4. CASE SkipFrame
  <2>1. Spent' \in {Spent, Spent + 1} /\ UNCHANGED <<step, waiting, timer, waited>>
    BY <1>1, <1>4, FrameTaken, SpentTaken DEF SkipFrame, appVars
  <2>2. QED BY <1>1, <2>1, WaitKept
<1>5. CASE KeyExchanged \/ SessionKeyDerived \/ StatusReceived \/ ResultReceived \/ DecryptFails
  <2>1. rx # <<>> /\ rx' = Tail(rx) /\ extra' = extra
    BY <1>1, <1>5, FrameTaken
    DEF KeyExchanged, SessionKeyDerived, StatusReceived, ResultReceived, DecryptFails
  <2>2. \E next : Goto(next)
    BY <1>5 DEF KeyExchanged, SessionKeyDerived, StatusReceived, ResultReceived, DecryptFails
  <2>3. QED BY <1>1, <2>1, <2>2, GotoWait
<1>6. CASE WaitAgain
  BY <1>6, WaitAgainWait
<1>7. CASE ReceiveNotification
  <2>1. UNCHANGED <<step, waiting, timer, waited>> /\ Spent' = Spent
    BY <1>7 DEF ReceiveNotification, appVars, stationVars, Spent
  <2>2. QED BY <1>1, <2>1, WaitKept
<1>8. QED BY <1>2, <1>3, <1>4, <1>5, <1>6, <1>7 DEF App

LEMMA OthersWait == OnlyUndecodable /\ AuthInv /\ WaitInv /\ (Tick \/ Serve \/ Telemetry \/ Unasked
                                           \/ LinkLoss \/ UNCHANGED vars) => WaitInv'
<1> SUFFICES ASSUME OnlyUndecodable, AuthInv, WaitInv,
                    Tick \/ Serve \/ Telemetry \/ Unasked \/ LinkLoss \/ UNCHANGED vars
             PROVE  WaitInv'
  OBVIOUS
<1>1. TypeOK
  BY DEF AuthInv
<1>2. CASE Tick
  <2>1. /\ Running /\ waiting /\ timer > 0 /\ timer' = timer - 1
        /\ waited' = waited + 1 \/ waited' = waited
        /\ UNCHANGED <<step, waiting, rx, extra>>
    BY <1>2 DEF Tick, airVars, stationVars
  <2>2. Allowed' = Allowed /\ Spent' = Spent
    BY <2>1 DEF Allowed, Spent
  <2>3. timer \in Nat /\ waited \in Nat /\ Allowed \in Nat
    <3>1. timer \in Nat /\ waited \in Nat /\ Timeout \in Nat
      BY <1>1, Types DEF TypeOK, WaitCap
    <3>2. Timeout * (1 + Spent) \in Nat
      BY <3>1 DEF WaitInv
    <3>3. QED BY <3>1, <3>2 DEF Allowed
  <2>4. waited + timer <= Allowed
    BY <2>1 DEF WaitInv
  <2>5. waited' + timer' <= Allowed'
    BY <2>1, <2>2, <2>3, <2>4
  <2>6. QED BY <2>1, <2>2, <2>5 DEF WaitInv
<1>3. CASE Serve \/ Telemetry \/ Unasked
  <2>1. UNCHANGED <<step, waiting, timer, waited>>
    BY <1>3 DEF Serve, Telemetry, Unasked, appVars
  <2>2. \E f \in Frame : Deliver(f) /\ (extra' = extra + 1
                                        \/ (extra' = extra /\ f.kind # "garbage"))
    <3>1. /\ \A k \in {"pubkey", "session", "bad"} : Cmd(k) \in Frame /\ Cmd(k).kind = k
          /\ \A k \in {"status", "accept", "refuse", "other", "garbage", "long"} :
                 Data(k) \in Frame /\ Data(k).kind = k
      BY DEF Cmd, Data, Frame
    <3>2. CASE Serve
      <4>1. \/ Head(tx) \in {1, 2, 3} /\ Deliver(Reply(Head(tx)))
            \/ Deliver(Cmd("bad")) \/ Deliver(Data("accept")) \/ Deliver(Data("refuse"))
        <5>1. tx # <<>> /\ tx \in Seq(1..4)
          BY <1>1, <3>2 DEF Serve, TypeOK
        <5>2. Head(tx) \in 1..4
          BY <5>1, HeadTailProperties
        <5>3. Head(tx) < 4 => Head(tx) \in {1, 2, 3}
          BY <5>2
        <5>4. QED BY <3>2, <5>3 DEF Serve
      <4>2. Reply(1) = Cmd("pubkey") /\ Reply(2) = Cmd("session") /\ Reply(3) = Data("status")
        BY DEF Reply
      <4>3. extra' = extra
        BY <3>2 DEF Serve
      <4>4. QED BY <3>1, <4>1, <4>2, <4>3
    <3>3. CASE Telemetry
      BY <3>1, <3>3 DEF Telemetry, Deliver, stationVars
    <3>4. CASE Unasked
      BY <3>1, <3>4 DEF Unasked, OnlyUndecodable
    <3>5. QED BY <1>3, <3>2, <3>3, <3>4
  <2>3. Spent' \in {Spent, Spent + 1}
    BY <1>1, <2>2, SpentDelivered
  <2>4. QED BY <1>1, <2>1, <2>3, WaitKept
<1>4. CASE LinkLoss \/ UNCHANGED vars
  <2>1. UNCHANGED <<step, waiting, timer, waited>> /\ Spent' = Spent
    BY <1>4 DEF LinkLoss, vars, appVars, airVars, stationVars, Spent
  <2>2. QED BY <1>1, <2>1, WaitKept
<1>5. QED BY <1>2, <1>3, <1>4

\* However many frames are lost, wrong or unasked, steps 1 and 2 wait one
\* timeout at most, and steps 3 and 4 one more for each unasked packet.
THEOREM WaitIsBounded == ASSUME OnlyUndecodable PROVE Spec => []WaitBounded
<1>1. Init => WaitInv
  BY InitWait
<1>2. AuthInv /\ WaitInv /\ [Next]_vars => WaitInv'
  BY AppWait, OthersWait DEF Next
<1>3. AuthInv /\ WaitInv => WaitBounded
  <2> SUFFICES ASSUME AuthInv, WaitInv PROVE WaitBounded
    OBVIOUS
  <2>1. /\ timer \in Nat /\ waited \in Nat /\ Timeout \in Nat /\ extra \in Nat
        /\ Cardinality(GarbageIn(rx)) \in Nat
    BY Types, GarbageCount DEF AuthInv, TypeOK, WaitCap
  <2>2. Spent \in Nat /\ Spent <= extra
    BY <2>1 DEF WaitInv, Spent
  <2>3. Timeout * (1 + Spent) <= Timeout * (1 + extra) /\ Timeout * (1 + extra) \in Nat
        /\ Timeout * (1 + Spent) \in Nat
    BY <2>1, <2>2, AllowedGrows
  <2>4. waited <= Allowed
    <3>1. CASE waiting
      BY <2>1, <2>3, <3>1 DEF WaitInv, Allowed
    <3>2. CASE ~waiting
      BY <2>1, <2>3, <3>2 DEF WaitInv, Allowed
    <3>3. QED BY <3>1, <3>2
  <2>5. QED BY <2>1, <2>3, <2>4 DEF WaitBounded, Allowed
<1>4. QED BY <1>1, <1>2, <1>3, AuthInvariant, PTL DEF Spec

\* Only a wrong reply, a refusal or a frame that is too long makes a step fail
\* that has taken a frame.
THEOREM OnlyWrongRepliesHurt == ASSUME OnlyUndecodable PROVE Spec => UnaskedIsHarmless
<1>1. AuthInv /\ [Next]_vars =>
         (step # FAILED /\ step' = FAILED /\ rx' # rx => Head(rx).kind \in {"bad", "refuse", "long"})
  <2> SUFFICES ASSUME AuthInv, Next, step # FAILED, step' = FAILED, rx' # rx
               PROVE  Head(rx).kind \in {"bad", "refuse", "long"}
    BY DEF vars, airVars
  <2>1. App /\ TakeFrame
    BY DEF Next, App, SendRequest, SendFails, ReceiveNotification, ReceiveFails, SkipFrame, KeyExchanged, SessionKeyDerived,
           StatusReceived, ResultReceived, WaitAgain, DecryptFails, TimedOut, Tick, Serve,
           Telemetry, Unasked, LinkLoss, appVars, airVars
  <2>2. Head(rx) = rx[1] /\ 1 \in DOMAIN rx /\ Head(rx) \in Frame /\ Running
    BY <2>1, FrameTaken, TailOfRx DEF AuthInv
  <2>3. Belongs(Head(rx))
    BY <2>2 DEF AuthInv, RepliesBelong
  <2>4. CASE KeyExchanged \/ SessionKeyDerived
    <3>1. Head(rx).type = "COMMAND"
      BY <2>4 DEF KeyExchanged, SessionKeyDerived, Wanted
    <3>2. Head(rx).kind \in {"pubkey", "session", "bad"}
      BY <2>2, <3>1 DEF Frame
    <3>3. QED BY <2>3, <2>4, <3>2 DEF KeyExchanged, SessionKeyDerived, Goto, Belongs, FAILED
  <2>5. CASE StatusReceived \/ ResultReceived \/ DecryptFails
    BY <2>5 DEF StatusReceived, ResultReceived, DecryptFails, Goto, FAILED, SUCCEEDED
  <2>6. CASE SendRequest \/ SendFails \/ ReceiveNotification \/ ReceiveFails \/ TimedOut
             \/ SkipFrame \/ WaitAgain
    BY <2>6 DEF SendRequest, SendFails, ReceiveNotification, ReceiveFails, TimedOut, SkipFrame,
                WaitAgain, appVars, airVars
  <2>7. QED BY <2>1, <2>4, <2>5, <2>6 DEF App
<1>2. QED BY <1>1, AuthInvariant, PTL DEF Spec, UnaskedIsHarmless
==============================================================================
