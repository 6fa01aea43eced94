------------------------- MODULE BleTransportProofs -------------------------
(***************************************************************************)
(* Proofs about BleTransport, for any numbers of devices and of calls.     *)
(* First, who owns a link and a setup, and that a live link is heard.      *)
(* Then: no caller is lost, what subscribers hear is what the transport    *)
(* does, and the transport implements TransportContract.                   *)
(***************************************************************************)
EXTENDS BleTransport, TLAPS

\* What resuming the callers of a set leaves in status is a status.
LEMMA ReturnedType ==
  ASSUME status \in [Call -> Statuses], NEW S, NEW result \in Statuses
  PROVE  Returned(S, result) \in [Call -> Statuses]
BY DEF Returned

\* A request queued on a link is a request.
LEMMA SendType ==
  ASSUME gatt \in [Device -> Seq(Request)], NEW p \in Device,
         NEW kind \in RequestKinds, NEW op \in Call \cup {NoCall},
         Send(p, kind, op)
  PROVE  gatt' \in [Device -> Seq(Request)]
<1>1. [kind |-> kind, op |-> op] \in Request
  BY DEF Request
<1>2. Append(gatt[p], [kind |-> kind, op |-> op]) \in Seq(Request)
  BY <1>1
<1> QED
  BY <1>2 DEF Send

\* So is what is left of a link's requests once the oldest is answered.
LEMMA AnswerType ==
  ASSUME gatt \in [Device -> Seq(Request)], NEW p \in Device,
         gatt[p] # <<>>, gatt' = [gatt EXCEPT ![p] = Tail(@)]
  PROVE  gatt' \in [Device -> Seq(Request)]
<1>1. Tail(gatt[p]) \in Seq(Request)
  OBVIOUS
<1> QED
  BY <1>1

\* Cancelling a connection leaves the link in a state of CBPeripheral.state.
LEMMA CancelLinkType ==
  ASSUME link \in [Device -> LinkStates], late \in SUBSET Device,
         NEW p \in Device, CancelLink(p)
  PROVE  link' \in [Device -> LinkStates] /\ late' \in SUBSET Device
<1>1. AfterCancel(p) \subseteq LinkStates
  <2>1. link[p] \in LinkStates
    OBVIOUS
  <2> QED
    BY <2>1 DEF AfterCancel, LinkStates
<1> QED
  BY <1>1 DEF CancelLink

\* A transport that has done nothing is well typed.
THEOREM InitType == Init => TypeOK
<1> SUFFICES ASSUME Init PROVE TypeOK
  OBVIOUS
<1>1. <<>> \in Seq(Request)
  OBVIOUS
<1>2. gatt \in [Device -> Seq(Request)]
  BY <1>1 DEF Init
<1> QED
  BY <1>2, CallAssumption, DeviceAssumption
  DEF Init, TypeOK, CentralStates, LinkStates, Stages, QuarantineStates,
     Statuses

-----------------------------------------------------------------------------
(* Type correctness, one lemma per group of actions *)

\* A call that throws at once changes its own status only.
LEMMA RefuseType == ASSUME TypeOK, NEW c \in Call, Refuse(c) PROVE TypeOK'
<1>1. status' \in [Call -> Statuses]
  BY ReturnedType DEF Refuse, TypeOK, Statuses
<1>2. UNCHANGED <<cbVars, linkVars, connectVars, writeVars, readVars, scanVars,
                  closeVars, discovered, quarantine, cancelled, bound, reported>>
  BY DEF Refuse
<1> QED
  BY <1>1, <1>2, SMTT(20) DEF TypeOK, cbVars, linkVars, connectVars, writeVars,
     readVars, scanVars, closeVars

\* beginConnect, whichever of its returns it takes, leaves what it writes well
\* typed.
LEMMA BeginConnectType ==
  ASSUME TypeOK, NEW c \in Connects, NEW p \in Device, NEW scan \in SUBSET Device,
         BeginConnect(c, p, scan)
  PROVE  /\ discovered' \in SUBSET Device
         /\ quarantine' \in [Device -> QuarantineStates]
         /\ connectOp' \in Connects \cup {NoCall}
         /\ pending' \in Device \cup {NoDevice}
         /\ stage' \in Stages
         /\ status' \in [Call -> Statuses]
         /\ link' \in [Device -> LinkStates]
         /\ gatt' \in [Device -> Seq(Request)]
         /\ connected' \in Device \cup {NoDevice}
<1> USE DEF TypeOK
<1>1. discovered' \in SUBSET Device /\ quarantine' \in [Device -> QuarantineStates]
  BY DEF BeginConnect, QuarantineStates
<1>2. \A result \in Statuses : Returned({c}, result) \in [Call -> Statuses]
  BY ReturnedType
<1>3. Send(p, "services", NoCall) => gatt' \in [Device -> Seq(Request)]
  BY SendType DEF RequestKinds
<1> QED
  BY <1>1, <1>2, <1>3
  DEF BeginConnect, ClearConnectOp, Stages, Statuses, LinkStates

\* ReturnedType in the form the case splits below cite.
LEMMA AnyReturned ==
  ASSUME status \in [Call -> Statuses]
  PROVE  \A S : \A result \in Statuses : Returned(S, result) \in [Call -> Statuses]
BY ReturnedType

\* beginDisconnect arms the timer of a call for a device, and forgets the link.
LEMMA BeginDisconnectType ==
  ASSUME TypeOK, NEW c \in Call, NEW p \in Device, BeginDisconnect(c, p)
  PROVE  /\ disconnecting' \in Device
         /\ disconnectOp' \in Call
         /\ disconnectTimers' \in SUBSET (Call \X Device)
         /\ link' \in [Device -> LinkStates]
         /\ late' \in SUBSET Device
         /\ connected' = NoDevice
         /\ characteristics' = {}
         /\ stage' = "none"
         /\ generation' \in Nat
<1>1. link' \in [Device -> LinkStates] /\ late' \in SUBSET Device
  BY CancelLinkType DEF BeginDisconnect, TypeOK
<1>2. <<c, p>> \in Call \X Device
  OBVIOUS
<1>3. disconnectTimers' \in SUBSET (Call \X Device)
  BY <1>2 DEF BeginDisconnect, TypeOK
<1> QED
  BY <1>1, <1>3 DEF BeginDisconnect, ForgetLink, TypeOK

\* Every kind of call is a call.
LEMMA KindsOfCall ==
  /\ Connects \subseteq Call /\ Writes \subseteq Call /\ Reads \subseteq Call
  /\ Disconnects \subseteq Call /\ Scans \subseteq Call
BY DEF Call

\* Every call into the transport keeps the types.
LEMMA CallsType == ASSUME TypeOK, Calls PROVE TypeOK'
<1> USE KindsOfCall
    DEF TypeOK, cbVars, linkVars, connectVars, writeVars, readVars, scanVars,
        closeVars, clientVars
<1>0. \A S : \A result \in Statuses : Returned(S, result) \in [Call -> Statuses]
  BY AnyReturned
<1>1. ASSUME NEW c \in Call, Refuse(c) PROVE TypeOK'
  BY <1>1, RefuseType
<1>2. ASSUME NEW c \in Connects, ConnectAccepted(c) PROVE TypeOK'
  <2>1. central' \in CentralStates /\ generation' \in Nat
    BY <1>2 DEF ConnectAccepted, Manager, CentralStates
  <2>2. CASE BeginConnect(c, bound, {})
    BY <1>2, <2>1, <2>2, BeginConnectType DEF ConnectAccepted
  <2>3. CASE ~BeginConnect(c, bound, {})
    <3>1. status' \in [Call -> Statuses]
      BY <1>0, <1>2, <2>3 DEF ConnectAccepted, Statuses
    <3> QED
      BY <1>2, <2>1, <2>3, <3>1 DEF ConnectAccepted, Stages
  <2> QED
    BY <2>2, <2>3
<1>3. ASSUME NEW c \in Writes, WriteAccepted(c) PROVE TypeOK'
  <2>1. connected \in Device /\ c \in Call \cup {NoCall}
    BY <1>3 DEF WriteAccepted, Ready
  <2>2. gatt' \in [Device -> Seq(Request)]
    BY <1>3, <2>1, SendType DEF WriteAccepted, RequestKinds
  <2>3. status' \in [Call -> Statuses]
    BY <1>0, <1>3 DEF WriteAccepted, Statuses
  <2> QED
    <3>1. writeOp' = c /\ writePeripheral' = connected /\ writeGeneration' = generation
          /\ UNCHANGED <<central, link, late, notifying, known, linkVars, connectVars,
                         readVars, scanVars, closeVars, discovered, quarantine,
                         cancelled, bound, reported>>
      BY <1>3 DEF WriteAccepted
    <3> QED
      BY <2>1, <2>2, <2>3, <3>1, SMTT(20)
<1>4. ASSUME NEW c \in Reads, ReadAccepted(c) PROVE TypeOK'
  <2>1. connected \in Device /\ c \in Call \cup {NoCall}
    BY <1>4 DEF ReadAccepted, Ready
  <2>2. gatt' \in [Device -> Seq(Request)]
    BY <1>4, <2>1, SendType DEF ReadAccepted, RequestKinds
  <2>3. status' \in [Call -> Statuses]
    BY <1>0, <1>4 DEF ReadAccepted, Statuses
  <2> QED
    <3>1. readOp' \in {c, readOp} /\ readGeneration' \in {generation, readGeneration}
          /\ UNCHANGED <<central, link, late, notifying, known, linkVars, connectVars,
                         writeVars, scanVars, closeVars, discovered, quarantine,
                         cancelled, bound, reported>>
      BY <1>4 DEF ReadAccepted
    <3> QED
      BY <2>2, <2>3, <3>1, SMTT(20)
<1>5. ASSUME NEW c \in Disconnects, DisconnectJoin(c) PROVE TypeOK'
  <2>1. status' \in [Call -> Statuses]
    BY <1>0, <1>5 DEF DisconnectJoin, Statuses
  <2> QED
    BY <1>5, <2>1 DEF DisconnectJoin
<1>6. ASSUME NEW c \in Disconnects, DisconnectAtOnce(c) PROVE TypeOK'
  <2>1. status' \in [Call -> Statuses]
    BY <1>6 DEF DisconnectAtOnce, Statuses
  <2> QED
    BY <1>6, <2>1 DEF DisconnectAtOnce, ClearConnectOp, ClearWriteOp,
       ClearReadOp, FinishDisconnect, ForgetLink, Stages
<1>7. ASSUME NEW c \in Disconnects, DisconnectBegin(c) PROVE TypeOK'
  <2>1. status' \in [Call -> Statuses]
    BY <1>7 DEF DisconnectBegin, Statuses
  <2>2. DisconnectTarget \in Device
    BY <1>7 DEF DisconnectBegin, DisconnectTarget
  <2>3. BeginDisconnect(c, DisconnectTarget)
    BY <1>7 DEF DisconnectBegin
  <2> QED
    BY <1>7, <2>1, <2>2, <2>3, BeginDisconnectType DEF DisconnectBegin,
       ClearConnectOp, ClearWriteOp, ClearReadOp, Stages
<1>8. ASSUME NEW c \in Scans, ScanAccepted(c) PROVE TypeOK'
  <2>1. central' \in CentralStates
    BY <1>8 DEF ScanAccepted, Manager, CentralStates
  <2>2. status' \in [Call -> Statuses]
    BY <1>0, <1>8 DEF ScanAccepted, Statuses
  <2> QED
    BY <1>8, <2>1, <2>2 DEF ScanAccepted, StartScan
<1>9. ASSUME NEW c \in Call, CancelTask(c) PROVE TypeOK'
  BY <1>9 DEF CancelTask
<1>10. ASSUME NEW p \in Device, Rebind(p) PROVE TypeOK'
  BY <1>10 DEF Rebind
<1> QED
  BY <1>1, <1>2, <1>3, <1>4, <1>5, <1>6, <1>7, <1>8, <1>9, <1>10
  DEF Calls, ConnectRefused, WriteRefused, ReadRefused, ScanRefused

\* So does every timer and every cancellation of a task.
LEMMA TimersType == ASSUME TypeOK, Timers PROVE TypeOK'
<1> USE KindsOfCall
    DEF TypeOK, cbVars, linkVars, connectVars, writeVars, readVars, scanVars,
        closeVars, clientVars
<1>0. \A S : \A result \in Statuses : Returned(S, result) \in [Call -> Statuses]
  BY AnyReturned
<1>1. ASSUME NEW c \in Connects, NEW result \in Statuses, AbandonConnect(c, result)
      PROVE  TypeOK'
  <2>1. status' \in [Call -> Statuses]
    BY <1>0, <1>1 DEF AbandonConnect
  <2>2. CASE BeginDisconnect(c, pending) /\ Found(pending)
    <3>1. pending \in Device
      BY <2>2 DEF Found
    <3>2. UNCHANGED <<scanTimers, waiters>> /\ writeGeneration' \in Nat
          /\ readGeneration' \in Nat
      BY <1>1 DEF AbandonConnect
    <3> QED
      BY <1>1, <2>1, <2>2, <3>1, <3>2, BeginDisconnectType
      DEF AbandonConnect, ClearConnectOp, Stages
  <2>3. CASE ~(BeginDisconnect(c, pending) /\ Found(pending))
    BY <1>1, <2>1, <2>3 DEF AbandonConnect, ClearConnectOp, Stages
  <2> QED
    BY <2>2, <2>3
<1>2. ASSUME NEW c \in Writes, NEW p \in Device \cup {NoDevice},
             NEW result \in Statuses, AbandonWrite(c, p, result)
      PROVE  TypeOK'
  <2>1. status' \in [Call -> Statuses]
    BY <1>0, <1>2 DEF AbandonWrite
  <2>2. CASE BeginDisconnect(c, p) /\ p # NoDevice /\ readGeneration' = 0
    BY <1>2, <2>1, <2>2, BeginDisconnectType DEF AbandonWrite, ClearWriteOp,
       Stages
  <2>3. CASE ~(BeginDisconnect(c, p) /\ p # NoDevice /\ readGeneration' = 0)
    BY <1>2, <2>1, <2>3 DEF AbandonWrite, ClearWriteOp
  <2> QED
    BY <2>2, <2>3
<1>3. ASSUME NEW result \in Statuses, AbandonRead(result) PROVE TypeOK'
  <2>1. status' \in [Call -> Statuses]
    BY <1>0, <1>3 DEF AbandonRead
  <2> QED
    BY <1>3, <2>1 DEF AbandonRead, ClearReadOp
<1>4. ASSUME ScanTimer PROVE TypeOK'
  <2>1. status' \in [Call -> Statuses]
    BY <1>0, <1>4 DEF ScanTimer, Statuses
  <2>2. scanTimers' \in Nat
    BY <1>4 DEF ScanTimer
  <2>3. UNCHANGED <<cbVars, linkVars, connectVars, writeVars, readVars, closeVars,
                    discovered, quarantine, cancelled, bound, reported>>
    BY <1>4 DEF ScanTimer
  <2>4. scanOp' = NoCall
    BY <1>4 DEF ScanTimer
  <2> QED
    BY <2>1, <2>2, <2>3, <2>4
<1>5. ASSUME NEW c \in Call, NEW p \in Device, DisconnectTimer(c, p) PROVE TypeOK'
  <2>1. status' \in [Call -> Statuses]
    BY <1>0, <1>5 DEF DisconnectTimer, Statuses
  <2>2. quarantine' \in [Device -> QuarantineStates]
    BY <1>5 DEF DisconnectTimer, QuarantineStates
  <2> QED
    BY <1>5, <2>1, <2>2, SMTT(20)
    DEF DisconnectTimer, FinishDisconnect, ForgetLink, Stages
<1>6. ASSUME NEW p \in Device, QuarantineExpires(p) PROVE TypeOK'
  BY <1>6 DEF QuarantineExpires, QuarantineStates
<1>7. {"timeout", "cancelled"} \subseteq Statuses
  BY DEF Statuses
<1> QED
  BY <1>1, <1>2, <1>3, <1>4, <1>5, <1>6, <1>7
  DEF Timers, TimeoutConnect, CancelConnect, TimeoutWrite, CancelWrite,
      TimeoutRead, CancelRead

\* The answer to the oldest request of a link, and the request it may lead to.
LEMMA AppendAfterAnswerType ==
  ASSUME gatt \in [Device -> Seq(Request)], NEW p \in Device, gatt[p] # <<>>,
         NEW kind \in RequestKinds,
         gatt' = [gatt EXCEPT ![p] = Append(Tail(@), [kind |-> kind, op |-> NoCall])]
  PROVE  gatt' \in [Device -> Seq(Request)]
<1>1. Tail(gatt[p]) \in Seq(Request)
  OBVIOUS
<1>2. [kind |-> kind, op |-> NoCall] \in Request
  BY DEF Request
<1>3. Append(Tail(gatt[p]), [kind |-> kind, op |-> NoCall]) \in Seq(Request)
  BY <1>1, <1>2
<1> QED
  BY <1>3

\* A link that goes down leaves the CoreBluetooth side well typed.
LEMMA LinkDownType ==
  ASSUME TypeOK, NEW p \in Device, LinkDown(p)
  PROVE  /\ link' \in [Device -> LinkStates]
         /\ late' \in SUBSET Device
         /\ gatt' \in [Device -> Seq(Request)]
         /\ notifying' \in [Device -> BOOLEAN]
<1>1. <<>> \in Seq(Request)
  OBVIOUS
<1> QED
  BY <1>1 DEF LinkDown, TypeOK, LinkStates

\* So does the loss of every link with the power.
LEMMA DropLinksType ==
  ASSUME DropLinks
  PROVE  /\ link' \in [Device -> LinkStates]
         /\ late' \in SUBSET Device
         /\ gatt' \in [Device -> Seq(Request)]
         /\ notifying' \in [Device -> BOOLEAN]
<1>1. <<>> \in Seq(Request)
  OBVIOUS
<1> QED
  BY <1>1 DEF DropLinks, LinkStates

\* Every delegate callback keeps the types; the power-on one begins a waiting
\* connect, which SetupIsPending makes a connect of a device.
LEMMA CallbacksType == ASSUME TypeOK, SetupIsPending, Callbacks PROVE TypeOK'
<1> USE KindsOfCall
    DEF TypeOK, cbVars, linkVars, connectVars, writeVars, readVars, scanVars,
        closeVars, clientVars
<1>0. \A S : \A result \in Statuses : Returned(S, result) \in [Call -> Statuses]
  BY AnyReturned
<1>1. ASSUME PoweredOn PROVE TypeOK'
  <2>1. central' \in CentralStates
    BY <1>1 DEF PoweredOn, CentralStates
  <2>2. PICK found \in SUBSET Device :
          /\ \/ scanOp # NoCall /\ StartScan(found)
             \/ scanOp = NoCall /\ found = {} /\ UNCHANGED <<scanTimers, known>>
          /\ \/ /\ stage = "waitingForPower"
                /\ BeginConnect(connectOp, pending, found)
             \/ /\ stage # "waitingForPower"
                /\ discovered' = discovered \cup found
                /\ UNCHANGED <<quarantine, connectVars, stage, status, link, gatt,
                               connected>>
    BY <1>1 DEF PoweredOn
  <2>3. scanTimers' \in Nat /\ known' \in SUBSET Device
    BY <2>2 DEF StartScan
  <2>4. CASE stage = "waitingForPower"
    <3>1. connectOp \in Connects /\ pending \in Device
      BY <2>4 DEF SetupIsPending
    <3> QED
      BY <1>1, <2>1, <2>2, <2>3, <2>4, <3>1, BeginConnectType DEF PoweredOn
  <2>5. CASE stage # "waitingForPower"
    BY <1>1, <2>1, <2>2, <2>3, <2>5 DEF PoweredOn
  <2> QED
    BY <2>4, <2>5
<1>2. ASSUME PoweredOff PROVE TypeOK'
  <2>1. status' \in [Call -> Statuses]
    BY <1>0, <1>2 DEF PoweredOff, Statuses
  <2>2. /\ link' \in [Device -> LinkStates]
        /\ late' \in SUBSET Device
        /\ gatt' \in [Device -> Seq(Request)]
        /\ notifying' \in [Device -> BOOLEAN]
    BY <1>2, DropLinksType DEF PoweredOff
  <2>3. /\ central' \in CentralStates
        /\ stage' \in Stages
        /\ connectOp' \in Connects \cup {NoCall}
        /\ pending' \in Device \cup {NoDevice}
    BY <1>2 DEF PoweredOff, CentralStates, Stages, ClearConnectOp
  <2> QED
    <3>1. scanOp' = NoCall
          /\ UNCHANGED <<known, connected, characteristics, generation, writeVars,
                         readVars, scanTimers, closeVars, discovered, quarantine,
                         cancelled, bound, reported>>
      BY <1>2 DEF PoweredOff
    <3> QED
      BY <2>1, <2>2, <2>3, <3>1, SMTT(20)
<1>3. ASSUME Resetting PROVE TypeOK'
  BY <1>3, DropLinksType DEF Resetting, CentralStates
<1>4. ASSUME NEW p \in Device, DidDiscover(p) PROVE TypeOK'
  BY <1>4 DEF DidDiscover
<1>5. ASSUME NEW p \in Device, DidConnect(p) PROVE TypeOK'
  <2>1. gatt' \in [Device -> Seq(Request)]
    BY <1>5, SendType DEF DidConnect, RequestKinds
  <2>2. link' \in [Device -> LinkStates] /\ late' \in SUBSET Device
    BY <1>5 DEF DidConnect, HangUp, LinkStates
  <2>3. connected' \in Device \cup {NoDevice} /\ stage' \in Stages
    BY <1>5 DEF DidConnect, Stages
  <2>4. UNCHANGED <<central, notifying, known, characteristics, generation,
                    connectVars, writeVars, readVars, scanVars, closeVars,
                    discovered, quarantine, clientVars>>
    BY <1>5 DEF DidConnect
  <2> QED
    BY <2>1, <2>2, <2>3, <2>4, SMTT(20)
<1>6. ASSUME NEW p \in Device, DidFailToConnect(p) PROVE TypeOK'
  <2>1. status' \in [Call -> Statuses]
    BY <1>0, <1>6 DEF DidFailToConnect, Statuses
  <2>2. quarantine' \in [Device -> QuarantineStates]
    BY <1>6 DEF DidFailToConnect, QuarantineStates
  <2>3. LinkDown(p)
    BY <1>6 DEF DidFailToConnect
  <2> QED
    BY <1>6, <2>1, <2>2, <2>3, LinkDownType, SMTT(20)
    DEF DidFailToConnect, ClearConnectOp, Stages
<1>7. ASSUME NEW p \in Device, DidDisconnect(p) PROVE TypeOK'
  <2>1. status' \in [Call -> Statuses]
    BY <1>0, <1>7 DEF DidDisconnect, DisconnectIgnored, DisconnectDone,
       LinkLost,
       Statuses
  <2>2. quarantine' \in [Device -> QuarantineStates]
    BY <1>7 DEF DidDisconnect, DisconnectIgnored, DisconnectDone, LinkLost,
       QuarantineStates
  <2>3. LinkDown(p)
    BY <1>7 DEF DidDisconnect
  <2>4. UNCHANGED <<central, known, scanVars, disconnectTimers, discovered,
                    cancelled, bound>>
    BY <1>7 DEF DidDisconnect
  <2>5. CASE DisconnectIgnored(p)
    BY <2>1, <2>2, <2>3, <2>4, <2>5, LinkDownType DEF DisconnectIgnored
  <2>6. CASE DisconnectDone(p)
    BY <2>1, <2>2, <2>3, <2>4, <2>6, LinkDownType
    DEF DisconnectDone, FinishDisconnect, ForgetLink, Stages
  <2>7. CASE LinkLost(p)
    BY <2>1, <2>2, <2>3, <2>4, <2>7, LinkDownType
    DEF LinkLost, ClearConnectOp, ClearWriteOp, ClearReadOp, Stages
  <2> QED
    BY <1>7, <2>5, <2>6, <2>7 DEF DidDisconnect
<1>8. ASSUME NEW p \in Device, DidDiscoverServices(p) PROVE TypeOK'
  <2>1. gatt' \in [Device -> Seq(Request)]
    BY <1>8, AnswerType, AppendAfterAnswerType
    DEF DidDiscoverServices, Answers, RequestKinds
  <2>2. status' \in [Call -> Statuses]
    BY <1>0, <1>8 DEF DidDiscoverServices, ConnectFails, Statuses
  <2>3. /\ stage' \in Stages
        /\ connectOp' \in Connects \cup {NoCall}
        /\ pending' \in Device \cup {NoDevice}
    BY <1>8 DEF DidDiscoverServices, ConnectFails, ClearConnectOp, Stages
  <2>4. UNCHANGED <<central, link, late, notifying, known, connected,
                    characteristics, generation, writeVars, readVars, scanVars, closeVars,
                    discovered, quarantine, cancelled, bound, reported>>
    BY <1>8 DEF DidDiscoverServices
  <2> QED
    BY <2>1, <2>2, <2>3, <2>4
<1>9. ASSUME NEW p \in Device, DidDiscoverCharacteristics(p) PROVE TypeOK'
  <2>1. gatt' \in [Device -> Seq(Request)]
    BY <1>9, AnswerType, AppendAfterAnswerType
    DEF DidDiscoverCharacteristics, Answers, RequestKinds
  <2>2. status' \in [Call -> Statuses]
    BY <1>0, <1>9 DEF DidDiscoverCharacteristics, ConnectFails, FinishConnect,
       Statuses
  <2>3. characteristics' \in SUBSET Characteristics
    BY <1>9 DEF DidDiscoverCharacteristics, Characteristics, Optional
  <2> QED
    BY <1>9, <2>1, <2>2, <2>3, SMTT(20)
    DEF DidDiscoverCharacteristics, ConnectFails, FinishConnect, ClearConnectOp,
       Stages
<1>10. ASSUME NEW p \in Device, DidUpdateNotificationState(p) PROVE TypeOK'
  <2>1. gatt' \in [Device -> Seq(Request)]
    BY <1>10, AnswerType DEF DidUpdateNotificationState, Answers
  <2>2. status' \in [Call -> Statuses]
    BY <1>0, <1>10 DEF DidUpdateNotificationState, ConnectFails, FinishConnect,
       Statuses
  <2>3. notifying' \in [Device -> BOOLEAN]
    BY <1>10 DEF DidUpdateNotificationState
  <2> QED
    BY <1>10, <2>1, <2>2, <2>3
    DEF DidUpdateNotificationState, ConnectFails, FinishConnect, ClearConnectOp,
       Stages
<1>11. ASSUME NEW p \in Device, DidReadValue(p) PROVE TypeOK'
  <2>1. gatt' \in [Device -> Seq(Request)]
    BY <1>11, AnswerType DEF DidReadValue, Answers
  <2>2. status' \in [Call -> Statuses]
    BY <1>0, <1>11 DEF DidReadValue, Statuses
  <2> QED
    BY <1>11, <2>1, <2>2 DEF DidReadValue, ClearReadOp
<1>12. ASSUME NEW p \in Device, DidWriteValue(p) PROVE TypeOK'
  <2>1. gatt' \in [Device -> Seq(Request)]
    BY <1>12, AnswerType DEF DidWriteValue, Answers
  <2>2. status' \in [Call -> Statuses]
    BY <1>0, <1>12 DEF DidWriteValue, Statuses
  <2> QED
    BY <1>12, <2>1, <2>2 DEF DidWriteValue, ClearWriteOp
<1> QED
  BY <1>1, <1>2, <1>3, <1>4, <1>5, <1>6, <1>7, <1>8, <1>9, <1>10, <1>11, <1>12
  DEF Callbacks

-----------------------------------------------------------------------------
(* Preservation of the rest of the inductive invariant *)

Rest == SetupIsPending /\ SetupHasOwner /\ Ownership /\ NoOrphanLink
          /\ LiveLinkNotQuarantined

\* A begun disconnect takes down the one device the transport holds.
LEMMA BeginDisconnectKeeps ==
  ASSUME TypeOK, Rest, NEW c \in Call, BeginDisconnect(c, bound)
  PROVE  /\ \A p \in Device : link'[p] # "connected"
         /\ connected' = NoDevice /\ stage' = "none"
<1> USE DEF TypeOK, Rest
<1>1. PICK s \in AfterCancel(bound) : link' = [link EXCEPT ![bound] = s]
  BY DEF BeginDisconnect, CancelLink
<1>2. s # "connected"
  BY <1>1 DEF AfterCancel
<1>3. ASSUME NEW p \in Device PROVE link'[p] # "connected"
  <2>1. CASE p = bound
    BY <1>1, <1>2, <2>1
  <2>2. CASE p # bound
    <3>1. link'[p] = link[p]
      BY <1>1, <2>2
    <3> QED
      BY <3>1, <2>2, DeviceAssumption DEF Ownership, NoOrphanLink
  <2> QED
    BY <2>1, <2>2
<1> QED
  BY <1>3 DEF BeginDisconnect, ForgetLink

\* beginConnect keeps the ownership of links and setups.
LEMMA BeginConnectKeeps ==
  ASSUME TypeOK, Rest, NEW c \in Connects, NEW scan \in SUBSET Device,
         disconnecting = NoDevice, BeginConnect(c, bound, scan),
         UNCHANGED <<bound, writePeripheral, writeOp, disconnecting>>,
         connectOp \in {c, NoCall}, stage \in {"none", "ready", "waitingForPower"}
  PROVE  Rest'
<1> USE CallAssumption, DeviceAssumption, KindsOfCall DEF TypeOK, Rest
<1>1. CASE ~Found(bound) \/ link[bound] = "disconnecting" \/ quarantine[bound] = "active"
  <2>1. ClearConnectOp /\ stage' = "none" /\ UNCHANGED <<link, connected>>
    BY <1>1 DEF BeginConnect
  <2>2. \A p \in Device : quarantine[p] = "none" => quarantine'[p] = "none"
    BY DEF BeginConnect
  <2> QED
    BY <2>1, <2>2 DEF ClearConnectOp, SetupIsPending, SetupHasOwner, Ownership,
       NoOrphanLink, LiveLinkNotQuarantined
<1>2. CASE ~(~Found(bound) \/ link[bound] = "disconnecting" \/ quarantine[bound] = "active")
  <2>1. /\ connectOp' = c /\ pending' = bound
        /\ stage' \in {"connecting", "discoveringServices"}
        /\ stage' = "discoveringServices" => connected' = bound
        /\ connected' \in {bound, connected}
    BY <1>2 DEF BeginConnect
  <2>2. \A p \in Device : link'[p] = "connected" => p = connected'
    <3>1. CASE link[bound] = "connected"
      BY <1>2, <3>1 DEF BeginConnect, NoOrphanLink
    <3>2. CASE link[bound] # "connected"
      BY <1>2, <3>2 DEF BeginConnect, NoOrphanLink
    <3> QED
      BY <3>1, <3>2
  <2>3. quarantine'[bound] = "none"
    BY <1>2 DEF BeginConnect, QuarantineStates
  <2>4. \A p \in Device : quarantine[p] = "none" => quarantine'[p] = "none"
    BY DEF BeginConnect
  <2> QED
    BY <2>1, <2>2, <2>3, <2>4 DEF SetupIsPending, SetupHasOwner, Ownership,
       NoOrphanLink, LiveLinkNotQuarantined
<1> QED
  BY <1>1, <1>2

\* A step that leaves these variables alone keeps the invariant.
LEMMA FrameKeeps ==
  ASSUME Rest,
         UNCHANGED <<connected, pending, connectOp, writeOp, writePeripheral,
                     disconnecting, stage, link, quarantine, bound>>
  PROVE  Rest'
BY DEF Rest, SetupIsPending, SetupHasOwner, Ownership, NoOrphanLink,
   LiveLinkNotQuarantined

\* Every call into the transport keeps what the invariant adds to the types.
LEMMA CallsKeep == ASSUME TypeOK, Rest, Calls PROVE Rest'
<1> USE CallAssumption, DeviceAssumption, KindsOfCall
<1>0. /\ connectOp \in Connects \cup {NoCall} /\ bound \in Device
      /\ pending \in Device \cup {NoDevice} /\ quarantine \in [Device -> QuarantineStates]
      /\ link \in [Device -> LinkStates]
      /\ NoCall \notin Writes /\ NoCall \notin Connects
  BY DEF TypeOK
<1>1. ASSUME NEW c \in Call, Refuse(c) PROVE Rest'
  BY <1>1, FrameKeeps DEF Refuse, cbVars, linkVars, connectVars, writeVars,
     closeVars
<1>2. ASSUME NEW c \in Connects, ConnectAccepted(c) PROVE Rest'
  <2>1. stage \in {"none", "ready"}
    BY <1>2 DEF ConnectAccepted, Rest, SetupHasOwner
  <2>2. /\ UNCHANGED <<bound, writePeripheral, writeOp, disconnecting>>
        /\ disconnecting = NoDevice /\ connectOp = NoCall
    BY <1>2 DEF ConnectAccepted, writeVars, closeVars
  <2>3. CASE BeginConnect(c, bound, {})
    BY <2>1, <2>2, <2>3, BeginConnectKeeps
  <2>4. CASE ~BeginConnect(c, bound, {})
    <3>1. UNCHANGED <<link, connected, quarantine>>
      BY <1>2, <2>4 DEF ConnectAccepted
    <3>2. \/ connectOp' = c /\ pending' = bound /\ stage' = "waitingForPower"
          \/ UNCHANGED <<connectOp, pending>> /\ stage' = "none"
      BY <1>2, <2>4 DEF ConnectAccepted, connectVars
    <3> QED
      BY <1>0, <2>2, <3>1, <3>2 DEF Rest, SetupIsPending, SetupHasOwner,
         Ownership, NoOrphanLink, LiveLinkNotQuarantined
  <2> QED
    BY <2>3, <2>4
<1>3. ASSUME NEW c \in Writes, WriteAccepted(c) PROVE Rest'
  <2>1. /\ writeOp' = c /\ writePeripheral' = connected /\ connected # NoDevice
        /\ UNCHANGED <<connected, pending, connectOp, disconnecting, stage, link,
                       quarantine, bound>>
    BY <1>3 DEF WriteAccepted, Ready, linkVars, connectVars, closeVars
  <2> QED
    BY <1>0, <2>1 DEF Rest, SetupIsPending, SetupHasOwner, Ownership,
       NoOrphanLink, LiveLinkNotQuarantined
<1>4. ASSUME NEW c \in Reads, ReadAccepted(c) PROVE Rest'
  BY <1>4, FrameKeeps DEF ReadAccepted, linkVars, connectVars, writeVars,
     closeVars
<1>5. ASSUME NEW c \in Disconnects, DisconnectJoin(c) PROVE Rest'
  BY <1>5, FrameKeeps DEF DisconnectJoin, cbVars, linkVars, connectVars,
     writeVars
<1>6. DisconnectTarget \in {connected, pending, NoDevice}
      /\ (connected # NoDevice => DisconnectTarget = connected)
  BY DEF DisconnectTarget
<1>7. ASSUME NEW c \in Disconnects, DisconnectAtOnce(c) PROVE Rest'
  <2>1. /\ connected' = NoDevice /\ stage' = "none" /\ disconnecting' = NoDevice
        /\ connectOp' = NoCall /\ pending' = NoDevice
        /\ writeOp' = NoCall /\ writePeripheral' = NoDevice
        /\ UNCHANGED <<link, quarantine, bound>>
    BY <1>7 DEF DisconnectAtOnce, FinishDisconnect, ForgetLink, ClearConnectOp,
       ClearWriteOp, cbVars
  <2>2. \A p \in Device : link[p] # "connected"
    BY <1>6, <1>7 DEF DisconnectAtOnce, Rest, NoOrphanLink
  <2> QED
    BY <2>1, <2>2 DEF SetupIsPending, SetupHasOwner, Ownership, NoOrphanLink,
       LiveLinkNotQuarantined, Rest
<1>8. ASSUME NEW c \in Disconnects, DisconnectBegin(c) PROVE Rest'
  <2>1. DisconnectTarget = bound
    BY <1>6, <1>8 DEF DisconnectBegin, Rest, Ownership
  <2>2. BeginDisconnect(c, bound)
    BY <1>8, <2>1 DEF DisconnectBegin
  <2>3. /\ disconnecting' = bound
        /\ connectOp' = NoCall /\ pending' = NoDevice
        /\ writeOp' = NoCall /\ writePeripheral' = NoDevice
        /\ UNCHANGED <<quarantine, bound>>
    BY <1>8, <2>2 DEF DisconnectBegin, BeginDisconnect, ClearConnectOp,
       ClearWriteOp
  <2>4. \A p \in Device : link'[p] # "connected"
    BY <2>2, BeginDisconnectKeeps
  <2>5. connected' = NoDevice /\ stage' = "none"
    BY <2>2, BeginDisconnectKeeps
  <2> QED
    BY <2>3, <2>4, <2>5 DEF SetupIsPending, SetupHasOwner, Ownership,
       NoOrphanLink, LiveLinkNotQuarantined, Rest
<1>9. ASSUME NEW c \in Scans, ScanAccepted(c) PROVE Rest'
  BY <1>9, FrameKeeps DEF ScanAccepted, linkVars, connectVars, writeVars,
     closeVars
<1>10. ASSUME NEW c \in Call, CancelTask(c) PROVE Rest'
  BY <1>10, FrameKeeps DEF CancelTask, cbVars, linkVars, connectVars, writeVars,
     closeVars
<1>11. ASSUME NEW p \in Device, Rebind(p) PROVE Rest'
  <2>1. connectOp = NoCall /\ writeOp = NoCall
    BY <1>11 DEF Rebind, Outstanding
  <2>2. /\ connected = NoDevice /\ disconnecting = NoDevice
        /\ UNCHANGED <<connected, pending, connectOp, writeOp, writePeripheral,
                       disconnecting, stage, link, quarantine>>
    BY <1>11 DEF Rebind, cbVars, linkVars, connectVars, writeVars, closeVars
  <2> QED
    BY <2>1, <2>2 DEF Rest, SetupIsPending, SetupHasOwner, Ownership,
       NoOrphanLink, LiveLinkNotQuarantined
<1> QED
  BY <1>1, <1>2, <1>3, <1>4, <1>5, <1>7, <1>8, <1>9, <1>10, <1>11
  DEF Calls, ConnectRefused, WriteRefused, ReadRefused, ScanRefused

\* So does every timer and every cancellation of a task.
LEMMA TimersKeep == ASSUME TypeOK, Rest, Timers PROVE Rest'
<1> USE CallAssumption, DeviceAssumption, KindsOfCall
<1>0. /\ connectOp \in Connects \cup {NoCall} /\ bound \in Device
      /\ pending \in Device \cup {NoDevice} /\ quarantine \in [Device -> QuarantineStates]
      /\ link \in [Device -> LinkStates]
      /\ NoCall \notin Writes /\ NoCall \notin Connects
  BY DEF TypeOK
<1>1. ASSUME NEW c \in Connects, NEW result, AbandonConnect(c, result) PROVE Rest'
  <2>0. /\ connectOp' = NoCall /\ pending' = NoDevice
        /\ UNCHANGED <<writeOp, writePeripheral, quarantine, bound>>
        /\ pending = bound
    BY <1>1 DEF AbandonConnect, ClearConnectOp, Rest, SetupIsPending, Ownership
  <2>1. CASE BeginDisconnect(c, pending)
    <3>1. \A p \in Device : link'[p] # "connected"
      BY <2>0, <2>1, BeginDisconnectKeeps
    <3>2. connected' = NoDevice /\ stage' = "none" /\ disconnecting' = bound
      BY <2>0, <2>1 DEF BeginDisconnect, ForgetLink
    <3> QED
      BY <2>0, <3>1, <3>2 DEF SetupIsPending, SetupHasOwner, Ownership,
         NoOrphanLink, LiveLinkNotQuarantined, Rest
  <2>2. CASE ~BeginDisconnect(c, pending)
    <3>1. stage' = "none" /\ UNCHANGED <<link, connected, disconnecting>>
      BY <1>1, <2>2 DEF AbandonConnect
    <3> QED
      BY <2>0, <3>1 DEF SetupIsPending, SetupHasOwner, Ownership,
         NoOrphanLink, LiveLinkNotQuarantined, Rest
  <2> QED
    BY <2>1, <2>2
<1>2. ASSUME NEW c \in Writes, NEW p \in {bound, NoDevice}, NEW result,
             AbandonWrite(c, p, result)
      PROVE  Rest'
  <2>0. /\ writeOp' = NoCall /\ writePeripheral' = NoDevice
        /\ UNCHANGED <<connectOp, pending, quarantine, bound>>
    BY <1>2 DEF AbandonWrite, ClearWriteOp, connectVars
  <2>1. CASE p # NoDevice /\ BeginDisconnect(c, p)
    <3>1. \A d \in Device : link'[d] # "connected"
      BY <2>1, BeginDisconnectKeeps
    <3>2. connected' = NoDevice /\ stage' = "none" /\ disconnecting' = bound
      BY <2>1 DEF BeginDisconnect, ForgetLink
    <3> QED
      BY <2>0, <3>1, <3>2 DEF SetupIsPending, SetupHasOwner, Ownership,
         NoOrphanLink, LiveLinkNotQuarantined, Rest
  <2>2. CASE ~(p # NoDevice /\ BeginDisconnect(c, p))
    <3>1. UNCHANGED <<link, connected, disconnecting, stage>>
      BY <1>2, <2>2 DEF AbandonWrite, linkVars
    <3> QED
      BY <2>0, <3>1 DEF SetupIsPending, SetupHasOwner, Ownership,
         NoOrphanLink, LiveLinkNotQuarantined, Rest
  <2> QED
    BY <2>1, <2>2
<1>3. ASSUME NEW result, AbandonRead(result) PROVE Rest'
  BY <1>3, FrameKeeps DEF AbandonRead, cbVars, linkVars, connectVars, writeVars,
     closeVars
<1>4. ASSUME ScanTimer PROVE Rest'
  BY <1>4, FrameKeeps DEF ScanTimer, cbVars, linkVars, connectVars, writeVars,
     closeVars
<1>5. ASSUME NEW c \in Call, NEW p \in Device, DisconnectTimer(c, p) PROVE Rest'
  <2>0. UNCHANGED <<link, connectOp, pending, writeOp, writePeripheral, bound>>
    BY <1>5 DEF DisconnectTimer, cbVars, connectVars
  <2>1. CASE disconnectOp = c /\ disconnecting = p
    <3>1. connected' = NoDevice /\ stage' = "none" /\ disconnecting' = NoDevice
      BY <1>5, <2>1 DEF DisconnectTimer, FinishDisconnect, ForgetLink
    <3>2. connected = NoDevice
      BY <2>1 DEF Rest, Ownership
    <3> QED
      BY <2>0, <3>1, <3>2 DEF SetupIsPending, SetupHasOwner, Ownership,
         NoOrphanLink, LiveLinkNotQuarantined, Rest
  <2>2. CASE ~(disconnectOp = c /\ disconnecting = p)
    BY <1>5, <2>0, <2>2, FrameKeeps DEF DisconnectTimer, linkVars
  <2> QED
    BY <2>1, <2>2
<1>6. ASSUME NEW p \in Device, QuarantineExpires(p) PROVE Rest'
  <2>1. UNCHANGED <<link, connectOp, pending, writeOp, writePeripheral, bound,
                    connected, stage, disconnecting>>
    BY <1>6 DEF QuarantineExpires, cbVars, linkVars, connectVars, writeVars,
       closeVars, clientVars
  <2>2. \A d \in Device : quarantine[d] = "none" => quarantine'[d] = "none"
    BY <1>0, <1>6 DEF QuarantineExpires
  <2> QED
    BY <2>1, <2>2 DEF SetupIsPending, SetupHasOwner, Ownership, NoOrphanLink,
       LiveLinkNotQuarantined, Rest
<1>7. connected \in {bound, NoDevice} /\ writePeripheral \in {bound, NoDevice}
  BY DEF Rest, Ownership
<1> QED
  BY <1>1, <1>2, <1>3, <1>4, <1>5, <1>6, <1>7
  DEF Timers, TimeoutConnect, CancelConnect, TimeoutWrite, CancelWrite,
      TimeoutRead, CancelRead

\* A link that is down, or hung up, takes no transport property with it.
LEMMA LinkDownKeeps ==
  ASSUME TypeOK, NEW p \in Device, LinkDown(p)
  PROVE  \A d \in Device : link'[d] = "connected" => d # p /\ link[d] = "connected"
BY DEF LinkDown, TypeOK

\* Of a link answered: connectVars, stage and nothing else may change, and set-up
\* either goes on, or ends with its call.
LEMMA AnswerKeeps ==
  ASSUME TypeOK, Rest,
         UNCHANGED <<link, connected, writeOp, writePeripheral, disconnecting,
                     quarantine, bound>>,
         \/ UNCHANGED <<stage, connectOp, pending>>
         \/ stage' \in {"none", "ready"} /\ ClearConnectOp /\ disconnecting = NoDevice
         \/ /\ stage \in {"discoveringServices", "discoveringCharacteristics"}
            /\ stage' \in {"discoveringCharacteristics", "subscribingCommands"}
            /\ UNCHANGED <<connectOp, pending>>
  PROVE  Rest'
BY DeviceAssumption DEF TypeOK, Rest, SetupIsPending, SetupHasOwner, Ownership,
   NoOrphanLink, LiveLinkNotQuarantined, ClearConnectOp

\* So does every delegate callback.
LEMMA CallbacksKeep == ASSUME TypeOK, Rest, Callbacks PROVE Rest'
<1> USE CallAssumption, DeviceAssumption, KindsOfCall
<1>0. /\ connectOp \in Connects \cup {NoCall} /\ bound \in Device
      /\ pending \in Device \cup {NoDevice} /\ quarantine \in [Device -> QuarantineStates]
      /\ link \in [Device -> LinkStates]
      /\ NoCall \notin Writes /\ NoCall \notin Connects
  BY DEF TypeOK
<1>1. ASSUME PoweredOn PROVE Rest'
  <2>1. UNCHANGED <<bound, writePeripheral, writeOp, disconnecting>>
    BY <1>1 DEF PoweredOn, writeVars, closeVars
  <2>2. CASE stage = "waitingForPower"
    <3>1. PICK found \in SUBSET Device : BeginConnect(connectOp, pending, found)
      BY <1>1, <2>2 DEF PoweredOn
    <3>2. /\ connectOp \in Connects /\ pending = bound /\ disconnecting = NoDevice
      BY <1>0, <2>2 DEF Rest, SetupIsPending, Ownership
    <3> QED
      BY <2>1, <2>2, <3>1, <3>2, BeginConnectKeeps
  <2>3. CASE stage # "waitingForPower"
    <3>1. UNCHANGED <<quarantine, connectVars, stage, link, connected>>
      BY <1>1, <2>3 DEF PoweredOn
    <3> QED
      BY <2>1, <3>1, FrameKeeps DEF connectVars
  <2> QED
    BY <2>2, <2>3
<1>2. ASSUME PoweredOff PROVE Rest'
  <2>1. /\ UNCHANGED <<connected, writeOp, writePeripheral, disconnecting, quarantine,
                       bound>>
        /\ \A p \in Device : link'[p] = "disconnected"
    BY <1>2 DEF PoweredOff, DropLinks, writeVars, closeVars
  <2>2. \/ connectOp' = NoCall /\ pending' = NoDevice /\ stage' = "none"
        \/ UNCHANGED <<connectOp, pending, stage>>
    BY <1>2 DEF PoweredOff, ClearConnectOp, connectVars
  <2> QED
    BY <2>1, <2>2 DEF SetupIsPending, SetupHasOwner, Ownership, NoOrphanLink,
       LiveLinkNotQuarantined, Rest
<1>3. ASSUME Resetting PROVE Rest'
  <2>1. /\ UNCHANGED <<connected, pending, connectOp, stage, writeOp, writePeripheral,
                       disconnecting, quarantine, bound>>
        /\ \A p \in Device : link'[p] = "disconnected"
    BY <1>3 DEF Resetting, DropLinks, linkVars, connectVars, writeVars,
       closeVars,
       clientVars
  <2> QED
    BY <2>1 DEF SetupIsPending, SetupHasOwner, Ownership, NoOrphanLink,
       LiveLinkNotQuarantined, Rest
<1>4. ASSUME NEW p \in Device, DidDiscover(p) PROVE Rest'
  BY <1>4, FrameKeeps DEF DidDiscover, linkVars, connectVars, writeVars,
     closeVars,
     clientVars
<1>5. ASSUME NEW p \in Device, DidConnect(p) PROVE Rest'
  <2>0. UNCHANGED <<connectOp, pending, writeOp, writePeripheral, disconnecting,
                    quarantine, bound>>
    BY <1>5 DEF DidConnect, connectVars, writeVars, closeVars, clientVars
  <2>1. CASE p = pending /\ stage = "connecting"
    <3>1. /\ connected' = bound /\ stage' = "discoveringServices" /\ pending = bound
          /\ \A d \in Device : link'[d] = "connected" => d = p \/ link[d] = "connected"
      BY <1>0, <1>5, <2>1 DEF DidConnect, Rest, Ownership
    <3>2. quarantine[bound] = "none" /\ disconnecting = NoDevice /\ connectOp # NoCall
      BY <1>0, <2>1, <3>1 DEF Rest, LiveLinkNotQuarantined, Ownership,
         SetupIsPending
    <3>3. NoOrphanLink'
      BY <2>1, <3>1 DEF Rest, NoOrphanLink, Ownership
    <3> QED
      BY <1>0, <2>0, <3>1, <3>2, <3>3 DEF SetupIsPending, SetupHasOwner,
         Ownership,
         LiveLinkNotQuarantined, Rest
  <2>2. CASE ~(p = pending /\ stage = "connecting")
    <3>1. /\ UNCHANGED <<connected, stage>>
          /\ \A d \in Device : link'[d] = "connected" => link[d] = "connected"
      BY <1>0, <1>5, <2>2 DEF DidConnect, HangUp
    <3> QED
      BY <2>0, <3>1 DEF SetupIsPending, SetupHasOwner, Ownership, NoOrphanLink,
         LiveLinkNotQuarantined, Rest
  <2> QED
    BY <2>1, <2>2
<1>6. ASSUME NEW p \in Device, DidFailToConnect(p) PROVE Rest'
  <2>1. /\ UNCHANGED <<connected, writeOp, writePeripheral, disconnecting, bound>>
        /\ \A d \in Device : link'[d] = "connected" => link[d] = "connected"
        /\ \A d \in Device : quarantine[d] = "none" => quarantine'[d] = "none"
    BY <1>0, <1>6, LinkDownKeeps DEF DidFailToConnect, writeVars, closeVars
  <2>2. \/ connectOp' = NoCall /\ pending' = NoDevice /\ stage' = "none"
        \/ UNCHANGED <<connectOp, pending, stage>>
    BY <1>6 DEF DidFailToConnect, ClearConnectOp, connectVars
  <2> QED
    BY <2>1, <2>2 DEF SetupIsPending, SetupHasOwner, Ownership, NoOrphanLink,
       LiveLinkNotQuarantined, Rest
<1>7. ASSUME NEW p \in Device, DidDisconnect(p) PROVE Rest'
  <2>1. /\ bound' = bound
        /\ \A d \in Device : link'[d] = "connected" => d # p /\ link[d] = "connected"
    BY <1>7, LinkDownKeeps DEF DidDisconnect
  <2>2. CASE DisconnectIgnored(p)
    <3>1. /\ UNCHANGED <<connected, stage, connectOp, pending, writeOp, writePeripheral,
                         disconnecting>>
          /\ \A d \in Device : quarantine[d] = "none" => quarantine'[d] = "none"
      BY <1>0, <2>2 DEF DisconnectIgnored, linkVars, connectVars, writeVars
    <3> QED
      BY <2>1, <3>1 DEF SetupIsPending, SetupHasOwner, Ownership, NoOrphanLink,
         LiveLinkNotQuarantined, Rest
  <2>3. CASE DisconnectDone(p)
    <3>1. /\ connected' = NoDevice /\ stage' = "none" /\ disconnecting' = NoDevice
          /\ UNCHANGED <<connectOp, pending, writeOp, writePeripheral, quarantine>>
          /\ connected = NoDevice
      BY <2>3 DEF DisconnectDone, FinishDisconnect, ForgetLink, connectVars,
         Rest,
         Ownership
    <3> QED
      BY <2>1, <3>1 DEF SetupIsPending, SetupHasOwner, Ownership, NoOrphanLink,
         LiveLinkNotQuarantined, Rest
  <2>4. CASE LinkLost(p)
    <3>1. /\ connected' = NoDevice
          /\ stage' = IF connectOp # NoCall THEN "none" ELSE stage
          /\ connectOp' = NoCall /\ pending' = NoDevice
          /\ writeOp' = NoCall /\ writePeripheral' = NoDevice
          /\ UNCHANGED <<disconnecting, quarantine>>
      BY <2>4 DEF LinkLost, ClearConnectOp, ClearWriteOp
    <3>2. connected \in {p, NoDevice}
      BY <2>4 DEF LinkLost, Rest, Ownership
    <3> QED
      BY <2>1, <3>1, <3>2 DEF SetupIsPending, SetupHasOwner, Ownership,
         NoOrphanLink,
         LiveLinkNotQuarantined, Rest
  <2> QED
    BY <1>7, <2>2, <2>3, <2>4 DEF DidDisconnect
<1>8. stage # "none" => disconnecting = NoDevice
  BY DEF Rest, Ownership
<1>9. ASSUME NEW p \in Device, DidDiscoverServices(p) PROVE Rest'
  BY <1>8, <1>9, AnswerKeeps
  DEF DidDiscoverServices, ConnectFails, connectVars, writeVars, closeVars
<1>10. ASSUME NEW p \in Device, DidDiscoverCharacteristics(p) PROVE Rest'
  BY <1>8, <1>10, AnswerKeeps
  DEF DidDiscoverCharacteristics, ConnectFails, FinishConnect, connectVars,
     writeVars,
      closeVars
<1>11. ASSUME NEW p \in Device, DidUpdateNotificationState(p) PROVE Rest'
  BY <1>8, <1>11, AnswerKeeps
  DEF DidUpdateNotificationState, ConnectFails, FinishConnect, connectVars,
     writeVars,
      closeVars
<1>12. ASSUME NEW p \in Device, DidReadValue(p) PROVE Rest'
  BY <1>12, FrameKeeps DEF DidReadValue, linkVars, connectVars, writeVars,
     closeVars
<1>13. ASSUME NEW p \in Device, DidWriteValue(p) PROVE Rest'
  <2>1. /\ UNCHANGED <<connected, pending, connectOp, disconnecting, stage, link,
                       quarantine, bound>>
        /\ \/ writeOp' = NoCall /\ writePeripheral' = NoDevice
           \/ UNCHANGED <<writeOp, writePeripheral>>
    BY <1>13 DEF DidWriteValue, ClearWriteOp, linkVars, connectVars, writeVars,
       closeVars
  <2> QED
    BY <2>1 DEF Rest, SetupIsPending, SetupHasOwner, Ownership, NoOrphanLink,
       LiveLinkNotQuarantined
<1> QED
  BY <1>1, <1>2, <1>3, <1>4, <1>5, <1>6, <1>7, <1>9, <1>10, <1>11, <1>12, <1>13
  DEF Callbacks

-----------------------------------------------------------------------------
(* A connect given up whose didConnect is on its way has no link meanwhile *)

\* No link comes up, and no connect is given up.
LEMMA LateStays ==
  ASSUME TypeOK, LateIsDown, UNCHANGED late,
         \A p \in Device : link'[p] = "connected" => link[p] = "connected"
  PROVE  LateIsDown'
BY DEF TypeOK, LateIsDown

\* A connect is given up: its link is down, or on its way down.
LEMMA LateCancelled ==
  ASSUME TypeOK, LateIsDown, NEW p \in Device, CancelLink(p)
  PROVE  LateIsDown'
<1>1. PICK s \in AfterCancel(p) : link' = [link EXCEPT ![p] = s]
  BY DEF CancelLink
<1>2. s # "connected"
  BY <1>1 DEF AfterCancel
<1>3. \A d \in late' : d = p \/ d \in late
  BY DEF CancelLink
<1>4. \A d \in Device : link'[d] = "connected" => d # p /\ link[d] = "connected"
  BY <1>1, <1>2 DEF TypeOK
<1> QED
  BY <1>3, <1>4 DEF LateIsDown, TypeOK

\* A link that connect finds up was up; any other is still to come.
LEMMA LateBegins ==
  ASSUME TypeOK, LateIsDown, NEW c, NEW p \in Device, NEW found,
         BeginConnect(c, p, found), UNCHANGED late
  PROVE  LateIsDown'
BY DEF BeginConnect, LateIsDown, TypeOK

\* Calls and timers bring no link up.
LEMMA CallsLate == ASSUME TypeOK, LateIsDown, Calls PROVE LateIsDown'
<1> USE DEF cbVars
<1>1. ASSUME NEW c, Refuse(c) PROVE LateIsDown'
  BY <1>1, LateStays DEF Refuse
<1>2. ASSUME NEW c \in Connects, ConnectAccepted(c) PROVE LateIsDown'
  <2>1. bound \in Device /\ UNCHANGED late
    BY <1>2 DEF ConnectAccepted, TypeOK
  <2>2. CASE BeginConnect(c, bound, {})
    BY <2>1, <2>2, LateBegins
  <2>3. CASE UNCHANGED link
    BY <2>1, <2>3, LateStays
  <2> QED
    BY <1>2, <2>2, <2>3 DEF ConnectAccepted
<1>3. ASSUME NEW c, WriteAccepted(c) \/ ReadAccepted(c) PROVE LateIsDown'
  BY <1>3, LateStays DEF WriteAccepted, ReadAccepted
<1>4. ASSUME NEW c, DisconnectJoin(c) \/ DisconnectAtOnce(c) PROVE LateIsDown'
  BY <1>4, LateStays DEF DisconnectJoin, DisconnectAtOnce
<1>5. ASSUME NEW c, DisconnectBegin(c) PROVE LateIsDown'
  <2>1. DisconnectTarget \in Device
    BY <1>5 DEF DisconnectBegin, DisconnectTarget, TypeOK
  <2> QED
    BY <1>5, <2>1, LateCancelled DEF DisconnectBegin, BeginDisconnect
<1>6. ASSUME NEW c, ScanAccepted(c) \/ CancelTask(c) PROVE LateIsDown'
  BY <1>6, LateStays DEF ScanAccepted, CancelTask
<1>7. ASSUME NEW p, Rebind(p) PROVE LateIsDown'
  BY <1>7, LateStays DEF Rebind
<1> QED
  BY <1>1, <1>2, <1>3, <1>4, <1>5, <1>6, <1>7
  DEF Calls, ConnectRefused, WriteRefused, ReadRefused, ScanRefused

LEMMA TimersLate ==
  ASSUME TypeOK, LateIsDown, SetupIsPending, Timers
  PROVE  LateIsDown'
<1> USE KindsOfCall DEF cbVars
<1>1. ASSUME NEW c \in Connects, NEW result, AbandonConnect(c, result)
      PROVE  LateIsDown'
  <2>1. pending \in Device
    BY <1>1, CallAssumption DEF AbandonConnect, SetupIsPending, TypeOK, Call
  <2>2. CASE BeginDisconnect(c, pending)
    BY <2>1, <2>2, LateCancelled DEF BeginDisconnect
  <2>3. CASE UNCHANGED <<link, late>>
    BY <2>3, LateStays
  <2> QED
    BY <1>1, <2>2, <2>3 DEF AbandonConnect
<1>2. ASSUME NEW c, NEW p \in {writePeripheral, connected}, NEW result,
             AbandonWrite(c, p, result)
      PROVE  LateIsDown'
  <2>1. p \in Device \cup {NoDevice}
    BY <1>2 DEF TypeOK
  <2>2. CASE p # NoDevice /\ BeginDisconnect(c, p)
    BY <2>1, <2>2, LateCancelled DEF BeginDisconnect
  <2>3. CASE UNCHANGED <<link, late>>
    BY <2>3, LateStays
  <2> QED
    BY <1>2, <2>2, <2>3 DEF AbandonWrite
<1>3. ASSUME NEW result, AbandonRead(result) PROVE LateIsDown'
  BY <1>3, LateStays DEF AbandonRead
<1>4. ASSUME ScanTimer PROVE LateIsDown'
  BY <1>4, LateStays DEF ScanTimer
<1>5. ASSUME NEW c, NEW p, DisconnectTimer(c, p) \/ QuarantineExpires(p)
      PROVE  LateIsDown'
  BY <1>5, LateStays DEF DisconnectTimer, QuarantineExpires
<1> QED
  BY <1>1, <1>2, <1>3, <1>4, <1>5
  DEF Timers, TimeoutConnect, CancelConnect, TimeoutWrite, CancelWrite,
     TimeoutRead, CancelRead

\* Only didConnect brings a link up, and then it is no longer on its way.
LEMMA CallbacksLate ==
  ASSUME TypeOK, LateIsDown, SetupIsPending, Callbacks
  PROVE  LateIsDown'
<1>1. ASSUME PoweredOn PROVE LateIsDown'
  <2>1. UNCHANGED late
    BY <1>1 DEF PoweredOn
  <2>2. CASE stage = "waitingForPower"
    <3>1. pending \in Device
      BY <2>2 DEF SetupIsPending, TypeOK
    <3> QED
      BY <1>1, <2>1, <2>2, <3>1, LateBegins DEF PoweredOn
  <2>3. CASE stage # "waitingForPower"
    BY <1>1, <2>1, <2>3, LateStays DEF PoweredOn
  <2> QED
    BY <2>2, <2>3
<1>2. ASSUME PoweredOff \/ Resetting PROVE LateIsDown'
  BY <1>2 DEF PoweredOff, Resetting, DropLinks, LateIsDown
<1>3. ASSUME NEW p \in Device, LinkDown(p) PROVE LateIsDown'
  BY <1>3, LateStays DEF LinkDown, TypeOK
<1>4. ASSUME NEW p \in Device, DidConnect(p) PROVE LateIsDown'
  <2>1. late' = late \ {p}
    BY <1>4 DEF DidConnect
  <2>2. \A d \in Device \ {p} : link'[d] = link[d]
    BY <1>4 DEF DidConnect, HangUp, TypeOK
  <2> QED
    BY <2>1, <2>2 DEF LateIsDown, TypeOK
<1>5. ASSUME UNCHANGED <<link, late>> PROVE LateIsDown'
  BY <1>5, LateStays
<1> QED
  BY <1>1, <1>2, <1>3, <1>4, <1>5
  DEF Callbacks, DidDiscover, DidFailToConnect, DidDisconnect,
     DidDiscoverServices, DidDiscoverCharacteristics,
     DidUpdateNotificationState, DidReadValue, DidWriteValue

-----------------------------------------------------------------------------
(* The theorems *)

\* A transport that has done nothing owns no link and has no setup under way.
THEOREM InitInv == Init => IInv
BY InitType DEF Init, IInv, SetupIsPending, SetupHasOwner, Ownership,
   NoOrphanLink, LateIsDown, LiveLinkNotQuarantined

\* Every call, timer and callback keeps the inductive invariant.
THEOREM NextInv == IInv /\ [Next]_vars => IInv'
<1> SUFFICES ASSUME IInv, [Next]_vars PROVE IInv'
  OBVIOUS
<1>1. TypeOK /\ Rest /\ SetupIsPending /\ LateIsDown
  BY DEF IInv, Rest
<1>2. ASSUME TypeOK', Rest', LateIsDown' PROVE IInv'
  BY <1>2 DEF IInv, Rest
<1>3. CASE Calls
  BY <1>1, <1>2, <1>3, CallsType, CallsKeep, CallsLate
<1>4. CASE Timers
  BY <1>1, <1>2, <1>4, TimersType, TimersKeep, TimersLate
<1>5. CASE Callbacks
  BY <1>1, <1>2, <1>5, CallbacksType, CallbacksKeep, CallbacksLate
<1>6. CASE UNCHANGED vars
  <2>1. TypeOK'
    BY <1>1, <1>6 DEF TypeOK, vars, cbVars, linkVars, connectVars, writeVars,
       readVars, scanVars, closeVars, clientVars
  <2>2. Rest'
    BY <1>1, <1>6, FrameKeeps DEF vars, cbVars, linkVars, connectVars,
       writeVars,
       closeVars, clientVars
  <2>3. LateIsDown'
    BY <1>1, <1>6, LateStays DEF vars, cbVars
  <2> QED
    BY <1>2, <2>1, <2>2, <2>3
<1> QED
  BY <1>3, <1>4, <1>5, <1>6 DEF Next

\* The invariant holds in every reachable state, for any numbers of devices and
\* calls: the properties below are its conjuncts.
THEOREM TransportInvariant == Spec => []IInv
BY InitInv, NextInv, PTL DEF Spec

\* Every variable keeps its type, whatever calls, timers and callbacks meet.
THEOREM TypeCorrect == Spec => []TypeOK
<1>1. IInv => TypeOK
  BY DEF IInv
<1> QED
  BY <1>1, TransportInvariant, PTL

\* The didDisconnect of a link in use is never swallowed by the quarantine that
\* finishDisconnect sets up for late callbacks.
THEOREM LiveLinkHeard == Spec => []LiveLinkNotQuarantined
<1>1. IInv => LiveLinkNotQuarantined
  BY DEF IInv
<1> QED
  BY <1>1, TransportInvariant, PTL

\* No link is up that the transport does not own.
THEOREM LinksOwned == Spec => []NoOrphanLink
<1>1. IInv => NoOrphanLink
  BY DEF IInv
<1> QED
  BY <1>1, TransportInvariant, PTL

\* A connection being set up has a connect call, and so a timer, that ends it.
THEOREM SetupOwned == Spec => []SetupHasOwner
<1>1. IInv => SetupHasOwner
  BY DEF IInv
<1> QED
  BY <1>1, TransportInvariant, PTL

\* The transport holds a link to no other device than the one bound.
THEOREM BoundDeviceOnly == Spec => []OnlyBoundDevice
<1>1. IInv => OnlyBoundDevice
  BY DEF IInv, Ownership, OnlyBoundDevice
<1> QED
  BY <1>1, TransportInvariant, PTL

-----------------------------------------------------------------------------
(* The contract *)

\* The continuations the transport stores.
Held == {connectOp, writeOp, readOp, scanOp} \cup waiters

\* Who waits for a disconnect waits for the one under way.
ClientInv ==
  /\ ContinuationsHeld
  /\ SubscribersInformed
  /\ waiters # {} => disconnecting # NoDevice
  /\ disconnecting \in {bound, NoDevice}

\* One result at a time: what was held before and is not after has returned.
LEMMA HeldKeeps ==
  ASSUME TypeOK, ContinuationsHeld, NEW S, NEW result \in Statuses,
         status' = Returned(S, result),
         \A c \in Call : c \in Held' <=> IF c \in S THEN result = "pending" ELSE c \in Held
  PROVE  ContinuationsHeld'
<1>1. \A c \in Call : status'[c] = IF c \in S THEN result ELSE status[c]
  BY DEF Returned
<1> QED
  BY <1>1 DEF ContinuationsHeld, Held

\* A step that resumes and stores nobody.
LEMMA HeldStays ==
  ASSUME ContinuationsHeld,
         UNCHANGED <<status, connectOp, writeOp, readOp, scanOp, waiters>>
  PROVE  ContinuationsHeld'
BY DEF ContinuationsHeld

\* Each kind of call is held in a place of its own.
LEMMA Apart ==
  ASSUME TypeOK
  PROVE  /\ NoCall \notin Call
         /\ connectOp \notin {writeOp, readOp, scanOp} \/ connectOp = NoCall
         /\ writeOp \notin {connectOp, readOp, scanOp} \/ writeOp = NoCall
         /\ readOp \notin {connectOp, writeOp, scanOp} \/ readOp = NoCall
         /\ scanOp \notin {connectOp, writeOp, readOp} \/ scanOp = NoCall
         /\ {connectOp, writeOp, readOp, scanOp} \cap waiters = {}
BY CallAssumption DEF TypeOK, Call

\* Whatever a call does, who waits has a continuation.
LEMMA CallsHeld == ASSUME IInv, ClientInv, Calls PROVE ContinuationsHeld'
<1> USE KindsOfCall DEF IInv, ClientInv, Statuses
<1>0. TypeOK /\ ContinuationsHeld
  OBVIOUS
<1>1. ASSUME NEW c \in Call, status[c] = "idle", Refuse(c) PROVE ContinuationsHeld'
  <2>1. c \notin Held
    BY <1>1 DEF ContinuationsHeld, Held
  <2>2. UNCHANGED Held
    BY <1>1 DEF Refuse, Held, connectVars, writeVars, readVars, scanVars,
       closeVars
  <2>3. status' = Returned({c}, "failed")
    BY <1>1 DEF Refuse
  <2> QED
    BY <1>0, <2>1, <2>2, <2>3, HeldKeeps
<1>2. ASSUME NEW c \in Connects, ConnectAccepted(c) PROVE ContinuationsHeld'
  <2>1. UNCHANGED <<writeOp, readOp, scanOp, waiters>> /\ connectOp = NoCall
    BY <1>2 DEF ConnectAccepted, writeVars, readVars, scanVars, closeVars
  <2>2. c \notin Held /\ NoCall \notin Call
    BY <1>2, CallAssumption DEF ConnectAccepted, ContinuationsHeld, Held
  <2>3. \/ connectOp' = NoCall /\ status' = Returned({c}, "failed")
        \/ connectOp' = c /\ status' = Returned({c}, "pending")
    BY <1>2 DEF ConnectAccepted, BeginConnect, ClearConnectOp, connectVars
  <2> QED
    BY <1>0, <2>1, <2>2, <2>3, HeldKeeps DEF Held
<1>3. ASSUME NEW c \in Writes, WriteAccepted(c) PROVE ContinuationsHeld'
  <2>1. /\ UNCHANGED <<connectOp, readOp, scanOp, waiters>>
        /\ writeOp = NoCall /\ writeOp' = c /\ status' = Returned({c}, "pending")
    BY <1>3 DEF WriteAccepted, connectVars, readVars, scanVars, closeVars
  <2> QED
    BY <1>0, <2>1, CallAssumption, HeldKeeps DEF Held
<1>4. ASSUME NEW c \in Reads, ReadAccepted(c) PROVE ContinuationsHeld'
  <2>1. UNCHANGED <<connectOp, writeOp, scanOp, waiters>> /\ readOp = NoCall
    BY <1>4 DEF ReadAccepted, connectVars, writeVars, scanVars, closeVars
  <2>2. c \notin Held /\ NoCall \notin Call
    BY <1>4, CallAssumption DEF ReadAccepted, ContinuationsHeld, Held
  <2>3. \/ readOp' = readOp /\ status' = Returned({c}, "ok")
        \/ readOp' = c /\ status' = Returned({c}, "pending")
    BY <1>4 DEF ReadAccepted, readVars
  <2> QED
    BY <1>0, <2>1, <2>2, <2>3, HeldKeeps DEF Held
<1>5. ASSUME NEW c \in Disconnects, DisconnectJoin(c) PROVE ContinuationsHeld'
  <2>1. /\ UNCHANGED <<connectOp, writeOp, readOp, scanOp>>
        /\ waiters' = waiters \cup {c} /\ status' = Returned({c}, "pending")
    BY <1>5 DEF DisconnectJoin, connectVars, writeVars, readVars, scanVars
  <2> QED
    BY <1>0, <2>1, HeldKeeps DEF Held
<1>6. ASSUME NEW c \in Disconnects, DisconnectAtOnce(c) PROVE ContinuationsHeld'
  <2>1. /\ waiters = {} /\ waiters' = {} /\ scanOp' = scanOp
        /\ connectOp' = NoCall /\ writeOp' = NoCall /\ readOp' = NoCall
    BY <1>6 DEF DisconnectAtOnce, ClearConnectOp, ClearWriteOp, ClearReadOp,
       FinishDisconnect, scanVars
  <2>2. \A x \in Call : status'[x] = IF x = c THEN "ok"
                                     ELSE IF x \in Outstanding THEN "failed" ELSE status[x]
    BY <1>6, <2>1 DEF DisconnectAtOnce
  <2>3. c \notin Held
    BY <1>6 DEF DisconnectAtOnce, ContinuationsHeld, Held
  <2> QED
    BY <1>0, <2>1, <2>2, <2>3, Apart DEF ContinuationsHeld, Held, Outstanding
<1>7. ASSUME NEW c \in Disconnects, DisconnectBegin(c) PROVE ContinuationsHeld'
  <2>1. /\ waiters' = waiters \cup {c} /\ scanOp' = scanOp
        /\ connectOp' = NoCall /\ writeOp' = NoCall /\ readOp' = NoCall
    BY <1>7 DEF DisconnectBegin, ClearConnectOp, ClearWriteOp, ClearReadOp,
       scanVars
  <2>2. \A x \in Call : status'[x] = IF x = c THEN "pending"
                                     ELSE IF x \in Outstanding THEN "failed" ELSE status[x]
    BY <1>7 DEF DisconnectBegin
  <2> QED
    BY <1>0, <2>1, <2>2, Apart DEF ContinuationsHeld, Held, Outstanding
<1>8. ASSUME NEW c \in Scans, ScanAccepted(c) PROVE ContinuationsHeld'
  <2>1. UNCHANGED <<connectOp, writeOp, readOp, waiters>> /\ scanOp = NoCall
    BY <1>8 DEF ScanAccepted, connectVars, writeVars, readVars, closeVars
  <2>2. c \notin Held /\ NoCall \notin Call
    BY <1>8, CallAssumption DEF ScanAccepted, ContinuationsHeld, Held
  <2>3. \/ scanOp' = NoCall /\ status' = Returned({c}, "failed")
        \/ scanOp' = c /\ status' = Returned({c}, "pending")
    BY <1>8, <2>1 DEF ScanAccepted, scanVars
  <2> QED
    BY <1>0, <2>1, <2>2, <2>3, HeldKeeps DEF Held
<1>9. ASSUME NEW c \in Call, CancelTask(c) PROVE ContinuationsHeld'
  BY <1>9, HeldStays DEF CancelTask, connectVars, writeVars, readVars, scanVars,
     closeVars
<1>10. ASSUME NEW p \in Device, Rebind(p) PROVE ContinuationsHeld'
  BY <1>10, HeldStays DEF Rebind, connectVars, writeVars, readVars, scanVars,
     closeVars
<1>11. ASSUME NEW c \in Call, ConnectRefused(c) \/ WriteRefused(c) \/ ReadRefused(c) \/ ScanRefused(c)
       PROVE  ContinuationsHeld'
  BY <1>1, <1>11 DEF ConnectRefused, WriteRefused, ReadRefused, ScanRefused
<1> QED
  BY <1>2, <1>3, <1>4, <1>5, <1>6, <1>7, <1>8, <1>9, <1>10, <1>11 DEF Calls

\* A timer or a cancellation resumes whom it forgets.
LEMMA TimersHeld == ASSUME IInv, ClientInv, Timers PROVE ContinuationsHeld'
<1> USE KindsOfCall DEF IInv, ClientInv, Statuses
<1>0. TypeOK /\ ContinuationsHeld /\ NoCall \notin Call
  BY CallAssumption
<1>1. ASSUME NEW c \in Connects, NEW result \in Statuses \ {"pending"},
             AbandonConnect(c, result)
      PROVE  ContinuationsHeld'
  <2>1. /\ connectOp = c /\ connectOp' = NoCall /\ status' = Returned({c}, result)
        /\ UNCHANGED <<writeOp, readOp, scanOp, waiters>>
    BY <1>1 DEF AbandonConnect, ClearConnectOp, scanVars
  <2> QED
    BY <1>0, <2>1, Apart, HeldKeeps DEF Held
<1>2. ASSUME NEW c \in Writes, NEW p, NEW result \in Statuses \ {"pending"},
             AbandonWrite(c, p, result)
      PROVE  ContinuationsHeld'
  <2>1. /\ writeOp = c /\ writeOp' = NoCall /\ status' = Returned({c}, result)
        /\ UNCHANGED <<connectOp, readOp, scanOp, waiters>>
    BY <1>2 DEF AbandonWrite, ClearWriteOp, connectVars, scanVars
  <2> QED
    BY <1>0, <2>1, Apart, HeldKeeps DEF Held
<1>3. ASSUME NEW result \in Statuses \ {"pending"}, AbandonRead(result)
      PROVE  ContinuationsHeld'
  <2>1. /\ readOp # NoCall /\ readOp' = NoCall /\ status' = Returned({readOp}, result)
        /\ UNCHANGED <<connectOp, writeOp, scanOp, waiters>>
    BY <1>3 DEF AbandonRead, ClearReadOp, connectVars, writeVars, scanVars,
       closeVars
  <2> QED
    BY <1>0, <2>1, Apart, HeldKeeps DEF Held
<1>4. ASSUME ScanTimer PROVE ContinuationsHeld'
  <2>1. /\ scanOp' = NoCall /\ status' = Returned({scanOp}, "ok")
        /\ UNCHANGED <<connectOp, writeOp, readOp, waiters>>
    BY <1>4 DEF ScanTimer, connectVars, writeVars, readVars, closeVars
  <2> QED
    BY <1>0, <2>1, Apart, HeldKeeps DEF Held
<1>5. ASSUME NEW c \in Call, NEW p \in Device, DisconnectTimer(c, p)
      PROVE  ContinuationsHeld'
  <2>1. UNCHANGED <<connectOp, writeOp, readOp, scanOp>>
    BY <1>5 DEF DisconnectTimer, connectVars, scanVars
  <2>2. CASE waiters' = {} /\ status' = Returned(waiters, "ok")
    BY <1>0, <2>1, <2>2, Apart, HeldKeeps DEF Held
  <2>3. CASE UNCHANGED <<waiters, status>>
    BY <2>1, <2>3, HeldStays
  <2> QED
    BY <1>5, <2>2, <2>3 DEF DisconnectTimer, FinishDisconnect
<1>6. ASSUME NEW p \in Device, QuarantineExpires(p) PROVE ContinuationsHeld'
  BY <1>6, HeldStays DEF QuarantineExpires, connectVars, writeVars, readVars,
     scanVars,
     closeVars, clientVars
<1>7. {"timeout", "cancelled"} \subseteq Statuses \ {"pending"}
  OBVIOUS
<1> QED
  BY <1>1, <1>2, <1>3, <1>4, <1>5, <1>6, <1>7
  DEF Timers, TimeoutConnect, CancelConnect, TimeoutWrite, CancelWrite,
     TimeoutRead,
      CancelRead

\* The continuation of a connect is resumed, or there is none.
LEMMA ConnectReturns ==
  ASSUME TypeOK, ContinuationsHeld, NEW result \in {"ok", "failed"},
         status' = Returned({connectOp} \ {NoCall}, result), connectOp' = NoCall,
         UNCHANGED <<writeOp, readOp, scanOp, waiters>>
  PROVE  ContinuationsHeld'
BY Apart, HeldKeeps DEF Held, Statuses

\* A delegate callback resumes whom it forgets.
LEMMA CallbacksHeld ==
  ASSUME IInv, ClientInv, Callbacks
  PROVE  ContinuationsHeld'
<1> USE DEF IInv, ClientInv, Statuses
<1>0. TypeOK /\ ContinuationsHeld /\ NoCall \notin Call
  BY CallAssumption
<1>1. ASSUME PoweredOn PROVE ContinuationsHeld'
  <2>1. UNCHANGED <<writeOp, readOp, scanOp, waiters>>
    BY <1>1 DEF PoweredOn, writeVars, readVars, closeVars
  <2>2. CASE stage = "waitingForPower"
    <3>1. connectOp \in Connects
      BY <2>2 DEF SetupIsPending, TypeOK
    <3>2. \/ connectOp' = NoCall /\ status' = Returned({connectOp}, "failed")
          \/ connectOp' = connectOp /\ status' = Returned({connectOp}, "pending")
      BY <1>1, <2>2 DEF PoweredOn, BeginConnect, ClearConnectOp
    <3> QED
      BY <1>0, <2>1, <3>1, <3>2, Apart, HeldKeeps DEF Held
  <2>3. CASE stage # "waitingForPower"
    BY <1>1, <2>1, <2>3, HeldStays DEF PoweredOn, connectVars
  <2> QED
    BY <2>2, <2>3
<1>2. ASSUME PoweredOff PROVE ContinuationsHeld'
  <2>1. /\ UNCHANGED <<writeOp, readOp, waiters>> /\ scanOp' = NoCall
        /\ connectOp' = IF stage = "waitingForPower" THEN NoCall ELSE connectOp
    BY <1>2 DEF PoweredOff, ClearConnectOp, connectVars, writeVars, readVars,
       closeVars
  <2>2. status' = Returned(({scanOp} \cup (IF stage = "waitingForPower" THEN {connectOp}
                                           ELSE {})) \ {NoCall}, "failed")
    BY <1>2 DEF PoweredOff
  <2> QED
    BY <1>0, <2>1, <2>2, Apart, HeldKeeps DEF Held
<1>3. ASSUME Resetting PROVE ContinuationsHeld'
  BY <1>3, HeldStays DEF Resetting, connectVars, writeVars, readVars, scanVars,
     closeVars,
     clientVars
<1>4. ASSUME NEW p \in Device, DidDiscover(p) PROVE ContinuationsHeld'
  BY <1>4, HeldStays DEF DidDiscover, connectVars, writeVars, readVars,
     scanVars,
     closeVars, clientVars
<1>5. ASSUME NEW p \in Device, DidConnect(p) PROVE ContinuationsHeld'
  BY <1>5, HeldStays DEF DidConnect, connectVars, writeVars, readVars, scanVars,
     closeVars, clientVars
<1>6. ASSUME NEW p \in Device, DidFailToConnect(p) PROVE ContinuationsHeld'
  <2>1. UNCHANGED <<writeOp, readOp, scanOp, waiters>>
    BY <1>6 DEF DidFailToConnect, writeVars, readVars, scanVars, closeVars
  <2>2. CASE UNCHANGED <<connectVars, status>>
    BY <2>1, <2>2, HeldStays DEF connectVars
  <2>3. CASE /\ stage = "connecting" /\ connectOp' = NoCall
             /\ status' = Returned({connectOp}, "failed")
    <3>1. connectOp # NoCall
      BY <2>3 DEF SetupIsPending
    <3> QED
      BY <1>0, <2>1, <2>3, <3>1, ConnectReturns
  <2> QED
    BY <1>6, <2>2, <2>3 DEF DidFailToConnect, ClearConnectOp
<1>7. ASSUME NEW p \in Device, DidDisconnect(p) PROVE ContinuationsHeld'
  <2>1. UNCHANGED scanOp
    BY <1>7 DEF DidDisconnect, scanVars
  <2>2. CASE DisconnectIgnored(p)
    BY <2>1, <2>2, HeldStays DEF DisconnectIgnored, connectVars, writeVars,
       readVars
  <2>3. CASE DisconnectDone(p)
    <3>1. /\ UNCHANGED <<connectOp, writeOp, readOp>>
          /\ waiters' = {} /\ status' = Returned(waiters, "ok")
      BY <2>3 DEF DisconnectDone, FinishDisconnect, connectVars
    <3> QED
      BY <1>0, <2>1, <3>1, Apart, HeldKeeps DEF Held
  <2>4. CASE LinkLost(p)
    <3>1. /\ connectOp' = NoCall /\ writeOp' = NoCall /\ readOp' = NoCall
          /\ UNCHANGED waiters /\ status' = Returned(Outstanding, "failed")
      BY <2>4 DEF LinkLost, ClearConnectOp, ClearWriteOp, ClearReadOp
    <3> QED
      BY <1>0, <2>1, <3>1, Apart, HeldKeeps DEF Held, Outstanding
  <2> QED
    BY <1>7, <2>2, <2>3, <2>4 DEF DidDisconnect
<1>8. ASSUME NEW p \in Device,
             \/ DidDiscoverServices(p) \/ DidDiscoverCharacteristics(p)
             \/ DidUpdateNotificationState(p)
      PROVE  ContinuationsHeld'
  <2>1. UNCHANGED <<writeOp, readOp, scanOp, waiters>>
    BY <1>8 DEF DidDiscoverServices, DidDiscoverCharacteristics,
       DidUpdateNotificationState, writeVars, readVars, scanVars, closeVars
  <2>2. \/ UNCHANGED <<connectVars, status>> \/ ConnectFails \/ FinishConnect(p)
    BY <1>8 DEF DidDiscoverServices, DidDiscoverCharacteristics,
       DidUpdateNotificationState
  <2>3. CASE UNCHANGED <<connectVars, status>>
    BY <2>1, <2>3, HeldStays DEF connectVars
  <2>4. CASE ConnectFails \/ FinishConnect(p)
    BY <1>0, <2>1, <2>4, ConnectReturns DEF ConnectFails, FinishConnect,
       ClearConnectOp
  <2> QED
    BY <2>2, <2>3, <2>4
<1>9. ASSUME NEW p \in Device, DidReadValue(p) PROVE ContinuationsHeld'
  <2>1. UNCHANGED <<connectOp, writeOp, scanOp, waiters>>
    BY <1>9 DEF DidReadValue, connectVars, writeVars, scanVars, closeVars
  <2>2. CASE UNCHANGED <<readVars, status>>
    BY <2>1, <2>2, HeldStays DEF readVars
  <2>3. CASE /\ readOp' = NoCall
             /\ \E result \in {"ok", "failed"} :
                  status' = Returned({readOp} \ {NoCall}, result)
    BY <1>0, <2>1, <2>3, Apart, HeldKeeps DEF Held
  <2> QED
    BY <1>9, <2>2, <2>3 DEF DidReadValue, ClearReadOp
<1>10. ASSUME NEW p \in Device, DidWriteValue(p) PROVE ContinuationsHeld'
  <2>1. UNCHANGED <<connectOp, readOp, scanOp, waiters>>
    BY <1>10 DEF DidWriteValue, connectVars, readVars, scanVars, closeVars
  <2>2. CASE UNCHANGED <<writeVars, status>>
    BY <2>1, <2>2, HeldStays DEF writeVars
  <2>3. CASE /\ writeOp' = NoCall
             /\ \E result \in {"ok", "failed"} :
                  status' = Returned({writeOp} \ {NoCall}, result)
    BY <1>0, <2>1, <2>3, Apart, HeldKeeps DEF Held
  <2> QED
    BY <1>10, <2>2, <2>3 DEF DidWriteValue, ClearWriteOp
<1> QED
  BY <1>1, <1>2, <1>3, <1>4, <1>5, <1>6, <1>7, <1>8, <1>9, <1>10 DEF Callbacks

-----------------------------------------------------------------------------
(* What subscribers hear, and who waits for a disconnect *)

Informed ==
  /\ SubscribersInformed
  /\ waiters # {} => disconnecting # NoDevice
  /\ disconnecting \in {bound, NoDevice}

\* A step that neither opens nor closes a link.
LEMMA InformedStays ==
  ASSUME Informed, UNCHANGED <<reported, connected, closeVars, bound>>,
         stage' = "ready" => stage = "ready"
  PROVE  Informed'
BY DEF Informed, SubscribersInformed, closeVars

\* A link goes into a disconnect: its .disconnected is still to come.
LEMMA BeginDisconnectInforms ==
  ASSUME Informed, NEW c, NEW p, p \in {bound}, bound \in Device,
         connected \in {p, NoDevice}, BeginDisconnect(c, p), UNCHANGED <<reported, bound>>
  PROVE  Informed'
BY DeviceAssumption DEF Informed, SubscribersInformed, BeginDisconnect,
   ForgetLink

\* It comes out of it, and nobody waits for it any more.
LEMMA FinishDisconnectInforms ==
  ASSUME Informed, Ownership, NEW p, FinishDisconnect(p),
         p = disconnecting, p # NoDevice, UNCHANGED bound
  PROVE  Informed' /\ reported' = NoDevice
BY DEF Informed, SubscribersInformed, FinishDisconnect, ForgetLink, Ownership

\* What a call changes, subscribers hear.
LEMMA CallsInform == ASSUME IInv, Informed, Calls PROVE Informed'
<1> USE KindsOfCall DEF IInv
<1>0. bound \in Device /\ bound # NoDevice /\ NoDevice \notin Device
  BY DeviceAssumption DEF TypeOK
<1>1. ASSUME NEW c \in Call, Refuse(c) PROVE Informed'
  BY <1>1, InformedStays DEF Refuse, linkVars
<1>2. ASSUME NEW c \in Connects, ConnectAccepted(c) PROVE Informed'
  <2>1. UNCHANGED <<reported, closeVars, bound>> /\ connected' \in {connected, bound}
    BY <1>2 DEF ConnectAccepted, BeginConnect
  <2>2. stage' # "ready"
    BY <1>2 DEF ConnectAccepted, BeginConnect
  <2>3. disconnecting = NoDevice /\ connected \in {bound, NoDevice}
    BY <1>2 DEF ConnectAccepted, Ownership
  <2> QED
    BY <1>0, <2>1, <2>2, <2>3 DEF Informed, SubscribersInformed, closeVars
<1>3. ASSUME NEW c \in Writes, WriteAccepted(c) PROVE Informed'
  BY <1>3, InformedStays DEF WriteAccepted, linkVars
<1>4. ASSUME NEW c \in Reads, ReadAccepted(c) PROVE Informed'
  BY <1>4, InformedStays DEF ReadAccepted, linkVars
<1>5. ASSUME NEW c \in Disconnects, DisconnectJoin(c) PROVE Informed'
  BY <1>5 DEF DisconnectJoin, Informed, SubscribersInformed, linkVars
<1>6. ASSUME NEW c \in Disconnects, DisconnectAtOnce(c) PROVE Informed'
  <2>1. reported \in {NoDevice, DisconnectTarget}
    BY <1>6 DEF DisconnectAtOnce, DisconnectTarget, Informed,
       SubscribersInformed
  <2> QED
    BY <1>6, <2>1 DEF DisconnectAtOnce, FinishDisconnect, ForgetLink, Informed,
       SubscribersInformed
<1>7. ASSUME NEW c \in Disconnects, DisconnectBegin(c) PROVE Informed'
  <2>1. /\ DisconnectTarget = bound /\ connected \in {bound, NoDevice}
        /\ BeginDisconnect(c, DisconnectTarget) /\ UNCHANGED <<reported, bound>>
    BY <1>7 DEF DisconnectBegin, DisconnectTarget, Ownership
  <2>2. \A x, p : p = bound /\ BeginDisconnect(x, p) => Informed'
    BY <1>0, <2>1, BeginDisconnectInforms
  <2> QED
    BY <2>1, <2>2
<1>8. ASSUME NEW c \in Scans, ScanAccepted(c) PROVE Informed'
  BY <1>8, InformedStays DEF ScanAccepted, linkVars
<1>9. ASSUME NEW c \in Call, CancelTask(c) PROVE Informed'
  BY <1>9, InformedStays DEF CancelTask, linkVars
<1>10. ASSUME NEW p \in Device, Rebind(p) PROVE Informed'
  BY <1>10 DEF Rebind, Informed, SubscribersInformed, linkVars, closeVars
<1>11. ASSUME NEW c \in Call,
              ConnectRefused(c) \/ WriteRefused(c) \/ ReadRefused(c) \/ ScanRefused(c)
       PROVE  Informed'
  BY <1>1, <1>11 DEF ConnectRefused, WriteRefused, ReadRefused, ScanRefused
<1> QED
  BY <1>2, <1>3, <1>4, <1>5, <1>6, <1>7, <1>8, <1>9, <1>10, <1>11 DEF Calls

\* What a timer or a cancellation changes, subscribers hear.
LEMMA TimersInform == ASSUME IInv, Informed, Timers PROVE Informed'
<1> USE KindsOfCall DEF IInv
<1>0. bound \in Device /\ bound # NoDevice /\ NoDevice \notin Device
  BY DeviceAssumption DEF TypeOK
<1>1. ASSUME NEW c \in Connects, NEW result, AbandonConnect(c, result) PROVE Informed'
  <2>1. pending = bound /\ connected \in {bound, NoDevice}
    BY <1>1, CallAssumption DEF AbandonConnect, Ownership, SetupIsPending, Call
  <2>2. UNCHANGED <<reported, bound, waiters>>
    BY <1>1 DEF AbandonConnect
  <2>3. CASE BeginDisconnect(c, pending)
    BY <1>0, <2>1, <2>2, <2>3, BeginDisconnectInforms
  <2>4. CASE stage' = "none" /\ UNCHANGED <<connected, disconnecting, disconnectOp,
                                            disconnectTimers>>
    BY <2>2, <2>4, InformedStays DEF closeVars
  <2> QED
    BY <1>1, <2>3, <2>4 DEF AbandonConnect
<1>2. ASSUME NEW c \in Writes, NEW p \in {writePeripheral, connected}, NEW result,
             AbandonWrite(c, p, result)
      PROVE  Informed'
  <2>1. p \in {bound, NoDevice} /\ connected \in {bound, NoDevice}
    BY DEF Ownership
  <2>2. UNCHANGED <<reported, bound, waiters>>
    BY <1>2 DEF AbandonWrite
  <2>3. CASE p # NoDevice /\ BeginDisconnect(c, p)
    BY <1>0, <2>1, <2>2, <2>3, BeginDisconnectInforms
  <2>4. CASE UNCHANGED <<linkVars, disconnecting, disconnectOp, disconnectTimers>>
    BY <2>2, <2>4, InformedStays DEF closeVars, linkVars
  <2> QED
    BY <1>2, <2>3, <2>4 DEF AbandonWrite
<1>3. ASSUME NEW result, AbandonRead(result) PROVE Informed'
  BY <1>3, InformedStays DEF AbandonRead, linkVars
<1>4. ASSUME ScanTimer PROVE Informed'
  BY <1>4, InformedStays DEF ScanTimer, linkVars
<1>5. ASSUME NEW c \in Call, NEW p \in Device, DisconnectTimer(c, p) PROVE Informed'
  <2>1. UNCHANGED bound
    BY <1>5 DEF DisconnectTimer
  <2>2. CASE disconnecting = p /\ FinishDisconnect(p)
    BY <1>0, <2>1, <2>2, FinishDisconnectInforms
  <2>3. CASE UNCHANGED <<disconnecting, waiters, linkVars, reported>>
    BY <2>1, <2>3 DEF Informed, SubscribersInformed, linkVars
  <2> QED
    BY <1>5, <2>2, <2>3 DEF DisconnectTimer
<1>6. ASSUME NEW p \in Device, QuarantineExpires(p) PROVE Informed'
  BY <1>6, InformedStays DEF QuarantineExpires, linkVars, clientVars
<1> QED
  BY <1>1, <1>2, <1>3, <1>4, <1>5, <1>6
  DEF Timers, TimeoutConnect, CancelConnect, TimeoutWrite, CancelWrite,
     TimeoutRead,
      CancelRead

\* What a callback changes, subscribers hear.
LEMMA CallbacksInform == ASSUME IInv, Informed, Callbacks PROVE Informed'
<1> USE DEF IInv
<1>0. bound \in Device /\ bound # NoDevice /\ NoDevice \notin Device
  BY DeviceAssumption DEF TypeOK
<1>1. ASSUME PoweredOn PROVE Informed'
  <2>1. UNCHANGED <<reported, closeVars, bound>>
    BY <1>1 DEF PoweredOn
  <2>2. CASE stage = "waitingForPower"
    <3>1. pending = bound /\ disconnecting = NoDevice /\ connected \in {bound, NoDevice}
      BY <2>2 DEF SetupIsPending, Ownership
    <3>2. connected' \in {connected, bound} /\ stage' # "ready"
      BY <1>1, <2>2, <3>1 DEF PoweredOn, BeginConnect
    <3> QED
      BY <1>0, <2>1, <3>1, <3>2 DEF Informed, SubscribersInformed, closeVars
  <2>3. CASE stage # "waitingForPower"
    BY <1>1, <2>1, <2>3, InformedStays DEF PoweredOn
  <2> QED
    BY <2>2, <2>3
<1>2. ASSUME PoweredOff PROVE Informed'
  BY <1>2, InformedStays DEF PoweredOff
<1>3. ASSUME Resetting PROVE Informed'
  BY <1>3, InformedStays DEF Resetting, linkVars, clientVars
<1>4. ASSUME NEW p \in Device, DidDiscover(p) PROVE Informed'
  BY <1>4, InformedStays DEF DidDiscover, linkVars, clientVars
<1>5. ASSUME NEW p \in Device, DidConnect(p) PROVE Informed'
  <2>1. UNCHANGED <<reported, closeVars, bound>>
    BY <1>5 DEF DidConnect, clientVars
  <2>2. CASE UNCHANGED <<connected, stage>>
    BY <2>1, <2>2, InformedStays
  <2>3. CASE /\ p = pending /\ stage = "connecting"
             /\ connected' = p /\ stage' = "discoveringServices"
    <3>0. p # NoDevice
      BY <1>0
    <3>1. p = bound /\ disconnecting = NoDevice /\ connected \in {bound, NoDevice}
      BY <3>0, <1>5, <2>3 DEF Ownership
    <3> QED
      BY <1>0, <2>1, <2>3, <3>1 DEF Informed, SubscribersInformed, closeVars
  <2> QED
    BY <1>5, <2>2, <2>3 DEF DidConnect
<1>6. ASSUME NEW p \in Device, DidFailToConnect(p) PROVE Informed'
  BY <1>6, InformedStays DEF DidFailToConnect
<1>7. ASSUME NEW p \in Device, DidDisconnect(p) PROVE Informed'
  <2>1. UNCHANGED bound
    BY <1>7 DEF DidDisconnect
  <2>2. CASE DisconnectIgnored(p)
    BY <2>1, <2>2 DEF DisconnectIgnored, Informed, SubscribersInformed, linkVars
  <2>3. CASE DisconnectDone(p)
    BY <1>0, <2>1, <2>3, FinishDisconnectInforms DEF DisconnectDone
  <2>4. CASE LinkLost(p)
    <3>0. p # NoDevice
      BY <1>0
    <3>1. p = bound /\ disconnecting = NoDevice
      BY <3>0, <2>4 DEF LinkLost, Ownership, Informed
    <3> QED
      BY <1>0, <2>1, <2>4, <3>1 DEF LinkLost, Ownership, Informed,
         SubscribersInformed
  <2> QED
    BY <1>7, <2>2, <2>3, <2>4 DEF DidDisconnect
<1>8. ASSUME NEW p \in Device,
             \/ DidDiscoverServices(p) \/ DidDiscoverCharacteristics(p)
             \/ DidUpdateNotificationState(p)
      PROVE  Informed'
  <2>1. UNCHANGED <<connected, closeVars, bound>>
    BY <1>8 DEF DidDiscoverServices, DidDiscoverCharacteristics,
       DidUpdateNotificationState
  <2>2. CASE UNCHANGED reported /\ (stage' = "ready" => stage = "ready")
    BY <2>1, <2>2, InformedStays
  <2>3. CASE p = connected /\ stage # "none" /\ reported' = p
    BY <1>0, <2>1, <2>3 DEF Informed, SubscribersInformed, closeVars
  <2> QED
    BY <1>8, <2>2, <2>3
    DEF DidDiscoverServices, DidDiscoverCharacteristics,
       DidUpdateNotificationState,
        ConnectFails, FinishConnect
<1>9. ASSUME NEW p \in Device, DidReadValue(p) \/ DidWriteValue(p) PROVE Informed'
  BY <1>9, InformedStays DEF DidReadValue, DidWriteValue, linkVars
<1> QED
  BY <1>1, <1>2, <1>3, <1>4, <1>5, <1>6, <1>7, <1>8, <1>9 DEF Callbacks

\* The continuations and what subscribers heard, in every reachable state.
THEOREM ClientsServed == Spec => []ClientInv
<1>1. Init => ClientInv
  BY CallAssumption DEF Init, ClientInv, ContinuationsHeld, SubscribersInformed
<1>2. IInv /\ ClientInv /\ [Next]_vars => ClientInv'
  <2> SUFFICES ASSUME IInv, ClientInv, [Next]_vars PROVE ClientInv'
    OBVIOUS
  <2>1. Informed
    BY DEF ClientInv, Informed
  <2>2. CASE Next
    BY <2>1, <2>2, CallsHeld, CallsInform, TimersHeld, TimersInform,
       CallbacksHeld,
       CallbacksInform DEF Next, ClientInv, Informed
  <2>3. CASE UNCHANGED vars
    BY <2>1, <2>3, HeldStays, InformedStays
    DEF vars, ClientInv, Informed, linkVars, connectVars, writeVars, readVars,
       scanVars,
        closeVars, clientVars
  <2> QED
    BY <2>2, <2>3
<1> QED
  BY <1>1, <1>2, TransportInvariant, PTL DEF Spec

\* Every continuation is resumed exactly once: nobody who waits is forgotten.
THEOREM NobodyForgotten == Spec => []ContinuationsHeld
<1>1. ClientInv => ContinuationsHeld
  BY DEF ClientInv
<1> QED
  BY <1>1, ClientsServed, PTL

\* A device reported connected is connected or being hung up, and a ready link
\* was reported: connectionEvents tells its subscribers no less and no more.
THEOREM SubscribersHear == Spec => []SubscribersInformed
<1>1. ClientInv => SubscribersInformed
  BY DEF ClientInv
<1> QED
  BY <1>1, ClientsServed, PTL

-----------------------------------------------------------------------------
(* The transport implements its contract *)

\* A step of the contract, or none that its clients can see.
ContractStep == Contract!Next \/ UNCHANGED <<status, cancelled, bound, reported>>

\* Who waits, as the contract sees it, is whom the transport holds.
LEMMA WhoWaits ==
  ASSUME TypeOK, ContinuationsHeld
  PROVE  /\ Contract!Waiting(Connects) = {connectOp} \ {NoCall}
         /\ Contract!Waiting(Writes) = {writeOp} \ {NoCall}
         /\ Contract!Waiting(Reads) = {readOp} \ {NoCall}
         /\ Contract!Waiting(Scans) = {scanOp} \ {NoCall}
         /\ Contract!Waiting(Disconnects) = waiters
         /\ Contract!Waiting(Connects \cup Writes \cup Reads) = Outstanding
         /\ Contract!Waiting(Contract!OnLink) = Outstanding
<1> USE KindsOfCall, CallAssumption DEF Contract!Waiting
<1>0. \A c \in Call : status[c] = "pending" <=>
                        c \in {connectOp, writeOp, readOp, scanOp} \cup waiters
  BY DEF ContinuationsHeld
<1>1. /\ connectOp \in Connects \cup {NoCall} /\ writeOp \in Writes \cup {NoCall}
      /\ readOp \in Reads \cup {NoCall} /\ scanOp \in Scans \cup {NoCall}
      /\ waiters \subseteq Disconnects
  BY DEF TypeOK
<1>2. Contract!Waiting(Connects) = {connectOp} \ {NoCall}
  BY <1>0, <1>1
<1>3. Contract!Waiting(Writes) = {writeOp} \ {NoCall}
  BY <1>0, <1>1
<1>4. Contract!Waiting(Reads) = {readOp} \ {NoCall}
  BY <1>0, <1>1
<1>5. Contract!Waiting(Scans) = {scanOp} \ {NoCall}
  BY <1>0, <1>1
<1>6. Contract!Waiting(Disconnects) = waiters
  BY <1>0, <1>1
<1>7. Contract!Waiting(Connects \cup Writes \cup Reads) = Outstanding
  <2>1. Contract!Waiting(Connects \cup Writes \cup Reads)
          = Contract!Waiting(Connects) \cup Contract!Waiting(Writes) \cup Contract!Waiting(Reads)
    OBVIOUS
  <2> QED
    BY <1>2, <1>3, <1>4, <2>1 DEF Outstanding
<1> QED
  BY <1>2, <1>3, <1>4, <1>5, <1>6, <1>7 DEF Contract!OnLink

\* Returning results to nobody changes nothing.
LEMMA ReturnsNothing ==
  ASSUME TypeOK, NEW S, S \cap Call = {}, NEW result, status' = Returned(S, result)
  PROVE  status' = status
BY DEF TypeOK, Returned

\* Resuming the callers of a set is a return of the contract.
LEMMA ReturnsOne ==
  ASSUME NEW S, NEW result, status' = Returned(S, result)
  PROVE  Contract!Return(S, result, {})
BY DEF Returned, Contract!Return, Contract!Call, Call

\* A call that fails at once is refused in the contract.
LEMMA StepRefused ==
  ASSUME NEW c \in Call, c \notin Disconnects, status[c] = "idle",
         status' = Returned({c}, "failed"), UNCHANGED <<cancelled, bound, reported>>
  PROVE  ContractStep
BY ReturnsOne DEF ContractStep, Contract!Next, Contract!Refuse, Contract!Idle,
   Contract!Call, Call

\* A call alone of its kind is accepted, with the link it needs.
LEMMA StepAccepted ==
  ASSUME TypeOK, ClientInv, NEW c \in Call, status[c] = "idle",
         status' = Returned({c}, "pending"), UNCHANGED <<cancelled, bound, reported>>,
         \/ c \in Connects /\ connectOp = NoCall /\ waiters = {}
         \/ c \in Writes /\ writeOp = NoCall /\ waiters = {} /\ reported = bound
         \/ c \in Reads /\ readOp = NoCall /\ waiters = {} /\ reported = bound
         \/ c \in Scans /\ scanOp = NoCall
  PROVE  ContractStep
<1>1. \E kind \in {Connects, Writes, Reads, Scans} :
         c \in kind /\ Contract!Waiting(kind) = {}
  BY WhoWaits DEF ClientInv
<1>2. c \in Contract!OnLink => Contract!Waiting(Disconnects) = {}
  BY WhoWaits, CallAssumption DEF ClientInv, Contract!OnLink
<1>3. c \in Writes \cup Reads => reported = bound
  BY CallAssumption
<1>4. Contract!Accept(c)
  BY <1>1, <1>2, <1>3, ReturnsOne DEF Contract!Accept, Contract!Idle
<1> QED
  BY <1>4 DEF ContractStep, Contract!Next, Contract!Call, Call

\* A call that waits for the link is given up.
LEMMA StepGivesUp ==
  ASSUME TypeOK, ClientInv, NEW c \in Outstanding,
         NEW result \in {"failed", "timeout", "cancelled"},
         result = "cancelled" => c \in cancelled \/ (c \in Reads /\ cancelled \cap Reads # {}),
         status' = Returned({c}, result), UNCHANGED <<cancelled, bound, reported>>
  PROVE  ContractStep
<1>1. c \in Contract!Waiting(Contract!OnLink)
  BY WhoWaits DEF ClientInv
<1>2. Contract!GiveUp(c, result)
  BY <1>1, ReturnsOne DEF Contract!GiveUp
<1>3. c \in Call
  BY DEF Outstanding, TypeOK, Call
<1> QED
  BY <1>2, <1>3 DEF ContractStep, Contract!Next, Contract!Call, Call

\* Every call is a step of the contract.
LEMMA CallsKeepContract == ASSUME IInv, ClientInv, Calls PROVE ContractStep
<1> USE KindsOfCall, CallAssumption DEF IInv
<1>0. TypeOK /\ bound \in Device /\ bound # NoDevice /\ ContinuationsHeld
  BY DeviceAssumption DEF TypeOK, ClientInv
<1>1. ASSUME NEW c \in Call \ Disconnects, status[c] = "idle", Refuse(c)
      PROVE  ContractStep
  BY <1>1, StepRefused DEF Refuse
<1>2. ASSUME NEW c \in Connects, ConnectAccepted(c) PROVE ContractStep
  <2>1. /\ status[c] = "idle" /\ connectOp = NoCall /\ waiters = {}
        /\ UNCHANGED <<cancelled, bound, reported>>
    BY <1>2 DEF ConnectAccepted, ClientInv
  <2>2. status' = Returned({c}, "failed") \/ status' = Returned({c}, "pending")
    BY <1>2 DEF ConnectAccepted, BeginConnect
  <2>3. c \in Call /\ c \notin Disconnects
    OBVIOUS
  <2>4. CASE status' = Returned({c}, "failed")
    BY <2>1, <2>3, <2>4, StepRefused
  <2>5. CASE status' = Returned({c}, "pending")
    BY <1>0, <2>1, <2>3, <2>5, StepAccepted
  <2> QED
    BY <2>2, <2>4, <2>5
<1>3. Ready => reported = bound /\ waiters = {}
  BY <1>0 DEF Ready, ClientInv, SubscribersInformed, Ownership
<1>4. ASSUME NEW c \in Writes, WriteAccepted(c) PROVE ContractStep
  <2>1. /\ status[c] = "idle" /\ writeOp = NoCall /\ waiters = {} /\ reported = bound
        /\ UNCHANGED <<cancelled, bound, reported>> /\ status' = Returned({c}, "pending")
    BY <1>3, <1>4 DEF WriteAccepted
  <2>2. c \in Call
    OBVIOUS
  <2> QED
    BY <1>0, <2>1, <2>2, StepAccepted
<1>5. ASSUME NEW c \in Reads, ReadAccepted(c) PROVE ContractStep
  <2>1. /\ status[c] = "idle" /\ readOp = NoCall /\ waiters = {} /\ reported = bound
        /\ UNCHANGED <<cancelled, bound, reported>>
    BY <1>3, <1>5 DEF ReadAccepted
  <2>2. status' = Returned({c}, "ok") \/ status' = Returned({c}, "pending")
    BY <1>5 DEF ReadAccepted
  <2>3. c \in Call
    OBVIOUS
  <2>4. CASE status' = Returned({c}, "ok")
    <3>1. Contract!ReadAtOnce(c)
      BY <2>1, <2>4, ReturnsOne DEF Contract!ReadAtOnce, Contract!Idle
    <3> QED
      BY <2>3, <3>1 DEF ContractStep, Contract!Next, Contract!Call, Call
  <2>5. CASE status' = Returned({c}, "pending")
    BY <1>0, <2>1, <2>3, <2>5, StepAccepted
  <2> QED
    BY <2>2, <2>4, <2>5
<1>6. ASSUME NEW c \in Disconnects, DisconnectJoin(c) PROVE ContractStep
  <2>1. Contract!Return({c}, "pending", {})
    BY <1>6, ReturnsOne DEF DisconnectJoin
  <2>2. Contract!Close(c)
    BY <1>6, <2>1 DEF DisconnectJoin, Contract!Close, Contract!Idle
  <2> QED
    BY <2>2 DEF ContractStep, Contract!Next, Contract!Call, Call
<1>7. ASSUME NEW c \in Disconnects, DisconnectAtOnce(c) PROVE ContractStep
  <2>1. waiters = {} /\ disconnecting = NoDevice
    BY <1>7 DEF DisconnectAtOnce, ClientInv
  <2>2. Contract!Return({c}, "ok", Outstanding)
    BY <1>7, <2>1 DEF DisconnectAtOnce, Contract!Return, Contract!Call, Call
  <2>3. reported' = NoDevice
    BY <1>7, <2>1 DEF DisconnectAtOnce, DisconnectTarget, FinishDisconnect,
       ClientInv,
       SubscribersInformed
  <2>4. Contract!CloseAtOnce(c)
    BY <1>0, <1>7, <2>1, <2>2, <2>3, WhoWaits
    DEF DisconnectAtOnce, Contract!CloseAtOnce, Contract!Idle
  <2> QED
    BY <2>4 DEF ContractStep, Contract!Next, Contract!Call, Call
<1>8. ASSUME NEW c \in Disconnects, DisconnectBegin(c) PROVE ContractStep
  <2>1. Contract!Return({c}, "pending", Outstanding)
    BY <1>8 DEF DisconnectBegin, Contract!Return, Contract!Call, Call
  <2>2. Contract!Close(c)
    BY <1>0, <1>8, <2>1, WhoWaits DEF DisconnectBegin, Contract!Close,
       Contract!Idle
  <2> QED
    BY <2>2 DEF ContractStep, Contract!Next, Contract!Call, Call
<1>9. ASSUME NEW c \in Scans, ScanAccepted(c) PROVE ContractStep
  <2>1. /\ status[c] = "idle" /\ scanOp = NoCall
        /\ UNCHANGED <<cancelled, bound, reported>>
    BY <1>9 DEF ScanAccepted
  <2>2. status' = Returned({c}, "failed") \/ status' = Returned({c}, "pending")
    BY <1>9 DEF ScanAccepted
  <2>3. c \in Call /\ c \notin Disconnects
    OBVIOUS
  <2>4. CASE status' = Returned({c}, "failed")
    BY <2>1, <2>3, <2>4, StepRefused
  <2>5. CASE status' = Returned({c}, "pending")
    BY <1>0, <2>1, <2>3, <2>5, StepAccepted
  <2> QED
    BY <2>2, <2>4, <2>5
<1>10. ASSUME NEW c \in Call, CancelTask(c) PROVE ContractStep
  <2>1. c \in Outstanding
    BY <1>10 DEF CancelTask, Outstanding
  <2>2. Contract!CancelTask(c)
    BY <1>0, <1>10, <2>1, WhoWaits DEF CancelTask, Contract!CancelTask
  <2> QED
    BY <2>2 DEF ContractStep, Contract!Next, Contract!Call, Call
<1>11. ASSUME NEW p \in Device, Rebind(p) PROVE ContractStep
  <2>1. reported = NoDevice
    BY <1>11 DEF Rebind, ClientInv, SubscribersInformed
  <2>2. Contract!Rebind(p)
    BY <1>0, <1>11, <2>1, WhoWaits DEF Rebind, Contract!Rebind
  <2> QED
    BY <2>2 DEF ContractStep, Contract!Next
<1>12. ASSUME NEW c \in Connects \cup Writes \cup Reads \cup Scans,
              ConnectRefused(c) \/ WriteRefused(c) \/ ReadRefused(c) \/ ScanRefused(c)
       PROVE  ContractStep
  <2>1. c \in Call \ Disconnects
    OBVIOUS
  <2> QED
    BY <1>1, <1>12, <2>1 DEF ConnectRefused, WriteRefused, ReadRefused,
       ScanRefused
<1> QED
  BY <1>2, <1>4, <1>5, <1>6, <1>7, <1>8, <1>9, <1>10, <1>11, <1>12 DEF Calls

\* The disconnect under way is over, for all who wait for it.
LEMMA StepClosed ==
  ASSUME TypeOK, ClientInv, status' = Returned(waiters, "ok"), reported' = NoDevice,
         UNCHANGED <<cancelled, bound>>
  PROVE  ContractStep
<1>1. Contract!Closed
  BY WhoWaits, ReturnsOne DEF ClientInv, Contract!Closed
<1> QED
  BY <1>1 DEF ContractStep, Contract!Next

\* A write or a read on the reported device, or a scan, is served.
LEMMA StepServed ==
  ASSUME TypeOK, ClientInv, NEW c \in {writeOp, readOp, scanOp} \ {NoCall},
         c # scanOp => reported = bound,
         status' = Returned({c}, "ok"), UNCHANGED <<cancelled, bound, reported>>
  PROVE  ContractStep
<1>1. c \in Contract!Waiting(Writes \cup Reads \cup Scans) /\ c \in Call
  BY CallAssumption DEF TypeOK, ClientInv, ContinuationsHeld, Contract!Waiting,
     Call
<1>2. c \in Writes \cup Reads => reported = bound
  BY CallAssumption DEF TypeOK
<1>3. Contract!Served(c)
  BY <1>1, <1>2, ReturnsOne DEF Contract!Served
<1> QED
  BY <1>1, <1>3 DEF ContractStep, Contract!Next, Contract!Call, Call

\* Every timer and cancellation is a step of the contract, or none.
LEMMA TimersKeepContract == ASSUME IInv, ClientInv, Timers PROVE ContractStep
<1> USE KindsOfCall, CallAssumption DEF IInv
<1>0. TypeOK
  OBVIOUS
<1>1. ASSUME NEW c \in Connects, NEW result \in {"timeout", "cancelled"},
             result = "cancelled" => c \in cancelled, AbandonConnect(c, result)
      PROVE  ContractStep
  <2>1. /\ c \in Outstanding /\ status' = Returned({c}, result)
        /\ UNCHANGED <<cancelled, bound, reported>>
    BY <1>1 DEF AbandonConnect, Outstanding
  <2> QED
    BY <1>0, <1>1, <2>1, StepGivesUp
<1>2. ASSUME NEW c \in Writes, NEW p, NEW result \in {"timeout", "cancelled"},
             result = "cancelled" => c \in cancelled, AbandonWrite(c, p, result)
      PROVE  ContractStep
  <2>1. /\ c \in Outstanding /\ status' = Returned({c}, result)
        /\ UNCHANGED <<cancelled, bound, reported>>
    BY <1>2 DEF AbandonWrite, Outstanding
  <2> QED
    BY <1>0, <1>2, <2>1, StepGivesUp
<1>3. ASSUME NEW result \in {"timeout", "cancelled"},
             result = "cancelled" => cancelled \cap Reads # {}, AbandonRead(result)
      PROVE  ContractStep
  <2>1. /\ readOp \in Outstanding /\ readOp \in Reads
        /\ status' = Returned({readOp}, result)
        /\ UNCHANGED <<cancelled, bound, reported>>
    BY <1>3 DEF AbandonRead, Outstanding, clientVars, TypeOK
  <2> QED
    BY <1>0, <1>3, <2>1, StepGivesUp
<1>4. ASSUME ScanTimer PROVE ContractStep
  <2>1. status' = Returned({scanOp}, "ok") /\ UNCHANGED <<cancelled, bound, reported>>
    BY <1>4 DEF ScanTimer
  <2>2. CASE scanOp = NoCall
    BY <1>0, <2>1, <2>2, ReturnsNothing DEF ContractStep
  <2>3. CASE scanOp # NoCall
    BY <1>0, <2>1, <2>3, StepServed
  <2> QED
    BY <2>2, <2>3
<1>5. ASSUME NEW c \in Call, NEW p \in Device, DisconnectTimer(c, p) PROVE ContractStep
  <2>1. UNCHANGED <<cancelled, bound>>
    BY <1>5 DEF DisconnectTimer
  <2>2. CASE /\ disconnecting = p /\ FinishDisconnect(p)
             /\ status' = Returned(waiters, "ok")
    <3>1. reported' = NoDevice
      BY <2>1, <2>2, DeviceAssumption, FinishDisconnectInforms DEF ClientInv,
         Informed
    <3> QED
      BY <1>0, <2>1, <2>2, <3>1, StepClosed
  <2>3. CASE UNCHANGED <<status, reported>>
    BY <2>1, <2>3 DEF ContractStep
  <2> QED
    BY <1>5, <2>2, <2>3 DEF DisconnectTimer
<1>6. ASSUME NEW p \in Device, QuarantineExpires(p) PROVE ContractStep
  BY <1>6 DEF QuarantineExpires, clientVars, ContractStep
<1>7. ASSUME NEW c \in Connects, TimeoutConnect(c) \/ CancelConnect(c)
      PROVE  ContractStep
  BY <1>1, <1>7 DEF TimeoutConnect, CancelConnect
<1>8. ASSUME NEW c \in Writes, TimeoutWrite(c) \/ CancelWrite(c) PROVE ContractStep
  BY <1>2, <1>8 DEF TimeoutWrite, CancelWrite
<1>9. ASSUME NEW c \in Reads, TimeoutRead(c) \/ CancelRead(c) PROVE ContractStep
  BY <1>3, <1>9 DEF TimeoutRead, CancelRead
<1> QED
  BY <1>4, <1>5, <1>6, <1>7, <1>8, <1>9 DEF Timers

\* Every callback is a step of the contract, or none.
LEMMA CallbacksKeepContract ==
  ASSUME IInv, ClientInv, Callbacks
  PROVE  ContractStep
<1> USE CallAssumption DEF IInv
<1>0. TypeOK /\ ContinuationsHeld /\ NoCall \notin Call /\ NoDevice # bound
  BY DeviceAssumption DEF ClientInv, TypeOK
<1>1. ASSUME PoweredOn PROVE ContractStep
  <2>1. UNCHANGED <<cancelled, bound, reported>>
    BY <1>1 DEF PoweredOn
  <2>2. CASE stage = "waitingForPower"
    <3>1. connectOp \in Connects /\ connectOp \in Outstanding
      BY <2>2 DEF SetupIsPending, TypeOK, Outstanding
    <3>2. \/ status' = Returned({connectOp}, "failed")
          \/ status' = Returned({connectOp}, "pending")
      BY <1>1, <2>2 DEF PoweredOn, BeginConnect
    <3>3. CASE status' = Returned({connectOp}, "failed")
      BY <1>0, <2>1, <3>1, <3>3, StepGivesUp
    <3>4. CASE status' = Returned({connectOp}, "pending")
      <4>1. status[connectOp] = "pending"
        BY <1>0, <3>1 DEF ContinuationsHeld, Call
      <4>2. status' = status
        BY <1>0, <3>4, <4>1 DEF Returned, TypeOK
      <4> QED
        BY <2>1, <4>2 DEF ContractStep
    <3> QED
      BY <3>2, <3>3, <3>4
  <2>3. CASE stage # "waitingForPower"
    BY <1>1, <2>1, <2>3 DEF PoweredOn, ContractStep
  <2> QED
    BY <2>2, <2>3
<1>2. ASSUME PoweredOff PROVE ContractStep
  <2> DEFINE F == (IF stage = "waitingForPower" THEN {connectOp} ELSE {}) \ {NoCall}
  <2>1. F \in SUBSET Contract!Waiting(Connects)
    BY <1>0, WhoWaits
  <2>2. status' = Returned(F \cup Contract!Waiting(Scans), "failed")
    <3>1. F \cup Contract!Waiting(Scans)
            = ({scanOp} \cup (IF stage = "waitingForPower" THEN {connectOp} ELSE {})) \ {NoCall}
      BY <1>0, WhoWaits
    <3> QED
      BY <1>2, <3>1 DEF PoweredOff
  <2>3. Contract!Return({}, "ok", F \cup Contract!Waiting(Scans))
    BY <2>2 DEF Returned, Contract!Return, Contract!Call, Call
  <2>4. Contract!PowerLost
    BY <1>2, <2>1, <2>3 DEF PoweredOff, Contract!PowerLost
  <2> QED
    BY <2>4 DEF ContractStep, Contract!Next
<1>3. ASSUME Resetting PROVE ContractStep
  BY <1>3 DEF Resetting, clientVars, ContractStep
<1>4. ASSUME NEW p \in Device, DidDiscover(p) \/ DidConnect(p) PROVE ContractStep
  BY <1>4 DEF DidDiscover, DidConnect, clientVars, ContractStep
<1>5. ASSUME NEW p \in Device, DidFailToConnect(p) PROVE ContractStep
  <2>1. UNCHANGED <<cancelled, bound, reported>>
    BY <1>5 DEF DidFailToConnect
  <2>2. CASE UNCHANGED status
    BY <2>1, <2>2 DEF ContractStep
  <2>3. CASE stage = "connecting" /\ status' = Returned({connectOp}, "failed")
    <3>1. connectOp \in Outstanding
      BY <2>3 DEF SetupIsPending, Outstanding
    <3> QED
      BY <1>0, <2>1, <2>3, <3>1, StepGivesUp
  <2> QED
    BY <1>5, <2>2, <2>3 DEF DidFailToConnect
<1>6. ASSUME NEW p \in Device, DidDisconnect(p) PROVE ContractStep
  <2>1. UNCHANGED <<cancelled, bound>> /\ p # NoDevice
    BY <1>6, DeviceAssumption DEF DidDisconnect
  <2>2. CASE DisconnectIgnored(p)
    BY <2>1, <2>2 DEF DisconnectIgnored, ContractStep
  <2>3. CASE DisconnectDone(p)
    <3>1. reported' = NoDevice /\ status' = Returned(waiters, "ok")
      BY <2>1, <2>3, FinishDisconnectInforms DEF DisconnectDone, ClientInv,
         Informed
    <3> QED
      BY <1>0, <2>1, <3>1, StepClosed
  <2>4. CASE LinkLost(p)
    <3>1. p = bound /\ disconnecting = NoDevice
      BY <2>1, <2>4 DEF LinkLost, Ownership, ClientInv
    <3>2. reported' = NoDevice
      BY <2>4, <3>1 DEF LinkLost, Ownership, ClientInv, SubscribersInformed
    <3>3. Contract!Return({}, "ok", Outstanding)
      BY <2>4 DEF LinkLost, Returned, Contract!Return, Contract!Call, Call
    <3>4. Contract!LinkLost
      BY <1>0, <2>1, <3>2, <3>3, WhoWaits DEF Contract!LinkLost
    <3> QED
      BY <3>4 DEF ContractStep, Contract!Next
  <2> QED
    BY <1>6, <2>2, <2>3, <2>4 DEF DidDisconnect
<1>7. ASSUME NEW p \in Device,
             \/ DidDiscoverServices(p) \/ DidDiscoverCharacteristics(p)
             \/ DidUpdateNotificationState(p)
      PROVE  ContractStep
  <2>1. UNCHANGED <<cancelled, bound>>
    BY <1>7 DEF DidDiscoverServices, DidDiscoverCharacteristics,
       DidUpdateNotificationState
  <2>2. CASE UNCHANGED <<status, reported>>
    BY <2>1, <2>2 DEF ContractStep
  <2>3. CASE /\ p = connected /\ stage \notin {"none", "ready"}
             /\ \/ ConnectFails /\ UNCHANGED reported
                \/ FinishConnect(p)
    <3>1. connectOp \in Outstanding /\ connectOp \in Connects /\ p = bound
      BY <1>7, <2>3, DeviceAssumption DEF SetupIsPending, Outstanding, TypeOK,
         Ownership
    <3>2. {connectOp} \ {NoCall} = {connectOp}
      BY <3>1 DEF Outstanding
    <3>3. CASE ConnectFails /\ UNCHANGED reported
      BY <1>0, <2>1, <3>1, <3>2, <3>3, StepGivesUp DEF ConnectFails
    <3>4. CASE FinishConnect(p)
      <4>1. waiters = {}
        BY <2>3 DEF ClientInv, Ownership
      <4>2. status' = Returned({connectOp}, "ok") /\ reported' = bound
        BY <3>1, <3>2, <3>4 DEF FinishConnect
      <4>3. Contract!Connected(connectOp)
        BY <1>0, <2>1, <3>1, <4>1, <4>2, WhoWaits, ReturnsOne
        DEF Contract!Connected, Outstanding
      <4> QED
        BY <3>1, <4>3 DEF ContractStep, Contract!Next, Contract!Call, Call
    <3> QED
      BY <2>3, <3>3, <3>4
  <2> QED
    BY <1>7, <2>2, <2>3 DEF DidDiscoverServices, DidDiscoverCharacteristics,
       DidUpdateNotificationState
<1>8. ASSUME NEW c \in Call \cup {NoCall}, c \in {writeOp, readOp}, NEW result \in {"ok", "failed"},
             connected \in Device, stage = "ready",
             status' = Returned({c} \ {NoCall}, result),
             UNCHANGED <<cancelled, bound, reported>>
      PROVE  ContractStep
  <2>1. CASE c = NoCall
    <3>1. status' = status
      BY <1>0, <1>8, <2>1, ReturnsNothing
    <3> QED
      BY <1>8, <3>1 DEF ContractStep
  <2>2. CASE c # NoCall
    <3>1. reported = bound /\ c \in Outstanding /\ {c} \ {NoCall} = {c}
      BY <1>8, <2>2, DeviceAssumption DEF ClientInv, SubscribersInformed,
         Ownership, Outstanding
    <3>2. CASE result = "ok"
      BY <1>0, <1>8, <2>2, <3>1, <3>2, StepServed
    <3>3. CASE result = "failed"
      BY <1>0, <1>8, <3>1, <3>3, StepGivesUp
    <3> QED
      BY <1>8, <3>2, <3>3
  <2> QED
    BY <2>1, <2>2
<1>9. writeOp \in Call \cup {NoCall} /\ readOp \in Call \cup {NoCall}
  BY DEF TypeOK, Call
<1>10. ASSUME NEW p \in Device, DidReadValue(p) PROVE ContractStep
  <2>1. CASE UNCHANGED status
    BY <1>10, <2>1 DEF DidReadValue, ContractStep
  <2> QED
    BY <1>8, <1>9, <1>10, <2>1 DEF DidReadValue
<1>11. ASSUME NEW p \in Device, DidWriteValue(p) PROVE ContractStep
  <2>1. CASE UNCHANGED status
    BY <1>11, <2>1 DEF DidWriteValue, ContractStep
  <2> QED
    BY <1>8, <1>9, <1>11, <2>1 DEF DidWriteValue
<1> QED
  BY <1>1, <1>2, <1>3, <1>4, <1>5, <1>6, <1>7, <1>10, <1>11 DEF Callbacks

\* CoreBluetoothTransport implements BLETransport: whatever CoreBluetooth does and
\* in whichever order, its clients see a step of the contract or none.
THEOREM ContractKept == Spec => KeepsContract
<1>1. Init => Contract!Init
  BY DEF Init, Contract!Init, Contract!Call, Call
<1>2. IInv /\ ClientInv /\ [Next]_vars => [Contract!Next]_(Contract!vars)
  <2> SUFFICES ASSUME IInv, ClientInv, [Next]_vars PROVE [Contract!Next]_(Contract!vars)
    OBVIOUS
  <2>1. CASE Next
    BY <2>1, CallsKeepContract, TimersKeepContract, CallbacksKeepContract
    DEF Next, ContractStep, Contract!vars
  <2>2. CASE UNCHANGED vars
    BY <2>2 DEF vars, clientVars, Contract!vars
  <2> QED
    BY <2>1, <2>2
<1> QED
  BY <1>1, <1>2, TransportInvariant, ClientsServed, PTL DEF Spec, KeepsContract,
     Contract!Spec

\* A connect or a write ends as cancelled only when its own task was cancelled:
\* the contract allows nothing else.
THEOREM OwnTaskCancels == Spec => []CancelledByOwnTask
<1>1. Init => CancelledByOwnTask
  BY KindsOfCall DEF Init, CancelledByOwnTask
<1>2. CancelledByOwnTask /\ [Contract!Next]_(Contract!vars) => CancelledByOwnTask'
  <2> SUFFICES ASSUME CancelledByOwnTask, [Contract!Next]_(Contract!vars),
                      NEW c \in Connects \cup Writes, status'[c] = "cancelled"
               PROVE  c \in cancelled'
    BY DEF CancelledByOwnTask
  <2>1. c \in Call /\ c \notin Reads
    BY CallAssumption, KindsOfCall
  <2>2. cancelled \subseteq cancelled'
    BY DEF Contract!Next, Contract!vars, Contract!Refuse, Contract!Accept,
       Contract!ReadAtOnce, Contract!Connected, Contract!Served, Contract!GiveUp,
       Contract!Close, Contract!CloseAtOnce, Contract!CancelTask, Contract!PowerLost,
       Contract!LinkLost, Contract!Closed, Contract!Rebind
  <2>3. status'[c] = status[c] \/ c \in cancelled
    <3>1. ASSUME NEW S, NEW F, NEW result \in {"ok", "failed", "pending"},
                 Contract!Return(S, result, F)
          PROVE  status'[c] = status[c]
      BY <2>1, <3>1 DEF Contract!Return, Contract!Call, Call
    <3>2. ASSUME NEW d, NEW result \in {"failed", "timeout", "cancelled"},
                 Contract!GiveUp(d, result)
          PROVE  status'[c] = status[c] \/ c \in cancelled
      BY <2>1, <3>2 DEF Contract!GiveUp, Contract!Return, Contract!Call, Call
    <3>3. CASE \E d \in Contract!Call :
                 \/ Contract!Refuse(d) \/ Contract!Accept(d) \/ Contract!ReadAtOnce(d)
                 \/ Contract!Connected(d) \/ Contract!Served(d)
      BY <3>1, <3>3 DEF Contract!Refuse, Contract!Accept, Contract!ReadAtOnce,
         Contract!Connected, Contract!Served
    <3>4. CASE \E d \in Contract!Call :
                 Contract!Close(d) \/ Contract!CloseAtOnce(d) \/ Contract!CancelTask(d)
      BY <3>1, <3>4 DEF Contract!Close, Contract!CloseAtOnce,
         Contract!CancelTask
    <3>5. CASE \/ Contract!PowerLost \/ Contract!LinkLost \/ Contract!Closed
               \/ \E p \in Device : Contract!Rebind(p)
      BY <3>1, <3>5 DEF Contract!PowerLost, Contract!LinkLost, Contract!Closed,
         Contract!Rebind
    <3> QED
      BY <3>2, <3>3, <3>4, <3>5 DEF Contract!Next, Contract!vars
  <2> QED
    BY <2>2, <2>3 DEF CancelledByOwnTask
<1> QED
  BY <1>1, <1>2, ContractKept, PTL DEF Spec, KeepsContract, Contract!Spec

-----------------------------------------------------------------------------
(* The radio: no link without power, no request without a link, and whom a *)
(* setup is for is known                                                   *)

SettingUp == {"discoveringServices", "discoveringCharacteristics", "subscribingCommands"}

RadioInv ==
  /\ central # "poweredOn" => late = {} /\ \A p \in Device : link[p] = "disconnected"
  /\ \A p \in late : gatt[p] = <<>>
  /\ \A p \in Device : link[p] \in {"disconnected", "connecting"} => gatt[p] = <<>>
  /\ stage = "waitingForPower" => central # "poweredOn"
  /\ discovered \subseteq known
  /\ stage \in SettingUp \cup {"connecting"} => pending \in known

\* Nothing the radio does depends on the end of a setup.
LEMMA RadioStays ==
  ASSUME RadioInv, UNCHANGED <<central, link, late, gatt, discovered, known>>,
         stage' \in {stage, "none"}, pending' = pending \/ stage' \notin SettingUp \cup {"connecting"}
  PROVE  RadioInv'
BY DEF RadioInv, SettingUp

\* A request goes out only on a link that is up.
LEMMA RadioSends ==
  ASSUME TypeOK, RadioInv, LateIsDown, NEW p \in Device, link[p] = "connected",
         NEW kind, NEW op, Send(p, kind, op), UNCHANGED <<link, late>>
  PROVE  /\ \A d \in Device : link'[d] \in {"disconnected", "connecting"} => gatt'[d] = <<>>
         /\ \A d \in late' : gatt'[d] = <<>>
BY DEF RadioInv, LateIsDown, Send, TypeOK

\* A link that is cancelled had no request out unless it was up.
LEMMA RadioCancels ==
  ASSUME TypeOK, RadioInv, NEW c, NEW p \in Device, BeginDisconnect(c, p),
         UNCHANGED <<central, gatt, discovered, known>>
  PROVE  RadioInv'
BY DEF RadioInv, BeginDisconnect, CancelLink, AfterCancel, ForgetLink,
   SettingUp, TypeOK

\* The oldest request of a link is answered.
LEMMA RadioAnswers ==
  ASSUME TypeOK, RadioInv, NEW p \in Device, gatt[p] # <<>>,
         NEW q, gatt' = [gatt EXCEPT ![p] = q],
         UNCHANGED <<central, link, late, discovered, known>>,
         \/ stage' \in {"none", "ready", stage}
         \/ stage \in SettingUp /\ stage' \in SettingUp,
         pending' = pending \/ stage' \in {"none", "ready"}
  PROVE  RadioInv'
BY DEF RadioInv, SettingUp, TypeOK

\* A connect begins with power, and with a peripheral that is known.
LEMMA RadioBegins ==
  ASSUME TypeOK, RadioInv, LateIsDown, NEW c, NEW p \in Device,
         NEW found \in SUBSET Device, BeginConnect(c, p, found), UNCHANGED late,
         central' = "poweredOn", known' = known \cup found
  PROVE  RadioInv'
<1>1. discovered' \subseteq known'
  BY DEF RadioInv, BeginConnect, Found
<1>2. stage' \in SettingUp \cup {"connecting"} => pending' \in known'
  BY DEF RadioInv, BeginConnect, Found, SettingUp
<1>3. /\ \A d \in Device : link'[d] \in {"disconnected", "connecting"} => gatt'[d] = <<>>
      /\ \A d \in late' : gatt'[d] = <<>>
  <2>1. CASE UNCHANGED <<link, gatt>>
    BY <2>1 DEF RadioInv
  <2>2. CASE link[p] = "connected" /\ Send(p, "services", NoCall) /\ UNCHANGED link
    BY <2>2, RadioSends
  <2>3. CASE /\ link[p] \notin {"connected", "disconnecting"}
             /\ link' = [link EXCEPT ![p] = "connecting"] /\ UNCHANGED gatt
    <3>1. link[p] \in {"disconnected", "connecting"}
      BY <2>3 DEF TypeOK, LinkStates
    <3> QED
      BY <2>3, <3>1 DEF RadioInv, TypeOK
  <2> QED
    BY <2>1, <2>2, <2>3 DEF BeginConnect
<1>4. stage' # "waitingForPower"
  BY DEF BeginConnect
<1> QED
  BY <1>1, <1>2, <1>3, <1>4 DEF RadioInv

\* Calls send only on links that are up.
LEMMA CallsKeepRadio == ASSUME IInv, RadioInv, Calls PROVE RadioInv'
<1> USE KindsOfCall DEF IInv
<1>0. TypeOK
  OBVIOUS
<1>1. ASSUME NEW c, Refuse(c) PROVE RadioInv'
  BY <1>1, RadioStays DEF Refuse, cbVars, linkVars, connectVars
<1>2. ASSUME NEW c \in Connects, ConnectAccepted(c) PROVE RadioInv'
  <2>1. known' = known \cup {} /\ bound \in Device
    BY <1>0, <1>2 DEF ConnectAccepted, TypeOK
  <2>2. CASE central = "poweredOn"
    <3>1. BeginConnect(c, bound, {}) /\ central' = "poweredOn" /\ UNCHANGED late
      BY <1>2, <2>2 DEF ConnectAccepted, Manager
    <3> QED
      BY <1>0, <2>1, <3>1, RadioBegins
  <2>3. CASE central # "poweredOn"
    BY <1>2, <2>3 DEF ConnectAccepted, Manager, RadioInv, SettingUp
  <2> QED
    BY <2>2, <2>3
<1>3. ASSUME NEW c \in Writes, WriteAccepted(c) PROVE RadioInv'
  <2>1. connected \in Device /\ link[connected] = "connected"
    BY <1>0, <1>3 DEF WriteAccepted, Ready, TypeOK
  <2>2. /\ \A d \in Device : link'[d] \in {"disconnected", "connecting"} => gatt'[d] = <<>>
        /\ \A d \in late' : gatt'[d] = <<>>
    BY <1>0, <1>3, <2>1, RadioSends DEF WriteAccepted
  <2> QED
    BY <1>3, <2>2 DEF WriteAccepted, RadioInv, linkVars, connectVars
<1>4. ASSUME NEW c \in Reads, ReadAccepted(c) PROVE RadioInv'
  <2>1. connected \in Device /\ link[connected] = "connected"
    BY <1>0, <1>4 DEF ReadAccepted, Ready, TypeOK
  <2>2. /\ \A d \in Device : link'[d] \in {"disconnected", "connecting"} => gatt'[d] = <<>>
        /\ \A d \in late' : gatt'[d] = <<>>
    BY <1>0, <1>4, <2>1, RadioSends DEF ReadAccepted, RadioInv
  <2> QED
    BY <1>4, <2>2 DEF ReadAccepted, RadioInv, linkVars, connectVars
<1>5. ASSUME NEW c \in Disconnects, DisconnectJoin(c) PROVE RadioInv'
  BY <1>5, RadioStays DEF DisconnectJoin, cbVars, linkVars, connectVars
<1>6. ASSUME NEW c \in Disconnects, DisconnectAtOnce(c) PROVE RadioInv'
  BY <1>6, RadioStays DEF DisconnectAtOnce, FinishDisconnect, ForgetLink,
     cbVars, SettingUp
<1>7. ASSUME NEW c \in Disconnects, DisconnectBegin(c) PROVE RadioInv'
  <2>1. DisconnectTarget \in Device
    BY <1>0, <1>7 DEF DisconnectBegin, DisconnectTarget, TypeOK
  <2> QED
    BY <1>0, <1>7, <2>1, RadioCancels DEF DisconnectBegin
<1>8. ASSUME NEW c \in Scans, ScanAccepted(c) PROVE RadioInv'
  BY <1>8 DEF ScanAccepted, StartScan, Manager, RadioInv, linkVars, connectVars
<1>9. ASSUME NEW c \in Call, CancelTask(c) PROVE RadioInv'
  BY <1>9, RadioStays DEF CancelTask, cbVars, linkVars, connectVars
<1>10. ASSUME NEW p \in Device, Rebind(p) PROVE RadioInv'
  BY <1>10, RadioStays DEF Rebind, cbVars, linkVars, connectVars
<1> QED
  BY <1>1, <1>2, <1>3, <1>4, <1>5, <1>6, <1>7, <1>8, <1>9, <1>10
  DEF Calls, ConnectRefused, WriteRefused, ReadRefused, ScanRefused

\* Timers and cancellations at most close a link.
LEMMA TimersKeepRadio == ASSUME IInv, RadioInv, Timers PROVE RadioInv'
<1> USE KindsOfCall DEF IInv
<1>0. TypeOK
  OBVIOUS
<1>1. ASSUME NEW c \in Connects, NEW result, AbandonConnect(c, result) PROVE RadioInv'
  <2>1. UNCHANGED <<central, gatt, discovered, known>> /\ pending \in Device
    BY <1>0, <1>1, CallAssumption DEF AbandonConnect, SetupIsPending, TypeOK,
       Call
  <2>2. CASE BeginDisconnect(c, pending)
    BY <1>0, <2>1, <2>2, RadioCancels
  <2>3. CASE stage' = "none" /\ UNCHANGED <<link, late>>
    BY <2>1, <2>3, RadioStays DEF SettingUp
  <2> QED
    BY <1>1, <2>2, <2>3 DEF AbandonConnect
<1>2. ASSUME NEW c \in Writes, NEW p \in {writePeripheral, connected}, NEW result,
             AbandonWrite(c, p, result)
      PROVE  RadioInv'
  <2>1. UNCHANGED <<central, gatt, discovered, known, pending>>
        /\ p \in Device \cup {NoDevice}
    BY <1>0, <1>2 DEF AbandonWrite, connectVars, TypeOK
  <2>2. CASE p # NoDevice /\ BeginDisconnect(c, p)
    BY <1>0, <2>1, <2>2, RadioCancels
  <2>3. CASE UNCHANGED <<link, late, linkVars>>
    BY <2>1, <2>3, RadioStays DEF linkVars
  <2> QED
    BY <1>2, <2>2, <2>3 DEF AbandonWrite
<1>3. ASSUME NEW result, AbandonRead(result) PROVE RadioInv'
  BY <1>3, RadioStays DEF AbandonRead, cbVars, linkVars, connectVars
<1>4. ASSUME ScanTimer PROVE RadioInv'
  BY <1>4, RadioStays DEF ScanTimer, cbVars, linkVars, connectVars
<1>5. ASSUME NEW c \in Call, NEW p \in Device, DisconnectTimer(c, p) PROVE RadioInv'
  BY <1>5, RadioStays DEF DisconnectTimer, FinishDisconnect, ForgetLink, cbVars,
     linkVars,
     connectVars, SettingUp
<1>6. ASSUME NEW p \in Device, QuarantineExpires(p) PROVE RadioInv'
  BY <1>6, RadioStays DEF QuarantineExpires, cbVars, linkVars, connectVars
<1> QED
  BY <1>1, <1>2, <1>3, <1>4, <1>5, <1>6
  DEF Timers, TimeoutConnect, CancelConnect, TimeoutWrite, CancelWrite,
     TimeoutRead,
      CancelRead

\* A callback answers the oldest request or closes the link.
LEMMA CallbacksKeepRadio == ASSUME IInv, RadioInv, Callbacks PROVE RadioInv'
<1> USE DEF IInv
<1>0. TypeOK
  OBVIOUS
<1>1. ASSUME PoweredOn PROVE RadioInv'
  <2>1. PICK found \in SUBSET Device :
          /\ known' = known \cup found
          /\ \/ stage = "waitingForPower" /\ BeginConnect(connectOp, pending, found)
             \/ /\ stage # "waitingForPower" /\ discovered' = discovered \cup found
                /\ UNCHANGED <<connectVars, stage, link, gatt>>
    BY <1>1 DEF PoweredOn, StartScan
  <2>2. CASE stage = "waitingForPower"
    <3>1. pending \in Device /\ central' = "poweredOn" /\ UNCHANGED late
      BY <1>0, <1>1, <2>2 DEF PoweredOn, SetupIsPending, TypeOK
    <3> QED
      BY <1>0, <2>1, <2>2, <3>1, RadioBegins
  <2>3. CASE stage # "waitingForPower"
    BY <1>1, <2>1, <2>3 DEF PoweredOn, RadioInv, connectVars
  <2> QED
    BY <2>2, <2>3
<1>2. ASSUME PoweredOff PROVE RadioInv'
  BY <1>0, <1>2 DEF PoweredOff, DropLinks, ClearConnectOp, RadioInv, SettingUp,
     connectVars
<1>3. ASSUME Resetting PROVE RadioInv'
  BY <1>3 DEF Resetting, DropLinks, RadioInv, linkVars, connectVars
<1>4. ASSUME NEW p \in Device, DidDiscover(p) PROVE RadioInv'
  BY <1>4 DEF DidDiscover, RadioInv, linkVars, connectVars
<1>5. ASSUME NEW p \in Device, DidConnect(p) PROVE RadioInv'
  <2>1. /\ UNCHANGED <<central, discovered, known, pending>>
        /\ link[p] = "connecting" \/ p \in late
        /\ late' = late \ {p}
        /\ \/ stage' = stage
           \/ stage = "connecting" /\ stage' = "discoveringServices"
        /\ \A d \in Device \ {p} : link'[d] = link[d] /\ gatt'[d] = gatt[d]
        /\ link'[p] \in {"connected", "disconnecting"}
    BY <1>0, <1>5 DEF DidConnect, HangUp, Send, connectVars, TypeOK
  <2>2. central = "poweredOn"
    BY <2>1 DEF RadioInv
  <2> QED
    BY <1>0, <2>1, <2>2 DEF RadioInv, SettingUp, TypeOK
<1>6. ASSUME NEW p \in Device, DidFailToConnect(p) PROVE RadioInv'
  BY <1>0, <1>6 DEF DidFailToConnect, LinkDown, ClearConnectOp, RadioInv,
     SettingUp,
     connectVars, TypeOK
<1>7. ASSUME NEW p \in Device, DidDisconnect(p) PROVE RadioInv'
  <2>1. /\ UNCHANGED <<central, discovered, known>> /\ LinkDown(p)
    BY <1>7 DEF DidDisconnect
  <2>2. \/ stage' = "none" \/ UNCHANGED <<stage, pending>>
        \/ stage' = stage /\ connectOp = NoCall
    BY <1>7 DEF DidDisconnect, DisconnectIgnored, DisconnectDone, LinkLost,
       FinishDisconnect, ForgetLink, linkVars, connectVars
  <2>3. connectOp = NoCall => stage \in {"none", "ready"}
    BY DEF SetupIsPending
  <2> QED
    BY <1>0, <2>1, <2>2, <2>3 DEF RadioInv, LinkDown, SettingUp, TypeOK
<1>8. ASSUME NEW p \in Device, DidDiscoverServices(p) PROVE RadioInv'
  BY <1>0, <1>8, RadioAnswers
  DEF DidDiscoverServices, Answers, ConnectFails, connectVars, SettingUp
<1>9. ASSUME NEW p \in Device, DidDiscoverCharacteristics(p) PROVE RadioInv'
  BY <1>0, <1>9, RadioAnswers
  DEF DidDiscoverCharacteristics, Answers, ConnectFails, FinishConnect,
     connectVars,
      SettingUp
<1>10. ASSUME NEW p \in Device, DidUpdateNotificationState(p) PROVE RadioInv'
  BY <1>0, <1>10, RadioAnswers
  DEF DidUpdateNotificationState, Answers, ConnectFails, FinishConnect,
     connectVars
<1>11. ASSUME NEW p \in Device, DidReadValue(p) PROVE RadioInv'
  BY <1>0, <1>11, RadioAnswers DEF DidReadValue, Answers, linkVars, connectVars
<1>12. ASSUME NEW p \in Device, DidWriteValue(p) PROVE RadioInv'
  BY <1>0, <1>12, RadioAnswers DEF DidWriteValue, Answers, linkVars, connectVars
<1> QED
  BY <1>1, <1>2, <1>3, <1>4, <1>5, <1>6, <1>7, <1>8, <1>9, <1>10, <1>11, <1>12
  DEF Callbacks

-----------------------------------------------------------------------------
(* The requests of the link in use: one of the setup at most, and none once it *)
(* is over; one write at most, that of the write under way                     *)

SetupKinds == {"services", "characteristics", "notify"}

None(q, K) == \A i \in 1..Len(q) : q[i].kind \notin K
AtMostOne(q, K) == \A i, j \in 1..Len(q) : q[i].kind \in K /\ q[j].kind \in K => i = j

SetupOut(q, st) == /\ AtMostOne(q, SetupKinds)
                   /\ st \notin SettingUp => None(q, SetupKinds)

WriteOut(q, op) == /\ AtMostOne(q, {"write"})
                   /\ \A i \in 1..Len(q) : q[i].kind = "write" => q[i].op = op
                   /\ op = NoCall => None(q, {"write"})

QueueInv ==
  connected # NoDevice => SetupOut(gatt[connected], stage) /\ WriteOut(gatt[connected], writeOp)

\* What an answer to the oldest request leaves of the kinds asked for.
LEMMA TailKinds ==
  ASSUME NEW q \in Seq(Request), q # <<>>, NEW K
  PROVE  /\ None(q, K) => None(Tail(q), K)
         /\ AtMostOne(q, K) => AtMostOne(Tail(q), K)
         /\ AtMostOne(q, K) /\ Head(q).kind \in K => None(Tail(q), K)
<1>1. /\ Len(Tail(q)) = Len(q) - 1 /\ Len(q) \in Nat \ {0}
      /\ Head(q) = q[1]
      /\ \A i \in 1..Len(Tail(q)) : Tail(q)[i] = q[i + 1]
  OBVIOUS
<1>2. \A i \in 1..Len(Tail(q)) : i + 1 \in 1..Len(q) /\ i + 1 # 1 /\ i \in Int
  BY <1>1
<1>3. None(q, K) => None(Tail(q), K)
  BY <1>1, <1>2 DEF None
<1>4. AtMostOne(q, K) => AtMostOne(Tail(q), K)
  BY <1>1, <1>2 DEF AtMostOne
<1>5. AtMostOne(q, K) /\ Head(q).kind \in K => None(Tail(q), K)
  BY <1>1, <1>2 DEF AtMostOne, None
<1> QED
  BY <1>3, <1>4, <1>5

\* What a new request adds to the kinds asked for.
LEMMA AppendKinds ==
  ASSUME NEW q \in Seq(Request), NEW r, NEW K
  PROVE  /\ None(q, K) /\ r.kind \notin K => None(Append(q, r), K)
         /\ AtMostOne(q, K) /\ r.kind \notin K => AtMostOne(Append(q, r), K)
         /\ None(q, K) => AtMostOne(Append(q, r), K)
<1>1. /\ Len(Append(q, r)) = Len(q) + 1 /\ Len(q) \in Nat
      /\ Append(q, r)[Len(q) + 1] = r
      /\ \A i \in 1..Len(q) : Append(q, r)[i] = q[i]
  OBVIOUS
<1>2. \A i \in 1..Len(Append(q, r)) : i \in 1..Len(q) \/ i = Len(q) + 1
  BY <1>1
<1> QED
  BY <1>1, <1>2 DEF None, AtMostOne

\* Nothing is out on a link without requests.
LEMMA EmptyOut == SetupOut(<<>>, stage') /\ WriteOut(<<>>, writeOp')
BY DEF SetupOut, WriteOut, None, AtMostOne

\* What is asked next, and what the oldest answer leaves.
LEMMA SetupQueue ==
  ASSUME NEW q \in Seq(Request), NEW st, SetupOut(q, st)
  PROVE  /\ \A r : r.kind \notin SetupKinds => SetupOut(Append(q, r), st)
         /\ q # <<>> => SetupOut(Tail(q), st)
         /\ q # <<>> /\ Head(q).kind \in SetupKinds => \A s : SetupOut(Tail(q), s)
         /\ st \notin SettingUp => \A r : \A s \in SettingUp : SetupOut(Append(q, r), s)
BY TailKinds, AppendKinds DEF SetupOut, SetupKinds

\* How a write enters the queue of a link, and leaves it.
LEMMA WriteQueue ==
  ASSUME NEW q \in Seq(Request), NEW op, WriteOut(q, op)
  PROVE  /\ \A r : r.kind # "write" => WriteOut(Append(q, r), op)
         /\ q # <<>> => WriteOut(Tail(q), op)
         /\ q # <<>> /\ Head(q).kind = "write" => WriteOut(Tail(q), NoCall)
         /\ op = NoCall => \A c \in Call : WriteOut(Append(q, [kind |-> "write", op |-> c]), c)
<1>1. \A r : /\ Len(Append(q, r)) = Len(q) + 1 /\ Len(q) \in Nat
             /\ Append(q, r)[Len(q) + 1] = r
             /\ \A i \in 1..Len(q) : Append(q, r)[i] = q[i]
             /\ \A i \in 1..Len(Append(q, r)) : i \in 1..Len(q) \/ i = Len(q) + 1
  OBVIOUS
<1>2. q # <<>> => /\ \A i \in 1..Len(Tail(q)) : i + 1 \in 1..Len(q) /\ Tail(q)[i] = q[i + 1]
  OBVIOUS
<1>3. \A r : r.kind # "write" => WriteOut(Append(q, r), op)
  BY <1>1, AppendKinds DEF WriteOut
<1>4. q # <<>> => WriteOut(Tail(q), op)
  BY <1>2, TailKinds DEF WriteOut
<1>5. ASSUME q # <<>>, Head(q).kind = "write" PROVE WriteOut(Tail(q), NoCall)
  <2>1. None(Tail(q), {"write"}) /\ AtMostOne(Tail(q), {"write"})
    BY <1>5, TailKinds DEF WriteOut
  <2> QED
    BY <2>1 DEF WriteOut, None
<1>6. ASSUME op = NoCall, NEW c \in Call
      PROVE  WriteOut(Append(q, [kind |-> "write", op |-> c]), c)
  <2> DEFINE r == [kind |-> "write", op |-> c]
  <2>1. None(q, {"write"})
    BY <1>6 DEF WriteOut
  <2>2. AtMostOne(Append(q, r), {"write"})
    BY <2>1, AppendKinds
  <2>3. \A i \in 1..Len(Append(q, r)) : Append(q, r)[i].kind = "write" => Append(q, r)[i].op = c
    BY <1>1, <2>1 DEF None
  <2> QED
    BY <2>2, <2>3, CallAssumption DEF WriteOut
<1> QED
  BY <1>3, <1>4, <1>5, <1>6

\* Who touches neither link, queue, stage nor write disturbs nothing.
LEMMA QueueStays ==
  ASSUME QueueInv, UNCHANGED <<connected, gatt, stage, writeOp>>
  PROVE  QueueInv'
BY DEF QueueInv

\* A link that is gone, or has no request out.
LEMMA QueueGone ==
  ASSUME connected' = NoDevice \/ gatt'[connected'] = <<>>
  PROVE  QueueInv'
BY EmptyOut DEF QueueInv

\* beginConnect finds no setup under way: there was none, or no power.
LEMMA QueueBegins ==
  ASSUME IInv, RadioInv, QueueInv, NEW c, NEW found,
         BeginConnect(c, bound, found), UNCHANGED writeOp,
         stage \notin SettingUp
  PROVE  QueueInv'
<1> USE DEF IInv
<1>1. connected \in {bound, NoDevice} /\ bound \in Device /\ TypeOK
      /\ gatt[bound] \in Seq(Request)
  BY DEF Ownership, TypeOK
<1>2. CASE UNCHANGED <<link, gatt, connected>> /\ stage' = "none"
  <2>1. CASE connected = NoDevice
    BY <1>2, <2>1, QueueGone
  <2>2. CASE connected # NoDevice
    BY <1>2, <2>2 DEF QueueInv, SetupOut, SettingUp
  <2> QED
    BY <2>1, <2>2
<1>3. CASE /\ link[bound] = "connected" /\ connected' = bound
           /\ stage' = "discoveringServices" /\ Send(bound, "services", NoCall)
  <2>1. connected = bound /\ connected # NoDevice
    BY <1>1, <1>3, DeviceAssumption DEF NoOrphanLink
  <2>2. gatt'[bound] = Append(gatt[bound], [kind |-> "services", op |-> NoCall])
    BY <1>1, <1>3 DEF Send, TypeOK
  <2>3. SetupOut(gatt[bound], stage) /\ WriteOut(gatt[bound], writeOp)
    BY <2>1 DEF QueueInv
  <2>4. SetupOut(gatt'[bound], stage')
    BY <1>1, <1>3, <2>2, <2>3, SetupQueue DEF SettingUp
  <2>5. WriteOut(gatt'[bound], writeOp')
    BY <1>1, <2>2, <2>3, WriteQueue
  <2> QED
    BY <1>3, <2>4, <2>5 DEF QueueInv
<1>4. CASE /\ link[bound] \notin {"connected", "disconnecting"}
           /\ UNCHANGED <<gatt, connected>>
  <2>1. gatt[bound] = <<>>
    BY <1>1, <1>4 DEF RadioInv, TypeOK, LinkStates
  <2> QED
    BY <1>1, <1>4, <2>1, QueueGone
<1> QED
  BY <1>2, <1>3, <1>4 DEF BeginConnect

\* Calls ask for what stage and write say they do.
LEMMA CallsKeepQueue == ASSUME IInv, RadioInv, QueueInv, Calls PROVE QueueInv'
<1> USE KindsOfCall DEF IInv
<1>0. TypeOK /\ IInv
  OBVIOUS
<1>1. ASSUME NEW c, Refuse(c) PROVE QueueInv'
  BY <1>1, QueueStays DEF Refuse, cbVars, linkVars, writeVars
<1>2. ASSUME NEW c \in Connects, ConnectAccepted(c) PROVE QueueInv'
  <2>1. UNCHANGED writeOp
    BY <1>2 DEF ConnectAccepted, writeVars
  <2>2. stage \notin SettingUp
    BY <1>2 DEF ConnectAccepted, SetupIsPending, SettingUp
  <2>3. CASE BeginConnect(c, bound, {})
    BY <1>0, <2>1, <2>2, <2>3, QueueBegins
  <2>4. CASE central # "poweredOn" /\ UNCHANGED <<gatt, connected>>
    <3>1. connected = NoDevice \/ gatt[connected] = <<>>
      BY <2>4 DEF RadioInv, TypeOK
    <3> QED
      BY <2>4, <3>1, QueueGone
  <2> QED
    BY <1>2, <2>3, <2>4 DEF ConnectAccepted
<1>3. ASSUME NEW p \in Device, NEW kind \in {"read", "write"}, NEW c \in Call,
             Send(p, kind, c), p = connected, UNCHANGED <<connected, stage>>,
             \/ kind = "read" /\ UNCHANGED writeOp
             \/ kind = "write" /\ writeOp = NoCall /\ writeOp' = c
      PROVE  QueueInv'
  <2> DEFINE r == [kind |-> kind, op |-> c]
  <2>1. gatt'[p] = Append(gatt[p], r) /\ gatt[p] \in Seq(Request) /\ p # NoDevice
    BY <1>3, DeviceAssumption DEF Send, TypeOK
  <2>2. SetupOut(gatt[p], stage) /\ WriteOut(gatt[p], writeOp)
    BY <1>3, <2>1 DEF QueueInv
  <2>3. r.kind \notin SetupKinds /\ r.kind = kind
    BY DEF SetupKinds
  <2>4. SetupOut(gatt'[p], stage')
    BY <1>3, <2>1, <2>2, <2>3, SetupQueue
  <2>5. WriteOut(gatt'[p], writeOp')
    BY <1>3, <2>1, <2>2, <2>3, WriteQueue
  <2> QED
    BY <1>3, <2>4, <2>5 DEF QueueInv
<1>4. ASSUME NEW c \in Writes, WriteAccepted(c) PROVE QueueInv'
  <2>1. /\ connected \in Device /\ Send(connected, "write", c) /\ writeOp = NoCall
        /\ writeOp' = c /\ UNCHANGED <<connected, stage>> /\ c \in Call
    BY <1>0, <1>4 DEF WriteAccepted, Ready, TypeOK, linkVars
  <2> QED
    BY <1>3, <2>1
<1>5. ASSUME NEW c \in Reads, ReadAccepted(c) PROVE QueueInv'
  <2>1. connected \in Device /\ UNCHANGED <<connected, stage, writeOp>> /\ c \in Call
    BY <1>0, <1>5 DEF ReadAccepted, Ready, TypeOK, linkVars, writeVars
  <2>2. CASE Send(connected, "read", c)
    BY <1>3, <2>1, <2>2
  <2>3. CASE UNCHANGED gatt
    BY <2>1, <2>3, QueueStays
  <2> QED
    BY <1>5, <2>2, <2>3 DEF ReadAccepted
<1>6. ASSUME NEW c \in Disconnects,
             DisconnectJoin(c) \/ DisconnectAtOnce(c) \/ DisconnectBegin(c)
      PROVE  QueueInv'
  BY <1>6, QueueStays, QueueGone
  DEF DisconnectJoin, DisconnectAtOnce, DisconnectBegin, FinishDisconnect,
      BeginDisconnect, ForgetLink, cbVars, linkVars, writeVars
<1>7. ASSUME NEW c \in Scans, ScanAccepted(c) PROVE QueueInv'
  BY <1>7, QueueStays DEF ScanAccepted, linkVars, writeVars
<1>8. ASSUME NEW c \in Call, CancelTask(c) PROVE QueueInv'
  BY <1>8, QueueStays DEF CancelTask, cbVars, linkVars, writeVars
<1>9. ASSUME NEW p \in Device, Rebind(p) PROVE QueueInv'
  BY <1>9, QueueStays DEF Rebind, cbVars, linkVars, writeVars
<1> QED
  BY <1>1, <1>2, <1>4, <1>5, <1>6, <1>7, <1>8, <1>9
  DEF Calls, ConnectRefused, WriteRefused, ReadRefused, ScanRefused

\* A timer or a cancellation gives up the link with what it asked.
LEMMA TimersKeepQueue == ASSUME IInv, RadioInv, QueueInv, Timers PROVE QueueInv'
<1> USE KindsOfCall DEF IInv
<1>1. ASSUME NEW c \in Connects, NEW result, AbandonConnect(c, result) PROVE QueueInv'
  <2>1. UNCHANGED <<gatt, writeOp>>
    BY <1>1 DEF AbandonConnect
  <2>2. CASE BeginDisconnect(c, pending)
    BY <2>2, QueueGone DEF BeginDisconnect, ForgetLink
  <2>3. CASE /\ ~Found(pending) \/ disconnecting # NoDevice
             /\ stage' = "none" /\ UNCHANGED connected
    <3>1. CASE connected = NoDevice
      BY <2>3, <3>1, QueueGone
    <3>2. CASE connected # NoDevice
      <4>1. stage \notin SettingUp
        BY <2>3, <3>2 DEF Found, RadioInv, Ownership
      <4> QED
        BY <2>1, <2>3, <3>2, <4>1 DEF QueueInv, SetupOut
    <3> QED
      BY <3>1, <3>2
  <2> QED
    BY <1>1, <2>2, <2>3 DEF AbandonConnect
<1>2. ASSUME NEW c \in Writes, NEW p \in {writePeripheral, connected}, NEW result,
             AbandonWrite(c, p, result)
      PROVE  QueueInv'
  <2>1. connected' = NoDevice
    <3>1. CASE BeginDisconnect(c, p)
      BY <3>1 DEF BeginDisconnect, ForgetLink
    <3>2. CASE (p = NoDevice \/ disconnecting # NoDevice) /\ UNCHANGED linkVars
      <4>1. writePeripheral # NoDevice
        BY <1>2, CallAssumption DEF AbandonWrite, Ownership
      <4> QED
        BY <3>2, <4>1 DEF Ownership, linkVars
    <3> QED
      BY <1>2, <3>1, <3>2 DEF AbandonWrite
  <2> QED
    BY <2>1, QueueGone
<1>3. ASSUME NEW result, AbandonRead(result) PROVE QueueInv'
  BY <1>3, QueueStays DEF AbandonRead, cbVars, linkVars, writeVars
<1>4. ASSUME ScanTimer PROVE QueueInv'
  BY <1>4, QueueStays DEF ScanTimer, cbVars, linkVars, writeVars
<1>5. ASSUME NEW c \in Call, NEW p \in Device, DisconnectTimer(c, p) PROVE QueueInv'
  BY <1>5, QueueStays, QueueGone
  DEF DisconnectTimer, FinishDisconnect, ForgetLink, cbVars, linkVars
<1>6. ASSUME NEW p \in Device, QuarantineExpires(p) PROVE QueueInv'
  BY <1>6, QueueStays DEF QuarantineExpires, cbVars, linkVars, writeVars
<1> QED
  BY <1>1, <1>2, <1>3, <1>4, <1>5, <1>6
  DEF Timers, TimeoutConnect, CancelConnect, TimeoutWrite, CancelWrite,
     TimeoutRead,
      CancelRead

\* An answer on any link: the queue of the link in use loses its oldest request if
\* the answer is its own, and may gain the next of the setup.
LEMMA AnswerKeepsQueue ==
  ASSUME TypeOK, QueueInv, NEW p \in Device, gatt[p] # <<>>, UNCHANGED connected,
         \/ /\ gatt' = [gatt EXCEPT ![p] = Tail(@)] /\ UNCHANGED writeOp
            /\ \/ stage' = stage
               \/ p = connected /\ Head(gatt[p]).kind \in SetupKinds
         \/ /\ gatt' = [gatt EXCEPT ![p] = Tail(@)] /\ UNCHANGED stage
            /\ p = connected /\ Head(gatt[p]).kind = "write" /\ writeOp' = NoCall
         \/ \E kind \in SetupKinds :
              /\ gatt' = [gatt EXCEPT ![p] = Append(Tail(@), [kind |-> kind, op |-> NoCall])]
              /\ p = connected /\ Head(gatt[p]).kind \in SetupKinds
              /\ stage' \in SettingUp /\ UNCHANGED writeOp
  PROVE  QueueInv'
<1>1. gatt[p] \in Seq(Request) /\ Tail(gatt[p]) \in Seq(Request) /\ p # NoDevice
  BY DeviceAssumption DEF TypeOK
<1>2. CASE p # connected
  <2>1. connected # NoDevice => gatt'[connected] = gatt[connected] /\ UNCHANGED <<stage, writeOp>>
    BY <1>2 DEF TypeOK
  <2> QED
    BY <2>1 DEF QueueInv
<1>3. CASE p = connected
  <2>1. SetupOut(gatt[p], stage) /\ WriteOut(gatt[p], writeOp)
    BY <1>1, <1>3 DEF QueueInv
  <2>2. /\ SetupOut(Tail(gatt[p]), stage) /\ WriteOut(Tail(gatt[p]), writeOp)
        /\ Head(gatt[p]).kind \in SetupKinds => \A s : SetupOut(Tail(gatt[p]), s)
        /\ Head(gatt[p]).kind = "write" => WriteOut(Tail(gatt[p]), NoCall)
    BY <1>1, <2>1, SetupQueue, WriteQueue
  <2>3. CASE gatt' = [gatt EXCEPT ![p] = Tail(@)]
    <3>1. gatt'[p] = Tail(gatt[p])
      BY <2>3 DEF TypeOK
    <3>2. \/ UNCHANGED writeOp
             /\ (stage' = stage \/ Head(gatt[p]).kind \in SetupKinds)
          \/ UNCHANGED stage /\ Head(gatt[p]).kind = "write" /\ writeOp' = NoCall
          \/ UNCHANGED writeOp /\ Head(gatt[p]).kind \in SetupKinds
      OBVIOUS
    <3> QED
      BY <1>3, <2>2, <3>1, <3>2 DEF QueueInv
  <2>4. ASSUME NEW kind \in SetupKinds,
               gatt' = [gatt EXCEPT ![p] = Append(Tail(@), [kind |-> kind, op |-> NoCall])],
               Head(gatt[p]).kind \in SetupKinds, stage' \in SettingUp, UNCHANGED writeOp
        PROVE  QueueInv'
    <3> DEFINE r == [kind |-> kind, op |-> NoCall]
    <3>1. gatt'[p] = Append(Tail(gatt[p]), r)
      BY <2>4 DEF TypeOK
    <3>2. SetupOut(Tail(gatt[p]), "none") /\ "none" \notin SettingUp
      BY <2>2, <2>4 DEF SettingUp
    <3>0. \A s \in SettingUp : SetupOut(Append(Tail(gatt[p]), r), s)
      <4> HIDE DEF r
      <4> QED
        BY <1>1, <3>2, SetupQueue
    <3>3. SetupOut(gatt'[p], stage')
      BY <2>4, <3>0, <3>1
    <3>4. r.kind # "write"
      BY <2>4 DEF SetupKinds
    <3>5. WriteOut(Append(Tail(gatt[p]), r), writeOp)
      BY <1>1, <2>2, <3>4, WriteQueue
    <3>6. WriteOut(gatt'[p], writeOp')
      BY <2>4, <3>1, <3>5
    <3> QED
      BY <1>3, <3>3, <3>6 DEF QueueInv
  <2> QED
    BY <2>3, <2>4
<1> QED
  BY <1>2, <1>3

\* An answer moves the stage by what it answers.
LEMMA CallbacksKeepQueue ==
  ASSUME IInv, RadioInv, QueueInv, Callbacks
  PROVE  QueueInv'
<1> USE DEF IInv
<1>0. TypeOK /\ IInv
  OBVIOUS
<1>1. ASSUME PoweredOn PROVE QueueInv'
  <2>1. UNCHANGED writeOp
    BY <1>1 DEF PoweredOn, writeVars
  <2>2. CASE stage = "waitingForPower"
    <3>1. pending = bound /\ stage \notin SettingUp
      BY <2>2 DEF SetupIsPending, Ownership, SettingUp
    <3>2. PICK found : BeginConnect(connectOp, bound, found)
      BY <1>1, <2>2, <3>1 DEF PoweredOn
    <3> QED
      BY <1>0, <2>1, <3>1, <3>2, QueueBegins
  <2>3. CASE stage # "waitingForPower"
    BY <1>1, <2>1, <2>3, QueueStays DEF PoweredOn
  <2> QED
    BY <2>2, <2>3
<1>2. ASSUME PoweredOff \/ Resetting PROVE QueueInv'
  <2>1. connected' = connected /\ \A p \in Device : gatt'[p] = <<>>
    BY <1>2 DEF PoweredOff, Resetting, DropLinks, linkVars
  <2>2. connected \in Device \cup {NoDevice}
    BY DEF TypeOK
  <2> QED
    BY <2>1, <2>2, QueueGone
<1>3. ASSUME NEW p \in Device, DidDiscover(p) PROVE QueueInv'
  BY <1>3, QueueStays DEF DidDiscover, linkVars, writeVars
<1>4. ASSUME NEW p \in Device, DidConnect(p) PROVE QueueInv'
  <2>1. UNCHANGED writeOp
    BY <1>4 DEF DidConnect, writeVars
  <2>2. CASE UNCHANGED <<connected, stage, gatt>>
    BY <2>1, <2>2, QueueStays
  <2>3. CASE /\ link[p] = "connecting" \/ p \in late
             /\ connected' = p
             /\ stage' = "discoveringServices" /\ Send(p, "services", NoCall)
    <3>1. gatt[p] = <<>> /\ <<>> \in Seq(Request)
      BY <2>3 DEF RadioInv
    <3>2. gatt'[p] = Append(<<>>, [kind |-> "services", op |-> NoCall])
      BY <2>3, <3>1 DEF Send, TypeOK
    <3>3. SetupOut(<<>>, "none") /\ WriteOut(<<>>, writeOp) /\ "none" \notin SettingUp
      BY DEF SetupOut, WriteOut, None, AtMostOne, SettingUp
    <3>4. SetupOut(gatt'[p], stage')
      BY <2>3, <3>1, <3>2, <3>3, SetupQueue DEF SettingUp
    <3>5. WriteOut(gatt'[p], writeOp')
      BY <2>1, <3>1, <3>2, <3>3, WriteQueue
    <3> QED
      BY <2>3, <3>4, <3>5 DEF QueueInv
  <2> QED
    BY <1>4, <2>2, <2>3 DEF DidConnect
<1>5. ASSUME NEW p \in Device, LinkDown(p), UNCHANGED <<connected, writeOp>>,
             stage' = stage \/ (stage \notin SettingUp /\ stage' = "none")
      PROVE  QueueInv'
  <2>1. CASE p = connected
    <3>1. gatt'[p] = <<>>
      BY <1>5 DEF LinkDown, TypeOK
    <3> QED
      BY <1>5, <2>1, <3>1, QueueGone
  <2>2. CASE p # connected
    <3>1. connected # NoDevice => gatt'[connected] = gatt[connected]
      BY <1>5, <2>2 DEF LinkDown, TypeOK
    <3> QED
      BY <1>5, <3>1 DEF QueueInv, SetupOut, SettingUp
  <2> QED
    BY <2>1, <2>2
<1>6. ASSUME NEW p \in Device, DidFailToConnect(p) PROVE QueueInv'
  <2>1. LinkDown(p) /\ UNCHANGED <<connected, writeOp>>
    BY <1>6 DEF DidFailToConnect, writeVars
  <2>2. stage' = stage \/ (stage = "connecting" /\ stage' = "none")
    BY <1>6 DEF DidFailToConnect
  <2> QED
    BY <1>5, <2>1, <2>2 DEF SettingUp
<1>7. ASSUME NEW p \in Device, DidDisconnect(p) PROVE QueueInv'
  <2>1. CASE DisconnectIgnored(p)
    <3>1. LinkDown(p) /\ UNCHANGED <<connected, writeOp, stage>>
      BY <1>7, <2>1 DEF DidDisconnect, DisconnectIgnored, linkVars, writeVars
    <3> QED
      BY <1>5, <3>1
  <2>2. CASE DisconnectDone(p) \/ LinkLost(p)
    BY <2>2, QueueGone DEF DisconnectDone, FinishDisconnect, ForgetLink,
       LinkLost
  <2> QED
    BY <1>7, <2>1, <2>2 DEF DidDisconnect
<1>8. ASSUME NEW p \in Device, DidDiscoverServices(p) PROVE QueueInv'
  BY <1>0, <1>8, AnswerKeepsQueue
  DEF DidDiscoverServices, Answers, ConnectFails, writeVars, SetupKinds,
     SettingUp
<1>9. ASSUME NEW p \in Device, DidDiscoverCharacteristics(p) PROVE QueueInv'
  BY <1>0, <1>9, AnswerKeepsQueue
  DEF DidDiscoverCharacteristics, Answers, ConnectFails, FinishConnect,
     writeVars,
      SetupKinds, SettingUp
<1>10. ASSUME NEW p \in Device, DidUpdateNotificationState(p) PROVE QueueInv'
  BY <1>0, <1>10, AnswerKeepsQueue
  DEF DidUpdateNotificationState, Answers, ConnectFails, FinishConnect,
     writeVars,
      SetupKinds
<1>11. ASSUME NEW p \in Device, DidReadValue(p) PROVE QueueInv'
  BY <1>0, <1>11, AnswerKeepsQueue DEF DidReadValue, Answers, linkVars,
     writeVars
<1>12. ASSUME NEW p \in Device, DidWriteValue(p) PROVE QueueInv'
  BY <1>0, <1>12, AnswerKeepsQueue
  DEF DidWriteValue, Answers, ClearWriteOp, linkVars, writeVars
<1> QED
  BY <1>1, <1>2, <1>3, <1>4, <1>6, <1>7, <1>8, <1>9, <1>10, <1>11, <1>12
     DEF Callbacks

-----------------------------------------------------------------------------
(* The command channel *)

CommandInv ==
  /\ "command" \in characteristics => connected \in V2Devices
  /\ ReadyMeansSubscribed

\* A setup that ends, or a link that drops, makes nothing ready.
LEMMA CommandStays ==
  ASSUME CommandInv, UNCHANGED <<connected, characteristics>>, stage' \in {stage, "none"},
         \A d \in Device : link'[d] = "connected" => link[d] = "connected" /\ notifying'[d] = notifying[d],
         connected \in Device \cup {NoDevice}
  PROVE  CommandInv'
BY DEF CommandInv, ReadyMeansSubscribed, Ready

\* The link is gone, or not ready; a new link has no command channel yet.
LEMMA CommandNotReady ==
  ASSUME CommandInv,
         \/ characteristics' = {}
         \/ UNCHANGED characteristics /\ connected' \in Device /\ connected \in {connected', NoDevice}
         \/ UNCHANGED <<characteristics, connected>>,
         stage' # "ready" \/ connected' = NoDevice
  PROVE  CommandInv'
BY DeviceAssumption DEF CommandInv, ReadyMeansSubscribed, Ready

\* No call makes the command channel ready.
LEMMA CallsKeepCommand == ASSUME IInv, CommandInv, Calls PROVE CommandInv'
<1> USE KindsOfCall DEF IInv
<1>0. /\ connected \in Device \cup {NoDevice} /\ bound \in Device
      /\ connected \in {bound, NoDevice}
  BY DEF TypeOK, Ownership
<1>1. ASSUME NEW c, Refuse(c) PROVE CommandInv'
  BY <1>0, <1>1, CommandStays DEF Refuse, cbVars, linkVars
<1>2. ASSUME NEW c \in Connects, ConnectAccepted(c) PROVE CommandInv'
  BY <1>0, <1>2, CommandNotReady DEF ConnectAccepted, BeginConnect
<1>3. ASSUME NEW c \in Call, WriteAccepted(c) \/ ReadAccepted(c) PROVE CommandInv'
  BY <1>0, <1>3, CommandStays DEF WriteAccepted, ReadAccepted, linkVars
<1>4. ASSUME NEW c \in Disconnects, DisconnectJoin(c) PROVE CommandInv'
  BY <1>0, <1>4, CommandStays DEF DisconnectJoin, cbVars, linkVars
<1>5. ASSUME NEW c \in Disconnects, DisconnectAtOnce(c) \/ DisconnectBegin(c)
      PROVE  CommandInv'
  BY <1>5, CommandNotReady
  DEF DisconnectAtOnce, DisconnectBegin, FinishDisconnect, BeginDisconnect,
     ForgetLink
<1>6. ASSUME NEW c \in Scans, ScanAccepted(c) PROVE CommandInv'
  BY <1>0, <1>6, CommandStays DEF ScanAccepted, linkVars
<1>7. ASSUME NEW c \in Call, CancelTask(c) PROVE CommandInv'
  BY <1>0, <1>7, CommandStays DEF CancelTask, cbVars, linkVars
<1>8. ASSUME NEW p \in Device, Rebind(p) PROVE CommandInv'
  BY <1>0, <1>8, CommandStays DEF Rebind, cbVars, linkVars
<1> QED
  BY <1>1, <1>2, <1>3, <1>4, <1>5, <1>6, <1>7, <1>8
  DEF Calls, ConnectRefused, WriteRefused, ReadRefused, ScanRefused

\* No timer makes the command channel ready.
LEMMA TimersKeepCommand == ASSUME IInv, CommandInv, Timers PROVE CommandInv'
<1> USE KindsOfCall DEF IInv
<1>0. connected \in Device \cup {NoDevice}
  BY DEF TypeOK
<1>1. ASSUME NEW c \in Connects, NEW result, AbandonConnect(c, result) PROVE CommandInv'
  BY <1>0, <1>1, CommandNotReady DEF AbandonConnect, BeginDisconnect, ForgetLink
<1>2. ASSUME NEW c \in Writes, NEW p, NEW result, AbandonWrite(c, p, result)
      PROVE  CommandInv'
  <2>1. CASE BeginDisconnect(c, p)
    BY <2>1, CommandNotReady DEF BeginDisconnect, ForgetLink
  <2>2. CASE UNCHANGED <<link, notifying, linkVars>>
    BY <1>0, <2>2, CommandStays DEF linkVars
  <2> QED
    BY <1>2, <2>1, <2>2 DEF AbandonWrite
<1>3. ASSUME NEW result, AbandonRead(result) PROVE CommandInv'
  BY <1>0, <1>3, CommandStays DEF AbandonRead, cbVars, linkVars
<1>4. ASSUME ScanTimer PROVE CommandInv'
  BY <1>0, <1>4, CommandStays DEF ScanTimer, cbVars, linkVars
<1>5. ASSUME NEW c \in Call, NEW p \in Device, DisconnectTimer(c, p) PROVE CommandInv'
  BY <1>0, <1>5, CommandStays, CommandNotReady
  DEF DisconnectTimer, FinishDisconnect, ForgetLink, cbVars, linkVars
<1>6. ASSUME NEW p \in Device, QuarantineExpires(p) PROVE CommandInv'
  BY <1>0, <1>6, CommandStays DEF QuarantineExpires, cbVars, linkVars
<1> QED
  BY <1>1, <1>2, <1>3, <1>4, <1>5, <1>6
  DEF Timers, TimeoutConnect, CancelConnect, TimeoutWrite, CancelWrite,
     TimeoutRead,
      CancelRead

\* Only the confirmed CCCD write makes the command channel ready.
LEMMA CallbacksKeepCommand ==
  ASSUME IInv, RadioInv, QueueInv, CommandInv, Callbacks
  PROVE  CommandInv'
<1> USE DEF IInv
<1>0. connected \in Device \cup {NoDevice} /\ bound \in Device /\ TypeOK
      /\ connected \in {bound, NoDevice}
  BY DEF TypeOK, Ownership
<1>1. ASSUME PoweredOn PROVE CommandInv'
  <2>1. UNCHANGED <<characteristics, notifying>>
    BY <1>1 DEF PoweredOn
  <2>2. CASE stage = "waitingForPower"
    <3>1. pending = bound
      BY <2>2 DEF SetupIsPending, Ownership
    <3>2. PICK found : BeginConnect(connectOp, bound, found)
      BY <1>1, <2>2, <3>1 DEF PoweredOn
    <3> QED
      BY <1>0, <2>1, <3>2, CommandNotReady DEF BeginConnect
  <2>3. CASE stage # "waitingForPower"
    BY <1>0, <1>1, <2>1, <2>3, CommandStays DEF PoweredOn
  <2> QED
    BY <2>2, <2>3
<1>2. ASSUME PoweredOff \/ Resetting PROVE CommandInv'
  BY <1>0, <1>2, CommandStays DEF PoweredOff, Resetting, DropLinks, linkVars
<1>3. ASSUME NEW p \in Device, DidDiscover(p) PROVE CommandInv'
  BY <1>0, <1>3, CommandStays DEF DidDiscover, linkVars
<1>4. ASSUME NEW p \in Device, DidConnect(p) PROVE CommandInv'
  <2>1. UNCHANGED <<characteristics, notifying>>
    BY <1>4 DEF DidConnect
  <2>2. CASE p = pending /\ connected' = p /\ stage' = "discoveringServices"
    <3>1. p = bound
      BY <1>4, <2>2, DeviceAssumption DEF Ownership
    <3> QED
      BY <1>0, <2>1, <2>2, <3>1, CommandNotReady
  <2>3. CASE UNCHANGED <<connected, stage>> /\ HangUp(p)
    BY <1>0, <2>1, <2>3, CommandStays DEF HangUp, TypeOK
  <2> QED
    BY <1>4, <2>2, <2>3 DEF DidConnect
<1>5. ASSUME NEW p \in Device, LinkDown(p), UNCHANGED <<connected, characteristics>>,
             stage' \in {stage, "none"}
      PROVE  CommandInv'
  BY <1>0, <1>5, CommandStays DEF LinkDown, TypeOK
<1>6. ASSUME NEW p \in Device, DidFailToConnect(p) PROVE CommandInv'
  BY <1>5, <1>6 DEF DidFailToConnect
<1>7. ASSUME NEW p \in Device, DidDisconnect(p) PROVE CommandInv'
  <2>1. CASE DisconnectIgnored(p)
    BY <1>5, <1>7, <2>1 DEF DidDisconnect, DisconnectIgnored, linkVars
  <2>2. CASE DisconnectDone(p) \/ LinkLost(p)
    BY <2>2, CommandNotReady DEF DisconnectDone, FinishDisconnect, ForgetLink,
       LinkLost
  <2> QED
    BY <1>7, <2>1, <2>2 DEF DidDisconnect
<1>8. ASSUME NEW p \in Device, DidDiscoverServices(p) PROVE CommandInv'
  BY <1>0, <1>8, CommandStays, CommandNotReady DEF DidDiscoverServices,
     ConnectFails
<1>9. ASSUME NEW p \in Device, DidDiscoverCharacteristics(p) PROVE CommandInv'
  <2>1. UNCHANGED <<connected, link, notifying>>
    BY <1>9 DEF DidDiscoverCharacteristics
  <2>2. CASE UNCHANGED characteristics /\ stage' \in {stage, "none"}
    BY <1>0, <2>1, <2>2, CommandStays
  <2>3. CASE /\ p = connected
             /\ characteristics' = {"quota"} \cup Optional(p) \cup (characteristics \cap {"command"})
             /\ stage' = "subscribingCommands" \/ "command" \notin Optional(p)
    <3>1. "command" \in characteristics' => connected' \in V2Devices
      BY <2>1, <2>3 DEF CommandInv, Optional
    <3>2. "command" \notin Optional(p) => "command" \notin characteristics'
      BY <2>3 DEF CommandInv, Optional
    <3> QED
      BY <2>3, <3>1, <3>2 DEF CommandInv, ReadyMeansSubscribed, Ready
  <2> QED
    BY <1>9, <2>2, <2>3 DEF DidDiscoverCharacteristics, ConnectFails,
       FinishConnect
<1>10. ASSUME NEW p \in Device, DidUpdateNotificationState(p) PROVE CommandInv'
  <2>1. UNCHANGED <<connected, link, characteristics>>
    BY <1>10 DEF DidUpdateNotificationState
  <2>2. /\ \A d \in Device : d # p => notifying'[d] = notifying[d]
        /\ \/ stage' = "ready" /\ p = connected /\ notifying'[p] = TRUE
           \/ stage' \in {stage, "none"}
    BY <1>0, <1>10
    DEF DidUpdateNotificationState, ConnectFails, FinishConnect, TypeOK
  <2>3. p = connected => stage # "ready"
    <3>1. ASSUME p = connected, stage = "ready" PROVE FALSE
      <4>1. None(gatt[p], SetupKinds)
        BY <3>1, DeviceAssumption DEF QueueInv, SetupOut, SettingUp
      <4>2. gatt[p] \in Seq(Request) /\ gatt[p] # <<>> /\ Head(gatt[p]).kind = "notify"
        BY <1>10 DEF DidUpdateNotificationState, Answers, TypeOK
      <4>3. 1 \in 1..Len(gatt[p]) /\ Head(gatt[p]) = gatt[p][1]
        BY <4>2
      <4> QED
        BY <4>1, <4>2, <4>3 DEF None, SetupKinds
    <3> QED
      BY <3>1
  <2> QED
    BY <1>0, <2>1, <2>2, <2>3 DEF CommandInv, ReadyMeansSubscribed, Ready
<1>11. ASSUME NEW p \in Device, DidReadValue(p) \/ DidWriteValue(p) PROVE CommandInv'
  BY <1>0, <1>11, CommandStays DEF DidReadValue, DidWriteValue, linkVars
<1> QED
  BY <1>1, <1>2, <1>3, <1>4, <1>6, <1>7, <1>8, <1>9, <1>10, <1>11 DEF Callbacks

\* Power, requests and command channel agree in every state.
LEMMA ChannelInvariant == Spec => [](RadioInv /\ QueueInv /\ CommandInv)
<1>1. Init => RadioInv /\ QueueInv /\ CommandInv
  BY DeviceAssumption
  DEF Init, RadioInv, SettingUp, QueueInv, CommandInv, ReadyMeansSubscribed,
     Ready
<1>2. IInv /\ RadioInv /\ QueueInv /\ CommandInv /\ [Next]_vars
        => (RadioInv /\ QueueInv /\ CommandInv)'
  <2> SUFFICES ASSUME IInv, RadioInv, QueueInv, CommandInv, [Next]_vars
               PROVE  (RadioInv /\ QueueInv /\ CommandInv)'
    OBVIOUS
  <2>1. CASE Next
    BY <2>1, CallsKeepRadio, TimersKeepRadio, CallbacksKeepRadio,
       CallsKeepQueue,
       TimersKeepQueue, CallbacksKeepQueue, CallsKeepCommand, TimersKeepCommand,
       CallbacksKeepCommand DEF Next
  <2>2. CASE UNCHANGED vars
    <3>1. connected \in Device \cup {NoDevice}
      BY DEF IInv, TypeOK
    <3> QED
      BY <2>2, <3>1, RadioStays, QueueStays, CommandStays
      DEF vars, cbVars, linkVars, connectVars, writeVars
  <2> QED
    BY <2>1, <2>2
<1> QED
  BY <1>1, <1>2, TransportInvariant, PTL DEF Spec

\* The transport is ready with a command channel only once the CCCD write of that
\* very link is confirmed (didUpdateNotificationState), whatever was answered late.
THEOREM ReadySubscribed == Spec => []ReadyMeansSubscribed
<1>1. CommandInv => ReadyMeansSubscribed
  BY DEF CommandInv
<1> QED
  BY <1>1, ChannelInvariant, PTL

-----------------------------------------------------------------------------
(* Acknowledgements *)

\* What WriteAcknowledged says of a step.
Acknowledged ==
  \A c \in Writes :
    status[c] = "pending" /\ status'[c] = "ok" =>
      \E p \in Device : /\ gatt[p] # <<>>
                        /\ Head(gatt[p]) = [kind |-> "write", op |-> c]
                        /\ gatt'[p] = Tail(gatt[p])

\* A step in which no write succeeds.
LEMMA NotServed ==
  ASSUME NEW S, NEW result, status' = Returned(S, result),
         result = "ok" => S \cap Writes = {}
  PROVE  Acknowledged
BY KindsOfCall DEF Returned, Acknowledged

\* Where nobody returns, no write succeeds.
LEMMA Unserved == ASSUME UNCHANGED status PROVE Acknowledged
BY DEF Acknowledged

\* A call lets no write succeed.
LEMMA CallsAcknowledge == ASSUME IInv, ClientInv, Calls PROVE Acknowledged
<1> USE KindsOfCall DEF IInv
<1>1. ASSUME NEW c \in Call,
             \/ Refuse(c) \/ WriteAccepted(c) \/ DisconnectJoin(c) \/ ScanAccepted(c)
             \/ ConnectAccepted(c)
      PROVE  Acknowledged
  BY <1>1, NotServed
  DEF Refuse, WriteAccepted, DisconnectJoin, ScanAccepted, ConnectAccepted,
     BeginConnect
<1>2. ASSUME NEW c \in Reads, ReadAccepted(c) PROVE Acknowledged
  BY <1>2, NotServed, CallAssumption DEF ReadAccepted
<1>3. ASSUME NEW c \in Disconnects, DisconnectAtOnce(c) \/ DisconnectBegin(c)
      PROVE  Acknowledged
  <2>1. waiters \cap Writes = {} /\ c \notin Writes
    BY CallAssumption DEF TypeOK
  <2> QED
    BY <1>3, <2>1 DEF DisconnectAtOnce, DisconnectBegin, Acknowledged
<1>4. ASSUME NEW c \in Call, CancelTask(c) PROVE Acknowledged
  BY <1>4, Unserved DEF CancelTask
<1>5. ASSUME NEW p \in Device, Rebind(p) PROVE Acknowledged
  BY <1>5, Unserved DEF Rebind
<1> QED
  BY <1>1, <1>2, <1>3, <1>4, <1>5
  DEF Calls, ConnectRefused, WriteRefused, ReadRefused, ScanRefused

\* A timer or a cancellation lets no write succeed.
LEMMA TimersAcknowledge == ASSUME IInv, Timers PROVE Acknowledged
<1> USE DEF IInv
<1>1. ASSUME NEW c \in Connects, TimeoutConnect(c) \/ CancelConnect(c) PROVE Acknowledged
  BY <1>1, NotServed DEF TimeoutConnect, CancelConnect, AbandonConnect
<1>2. ASSUME NEW c \in Writes, TimeoutWrite(c) \/ CancelWrite(c) PROVE Acknowledged
  BY <1>2, NotServed DEF TimeoutWrite, CancelWrite, AbandonWrite
<1>3. ASSUME NEW c \in Reads, TimeoutRead(c) \/ CancelRead(c) PROVE Acknowledged
  BY <1>3, NotServed DEF TimeoutRead, CancelRead, AbandonRead
<1>4. ASSUME ScanTimer PROVE Acknowledged
  <2>1. {scanOp} \cap Writes = {}
    BY CallAssumption, KindsOfCall DEF TypeOK
  <2> QED
    BY <1>4, <2>1, NotServed DEF ScanTimer
<1>5. ASSUME NEW c \in Call, NEW p \in Device, DisconnectTimer(c, p) PROVE Acknowledged
  <2>1. waiters \cap Writes = {}
    BY CallAssumption DEF TypeOK
  <2> QED
    BY <1>5, <2>1, NotServed, Unserved DEF DisconnectTimer
<1>6. ASSUME NEW p \in Device, QuarantineExpires(p) PROVE Acknowledged
  BY <1>6, Unserved DEF QuarantineExpires, clientVars
<1> QED
  BY <1>1, <1>2, <1>3, <1>4, <1>5, <1>6 DEF Timers

\* A write succeeds by the answer to its own request.
LEMMA CallbacksAcknowledge ==
  ASSUME IInv, QueueInv, Callbacks
  PROVE  Acknowledged
<1> USE DEF IInv
<1>0. waiters \cap Writes = {} /\ connectOp \notin Writes /\ readOp \notin Writes
  BY CallAssumption, KindsOfCall DEF TypeOK
<1>1. ASSUME PoweredOn \/ PoweredOff \/ Resetting PROVE Acknowledged
  BY <1>1, NotServed, Unserved DEF PoweredOn, BeginConnect, PoweredOff,
     Resetting, clientVars
<1>2. ASSUME NEW p \in Device, DidDiscover(p) \/ DidConnect(p) \/ DidFailToConnect(p)
      PROVE  Acknowledged
  BY <1>2, NotServed, Unserved DEF DidDiscover, DidConnect, DidFailToConnect,
     clientVars
<1>3. ASSUME NEW p \in Device, DidDisconnect(p) PROVE Acknowledged
  BY <1>0, <1>3, NotServed, Unserved
  DEF DidDisconnect, DisconnectIgnored, DisconnectDone, LinkLost
<1>4. ASSUME NEW p \in Device,
             \/ DidDiscoverServices(p) \/ DidDiscoverCharacteristics(p)
             \/ DidUpdateNotificationState(p)
      PROVE  Acknowledged
  <2>1. UNCHANGED status \/ ConnectFails \/ FinishConnect(p)
    BY <1>4 DEF DidDiscoverServices, DidDiscoverCharacteristics,
       DidUpdateNotificationState
  <2> QED
    BY <1>0, <2>1, NotServed, Unserved DEF ConnectFails, FinishConnect
<1>5. ASSUME NEW p \in Device, DidReadValue(p) PROVE Acknowledged
  BY <1>0, <1>5, NotServed, Unserved DEF DidReadValue
<1>6. ASSUME NEW p \in Device, DidWriteValue(p) PROVE Acknowledged
  <2>1. CASE UNCHANGED status
    BY <2>1, Unserved
  <2>2. CASE p = connected /\ \E result \in {"ok", "failed"} :
                                status' = Returned({writeOp} \ {NoCall}, result)
    <3>1. /\ gatt[p] \in Seq(Request) /\ gatt[p] # <<>> /\ Head(gatt[p]).kind = "write"
          /\ gatt'[p] = Tail(gatt[p])
      BY <1>6 DEF DidWriteValue, Answers, TypeOK
    <3>2. Head(gatt[p]) = gatt[p][1] /\ 1 \in 1..Len(gatt[p]) /\ gatt[p][1] \in Request
      BY <3>1
    <3>3. Head(gatt[p]).op = writeOp
      BY <2>2, <3>1, <3>2, DeviceAssumption DEF QueueInv, WriteOut
    <3>4. Head(gatt[p]) = [kind |-> "write", op |-> writeOp]
      BY <3>1, <3>2, <3>3 DEF Request
    <3>5. \A c \in Writes : status[c] = "pending" /\ status'[c] = "ok" => c = writeOp
      BY <2>2, KindsOfCall DEF Returned
    <3> QED
      BY <3>1, <3>4, <3>5 DEF Acknowledged
  <2> QED
    BY <1>6, <2>1, <2>2 DEF DidWriteValue
<1> QED
  BY <1>1, <1>2, <1>3, <1>4, <1>5, <1>6 DEF Callbacks

\* A write succeeds by the acknowledgement of its own request, never by that of an
\* earlier write or of an earlier connection (didWriteValueFor).
THEOREM WritesAcknowledged == Spec => WriteAcknowledged
<1>1. IInv /\ ClientInv /\ QueueInv /\ [Next]_vars => [Acknowledged]_vars
  BY CallsAcknowledge, TimersAcknowledge, CallbacksAcknowledge DEF Next
<1>2. [Acknowledged]_vars
        => [\A c \in Writes :
              status[c] = "pending" /\ status'[c] = "ok" =>
                \E p \in Device :
                  /\ gatt[p] # <<>>
                  /\ Head(gatt[p]) = [kind |-> "write", op |-> c]
                  /\ gatt'[p] = Tail(gatt[p])]_vars
  BY DEF Acknowledged
<1> QED
  BY <1>1, <1>2, TransportInvariant, ClientsServed, ChannelInvariant, PTL
  DEF Spec, WriteAcknowledged
=============================================================================
