---------------------------- MODULE BleTransport ----------------------------
(***************************************************************************)
(* CoreBluetoothTransport, the Mac side of the BLE link                    *)
(* (Sources/TokenLinkDevice/CoreBluetoothDeviceBridge.swift).              *)
(*                                                                         *)
(* The class runs every block on one serial dispatch queue: a block is one *)
(* action here.  The blocks are the calls of its clients (scan, connect,   *)
(* write, read, disconnect), the timers they arm, the cancellation         *)
(* handlers of their tasks and the delegate callbacks of CoreBluetooth.    *)
(* Calls are one-shot: a call c is also the operationID its block creates, *)
(* and the operationID of the disconnect it begins.  Timers carry no       *)
(* clock: once armed, a timer may fire at any later point.                 *)
(*                                                                         *)
(* CoreBluetooth itself is external: a link state per peripheral, the GATT *)
(* requests outstanding on the link, answered in order, and the state of   *)
(* the central manager.                                                    *)
(***************************************************************************)
EXTENDS Integers, Sequences

CONSTANTS
  Device,        \* peripherals: the identifier and its one CBPeripheral
  Connects,      \* calls of connect(identifier:)
  Writes,        \* calls of writeWithResponse(_:)
  Reads,         \* calls of readCapabilities()
  Disconnects,   \* calls of disconnect()
  Scans,         \* calls of discoveredIdentifiers()
  V2Devices,     \* devices whose firmware has the protocol v2 characteristics
  NoDevice,      \* a nil peripheral or identifier
  NoCall,        \* a nil continuation (and its nil operationID)
  MaxScanTimers  \* bound on the scan timers armed at once

Call == Connects \cup Writes \cup Reads \cup Disconnects \cup Scans

ASSUME DeviceAssumption == NoDevice \notin Device /\ V2Devices \subseteq Device
ASSUME CallAssumption ==
  /\ NoCall \notin Call
  /\ Connects \cap (Writes \cup Reads \cup Disconnects \cup Scans) = {}
  /\ Writes \cap (Reads \cup Disconnects \cup Scans) = {}
  /\ Reads \cap (Disconnects \cup Scans) = {}
  /\ Disconnects \cap Scans = {}
ASSUME ScanTimerAssumption == MaxScanTimers \in Nat \ {0}

VARIABLES
  \* CoreBluetooth
  central,          \* nil, unknown (or resetting), poweredOn, off (any other)
  link,             \* CBPeripheral.state
  late,             \* peripherals given up with their didConnect on its way
  gatt,             \* the outstanding requests of each link, oldest first
  notifying,        \* isNotifying of the command characteristic
  known,            \* peripherals retrievePeripherals(withIdentifiers:) finds
  \* the transport's stored properties
  discovered, connected, characteristics, stage, generation,
  connectOp, pending, writeOp, writePeripheral, writeGeneration,
  readOp, readGeneration, scanOp, scanTimers,
  disconnecting, disconnectOp, disconnectTimers, waiters, quarantine,
  \* its clients
  status,           \* how far each call is, and what it returned
  cancelled,        \* the calls whose task was cancelled while they waited
  bound,            \* the device the application connects to
  reported          \* the device subscribers last heard is connected

cbVars      == <<central, link, late, gatt, notifying, known>>
linkVars    == <<connected, characteristics, stage, generation>>
connectVars == <<connectOp, pending>>
writeVars   == <<writeOp, writePeripheral, writeGeneration>>
readVars    == <<readOp, readGeneration>>
scanVars    == <<scanOp, scanTimers>>
closeVars   == <<disconnecting, disconnectOp, disconnectTimers, waiters>>
clientVars  == <<status, cancelled, bound, reported>>
vars == <<cbVars, linkVars, connectVars, writeVars, readVars, scanVars,
          closeVars, discovered, quarantine, clientVars>>

CentralStates == {"nil", "unknown", "poweredOn", "off"}
LinkStates    == {"disconnected", "connecting", "connected", "disconnecting"}
Characteristics == {"quota", "capabilities", "command"}
RequestKinds  == {"services", "characteristics", "notify", "read", "write"}
Request == [kind : RequestKinds, op : Call \cup {NoCall}]

\* connectionStage; its generation payload is always connectionGeneration.
Stages == {"none", "waitingForPower", "connecting", "discoveringServices",
           "discoveringCharacteristics", "subscribingCommands", "ready"}

Statuses == {"idle", "pending", "ok", "failed", "timeout", "cancelled"}

\* An entry of ignoredLateDisconnects, and whether its 5 s have passed.
QuarantineStates == {"none", "active", "expired"}

TypeOK ==
  /\ central \in CentralStates
  /\ link \in [Device -> LinkStates]
  /\ late \in SUBSET Device
  /\ gatt \in [Device -> Seq(Request)]
  /\ notifying \in [Device -> BOOLEAN]
  /\ known \in SUBSET Device
  /\ discovered \in SUBSET Device
  /\ connected \in Device \cup {NoDevice}
  /\ characteristics \in SUBSET Characteristics
  /\ stage \in Stages
  /\ generation \in Nat
  /\ connectOp \in Connects \cup {NoCall}
  /\ pending \in Device \cup {NoDevice}
  /\ writeOp \in Writes \cup {NoCall}
  /\ writePeripheral \in Device \cup {NoDevice}
  /\ writeGeneration \in Nat
  /\ readOp \in Reads \cup {NoCall}
  /\ readGeneration \in Nat
  /\ scanOp \in Scans \cup {NoCall}
  /\ scanTimers \in Nat
  /\ disconnecting \in Device \cup {NoDevice}
  /\ disconnectOp \in Call \cup {NoCall}
  /\ disconnectTimers \in SUBSET (Call \X Device)
  /\ waiters \in SUBSET Disconnects
  /\ quarantine \in [Device -> QuarantineStates]
  /\ status \in [Call -> Statuses]
  /\ cancelled \in SUBSET Call
  /\ bound \in Device
  /\ reported \in Device \cup {NoDevice}

Init ==
  /\ central = "nil"
  /\ link = [p \in Device |-> "disconnected"]
  /\ late = {}
  /\ gatt = [p \in Device |-> <<>>]
  /\ notifying = [p \in Device |-> FALSE]
  /\ known \in SUBSET Device
  /\ discovered = {}
  /\ connected = NoDevice
  /\ characteristics = {}
  /\ stage = "none"
  /\ generation = 0
  /\ connectOp = NoCall
  /\ pending = NoDevice
  /\ writeOp = NoCall
  /\ writePeripheral = NoDevice
  /\ writeGeneration = 0
  /\ readOp = NoCall
  /\ readGeneration = 0
  /\ scanOp = NoCall
  /\ scanTimers = 0
  /\ disconnecting = NoDevice
  /\ disconnectOp = NoCall
  /\ disconnectTimers = {}
  /\ waiters = {}
  /\ quarantine = [p \in Device |-> "none"]
  /\ status = [c \in Call |-> "idle"]
  /\ cancelled = {}
  /\ bound \in Device
  /\ reported = NoDevice

-----------------------------------------------------------------------------
(* Operators shared by the blocks *)

\* Resuming the continuations of the calls in S with the given result.
Returned(S, result) ==
  [c \in Call |-> IF c \in S THEN result ELSE status[c]]

\* manager(): the central manager is created by the first call that needs it.
Manager == IF central = "nil" THEN "unknown" ELSE central

\* discovered[identifier] ?? retrievePeripherals(withIdentifiers:).first
Found(p) == p \in discovered \cup known

\* The states a link may be in once cancelPeripheralConnection returns: an
\* attempt that never connected may end at once and without a callback.
AfterCancel(p) ==
  IF link[p] = "connected" THEN {"disconnecting"}
  ELSE IF link[p] = "connecting" THEN {"disconnecting", "disconnected"}
  ELSE {link[p]}

\* The attempt may have succeeded all the same: then its didConnect is on the
\* queue already, and comes whatever the state.
CancelLink(p) ==
  /\ \E s \in AfterCancel(p) : link' = [link EXCEPT ![p] = s]
  /\ late' \in {late} \cup IF link[p] = "connecting" THEN {late \cup {p}} ELSE {}

LinkDown(p) ==
  /\ p \notin late        \* the callbacks of a peripheral come in order
  /\ UNCHANGED late
  /\ link' = [link EXCEPT ![p] = "disconnected"]
  /\ gatt' = [gatt EXCEPT ![p] = <<>>]
  /\ notifying' = [notifying EXCEPT ![p] = FALSE]

Send(p, kind, op) ==
  gatt' = [gatt EXCEPT ![p] = Append(@, [kind |-> kind, op |-> op])]

\* resumeConnect, its continuation being resumed by the caller's status'.
ClearConnectOp == connectOp' = NoCall /\ pending' = NoDevice
ClearWriteOp ==
  writeOp' = NoCall /\ writePeripheral' = NoDevice /\ writeGeneration' = 0
ClearReadOp == readOp' = NoCall /\ readGeneration' = 0

\* What beginDisconnect, finishDisconnect and disconnect forget of the link.
ForgetLink ==
  /\ connected' = NoDevice
  /\ characteristics' = {}
  /\ stage' = "none"
  /\ UNCHANGED generation

\* beginDisconnect past its guard, as operation c; the write and the read
\* keep their continuations but lose their generations.
BeginDisconnect(c, p) ==
  /\ disconnecting = NoDevice
  /\ disconnecting' = p
  /\ disconnectOp' = c
  /\ disconnectTimers' = disconnectTimers \cup {<<c, p>>}
  /\ ForgetLink
  /\ CancelLink(p)

\* Mutated: the subscribers are not told.
FinishDisconnectSilent(p) ==
  /\ disconnecting' = NoDevice
  /\ disconnectOp' = NoCall
  /\ ForgetLink
  /\ writeGeneration' = 0
  /\ readGeneration' = 0
  /\ waiters' = {}
  /\ UNCHANGED reported

\* finishDisconnect past its guards: subscribers hear .disconnected(p), and the
\* continuations of the waiters are resumed by the caller's status'.
FinishDisconnect(p) ==
  /\ disconnecting' = NoDevice
  /\ disconnectOp' = NoCall
  /\ ForgetLink
  /\ writeGeneration' = 0
  /\ readGeneration' = 0
  /\ reported' = IF reported = p THEN NoDevice ELSE reported
  /\ waiters' = {}

\* Mutated: an expired quarantine entry is passed over but not removed.
BeginConnectExpired(c, p, scan) ==
  /\ Found(p)
  /\ link[p] # "disconnecting"
  /\ quarantine[p] # "active"
  /\ discovered' = discovered \cup scan \cup {p}
  /\ connectOp' = c
  /\ pending' = p
  /\ status' = Returned({c}, "pending")
  /\ stage' = "connecting"
  /\ link' = [link EXCEPT ![p] = "connecting"]
  /\ UNCHANGED <<gatt, connected, quarantine>>

\* beginConnect for call c, run by connect and by the power-on callback; scan
\* is what a scan starting in the same block finds at once.
BeginConnect(c, p, scan) ==
  /\ discovered' = discovered \cup scan \cup (IF Found(p) THEN {p} ELSE {})
  /\ quarantine' = IF Found(p) /\ quarantine[p] = "expired"
                   THEN [quarantine EXCEPT ![p] = "none"] ELSE quarantine
  /\ \/ /\ ~Found(p) \/ link[p] = "disconnecting" \/ quarantine[p] = "active"
        /\ ClearConnectOp
        /\ stage' = "none"
        /\ status' = Returned({c}, "failed")
        /\ UNCHANGED <<link, gatt, connected>>
     \/ /\ Found(p)
        /\ link[p] # "disconnecting"
        /\ quarantine[p] # "active"
        /\ connectOp' = c
        /\ pending' = p
        /\ status' = Returned({c}, "pending")
        /\ \/ /\ link[p] = "connected"
              /\ connected' = p
              /\ stage' = "discoveringServices"
              /\ Send(p, "services", NoCall)
              /\ UNCHANGED link
           \/ /\ link[p] # "connected"
              /\ stage' = "connecting"
              /\ link' = [link EXCEPT ![p] = "connecting"]
              /\ UNCHANGED <<gatt, connected>>

-----------------------------------------------------------------------------
(* Calls *)

Refuse(c) ==
  /\ status' = Returned({c}, "failed")
  /\ UNCHANGED <<cbVars, linkVars, connectVars, writeVars, readVars, scanVars,
                 closeVars, discovered, quarantine, cancelled, bound, reported>>

ConnectRefused(c) ==
  /\ status[c] = "idle"
  /\ connectOp # NoCall \/ disconnecting # NoDevice
  /\ Refuse(c)

ConnectAccepted(c) ==
  /\ status[c] = "idle"
  /\ connectOp = NoCall
  /\ disconnecting = NoDevice
  /\ central' = Manager
  /\ generation' = generation + 1
  /\ \/ /\ central = "poweredOn"
        /\ BeginConnect(c, bound, {})
     \/ /\ central \in {"nil", "unknown"}
        /\ connectOp' = c
        /\ pending' = bound
        /\ stage' = "waitingForPower"
        /\ status' = Returned({c}, "pending")
        /\ UNCHANGED <<link, gatt, connected, discovered, quarantine>>
     \/ /\ central = "off"
        /\ stage' = "none"
        /\ status' = Returned({c}, "failed")
        /\ UNCHANGED <<link, gatt, connected, discovered, quarantine, connectVars>>
  /\ UNCHANGED <<late, notifying, known, characteristics, writeVars, readVars,
                 scanVars, closeVars, cancelled, bound, reported>>

Ready == /\ connected # NoDevice
         /\ link[connected] = "connected"
         /\ stage = "ready"

WriteRefused(c) ==
  /\ status[c] = "idle"
  /\ writeOp # NoCall \/ ~Ready \/ "quota" \notin characteristics
  /\ Refuse(c)

WriteAccepted(c) ==
  /\ status[c] = "idle"
  /\ writeOp = NoCall
  /\ Ready
  /\ "quota" \in characteristics
  /\ writeOp' = c
  /\ writePeripheral' = connected
  /\ writeGeneration' = generation
  /\ status' = Returned({c}, "pending")
  /\ Send(connected, "write", c)
  /\ UNCHANGED <<central, link, late, notifying, known, linkVars, connectVars,
                 readVars, scanVars, closeVars, discovered, quarantine,
                 cancelled, bound, reported>>

ReadRefused(c) ==
  /\ status[c] = "idle"
  /\ readOp # NoCall \/ ~Ready
  /\ Refuse(c)

ReadAccepted(c) ==
  /\ status[c] = "idle"
  /\ readOp = NoCall
  /\ Ready
  /\ \/ /\ "capabilities" \notin characteristics  \* v1 firmware: returns nil
        /\ status' = Returned({c}, "ok")
        /\ UNCHANGED <<gatt, readVars>>
     \/ /\ "capabilities" \in characteristics
        /\ readOp' = c
        /\ readGeneration' = generation
        /\ status' = Returned({c}, "pending")
        /\ Send(connected, "read", c)
  /\ UNCHANGED <<central, link, late, notifying, known, linkVars, connectVars,
                 writeVars, scanVars, closeVars, discovered, quarantine,
                 cancelled, bound, reported>>

\* disconnect() joins a disconnect that is already under way.
DisconnectJoin(c) ==
  /\ status[c] = "idle"
  /\ disconnecting # NoDevice
  /\ waiters' = waiters \cup {c}
  /\ status' = Returned({c}, "pending")
  /\ UNCHANGED <<cbVars, linkVars, connectVars, writeVars, readVars, scanVars,
                 disconnecting, disconnectOp, disconnectTimers, discovered,
                 quarantine, cancelled, bound, reported>>

\* connectedPeripheral ?? pendingPeripheral()
DisconnectTarget ==
  IF connected # NoDevice THEN connected
  ELSE IF pending # NoDevice /\ Found(pending) THEN pending ELSE NoDevice

\* Mutated: one kind of call is left out of what a lost link fails.
OutstandingButRead == {connectOp, writeOp} \ {NoCall}

Outstanding == {connectOp, writeOp, readOp} \ {NoCall}

\* disconnect() with no link to take down: it completes in its own block.
DisconnectAtOnce(c) ==
  /\ status[c] = "idle"
  /\ disconnecting = NoDevice
  /\ DisconnectTarget # NoDevice => link[DisconnectTarget] = "disconnected"
  /\ status' = [x \in Call |-> IF x \in waiters \cup {c} THEN "ok"
                               ELSE IF x \in Outstanding THEN "failed"
                               ELSE status[x]]
  /\ ClearConnectOp
  /\ ClearWriteOp
  /\ ClearReadOp
  /\ FinishDisconnect(DisconnectTarget)
  /\ UNCHANGED <<cbVars, scanVars, disconnectTimers, discovered, quarantine,
                 cancelled, bound>>

DisconnectBegin(c) ==
  /\ status[c] = "idle"
  /\ DisconnectTarget # NoDevice
  /\ link[DisconnectTarget] # "disconnected"
  /\ BeginDisconnect(c, DisconnectTarget)
  /\ waiters' = waiters \cup {c}
  /\ status' = [x \in Call |-> IF x = c THEN "pending"
                               ELSE IF x \in Outstanding THEN "failed"
                               ELSE status[x]]
  /\ ClearConnectOp
  /\ ClearWriteOp
  /\ ClearReadOp
  /\ UNCHANGED <<central, gatt, notifying, known, scanVars, discovered,
                 quarantine, cancelled, bound, reported>>

ScanRefused(c) ==
  /\ status[c] = "idle"
  /\ scanOp # NoCall
  /\ Refuse(c)

\* startScan with what retrieveConnectedPeripherals returns; arms its timer.
StartScan(found) ==
  /\ scanTimers < MaxScanTimers
  /\ scanTimers' = scanTimers + 1
  /\ known' = known \cup found

ScanAccepted(c) ==
  /\ status[c] = "idle"
  /\ scanOp = NoCall
  /\ central' = Manager
  /\ \/ \E found \in SUBSET Device :
          /\ central = "poweredOn"
          /\ StartScan(found)
          /\ discovered' = found
          /\ scanOp' = c
          /\ status' = Returned({c}, "pending")
     \/ /\ central \in {"nil", "unknown"}
        /\ discovered' = {}
        /\ scanOp' = c
        /\ status' = Returned({c}, "pending")
        /\ UNCHANGED <<scanTimers, known>>
     \/ /\ central = "off"
        /\ discovered' = {}
        /\ status' = Returned({c}, "failed")
        /\ UNCHANGED <<scanVars, known>>
  /\ UNCHANGED <<link, late, gatt, notifying, linkVars, connectVars, writeVars,
                 readVars, closeVars, quarantine, cancelled, bound, reported>>

-----------------------------------------------------------------------------
(* Timers and cancellation handlers *)

\* timeoutConnect and cancelConnect past their operationID guard.
AbandonConnect(c, result) ==
  /\ connectOp = c
  /\ \/ /\ Found(pending)
        /\ BeginDisconnect(c, pending)
        /\ writeGeneration' = 0
        /\ readGeneration' = 0
     \/ /\ ~Found(pending) \/ disconnecting # NoDevice
        /\ stage' = "none"
        /\ UNCHANGED <<link, late, connected, characteristics, generation,
                       writeGeneration, readGeneration, disconnecting,
                       disconnectOp, disconnectTimers>>
  /\ ClearConnectOp
  /\ status' = Returned({c}, result)
  /\ UNCHANGED <<central, gatt, notifying, known, writeOp, writePeripheral,
                 readOp, scanVars, waiters, discovered, quarantine, cancelled,
                 bound, reported>>

TimeoutConnect(c) == AbandonConnect(c, "timeout")
CancelConnect(c)  == c \in cancelled /\ AbandonConnect(c, "cancelled")

\* Mutated: the write is abandoned as a read is, and the link stays up.
AbandonWriteInPlace(c, p, result) ==
  /\ writeOp = c
  /\ ClearWriteOp
  /\ status' = Returned({c}, result)
  /\ UNCHANGED <<cbVars, linkVars, connectVars, readVars, scanVars, closeVars,
                 discovered, quarantine, cancelled, bound, reported>>

\* timeoutWrite and cancelWrite past their operationID guard: the link p, if
\* any, is torn down, so that the response cannot arrive on it.
AbandonWrite(c, p, result) ==
  /\ writeOp = c
  /\ \/ /\ p # NoDevice
        /\ BeginDisconnect(c, p)
        /\ readGeneration' = 0
     \/ /\ p = NoDevice \/ disconnecting # NoDevice
        /\ UNCHANGED <<link, late, linkVars, readGeneration, disconnecting,
                       disconnectOp, disconnectTimers>>
  /\ ClearWriteOp
  /\ status' = Returned({c}, result)
  /\ UNCHANGED <<central, gatt, notifying, known, connectVars, readOp, scanVars,
                 waiters, discovered, quarantine, cancelled, bound, reported>>

TimeoutWrite(c) == AbandonWrite(c, writePeripheral, "timeout")

\* Mutated: the handler is given no operationID and ends whichever write waits.
CancelAnyWrite(c) ==
  /\ c \in cancelled
  /\ writeOp # NoCall
  /\ AbandonWrite(writeOp, connected, "cancelled")

CancelWrite(c) == c \in cancelled /\ AbandonWrite(c, connected, "cancelled")

\* A read is abandoned without touching the link: its request stays out.
AbandonRead(result) ==
  /\ readOp # NoCall
  /\ ClearReadOp
  /\ status' = Returned({readOp}, result)
  /\ UNCHANGED <<cbVars, linkVars, connectVars, writeVars, scanVars, closeVars,
                 discovered, quarantine, cancelled, bound, reported>>

TimeoutRead(c) == readOp = c /\ AbandonRead("timeout")

\* cancelRead() is given no operationID: it ends whichever read waits.
CancelRead(c) == c \in cancelled /\ AbandonRead("cancelled")

\* The 1.5 s scan timer is given no operationID either.
ScanTimer ==
  /\ scanTimers > 0
  /\ scanTimers' = scanTimers - 1
  /\ scanOp' = NoCall
  /\ status' = Returned({scanOp}, "ok")
  /\ UNCHANGED <<cbVars, linkVars, connectVars, writeVars, readVars, closeVars,
                 discovered, quarantine, cancelled, bound, reported>>

\* Mutated: the timer gives up only once the link is down.
DisconnectTimerWaits(c, p) ==
  /\ <<c, p>> \in disconnectTimers
  /\ link[p] = "disconnected"
  /\ disconnectTimers' = disconnectTimers \ {<<c, p>>}
  /\ FinishDisconnect(p)
  /\ status' = Returned(waiters, "ok")
  /\ UNCHANGED <<cbVars, connectVars, writeOp, writePeripheral, readOp,
                 scanVars, discovered, quarantine, cancelled, bound>>

\* The 2 s timer of disconnect operation c: a link that is still not down is
\* quarantined, so that its late callback is not taken for a new link's.
DisconnectTimer(c, p) ==
  /\ <<c, p>> \in disconnectTimers
  /\ disconnectTimers' = disconnectTimers \ {<<c, p>>}
  /\ \/ /\ disconnectOp = c
        /\ disconnecting = p
        /\ FinishDisconnect(p)
        /\ status' = Returned(waiters, "ok")
        /\ quarantine' = IF link[p] = "disconnected" THEN quarantine
                         ELSE [quarantine EXCEPT ![p] = "active"]
     \/ /\ disconnectOp # c \/ disconnecting # p
        /\ UNCHANGED <<disconnecting, disconnectOp, waiters, linkVars,
                       writeGeneration, readGeneration, reported, status,
                       quarantine>>
  /\ UNCHANGED <<cbVars, connectVars, writeOp, writePeripheral, readOp,
                 scanVars, discovered, cancelled, bound>>

\* The 5 s of a quarantine entry pass.
QuarantineExpires(p) ==
  /\ quarantine[p] = "active"
  /\ quarantine' = [quarantine EXCEPT ![p] = "expired"]
  /\ UNCHANGED <<cbVars, linkVars, connectVars, writeVars, readVars, scanVars,
                 closeVars, discovered, clientVars>>

-----------------------------------------------------------------------------
(* CBCentralManagerDelegate *)

DropLinks ==
  /\ late' = {}
  /\ link' = [p \in Device |-> "disconnected"]
  /\ gatt' = [p \in Device |-> <<>>]
  /\ notifying' = [p \in Device |-> FALSE]

\* centralManagerDidUpdateState: powered on.  A waiting connect begins, then
\* a waiting scan starts.
PoweredOn ==
  /\ central \in {"unknown", "off"}
  /\ central' = "poweredOn"
  /\ \E found \in SUBSET Device :
       /\ \/ scanOp # NoCall /\ StartScan(found)
          \/ scanOp = NoCall /\ found = {} /\ UNCHANGED <<scanTimers, known>>
       /\ \/ /\ stage = "waitingForPower"
             /\ BeginConnect(connectOp, pending, found)
          \/ /\ stage # "waitingForPower"
             /\ discovered' = discovered \cup found
             /\ UNCHANGED <<quarantine, connectVars, stage, status, link, gatt,
                            connected>>
  /\ UNCHANGED <<late, notifying, characteristics, generation, writeVars, readVars,
                 scanOp, closeVars, cancelled, bound, reported>>

\* Powered off, unsupported or unauthorized: whoever waits for power fails.
\* The links are gone, and no callback need say so.
PoweredOff ==
  /\ central \in {"unknown", "poweredOn"}
  /\ central' = "off"
  /\ DropLinks
  /\ LET waiting == {scanOp} \cup
                    (IF stage = "waitingForPower" THEN {connectOp} ELSE {})
     IN  status' = Returned(waiting \ {NoCall}, "failed")
  /\ scanOp' = NoCall
  /\ \/ /\ stage = "waitingForPower"
        /\ ClearConnectOp
        /\ stage' = "none"
     \/ /\ stage # "waitingForPower"
        /\ UNCHANGED <<connectVars, stage>>
  /\ UNCHANGED <<known, connected, characteristics, generation, writeVars,
                 readVars, scanTimers, closeVars, discovered, quarantine,
                 cancelled, bound, reported>>

\* Resetting: the links are gone and the delegate waits for the next update.
Resetting ==
  /\ central \in {"poweredOn", "off"}
  /\ central' = "unknown"
  /\ DropLinks
  /\ UNCHANGED <<known, linkVars, connectVars, writeVars, readVars, scanVars,
                 closeVars, discovered, quarantine, clientVars>>

DidDiscover(p) ==
  /\ central = "poweredOn"
  /\ scanOp # NoCall
  /\ p \notin discovered
  /\ discovered' = discovered \cup {p}
  /\ known' = known \cup {p}
  /\ UNCHANGED <<central, link, late, gatt, notifying, linkVars, connectVars,
                 writeVars, readVars, scanVars, closeVars, quarantine, clientVars>>

\* cancelPeripheralConnection of a peripheral that has just connected.
LeaveUp(p) == link' = [link EXCEPT ![p] = "connected"]  \* Mutated: it is left up
HangUp(p)  == link' = [link EXCEPT ![p] = "disconnecting"]

\* The peripheral has connected: asked for, or late, the attempt being one that
\* was given up.  A late callback may also meet a new attempt, and answer it.
DidConnect(p) ==
  /\ link[p] = "connecting" \/ p \in late
  /\ late' = late \ {p}
  /\ \/ /\ p = pending
        /\ stage = "connecting"
        /\ link' = [link EXCEPT ![p] = "connected"]
        /\ connected' = p
        /\ stage' = "discoveringServices"
        /\ Send(p, "services", NoCall)
     \/ /\ p # pending \/ stage # "connecting"   \* nobody waits
        /\ HangUp(p)
        /\ UNCHANGED <<connected, stage, gatt>>
  /\ UNCHANGED <<central, notifying, known, characteristics, generation,
                 connectVars, writeVars, readVars, scanVars, closeVars,
                 discovered, quarantine, clientVars>>

DidFailToConnect(p) ==
  /\ link[p] = "connecting"
  /\ LinkDown(p)
  /\ \/ /\ quarantine[p] # "none"
        /\ quarantine' = [quarantine EXCEPT ![p] = "none"]
        /\ UNCHANGED <<connectVars, stage, status>>
     \/ /\ quarantine[p] = "none"
        /\ p = pending
        /\ stage = "connecting"
        /\ ClearConnectOp
        /\ stage' = "none"
        /\ status' = Returned({connectOp}, "failed")
        /\ UNCHANGED quarantine
     \/ /\ quarantine[p] = "none"
        /\ p # pending \/ stage # "connecting"
        /\ UNCHANGED <<connectVars, stage, status, quarantine>>
  /\ UNCHANGED <<central, known, connected, characteristics, generation,
                 writeVars, readVars, scanVars, closeVars, discovered,
                 cancelled, bound, reported>>

\* Of a callback nobody here waits for, or one swallowed by its quarantine.
DisconnectIgnored(p) ==
  /\ \/ /\ quarantine[p] # "none"
        /\ quarantine' = [quarantine EXCEPT ![p] = "none"]
     \/ /\ quarantine[p] = "none"
        /\ p \notin {disconnecting, connected, pending}
        /\ UNCHANGED quarantine
  /\ UNCHANGED <<linkVars, connectVars, writeVars, readVars, disconnecting,
                 disconnectOp, waiters, status, reported>>

\* Of the disconnect under way.
DisconnectDone(p) ==
  /\ quarantine[p] = "none"
  /\ p = disconnecting
  /\ FinishDisconnect(p)
  /\ status' = Returned(waiters, "ok")
  /\ UNCHANGED <<connectVars, writeOp, writePeripheral, readOp, quarantine>>

\* Mutated: the stage of a connection being set up is left as it is.
LinkLostStage(p) ==
  /\ quarantine[p] = "none"
  /\ p # disconnecting
  /\ p \in {connected, pending}
  /\ connected' = NoDevice
  /\ characteristics' = {}
  /\ status' = Returned(Outstanding, "failed")
  /\ ClearConnectOp
  /\ ClearWriteOp
  /\ ClearReadOp
  /\ reported' = IF reported = p THEN NoDevice ELSE reported
  /\ UNCHANGED <<stage, generation, disconnecting, disconnectOp, waiters,
                 quarantine>>

\* Of the link in use or being set up: every operation on it fails.
LinkLost(p) ==
  /\ quarantine[p] = "none"
  /\ p # disconnecting
  /\ p \in {connected, pending}
  /\ connected' = NoDevice
  /\ characteristics' = {}
  /\ stage' = IF connectOp # NoCall THEN "none" ELSE stage
  /\ status' = Returned(Outstanding, "failed")
  /\ ClearConnectOp
  /\ ClearWriteOp
  /\ ClearReadOp
  /\ reported' = IF reported = p THEN NoDevice ELSE reported
  /\ UNCHANGED <<generation, disconnecting, disconnectOp, waiters, quarantine>>

DidDisconnect(p) ==
  /\ link[p] \in {"connected", "disconnecting"}
  /\ LinkDown(p)
  /\ DisconnectIgnored(p) \/ DisconnectDone(p) \/ LinkLost(p)
  /\ UNCHANGED <<central, known, scanVars, disconnectTimers, discovered,
                 cancelled, bound>>

-----------------------------------------------------------------------------
(* CBPeripheralDelegate: the answer to the oldest request of a link *)

Answers(p, kind) ==
  /\ gatt[p] # <<>>
  /\ Head(gatt[p]).kind = kind

\* resumeConnect(throwing:) on a link that stays up.
ConnectFails ==
  /\ stage' = "none"
  /\ ClearConnectOp
  /\ status' = Returned({connectOp} \ {NoCall}, "failed")

\* finishConnect
FinishConnect(p) ==
  /\ stage' = "ready"
  /\ ClearConnectOp
  /\ status' = Returned({connectOp} \ {NoCall}, "ok")
  /\ reported' = p

DidDiscoverServices(p) ==
  /\ Answers(p, "services")
  /\ \/ /\ p = connected /\ stage = "discoveringServices"
        /\ \/ /\ stage' = "discoveringCharacteristics"
              /\ gatt' = [gatt EXCEPT ![p] =
                            Append(Tail(@), [kind |-> "characteristics",
                                             op |-> NoCall])]
              /\ UNCHANGED <<connectVars, status>>
           \/ /\ ConnectFails          \* an error, or no quota service
              /\ gatt' = [gatt EXCEPT ![p] = Tail(@)]
     \/ /\ p # connected \/ stage # "discoveringServices"
        /\ gatt' = [gatt EXCEPT ![p] = Tail(@)]
        /\ UNCHANGED <<stage, connectVars, status>>
  /\ UNCHANGED <<central, link, late, notifying, known, connected, characteristics,
                 generation, writeVars, readVars, scanVars, closeVars,
                 discovered, quarantine, cancelled, bound, reported>>

\* Capabilities and command are optional: v1 firmware has neither.
Optional(p) == IF p \in V2Devices THEN {"capabilities", "command"} ELSE {}

DidDiscoverCharacteristics(p) ==
  /\ Answers(p, "characteristics")
  /\ \/ /\ p = connected /\ stage = "discoveringCharacteristics"
        /\ \/ /\ ConnectFails          \* an error, or no quota characteristic
              /\ gatt' = [gatt EXCEPT ![p] = Tail(@)]
              /\ UNCHANGED <<characteristics, reported>>
           \/ /\ characteristics' = {"quota"} \cup Optional(p) \cup
                                     (characteristics \cap {"command"})
              /\ \/ /\ "command" \in Optional(p)
                    /\ stage' = "subscribingCommands"
                    /\ gatt' = [gatt EXCEPT ![p] =
                                  Append(Tail(@), [kind |-> "notify",
                                                   op |-> NoCall])]
                    /\ UNCHANGED <<connectVars, status, reported>>
                 \/ /\ "command" \notin Optional(p)
                    /\ FinishConnect(p)
                    /\ gatt' = [gatt EXCEPT ![p] = Tail(@)]
     \/ /\ p # connected \/ stage # "discoveringCharacteristics"
        /\ gatt' = [gatt EXCEPT ![p] = Tail(@)]
        /\ UNCHANGED <<stage, characteristics, connectVars, status, reported>>
  /\ UNCHANGED <<central, link, late, notifying, known, connected, generation,
                 writeVars, readVars, scanVars, closeVars, discovered,
                 quarantine, cancelled, bound>>

\* Mutated: without an error, isNotifying is not looked at.
DidUpdateNotificationStateUnchecked(p) ==
  /\ Answers(p, "notify")
  /\ p = connected
  /\ stage = "subscribingCommands"
  /\ gatt' = [gatt EXCEPT ![p] = Tail(@)]
  /\ \E isNotifying \in BOOLEAN : notifying' = [notifying EXCEPT ![p] = isNotifying]
  /\ FinishConnect(p)
  /\ UNCHANGED <<central, link, late, known, connected, characteristics, generation,
                 writeVars, readVars, scanVars, closeVars, discovered,
                 quarantine, cancelled, bound>>

\* The CCCD write: isNotifying is what CoreBluetooth says it is by now.
DidUpdateNotificationState(p) ==
  /\ Answers(p, "notify")
  /\ gatt' = [gatt EXCEPT ![p] = Tail(@)]
  /\ \E isNotifying \in BOOLEAN, failed \in BOOLEAN :
       /\ notifying' = [notifying EXCEPT ![p] = isNotifying]
       /\ \/ /\ p = connected
             /\ "command" \in characteristics
             /\ stage = "subscribingCommands"
             /\ \/ /\ failed \/ ~isNotifying
                   /\ ConnectFails
                   /\ UNCHANGED reported
                \/ /\ ~failed
                   /\ isNotifying
                   /\ FinishConnect(p)
          \/ /\ \/ p # connected
                \/ "command" \notin characteristics
                \/ stage # "subscribingCommands"
             /\ UNCHANGED <<stage, connectVars, status, reported>>
  /\ UNCHANGED <<central, link, late, known, connected, characteristics, generation,
                 writeVars, readVars, scanVars, closeVars, discovered,
                 quarantine, cancelled, bound>>

DidReadValue(p) ==
  /\ Answers(p, "read")
  /\ gatt' = [gatt EXCEPT ![p] = Tail(@)]
  /\ \/ /\ p = connected
        /\ "capabilities" \in characteristics
        /\ stage = "ready"
        /\ readGeneration = generation
        /\ ClearReadOp
        /\ \E result \in {"ok", "failed"} :
             status' = Returned({readOp} \ {NoCall}, result)
     \/ /\ \/ p # connected
           \/ "capabilities" \notin characteristics
           \/ stage # "ready"
           \/ readGeneration # generation
        /\ UNCHANGED <<readVars, status>>
  /\ UNCHANGED <<central, link, late, notifying, known, linkVars, connectVars,
                 writeVars, scanVars, closeVars, discovered, quarantine,
                 cancelled, bound, reported>>

DidWriteValue(p) ==
  /\ Answers(p, "write")
  /\ gatt' = [gatt EXCEPT ![p] = Tail(@)]
  /\ \/ /\ p = connected
        /\ "quota" \in characteristics
        /\ stage = "ready"
        /\ writeGeneration = generation
        /\ ClearWriteOp
        /\ \E result \in {"ok", "failed"} :
             status' = Returned({writeOp} \ {NoCall}, result)
     \/ /\ \/ p # connected
           \/ "quota" \notin characteristics
           \/ stage # "ready"
           \/ writeGeneration # generation
        /\ UNCHANGED <<writeVars, status>>
  /\ UNCHANGED <<central, link, late, notifying, known, linkVars, connectVars,
                 readVars, scanVars, closeVars, discovered, quarantine,
                 cancelled, bound, reported>>

-----------------------------------------------------------------------------
(* The clients, and the specification *)

\* A task is cancelled while its call waits; scan and disconnect install no
\* cancellation handler.
CancelTask(c) ==
  /\ c \in {connectOp, writeOp, readOp} \ cancelled
  /\ c # NoCall
  /\ cancelled' = cancelled \cup {c}
  /\ UNCHANGED <<cbVars, linkVars, connectVars, writeVars, readVars, scanVars,
                 closeVars, discovered, quarantine, status, bound, reported>>

\* Mutated: the binding changes without the disconnect.
RebindConnected(p) ==
  /\ p # bound
  /\ Outstanding = {}
  /\ bound' = p
  /\ UNCHANGED <<cbVars, linkVars, connectVars, writeVars, readVars, scanVars,
                 closeVars, discovered, quarantine, status, cancelled, reported>>

\* bindDevice: another device is bound once the calls on the old one have
\* returned and disconnect() has completed.
Rebind(p) ==
  /\ p # bound
  /\ Outstanding = {}
  /\ connected = NoDevice
  /\ disconnecting = NoDevice
  /\ bound' = p
  /\ UNCHANGED <<cbVars, linkVars, connectVars, writeVars, readVars, scanVars,
                 closeVars, discovered, quarantine, status, cancelled, reported>>

Calls ==
  \/ \E c \in Connects : ConnectRefused(c) \/ ConnectAccepted(c)
  \/ \E c \in Writes : WriteRefused(c) \/ WriteAccepted(c)
  \/ \E c \in Reads : ReadRefused(c) \/ ReadAccepted(c)
  \/ \E c \in Disconnects :
       DisconnectJoin(c) \/ DisconnectAtOnce(c) \/ DisconnectBegin(c)
  \/ \E c \in Scans : ScanRefused(c) \/ ScanAccepted(c)
  \/ \E c \in Call : CancelTask(c)
  \/ \E p \in Device : Rebind(p)

Timers ==
  \/ \E c \in Connects : TimeoutConnect(c) \/ CancelConnect(c)
  \/ \E c \in Writes : TimeoutWrite(c) \/ CancelWrite(c)
  \/ \E c \in Reads : TimeoutRead(c) \/ CancelRead(c)
  \/ ScanTimer
  \/ \E c \in Call, p \in Device : DisconnectTimer(c, p)
  \/ \E p \in Device : QuarantineExpires(p)

Callbacks ==
  \/ PoweredOn \/ PoweredOff \/ Resetting
  \/ \E p \in Device :
       \/ DidDiscover(p) \/ DidConnect(p) \/ DidFailToConnect(p)
       \/ DidDisconnect(p) \/ DidDiscoverServices(p)
       \/ DidDiscoverCharacteristics(p) \/ DidUpdateNotificationState(p)
       \/ DidReadValue(p) \/ DidWriteValue(p)

Next == Calls \/ Timers \/ Callbacks

Spec == Init /\ [][Next]_vars

\* Armed timers fire and CoreBluetooth settles the state of its manager; it
\* owes no other callback.
Fairness ==
  /\ \A c \in Connects : WF_vars(TimeoutConnect(c))
  /\ \A c \in Writes : WF_vars(TimeoutWrite(c))
  /\ \A c \in Reads : WF_vars(TimeoutRead(c))
  /\ \A c \in Call, p \in Device : WF_vars(DisconnectTimer(c, p))
  /\ WF_vars(ScanTimer)
  /\ WF_vars(central = "unknown" /\ (PoweredOn \/ PoweredOff))

FairSpec == Spec /\ Fairness

-----------------------------------------------------------------------------
(* Properties *)

\* Every continuation is resumed exactly once: a call that was accepted and
\* has not returned is held by exactly the stored property that will resume
\* it, and nothing that has returned is held any more.
ContinuationsHeld ==
  \A c \in Call : status[c] = "pending" <=>
                    c \in {connectOp, writeOp, readOp, scanOp} \cup waiters

\* The quarantine never covers the link in use or being set up: the end of
\* that link is always heard, never swallowed as a late callback.
LiveLinkNotQuarantined ==
  \A p \in Device :
    \/ p = connected
    \/ p = pending /\ stage \notin {"none", "waitingForPower"}
    => quarantine[p] = "none"

\* No link is up that the transport does not own: whichever timeout, failure
\* or cancellation ends an attempt, a link that connects late is hung up.
NoOrphanLink ==
  \A p \in Device : link[p] = "connected" => p = connected

\* What subscribers of connectionEvents were told last is what the transport
\* does: a device reported connected is connected or being hung up (so its
\* .disconnected is still to come), and a ready link was reported.
SubscribersInformed ==
  /\ reported # NoDevice => reported \in {connected, disconnecting}
  /\ stage = "ready" /\ connected # NoDevice => reported = connected

\* The transport is ready with a command channel only once CoreBluetooth has
\* confirmed the CCCD write on that very link.
ReadyMeansSubscribed ==
  Ready /\ "command" \in characteristics => notifying[connected]

\* A connection being set up has the connect call that waits for it, and so a
\* timer: set-up never stalls with nobody to end it.  Past the radio link, it
\* is the device asked for that is being set up.
SetupHasOwner ==
  stage \notin {"none", "ready"} =>
    /\ connectOp # NoCall
    /\ stage \notin {"waitingForPower", "connecting"} => connected = pending

\* The transport holds a link to no other device than the one bound.
OnlyBoundDevice == connected \in {bound, NoDevice}

\* A connect or a write ends as cancelled only when its own task was
\* cancelled: a handler that runs late does not hit its successor.
CancelledByOwnTask ==
  \A c \in Connects \cup Writes : status[c] = "cancelled" => c \in cancelled

\* A write succeeds by the acknowledgement of its own request, never by that
\* of an earlier write or of an earlier connection.
WriteAcknowledged ==
  [][\A c \in Writes :
       status[c] = "pending" /\ status'[c] = "ok" =>
         \E p \in Device :
           /\ gatt[p] # <<>>
           /\ Head(gatt[p]) = [kind |-> "write", op |-> c]
           /\ gatt'[p] = Tail(gatt[p])]_vars

\* The transport keeps what BLETransport promises its clients: calls return
\* once and one at a time, a device is reported exactly by the connect that
\* asked for it, nothing succeeds on a link reported gone, and disconnect
\* returns only when no device is reported any more.
Contract ==
  INSTANCE TransportContract
    WITH Device <- Device, NoDevice <- NoDevice, Connects <- Connects,
         Writes <- Writes, Reads <- Reads, Disconnects <- Disconnects,
         Scans <- Scans, status <- status, cancelled <- cancelled,
         bound <- bound, reported <- reported
KeepsContract == Contract!Spec

\* Every call that is accepted returns: each waits for a timer at the latest.
\* A call is made once, so in the end none waits any more.
CallsReturn == <>[](\A c \in Call : status[c] # "pending")

\* The comment in beginConnect: "CoreBluetooth does not retain a peripheral
\* passed to `connect` ... keep the object alive until the delegate either
\* connects or fails".  discovered holds the only reference until then.
ConnectingPeripheralRetained ==
  stage = "connecting" => pending \in discovered

-----------------------------------------------------------------------------
(* The inductive invariant *)

\* What the transport holds belongs to the bound device, an operation holds
\* its device exactly while it has a continuation, and a link being hung up
\* is no longer in use: the facts the safety properties lean on.
Ownership ==
  /\ connected \in {bound, NoDevice}
  /\ pending \in {bound, NoDevice}
  /\ writePeripheral \in {bound, NoDevice}
  /\ writeOp # NoCall <=> writePeripheral # NoDevice
  /\ disconnecting # NoDevice => connected = NoDevice /\ stage = "none"

\* A connect that waits for power has a call and a device to begin with.
SetupIsPending ==
  /\ stage \notin {"none", "ready"} => connectOp # NoCall
  /\ connectOp # NoCall <=> pending # NoDevice

\* What is still to connect is not connected.
LateIsDown == \A p \in late : link[p] # "connected"

\* The inductive invariant behind the safety properties that are proved.
IInv ==
  /\ TypeOK
  /\ SetupIsPending
  /\ SetupHasOwner
  /\ Ownership
  /\ NoOrphanLink
  /\ LateIsDown
  /\ LiveLinkNotQuarantined
=============================================================================
