------------------------- MODULE TransportContract --------------------------
(***************************************************************************)
(* What a BLETransport promises its clients                                *)
(* (Sources/TokenLinkDevice/DeviceModels.swift, protocol BLETransport):    *)
(* nothing here knows of CoreBluetooth, of stages, generations or timers.  *)
(* BleTransport implements it; DeviceBridge and AppModel lean on it.       *)
(*                                                                         *)
(* A call is accepted, waits and returns once.  One connect, one write,    *)
(* one read and one scan wait at a time; any number of disconnects do, and *)
(* they return together.  connectionEvents tells the clients which device  *)
(* is connected.                                                           *)
(***************************************************************************)
CONSTANTS Device, Connects, Writes, Reads, Disconnects, Scans, NoDevice

VARIABLES
  status,     \* how far each call is, and what it returned
  cancelled,  \* the calls whose task was cancelled while they waited
  bound,      \* the device the client connects to
  reported    \* the device connectionEvents last said is connected

vars == <<status, cancelled, bound, reported>>

Call == Connects \cup Writes \cup Reads \cup Disconnects \cup Scans

Init ==
  /\ status = [c \in Call |-> "idle"]
  /\ cancelled = {}
  /\ bound \in Device
  /\ reported = NoDevice

Idle(c) == status[c] = "idle"
Waiting(S) == {c \in S : status[c] = "pending"}

\* The calls that need the link.
OnLink == Connects \cup Writes \cup Reads

\* The calls in S return result; in the same step, those in F fail.
Return(S, result, F) ==
  status' = [c \in Call |-> IF c \in S THEN result
                            ELSE IF c \in F THEN "failed" ELSE status[c]]

\* Any call but disconnect may be refused.
Refuse(c) ==
  /\ c \in Call \ Disconnects
  /\ Idle(c)
  /\ Return({c}, "failed", {})
  /\ UNCHANGED <<cancelled, bound, reported>>

\* A call alone of its kind is taken on: writes and reads on the connected
\* device only, and nothing on the link while a disconnect is under way.
Accept(c) ==
  /\ Idle(c)
  /\ \E kind \in {Connects, Writes, Reads, Scans} :
       c \in kind /\ Waiting(kind) = {}
  /\ c \in OnLink => Waiting(Disconnects) = {}
  /\ c \in Writes \cup Reads => reported = bound
  /\ Return({c}, "pending", {})
  /\ UNCHANGED <<cancelled, bound, reported>>

\* A device without the characteristic is read without waiting.
ReadAtOnce(c) ==
  /\ c \in Reads
  /\ Idle(c)
  /\ reported = bound
  /\ Return({c}, "ok", {})
  /\ UNCHANGED <<cancelled, bound, reported>>

\* The one way a device comes to be reported connected: the connect that
\* asked for it succeeds in that very step.
Connected(c) ==
  /\ c \in Waiting(Connects)
  /\ Waiting(Disconnects) = {}
  /\ reported' = bound
  /\ Return({c}, "ok", {})
  /\ UNCHANGED <<cancelled, bound>>

\* Nothing succeeds over a link the clients were told is gone.
Served(c) ==
  /\ c \in Waiting(Writes \cup Reads \cup Scans)
  /\ c \in Writes \cup Reads => reported = bound
  /\ Return({c}, "ok", {})
  /\ UNCHANGED <<cancelled, bound, reported>>

\* A call ends without success.  Of reads, it is promised only that some
\* read's task was cancelled.
GiveUp(c, result) ==
  /\ c \in Waiting(OnLink)
  /\ result \in {"failed", "timeout", "cancelled"}
  /\ result = "cancelled" =>
       c \in cancelled \/ (c \in Reads /\ cancelled \cap Reads # {})
  /\ Return({c}, result, {})
  /\ UNCHANGED <<cancelled, bound, reported>>

\* Bluetooth is switched off: a scan, and a connect that waits for power.
PowerLost ==
  /\ \E F \in SUBSET Waiting(Connects) : Return({}, "ok", F \cup Waiting(Scans))
  /\ UNCHANGED <<cancelled, bound, reported>>

\* The link is lost: the clients hear of it, and what needed it fails.
LinkLost ==
  /\ Return({}, "ok", Waiting(OnLink))
  /\ reported' = NoDevice
  /\ UNCHANGED <<cancelled, bound>>

\* disconnect(): it fails what waits for the link, or joins one under way.
Close(c) ==
  /\ c \in Disconnects
  /\ Idle(c)
  /\ \E F \in {{}, Waiting(OnLink)} : Return({c}, "pending", F)
  /\ UNCHANGED <<cancelled, bound, reported>>

\* When a disconnect returns, every one has and no device is reported; the
\* transport may also close a link by itself, with nobody waiting.
Closed ==
  /\ Return(Waiting(Disconnects), "ok", {})
  /\ reported' = NoDevice
  /\ UNCHANGED <<cancelled, bound>>

\* disconnect() with nothing to close.
CloseAtOnce(c) ==
  /\ c \in Disconnects
  /\ Idle(c)
  /\ Waiting(Disconnects) = {}
  /\ Return({c}, "ok", Waiting(OnLink))
  /\ reported' = NoDevice
  /\ UNCHANGED <<cancelled, bound>>

CancelTask(c) ==
  /\ c \in Waiting(OnLink) \ cancelled
  /\ cancelled' = cancelled \cup {c}
  /\ UNCHANGED <<status, bound, reported>>

\* A client binds another device when it uses none.
Rebind(p) ==
  /\ Waiting(Connects \cup Writes \cup Reads) = {}
  /\ reported = NoDevice
  /\ bound' = p
  /\ UNCHANGED <<status, cancelled, reported>>

Next ==
  \/ \E c \in Call :
       \/ Refuse(c) \/ Accept(c) \/ ReadAtOnce(c) \/ Connected(c) \/ Served(c)
       \/ \E result \in {"failed", "timeout", "cancelled"} : GiveUp(c, result)
       \/ Close(c) \/ CloseAtOnce(c) \/ CancelTask(c)
  \/ PowerLost \/ LinkLost \/ Closed
  \/ \E p \in Device : Rebind(p)

Spec == Init /\ [][Next]_vars
=============================================================================
