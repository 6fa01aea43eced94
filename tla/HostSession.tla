---------------------------- MODULE HostSession -----------------------------
(***************************************************************************)
(* The watch's side of the link: the host session that CodexMicroBle       *)
(* (firmware/stopwatch-c152) keeps over the connections of its GATT server.*)
(*                                                                         *)
(* Two tasks meet here.  Bluedroid's task runs the callbacks, which only   *)
(* put what happened into bounded queues, one for connection events, one   *)
(* for HID output reports and one for quota writes.  The Arduino loop      *)
(* drains them in poll(), one kind after the other, so what arrived in one *)
(* order may be processed in another.                                      *)
(*                                                                         *)
(* A session lasts from the first of the host's connections to the loss of *)
(* the last; macOS keeps one connection for HID and one for the companion. *)
(* The session numbers are history: the firmware has none in its queues.   *)
(***************************************************************************)
EXTENDS Integers, Sequences, FiniteSets

CONSTANTS
  Conn,            \* Bluedroid's conn_ids, which it uses again
  NoConn,          \* no connection
  SetCapacity,     \* ConnectionSet::kCapacity
  EventCapacity,   \* length of connectionEventQueue_
  ReportCapacity,  \* length of outputQueue_
  QuotaCapacity,   \* length of quotaWriteQueue_
  MaxFragments,    \* reports that fit the 4096 bytes of a request document
  SentParts,       \* the parts of requests the host sends
  SentProtocols,   \* the protocols of the payloads the companion writes
  MaxSession       \* bound on the sessions of a behaviour

ASSUME ConnAssumption == NoConn \notin Conn /\ IsFiniteSet(Conn)
ASSUME CapacityAssumption ==
  /\ {SetCapacity, EventCapacity, ReportCapacity, QuotaCapacity} \subseteq Nat \ {0}
  /\ MaxFragments \in Nat \ {0, 1}
  /\ MaxSession \in Nat \ {0}

\* A report is a whole request the firmware supports, or one it does not, or
\* the first, a middle or the last part of one it supports.  Middle and last
\* parts do not begin with {"method".
Parts == {"whole", "unsupported", "first", "middle", "last"}
StartsTopLevel(part) == part \notin {"middle", "last"}

ASSUME HostAssumption == SentParts \subseteq Parts /\ SentProtocols \subseteq {1, 2}

VARIABLES
  \* Bluedroid: the server's peer devices, and the session they make up
  peers, session,
  \* between the tasks: the three queues and connectionEventLost_
  events, eventLost, reports, quotaWrites,
  \* the loop: the step of poll() it is at, and what only the loop uses
  pc, connections, rpcBuffer, rpcConn,
  \* state_ and the identity of the host, under stateMutex_; hostRpcObserved
  \* is what the screen calls CODEX LIVE
  connected, hostRpcObserved, hostConn, watchProtocol,
  \* history: the session the loop last saw begin, that of the report that set
  \* hostRpcObserved, the one the loop was in when a payload last chose the
  \* protocol, and whether that report had outlived its session by then
  seenSession, hostSession, payloadSession, late

bluedroidVars == <<peers, session>>
queueVars == <<events, eventLost, reports, quotaWrites>>
rpcVars == <<rpcBuffer, rpcConn>>
hostVars == <<hostRpcObserved, hostConn, hostSession, late>>
protocolVars == <<watchProtocol, payloadSession>>
vars == <<bluedroidVars, queueVars, pc, connections, rpcVars, connected,
          hostVars, protocolVars, seenSession>>

Sessions == 0 .. MaxSession
ConnectionEvent == [connected : BOOLEAN, id : Conn, session : Sessions]
Report == [id : Conn, part : Parts, session : Sessions]

\* A quota write is known by the protocol of its payload.
QuotaWrite == {1, 2}

TypeOK ==
  /\ peers \in SUBSET Conn
  /\ session \in Sessions
  /\ events \in Seq(ConnectionEvent) /\ Len(events) <= EventCapacity
  /\ eventLost \in BOOLEAN
  /\ reports \in Seq(Report) /\ Len(reports) <= ReportCapacity
  /\ quotaWrites \in Seq(QuotaWrite) /\ Len(quotaWrites) <= QuotaCapacity
  /\ pc \in {"events", "reconcile", "observe", "quota", "reports"}
  /\ connections \in SUBSET Conn
  /\ rpcBuffer \in Seq(Report)
  /\ rpcConn \in Conn \cup {NoConn}
  /\ connected \in BOOLEAN
  /\ hostRpcObserved \in BOOLEAN
  /\ hostConn \in Conn \cup {NoConn}
  /\ watchProtocol \in {1, 2}
  /\ {seenSession, hostSession, payloadSession} \subseteq Sessions
  /\ late \in BOOLEAN

Init ==
  /\ peers = {} /\ session = 0
  /\ events = <<>> /\ eventLost = FALSE /\ reports = <<>> /\ quotaWrites = <<>>
  /\ pc = "events"
  /\ connections = {}
  /\ rpcBuffer = <<>> /\ rpcConn = NoConn
  /\ connected = FALSE
  /\ hostRpcObserved = FALSE /\ hostConn = NoConn
  /\ watchProtocol = 2
  /\ seenSession = 0 /\ hostSession = 0 /\ payloadSession = 0
  /\ late = FALSE

-----------------------------------------------------------------------------
(* Bluedroid's task *)

\* Between the drain of the events and the reading of the peers: the queue, 16
\* events long in the firmware, is assumed not to fill in these few steps.
Reconciling == pc \in {"reconcile", "observe"}

\* Mutated: the flag is forgotten.
OnConnectionEventUnflagged(isConnected, id) ==
  IF Len(events) < EventCapacity
  THEN /\ events' = Append(events, [connected |-> isConnected, id |-> id,
                                    session |-> session'])
       /\ UNCHANGED eventLost
  ELSE UNCHANGED <<events, eventLost>>

\* onConnectionEvent: a full queue leaves only the flag.
OnConnectionEvent(isConnected, id) ==
  IF Len(events) < EventCapacity
  THEN /\ events' = Append(events, [connected |-> isConnected, id |-> id,
                                    session |-> session'])
       /\ UNCHANGED eventLost
  ELSE ~Reconciling /\ eventLost' = TRUE /\ UNCHANGED events

OnConnect(id) ==
  /\ id \notin peers
  /\ peers = {} => session < MaxSession
  /\ peers' = peers \cup {id}
  /\ session' = IF peers = {} THEN session + 1 ELSE session
  /\ OnConnectionEvent(TRUE, id)
  /\ UNCHANGED <<reports, quotaWrites, pc, connections, rpcVars, connected,
                 hostVars, protocolVars, seenSession>>

OnDisconnect(id) ==
  /\ id \in peers
  /\ peers' = peers \ {id}
  /\ UNCHANGED session
  /\ OnConnectionEvent(FALSE, id)
  /\ UNCHANGED <<reports, quotaWrites, pc, connections, rpcVars, connected,
                 hostVars, protocolVars, seenSession>>

\* onOutput: a report that finds the queue full is gone.
OnOutput(id, part) ==
  /\ id \in peers
  /\ reports' = IF Len(reports) < ReportCapacity
                THEN Append(reports, [id |-> id, part |-> part,
                                      session |-> session])
                ELSE reports
  /\ UNCHANGED <<bluedroidVars, events, eventLost, quotaWrites, pc, connections,
                 rpcVars, connected, hostVars, protocolVars, seenSession>>

\* onQuotaWrite: so is a quota write, which the stack acknowledges all the same.
OnQuotaWrite(protocol) ==
  /\ peers # {}
  /\ quotaWrites' = IF Len(quotaWrites) < QuotaCapacity
                    THEN Append(quotaWrites, protocol)
                    ELSE quotaWrites
  /\ UNCHANGED <<bluedroidVars, events, eventLost, reports, pc, connections,
                 rpcVars, connected, hostVars, protocolVars, seenSession>>

-----------------------------------------------------------------------------
(* The loop: poll() *)

ClearHost ==
  /\ hostRpcObserved' = FALSE
  /\ hostConn' = NoConn
  /\ hostSession' = 0
  /\ late' = FALSE

ClearRpcBuffer == rpcBuffer' = <<>> /\ rpcConn' = NoConn

\* A new session: the face of protocol v2, until a payload says otherwise.
BeginSession(s) ==
  /\ watchProtocol' = 2
  /\ payloadSession' = 0
  /\ seenSession' = s

\* ConnectionSet::apply changes nothing: a duplicate, or an overflow.
ApplyEventIgnored(e) ==
  /\ \/ e.connected = (e.id \in connections) /\ UNCHANGED eventLost
     \/ /\ e.connected /\ e.id \notin connections
        /\ Cardinality(connections) >= SetCapacity
        /\ eventLost' = TRUE
  /\ UNCHANGED <<connections, rpcVars, connected, hostVars, protocolVars,
                 seenSession>>

ApplyConnected(e) ==
  /\ e.connected
  /\ e.id \notin connections
  /\ Cardinality(connections) < SetCapacity
  /\ connections' = connections \cup {e.id}
  /\ connected' = TRUE
  /\ \/ connections = {} /\ BeginSession(e.session) /\ ClearHost /\ ClearRpcBuffer
     \/ connections # {} /\ UNCHANGED <<protocolVars, seenSession, hostVars, rpcVars>>
  /\ UNCHANGED eventLost

\* Mutated: only the loss of the last connection ends LIVE.
ApplyDisconnectedCount(e) ==
  /\ ~e.connected
  /\ e.id \in connections
  /\ connections' = connections \ {e.id}
  /\ connected' = (connections' # {})
  /\ \/ connections' = {} /\ ClearHost /\ ClearRpcBuffer
     \/ connections' # {} /\ UNCHANGED <<hostVars, rpcVars>>
  /\ UNCHANGED <<protocolVars, seenSession, eventLost>>

ApplyDisconnected(e) ==
  /\ ~e.connected
  /\ e.id \in connections
  /\ connections' = connections \ {e.id}
  /\ connected' = (connections' # {})
  /\ \/ (connections' = {} \/ hostConn = e.id) /\ ClearHost
     \/ connections' # {} /\ hostConn # e.id /\ UNCHANGED hostVars
  /\ \/ (connections' = {} \/ rpcConn = e.id) /\ ClearRpcBuffer
     \/ connections' # {} /\ rpcConn # e.id /\ UNCHANGED rpcVars
  /\ UNCHANGED <<protocolVars, seenSession, eventLost>>

ProcessConnectionEvent ==
  /\ pc = "events"
  /\ events # <<>>
  /\ events' = Tail(events)
  /\ LET e == Head(events)
     IN  ApplyEventIgnored(e) \/ ApplyConnected(e) \/ ApplyDisconnected(e)
  /\ UNCHANGED <<bluedroidVars, reports, quotaWrites, pc>>

EventsDrained ==
  /\ pc = "events"
  /\ events = <<>>
  /\ pc' = "reconcile"
  /\ UNCHANGED <<bluedroidVars, queueVars, connections, rpcVars, connected,
                 hostVars, protocolVars, seenSession>>

\* reconcileConnectionSet: the flag is exchanged first, the peers read later.
TakeEventLost ==
  /\ pc = "reconcile"
  /\ pc' = IF eventLost THEN "observe" ELSE "quota"
  /\ eventLost' = FALSE
  /\ UNCHANGED <<bluedroidVars, events, reports, quotaWrites, connections,
                 rpcVars, connected, hostVars, protocolVars, seenSession>>

\* Mutated: an overflow is not tried again.
ReconcileGivesUp ==
  /\ pc = "observe"
  /\ Cardinality(peers) > SetCapacity
  /\ pc' = "quota"
  /\ UNCHANGED <<bluedroidVars, queueVars, connections, rpcVars, connected,
                 hostVars, protocolVars, seenSession>>

ReconcileOverflows ==
  /\ pc = "observe"
  /\ Cardinality(peers) > SetCapacity
  /\ eventLost' = TRUE
  /\ pc' = "quota"
  /\ UNCHANGED <<bluedroidVars, events, reports, quotaWrites, connections,
                 rpcVars, connected, hostVars, protocolVars, seenSession>>

\* Mutated: the same members are taken for the same session.
ReconcileIfChanged ==
  /\ pc = "observe"
  /\ Cardinality(peers) <= SetCapacity
  /\ connections' = peers
  /\ connected' = (peers # {})
  /\ \/ connections # peers /\ ClearHost
     \/ connections = peers /\ UNCHANGED hostVars
  /\ ClearRpcBuffer
  /\ UNCHANGED <<protocolVars, seenSession>>
  /\ pc' = "quota"
  /\ UNCHANGED <<bluedroidVars, queueVars>>

Reconcile ==
  /\ pc = "observe"
  /\ Cardinality(peers) <= SetCapacity
  /\ connections' = peers
  /\ connected' = (peers # {})
  /\ ClearHost
  /\ ClearRpcBuffer
  /\ \/ peers # {} /\ BeginSession(session)
     \/ peers = {} /\ UNCHANGED <<protocolVars, seenSession>>
  /\ pc' = "quota"
  /\ UNCHANGED <<bluedroidVars, queueVars>>

\* processQuotaWrite of a payload that parses.
ProcessQuotaWrite ==
  /\ pc = "quota"
  /\ quotaWrites # <<>>
  /\ quotaWrites' = Tail(quotaWrites)
  /\ watchProtocol' = Head(quotaWrites)
  /\ payloadSession' = seenSession
  /\ UNCHANGED <<bluedroidVars, events, eventLost, reports, pc, connections,
                 rpcVars, connected, hostVars, seenSession>>

QuotaDrained ==
  /\ pc = "quota"
  /\ quotaWrites = <<>>
  /\ pc' = "reports"
  /\ UNCHANGED <<bluedroidVars, queueVars, connections, rpcVars, connected,
                 hostVars, protocolVars, seenSession>>

\* Mutated: any connection's report is added; nothing is dropped for a new
\* top-level object.
BufferForAny(r) == IF StartsTopLevel(r.part) THEN <<>> ELSE rpcBuffer
BufferForLate(r) == IF rpcConn # r.id THEN <<>> ELSE rpcBuffer

\* The buffer a report is added to: another connection's is dropped, and so is
\* any that is left when a new top-level object begins.
BufferFor(r) ==
  IF StartsTopLevel(r.part) \/ rpcConn # r.id THEN <<>> ELSE rpcBuffer

PartsOf(buffer) == [i \in DOMAIN buffer |-> buffer[i].part]
Supported(buffer) ==
  \/ PartsOf(buffer) = <<"whole">>
  \/ /\ Len(buffer) > 1
     /\ buffer[1].part = "first" /\ buffer[Len(buffer)].part = "last"
     /\ \A i \in 2 .. Len(buffer) - 1 : buffer[i].part = "middle"
Incomplete(buffer) == /\ PartsOf(buffer) \notin {<<"whole">>, <<"unsupported">>}
                      /\ Len(buffer) < MaxFragments

\* noteHostRpcActivity
NoteHostRpcActivity(r) ==
  IF connected
  THEN /\ hostRpcObserved' = TRUE
       /\ hostConn' = r.id
       /\ hostSession' = r.session
       /\ late' = (r.session # session)
  ELSE UNCHANGED hostVars

\* processOutput: the report is not of a connection, or has nothing to begin a
\* request with.
ReportIgnored(r) ==
  /\ \/ r.id \notin connections /\ UNCHANGED rpcVars
     \/ /\ r.id \in connections
        /\ ~StartsTopLevel(r.part) /\ BufferFor(r) = <<>>
        /\ rpcBuffer' = <<>>
        /\ rpcConn' = IF rpcConn = r.id THEN rpcConn ELSE NoConn
  /\ UNCHANGED hostVars

\* It ends a request the firmware supports.  Unless a part in between was lost,
\* which the parts that are left do not show: then the text may also seem
\* incomplete, or not parse.
RequestHandled(r) ==
  /\ r.id \in connections
  /\ Supported(Append(BufferFor(r), r))
  /\ NoteHostRpcActivity(r)
  /\ ClearRpcBuffer

\* More of the request is to come.  The rest of a request whose beginning was
\* lost may look like one.
RequestIncomplete(r) ==
  /\ r.id \in connections
  /\ LET buffer == Append(BufferFor(r), r)
     IN  /\ Incomplete(buffer)
         /\ rpcBuffer' = buffer
  /\ rpcConn' = r.id
  /\ UNCHANGED hostVars

\* It does not parse, or parses as a request the firmware does not support.
RequestRejected(r) ==
  /\ r.id \in connections
  /\ LET buffer == Append(BufferFor(r), r)
     IN  /\ PartsOf(buffer) \notin {<<"whole">>, <<"first">>}
         /\ rpcBuffer' = <<>>
         /\ \/ PartsOf(buffer) # <<"unsupported">> /\ rpcConn' = r.id
            \/ rpcConn' = NoConn
  /\ UNCHANGED hostVars

ProcessOutput ==
  /\ pc = "reports"
  /\ reports # <<>>
  /\ reports' = Tail(reports)
  /\ LET r == Head(reports)
     IN  \/ ReportIgnored(r) \/ RequestHandled(r)
         \/ RequestIncomplete(r) \/ RequestRejected(r)
  /\ UNCHANGED <<bluedroidVars, events, eventLost, quotaWrites, pc, connections,
                 connected, protocolVars, seenSession>>

ReportsDrained ==
  /\ pc = "reports"
  /\ reports = <<>>
  /\ pc' = "events"
  /\ UNCHANGED <<bluedroidVars, queueVars, connections, rpcVars, connected,
                 hostVars, protocolVars, seenSession>>

-----------------------------------------------------------------------------
Callbacks ==
  \/ \E id \in Conn : OnConnect(id) \/ OnDisconnect(id)
  \/ \E id \in Conn, part \in SentParts : OnOutput(id, part)
  \/ \E protocol \in SentProtocols : OnQuotaWrite(protocol)

Poll ==
  \/ ProcessConnectionEvent \/ EventsDrained
  \/ TakeEventLost \/ ReconcileOverflows \/ Reconcile
  \/ ProcessQuotaWrite \/ QuotaDrained
  \/ ProcessOutput \/ ReportsDrained

Next == Callbacks \/ Poll

Spec == Init /\ [][Next]_vars

\* loop() calls poll() for ever, and takes from each queue faster than the
\* radio fills it: no drain goes on for ever.
Loops == []<>(pc = "events") /\ []<>(pc = "quota")

FairSpec == Spec /\ Loops

-----------------------------------------------------------------------------
(* Properties *)

\* No event waits, no lost one is still to be made up for.
CaughtUp == events = <<>> /\ ~eventLost /\ pc # "observe"

\* However connection events are lost to a full queue or to a full set, and
\* whenever the flag is exchanged meanwhile, the loop ends up with the peers
\* the server has.
MembershipRecovers ==
  CaughtUp => connections = peers /\ connected = (peers # {})

\* CODEX LIVE is always some current connection's: the host that set it cannot
\* leave, by an event or by a reconciliation, and leave it set.
LiveNamesHost ==
  hostRpcObserved => connected /\ hostConn \in connections

\* "an unseen empty->connected cycle must never inherit the old session's CODEX
\* LIVE state" (CodexMicroBle.cpp:654): once the loop has caught up, LIVE is of
\* the session under way, unless the report that set it had waited in the
\* queue for longer than its session lasted.
LiveEndsWithSession ==
  CaughtUp /\ hostRpcObserved /\ ~late => peers # {} /\ hostSession = session

\* "Stay on the v2 face while the host negotiates; only a successfully parsed
\* legacy payload may select the v1 dashboard" (CodexMicroBle.cpp:663): once the
\* loop has caught up, the v1 dashboard of an earlier session is gone, seen or
\* unseen as the end of that session may have been.
LegacyUiEndsWithSession ==
  CaughtUp /\ peers # {} /\ watchProtocol = 1 => payloadSession = session

\* A session that began unseen inherits neither LIVE nor the legacy dashboard.
SessionStartsClean == LiveEndsWithSession /\ LegacyUiEndsWithSession

\* The parts in the request buffer were sent over one connection, and it is up.
FragmentsOfOneHost ==
  rpcBuffer # <<>> =>
    /\ rpcConn \in connections
    /\ \A i \in DOMAIN rpcBuffer : rpcBuffer[i].id = rpcConn

\* "Resynchronize immediately instead of poisoning the next request"
\* (CodexMicroBle.cpp:757): whatever lost or foreign parts are in the buffer, a
\* whole request of a connection is handled and makes that connection the host.
WholeRequestHandled ==
  [][ \A r \in Report :
        /\ pc = "reports" /\ reports # <<>> /\ r = Head(reports)
        /\ reports' = Tail(reports)
        /\ r.part = "whole" /\ r.id \in connections
        => hostRpcObserved' /\ hostConn' = r.id /\ rpcBuffer' = <<>> ]_vars

\* However many events were lost, once the connections stay as they are the
\* watch comes to show them: that the host is there, or that it is gone.
ConnectionShown ==
  <>[][UNCHANGED peers]_vars /\ <>[](Cardinality(peers) <= SetCapacity) =>
    <>[](connected = (peers # {}) /\ (hostRpcObserved => peers # {}))

\* The set exists because sampling "could otherwise make a new host session
\* inherit the previous session's CODEX LIVE state" (ConnectionHealth.h:36):
\* the report that set LIVE is never of a session before the one the loop saw.
NoInheritedLive ==
  hostRpcObserved => hostSession >= seenSession
=============================================================================
