------------------------- MODULE HostSessionProofs --------------------------
(***************************************************************************)
(* Proofs about HostSession: for any number of connections and any length  *)
(* of the queues, LIVE and the request buffer belong to a connection that  *)
(* is up; whatever events are lost, a loop that has caught up has the      *)
(* server's connections and nothing of an earlier session; and a whole     *)
(* request is handled whatever is left in the buffer.                      *)
(***************************************************************************)
EXTENDS HostSession, FiniteSetTheorems, TLAPS

\* What the two properties rest on: the queues hold well-typed entries, the
\* host of no connection is not LIVE, and the flag shown says whether any
\* connection is up.
Shape ==
  /\ peers \in SUBSET Conn
  /\ connections \in SUBSET Conn
  /\ events \in Seq(ConnectionEvent)
  /\ reports \in Seq(Report)
  /\ rpcBuffer \in Seq(Report)
  /\ session \in Sessions
  /\ connected = (connections # {})

Inv == Shape /\ LiveNamesHost /\ FragmentsOfOneHost

\* The queues and the buffer may be empty.
LEMMA EmptyQueues == <<>> \in Seq(ConnectionEvent) /\ <<>> \in Seq(Report)
OBVIOUS

\* A watch that nothing has connected to satisfies the invariant.
THEOREM InitInv == Init => Inv
<1> SUFFICES ASSUME Init PROVE Inv
  OBVIOUS
<1>1. 0 \in Sessions
  BY CapacityAssumption DEF Sessions
<1>2. Shape
  BY <1>1, EmptyQueues DEF Init, Shape
<1> QED BY <1>2 DEF Init, Inv, LiveNamesHost, FragmentsOfOneHost

\* A callback of Bluedroid's task touches nothing the properties are about, and
\* queues a well-typed entry.
LEMMA CallbacksKeep == ASSUME Inv, Callbacks PROVE Inv'
<1> USE CapacityAssumption DEF Inv, Shape, LiveNamesHost, FragmentsOfOneHost,
        rpcVars, hostVars
<1>1. ASSUME NEW b \in BOOLEAN, NEW id \in Conn, session' \in Sessions,
             OnConnectionEvent(b, id)
      PROVE  events' \in Seq(ConnectionEvent)
  <2>1. [connected |-> b, id |-> id, session |-> session'] \in ConnectionEvent
    BY <1>1 DEF ConnectionEvent
  <2>2. Append(events, [connected |-> b, id |-> id, session |-> session'])
          \in Seq(ConnectionEvent)
    BY <2>1
  <2> QED BY <1>1, <2>2 DEF OnConnectionEvent
<1>2. ASSUME NEW id \in Conn, OnConnect(id) PROVE Inv'
  <2>1. session' \in Sessions
    BY <1>2 DEF OnConnect, Sessions
  <2>2. events' \in Seq(ConnectionEvent)
    BY <1>1, <1>2, <2>1 DEF OnConnect
  <2> QED BY <1>2, <2>1, <2>2 DEF OnConnect
<1>3. ASSUME NEW id \in Conn, OnDisconnect(id) PROVE Inv'
  <2>1. session' \in Sessions
    BY <1>3 DEF OnDisconnect
  <2>2. events' \in Seq(ConnectionEvent)
    BY <1>1, <1>3, <2>1 DEF OnDisconnect
  <2> QED BY <1>3, <2>1, <2>2 DEF OnDisconnect
<1>4. ASSUME NEW id \in Conn, NEW part \in SentParts, OnOutput(id, part) PROVE Inv'
  <2>1. [id |-> id, part |-> part, session |-> session] \in Report
    BY HostAssumption DEF Report
  <2>2. reports' \in Seq(Report)
    BY <1>4, <2>1 DEF OnOutput
  <2> QED BY <1>4, <2>2 DEF OnOutput, bluedroidVars
<1>5. ASSUME NEW protocol \in SentProtocols, OnQuotaWrite(protocol) PROVE Inv'
  BY <1>5 DEF OnQuotaWrite, bluedroidVars
<1> QED BY <1>2, <1>3, <1>4, <1>5 DEF Callbacks

\* A connection event that the loop applies takes LIVE and the buffer along
\* when the connection they belong to goes.
LEMMA EventKeeps == ASSUME Inv, ProcessConnectionEvent PROVE Inv'
<1> DEFINE e == Head(events)
<1> USE DEF Inv, Shape, LiveNamesHost, FragmentsOfOneHost
<1>1. e \in ConnectionEvent /\ events' \in Seq(ConnectionEvent)
  BY DEF ProcessConnectionEvent
<1>2. e.id \in Conn
  BY <1>1 DEF ConnectionEvent
<1>3. UNCHANGED <<peers, session, reports>>
  BY DEF ProcessConnectionEvent, bluedroidVars
<1>4. CASE ApplyEventIgnored(e)
  BY <1>1, <1>3, <1>4 DEF ApplyEventIgnored, rpcVars, hostVars
<1>5. CASE ApplyConnected(e)
  <2>1. CASE ClearHost /\ ClearRpcBuffer
    BY <1>1, <1>2, <1>3, <1>5, <2>1, EmptyQueues
    DEF ApplyConnected, ClearHost, ClearRpcBuffer
  <2>2. CASE UNCHANGED <<hostVars, rpcVars>>
    BY <1>1, <1>2, <1>3, <1>5, <2>2 DEF ApplyConnected, hostVars, rpcVars
  <2> QED BY <1>5, <2>1, <2>2 DEF ApplyConnected
<1>6. CASE ApplyDisconnected(e)
  <2>1. Shape'
    <3>1. rpcBuffer' \in Seq(Report)
      BY <1>6, EmptyQueues DEF ApplyDisconnected, ClearRpcBuffer, rpcVars
    <3> QED BY <1>1, <1>3, <1>6, <3>1 DEF ApplyDisconnected
  <2>2. LiveNamesHost'
    BY <1>6 DEF ApplyDisconnected, ClearHost, hostVars
  <2>3. FragmentsOfOneHost'
    BY <1>6 DEF ApplyDisconnected, ClearRpcBuffer, rpcVars
  <2> QED BY <2>1, <2>2, <2>3
<1> QED BY <1>4, <1>5, <1>6 DEF ProcessConnectionEvent

\* A report that the loop processes adds to the buffer of its own connection
\* only, and makes only a connection that is up the host.
LEMMA ReportKeeps == ASSUME Inv, ProcessOutput PROVE Inv'
<1> DEFINE r == Head(reports)
           b == BufferFor(r)
<1> USE DEF Inv, Shape
<1>1. r \in Report /\ reports' \in Seq(Report)
  BY DEF ProcessOutput
<1>2. r.id \in Conn
  BY <1>1 DEF Report
<1>3. UNCHANGED <<peers, session, events, connections, connected>>
  BY DEF ProcessOutput, bluedroidVars
<1>4. b \in Seq(Report) /\ \A i \in DOMAIN b : b[i].id = r.id
  BY EmptyQueues DEF BufferFor, FragmentsOfOneHost
<1>5. CASE ReportIgnored(r)
  BY <1>1, <1>3, <1>5, EmptyQueues DEF ReportIgnored, LiveNamesHost,
     FragmentsOfOneHost, rpcVars, hostVars
<1>6. CASE RequestHandled(r)
  BY <1>1, <1>3, <1>6, EmptyQueues DEF RequestHandled, NoteHostRpcActivity,
     ClearRpcBuffer,
     LiveNamesHost, FragmentsOfOneHost, hostVars
<1>7. CASE RequestIncomplete(r)
  <2>1. rpcBuffer' = Append(b, r) /\ rpcConn' = r.id /\ r.id \in connections
        /\ UNCHANGED hostVars
    BY <1>7 DEF RequestIncomplete
  <2>2. Append(b, r) \in Seq(Report)
        /\ \A i \in DOMAIN Append(b, r) : Append(b, r)[i].id = r.id
    BY <1>1, <1>4
  <2>3. Shape'
    BY <1>1, <1>3, <2>1, <2>2
  <2>4. LiveNamesHost'
    BY <1>3, <2>1 DEF LiveNamesHost, hostVars
  <2>5. FragmentsOfOneHost'
    BY <1>3, <2>1, <2>2 DEF FragmentsOfOneHost
  <2> QED BY <2>3, <2>4, <2>5
<1>8. CASE RequestRejected(r)
  BY <1>1, <1>3, <1>8, EmptyQueues DEF RequestRejected, LiveNamesHost,
     FragmentsOfOneHost,
     hostVars
<1> QED BY <1>5, <1>6, <1>7, <1>8 DEF ProcessOutput

\* Every callback and every step of poll() keeps the invariant.
THEOREM NextInv == Inv /\ [Next]_vars => Inv'
<1> SUFFICES ASSUME Inv, [Next]_vars PROVE Inv'
  OBVIOUS
<1> USE DEF Inv, Shape, LiveNamesHost, FragmentsOfOneHost
<1>1. CASE Callbacks
  BY <1>1, CallbacksKeep
<1>2. CASE ProcessConnectionEvent
  BY <1>2, EventKeeps
<1>3. CASE ProcessOutput
  BY <1>3, ReportKeeps
<1>4. CASE Reconcile
  BY <1>4, EmptyQueues DEF Reconcile, ClearHost, ClearRpcBuffer, bluedroidVars,
     queueVars
<1>5. CASE \/ EventsDrained \/ TakeEventLost \/ ReconcileOverflows
           \/ ProcessQuotaWrite \/ QuotaDrained \/ ReportsDrained
  BY <1>5 DEF EventsDrained, TakeEventLost, ReconcileOverflows,
     ProcessQuotaWrite,
     QuotaDrained, ReportsDrained, bluedroidVars, queueVars, rpcVars, hostVars
<1>6. CASE UNCHANGED vars
  BY <1>6 DEF vars, bluedroidVars, queueVars, rpcVars, hostVars
<1> QED BY <1>1, <1>2, <1>3, <1>4, <1>5, <1>6 DEF Next, Poll

\* CODEX LIVE is always that of a connection that is up.
THEOREM LiveHasHost == Spec => []LiveNamesHost
BY InitInv, NextInv, PTL DEF Spec, Inv

\* No request is ever put together from the parts of two connections.
THEOREM FragmentsNeverMix == Spec => []FragmentsOfOneHost
BY InitInv, NextInv, PTL DEF Spec, Inv
-----------------------------------------------------------------------------
(* What the queue of events says of the peers *)

\* No event of a connection comes before the n-th of the queue; and the j-th is
\* the last one of its connection before the n-th.
NoneBefore(id, n) == \A j \in DOMAIN events : j < n => events[j].id # id
LastBefore(j, n) ==
  /\ j < n
  /\ \A k \in DOMAIN events : j < k /\ k < n => events[k].id # events[j].id

\* No event is missing from the queue, or will be once the peers have been read.
QueueWhole == ~eventLost \/ Reconciling
SetWhole == ~eventLost /\ pc # "observe"

\* The last event of a connection tells whether it is up, and the beginning of
\* one that is gone has its end behind it in the queue.
QueueInv ==
  QueueWhole => \A j \in DOMAIN events :
    LastBefore(j, Len(events) + 1) => (events[j].connected <=> events[j].id \in peers)
EndInv ==
  QueueWhole => \A j \in DOMAIN events :
    events[j].connected /\ events[j].id \notin peers =>
      \E k \in DOMAIN events :
        j < k /\ events[k].id = events[j].id /\ ~events[k].connected

\* A connection without an event is in the set if it is up, and one in the set
\* that is gone has its end in the queue.
SetInv ==
  SetWhole => \A id \in Conn :
    NoneBefore(id, Len(events) + 1) => (id \in connections <=> id \in peers)
GoneInv ==
  SetWhole => \A id \in connections \ peers :
    \E k \in DOMAIN events : events[k].id = id /\ ~events[k].connected

\* The n-th event begins the session under way: all that came before have gone.
Begins(n) ==
  /\ events[n].connected /\ events[n].session = session
  /\ \A j \in DOMAIN events : LastBefore(j, n) => ~events[j].connected

\* An event of an earlier session is followed by the beginning of this one, and
\* a loop that has not seen this session has its beginning still to come, behind
\* the ends of all the connections of its set.
StaleInv ==
  QueueWhole /\ peers # {} => \A j \in DOMAIN events :
    events[j].session # session => \E n \in DOMAIN events : j < n /\ Begins(n)
UnseenInv ==
  SetWhole /\ peers # {} /\ seenSession # session =>
    \E n \in DOMAIN events :
      Begins(n) /\ \A id \in connections : ~NoneBefore(id, n)

\* LIVE of a session that is over has the end of its connection still to come.
LiveInv ==
  SetWhole /\ hostRpcObserved /\ ~late /\ (peers = {} \/ hostSession # session) =>
    \E k \in DOMAIN events : events[k].id = hostConn /\ ~events[k].connected

\* A payload of the v1 dashboard was taken in the session the loop last saw begin.
PayloadInv == watchProtocol = 1 => payloadSession = seenSession

SessionInv ==
  /\ QueueInv /\ EndInv
  /\ SetInv /\ GoneInv
  /\ StaleInv /\ UnseenInv
  /\ LiveInv /\ PayloadInv

\* With the queue empty and nothing lost, a watch that nothing has connected to
\* satisfies the invariant.
THEOREM InitSession == Init => SessionInv
BY DEF Init, SessionInv, QueueInv, EndInv, SetInv, GoneInv, StaleInv, UnseenInv,
   LiveInv, PayloadInv

\* An event at the end of the queue leaves those before it what they were.
LEMMA Appended ==
  ASSUME events \in Seq(ConnectionEvent), NEW e \in ConnectionEvent,
         events' = Append(events, e)
  PROVE  /\ Len(events) \in Nat /\ Len(events') = Len(events) + 1
         /\ DOMAIN events = 1 .. Len(events)
         /\ DOMAIN events' = 1 .. Len(events) + 1
         /\ \A j \in DOMAIN events : events'[j] = events[j] /\ events[j] \in ConnectionEvent
         /\ events'[Len(events) + 1] = e
OBVIOUS

\* What is kept of an event that is put in the queue: who came before whom.
LEMMA AppendedOrder ==
  ASSUME events \in Seq(ConnectionEvent), NEW e \in ConnectionEvent,
         events' = Append(events, e), NEW n0 \in Nat, n0 = Len(events)
  PROVE  /\ \A j \in DOMAIN events, n \in 1 .. n0 + 1 :
              LastBefore(j, n)' <=> LastBefore(j, n)
         /\ \A j \in DOMAIN events : LastBefore(j, n0 + 2)' =>
              LastBefore(j, n0 + 1) /\ events[j].id # e.id
         /\ \A id \in Conn, n \in 1 .. n0 + 1 :
              NoneBefore(id, n)' <=> NoneBefore(id, n)
         /\ \A id \in Conn : NoneBefore(id, n0 + 2)' =>
              NoneBefore(id, n0 + 1) /\ id # e.id
         /\ session' = session => \A n \in DOMAIN events : Begins(n)' <=> Begins(n)
<1>1. /\ DOMAIN events = 1 .. n0 /\ DOMAIN events' = 1 .. n0 + 1
      /\ \A j \in 1 .. n0 : events'[j] = events[j]
      /\ events'[n0 + 1] = e
  BY Appended
<1>2. \A j \in 1 .. n0, n \in 1 .. n0 + 1 : LastBefore(j, n)' <=> LastBefore(j, n)
  BY <1>1 DEF LastBefore
<1>3. \A j \in 1 .. n0 : LastBefore(j, n0 + 2)' =>
        LastBefore(j, n0 + 1) /\ events[j].id # e.id
  BY <1>1 DEF LastBefore
<1>4. \A id \in Conn, n \in 1 .. n0 + 1 : NoneBefore(id, n)' <=> NoneBefore(id, n)
  BY <1>1 DEF NoneBefore
<1>5. \A id \in Conn : NoneBefore(id, n0 + 2)' => NoneBefore(id, n0 + 1) /\ id # e.id
  BY <1>1 DEF NoneBefore
<1>6. ASSUME session' = session, NEW n \in 1 .. n0 PROVE Begins(n)' <=> Begins(n)
  <2>1. n \in 1 .. n0 + 1
    BY <1>1
  <2>2. \A j \in 1 .. n0 : LastBefore(j, n)' <=> LastBefore(j, n)
    BY <1>2, <2>1
  <2>3. ~LastBefore(n0 + 1, n)'
    BY <1>1 DEF LastBefore
  <2> QED BY <1>1, <1>6, <2>2, <2>3 DEF Begins
<1> QED BY <1>1, <1>2, <1>3, <1>4, <1>5, <1>6
\* A connection's event that the queue has room for.
LEMMA EventQueued ==
  ASSUME Inv, Inv', SessionInv, NEW id \in Conn, NEW b \in BOOLEAN,
         NEW e \in ConnectionEvent, e.id = id, e.connected = b, e.session = session',
         events' = Append(events, e), UNCHANGED <<eventLost, pc, connections, seenSession>>,
         UNCHANGED <<hostVars, protocolVars>>,
         \/ /\ b /\ id \notin peers /\ peers' = peers \cup {id}
            /\ session' = IF peers = {} THEN session + 1 ELSE session
         \/ ~b /\ id \in peers /\ peers' = peers \ {id} /\ session' = session
  PROVE  SessionInv'
<1> DEFINE n0 == Len(events)
<1>0. n0 \in Nat /\ UNCHANGED <<hostRpcObserved, hostConn, hostSession, late,
                                watchProtocol, payloadSession>>
  BY DEF Inv, Shape, hostVars, protocolVars
<1>1. /\ events \in Seq(ConnectionEvent) /\ session \in Int
      /\ peers \subseteq Conn /\ connections \subseteq Conn
  BY CapacityAssumption DEF Inv, Shape, Sessions
<1>2. /\ Len(events') = n0 + 1
      /\ DOMAIN events = 1 .. n0 /\ DOMAIN events' = 1 .. n0 + 1
      /\ \A j \in 1 .. n0 : events'[j] = events[j] /\ events[j] \in ConnectionEvent
      /\ events'[n0 + 1] = e
  BY <1>1, Appended
<1>3. PICK n \in Nat : n = n0
  BY <1>0
<1>4. /\ \A j \in DOMAIN events, m \in 1 .. n + 1 :
           LastBefore(j, m)' <=> LastBefore(j, m)
      /\ \A j \in DOMAIN events : LastBefore(j, n + 2)' =>
           LastBefore(j, n + 1) /\ events[j].id # e.id
      /\ \A c \in Conn, m \in 1 .. n + 1 :
           NoneBefore(c, m)' <=> NoneBefore(c, m)
      /\ \A c \in Conn : NoneBefore(c, n + 2)' => NoneBefore(c, n + 1) /\ c # e.id
      /\ session' = session => \A m \in DOMAIN events : Begins(m)' <=> Begins(m)
  BY <1>1, <1>3, AppendedOrder
<1>5. /\ Len(events) = n /\ Len(events') = n + 1
      /\ DOMAIN events = 1 .. n /\ DOMAIN events' = 1 .. n + 1
      /\ \A j \in 1 .. n : events'[j] = events[j] /\ events[j] \in ConnectionEvent
      /\ events'[n + 1] = e
  BY <1>2, <1>3
<1>6. \A j \in 1 .. n : events[j].id \in Conn /\ events[j].connected \in BOOLEAN
  BY <1>5 DEF ConnectionEvent
<1> HIDE DEF n0
<1>7. (QueueWhole' <=> QueueWhole) /\ (SetWhole' <=> SetWhole) /\ (SetWhole => QueueWhole)
  BY DEF QueueWhole, SetWhole, Reconciling
<1>8. QueueInv'
  <2> SUFFICES ASSUME QueueWhole, NEW j \in 1 .. n + 1, LastBefore(j, n + 2)'
               PROVE  events'[j].connected <=> events'[j].id \in peers'
    BY <1>5, <1>7 DEF QueueInv
  <2>1. CASE j = n + 1
    BY <1>5, <2>1
  <2>2. CASE j \in 1 .. n
    <3>1. LastBefore(j, n + 1) /\ events[j].id # e.id
      BY <1>4, <1>5, <2>2
    <3>2. events[j].connected <=> events[j].id \in peers
      BY <1>5, <2>2, <3>1 DEF SessionInv, QueueInv
    <3> QED BY <1>5, <2>2, <3>1, <3>2
  <2>3. j = n + 1 \/ j \in 1 .. n
    BY <1>3
  <2> QED BY <2>1, <2>2, <2>3
<1>9. EndInv'
  <2> SUFFICES ASSUME QueueWhole, NEW j \in 1 .. n + 1,
                      events'[j].connected, events'[j].id \notin peers'
               PROVE  \E k \in 1 .. n + 1 : j < k /\ events'[k].id = events'[j].id
                                              /\ ~events'[k].connected
    BY <1>5, <1>7 DEF EndInv
  <2>1. j \in 1 .. n
    BY <1>3, <1>5
  <2>2. CASE events[j].id \in peers
    <3>1. ~b /\ events[j].id = id
      BY <1>5, <2>1, <2>2
    <3> QED BY <1>3, <1>5, <2>1, <3>1
  <2>3. CASE events[j].id \notin peers
    <3>1. PICK k \in 1 .. n : j < k /\ events[k].id = events[j].id /\ ~events[k].connected
      BY <1>5, <2>1, <2>3 DEF SessionInv, EndInv
    <3> QED BY <1>3, <1>5, <2>1, <3>1
  <2> QED BY <2>2, <2>3
<1>10. SetInv'
  <2> SUFFICES ASSUME SetWhole, NEW c \in Conn, NoneBefore(c, n + 2)'
               PROVE  c \in connections' <=> c \in peers'
    BY <1>5, <1>7 DEF SetInv
  <2>1. NoneBefore(c, n + 1) /\ c # id
    BY <1>4
  <2>2. c \in connections <=> c \in peers
    BY <1>5, <2>1 DEF SessionInv, SetInv
  <2> QED BY <2>1, <2>2
<1>11. GoneInv'
  <2> SUFFICES ASSUME SetWhole, NEW c \in connections \ peers'
               PROVE  \E k \in 1 .. n + 1 : events'[k].id = c /\ ~events'[k].connected
    BY <1>5, <1>7 DEF GoneInv
  <2>1. CASE c \in peers
    BY <1>3, <1>5, <2>1
  <2>2. CASE c \notin peers
    <3>1. PICK k \in 1 .. n : events[k].id = c /\ ~events[k].connected
      BY <1>5, <2>2 DEF SessionInv, GoneInv
    <3> QED BY <1>3, <1>5, <3>1
  <2> QED BY <2>1, <2>2
<1>12. ASSUME QueueWhole, peers = {} PROVE b /\ session' = session + 1 /\ Begins(n + 1)'
  <2>1. b /\ session' = session + 1
    BY <1>12
  <2>2. \A j \in 1 .. n : LastBefore(j, n + 1) => ~events[j].connected
    BY <1>5, <1>12 DEF SessionInv, QueueInv
  <2>3. \A j \in 1 .. n : LastBefore(j, n + 1)' => ~events'[j].connected
    BY <1>3, <1>4, <1>5, <2>2
  <2>4. ~LastBefore(n + 1, n + 1)'
    BY <1>3 DEF LastBefore
  <2>5. events'[n + 1].connected /\ events'[n + 1].session = session'
    BY <1>5, <2>1
  <2>6. \A j \in 1 .. n + 1 : LastBefore(j, n + 1)' => ~events'[j].connected
    <3>1. \A j \in 1 .. n + 1 : j \in 1 .. n \/ j = n + 1
      BY <1>3
    <3> QED BY <2>3, <2>4, <3>1
  <2> QED BY <1>5, <2>1, <2>5, <2>6 DEF Begins
<1>13. StaleInv'
  <2> SUFFICES ASSUME QueueWhole, peers' # {}, NEW j \in 1 .. n + 1,
                      events'[j].session # session'
               PROVE  \E m \in 1 .. n + 1 : j < m /\ Begins(m)'
    BY <1>5, <1>7 DEF StaleInv
  <2>1. j \in 1 .. n
    BY <1>3, <1>5
  <2>2. CASE peers = {}
    BY <1>3, <1>12, <2>1, <2>2
  <2>3. CASE peers # {}
    <3>1. session' = session
      BY <2>3
    <3>2. PICK m \in 1 .. n : j < m /\ Begins(m)
      BY <1>5, <2>1, <2>3, <3>1 DEF SessionInv, StaleInv
    <3>3. Begins(m)'
      BY <1>4, <1>5, <3>1, <3>2
    <3> QED BY <1>3, <3>2, <3>3
  <2> QED BY <2>2, <2>3
<1>14. UnseenInv'
  <2> SUFFICES ASSUME SetWhole, peers' # {}, seenSession # session'
               PROVE  \E m \in 1 .. n + 1 :
                        Begins(m)' /\ \A c \in connections : ~NoneBefore(c, m)'
    BY <1>5, <1>7 DEF UnseenInv
  <2>1. CASE peers = {}
    <3>1. \A c \in connections : ~NoneBefore(c, n + 1)
      BY <1>1, <1>5, <2>1 DEF SessionInv, SetInv
    <3>2. \A c \in connections : ~NoneBefore(c, n + 1)'
      BY <1>1, <1>3, <1>4, <3>1
    <3> QED BY <1>3, <1>7, <1>12, <2>1, <3>2
  <2>2. CASE peers # {}
    <3>1. session' = session
      BY <2>2
    <3>2. PICK m \in 1 .. n : Begins(m) /\ \A c \in connections : ~NoneBefore(c, m)
      BY <1>5, <2>2, <3>1 DEF SessionInv, UnseenInv
    <3>3. Begins(m)' /\ \A c \in connections : ~NoneBefore(c, m)'
      BY <1>1, <1>3, <1>4, <1>5, <3>1, <3>2
    <3> QED BY <1>3, <3>3
  <2> QED BY <2>1, <2>2
<1>15. LiveInv'
  <2> SUFFICES ASSUME SetWhole, hostRpcObserved, ~late,
                      peers' = {} \/ hostSession # session'
               PROVE  \E k \in 1 .. n + 1 : events'[k].id = hostConn /\ ~events'[k].connected
    BY <1>0, <1>5, <1>7 DEF LiveInv
  <2>1. CASE peers = {} \/ hostSession # session
    <3>1. PICK k \in 1 .. n : events[k].id = hostConn /\ ~events[k].connected
      BY <1>5, <2>1 DEF SessionInv, LiveInv
    <3> QED BY <1>3, <1>5, <3>1
  <2>2. CASE peers # {} /\ hostSession = session
    <3>1. ~b /\ peers' = {}
      BY <2>2
    <3>2. hostConn \in connections \ peers'
      BY <3>1 DEF Inv, LiveNamesHost
    <3> QED BY <1>0, <1>5, <1>7, <1>11, <3>2 DEF GoneInv
  <2> QED BY <2>1, <2>2
<1>16. PayloadInv'
  BY <1>0 DEF SessionInv, PayloadInv
<1> QED BY <1>8, <1>9, <1>10, <1>11, <1>13, <1>14, <1>15, <1>16 DEF SessionInv

\* A callback keeps the invariant: a report or a quota write has no part in it,
\* and an event that finds the queue full leaves the flag.
LEMMA CallbacksSession ==
  ASSUME Inv, Inv', SessionInv, Callbacks PROVE SessionInv'
<1>1. ASSUME NEW id \in Conn, NEW b \in BOOLEAN, OnConnectionEvent(b, id),
             Len(events) >= EventCapacity, UNCHANGED <<pc, protocolVars, seenSession>>
      PROVE  SessionInv'
  <2>1. ~QueueWhole' /\ ~SetWhole'
    <3>1. Len(events) \in Nat /\ EventCapacity \in Nat
      BY CapacityAssumption DEF Inv, Shape
    <3>2. eventLost' = TRUE /\ ~Reconciling
      BY <1>1, <3>1 DEF OnConnectionEvent
    <3> QED BY <1>1, <3>2 DEF QueueWhole, SetWhole, Reconciling
  <2> QED BY <1>1, <2>1 DEF SessionInv, QueueInv, EndInv, SetInv, GoneInv,
     StaleInv,
          UnseenInv, LiveInv, PayloadInv, protocolVars
<1>2. ASSUME NEW id \in Conn, NEW b \in BOOLEAN, OnConnectionEvent(b, id), session' \in Sessions,
             Len(events) < EventCapacity
      PROVE  \E e \in ConnectionEvent :
                /\ e.id = id /\ e.connected = b /\ e.session = session'
                /\ events' = Append(events, e) /\ UNCHANGED eventLost
  <2> DEFINE e == [connected |-> b, id |-> id, session |-> session']
  <2>1. e \in ConnectionEvent
    BY <1>2 DEF ConnectionEvent
  <2>2. e.id = id /\ e.connected = b /\ e.session = session'
    OBVIOUS
  <2>3. events' = Append(events, e) /\ UNCHANGED eventLost
    BY <1>2 DEF OnConnectionEvent
  <2> HIDE DEF e
  <2> QED BY <2>1, <2>2, <2>3
<1>3. Len(events) \in Nat /\ EventCapacity \in Nat /\ session' \in Sessions
  BY CapacityAssumption DEF Inv, Shape
<1>4. ASSUME NEW id \in Conn, OnConnect(id) PROVE SessionInv'
  <2>1. OnConnectionEvent(TRUE, id) /\ UNCHANGED <<pc, connections, seenSession>>
        /\ UNCHANGED <<hostVars, protocolVars>>
        /\ id \notin peers /\ peers' = peers \cup {id}
        /\ session' = IF peers = {} THEN session + 1 ELSE session
    BY <1>4 DEF OnConnect
  <2>2. CASE Len(events) < EventCapacity
    <3>1. PICK e \in ConnectionEvent :
             /\ e.id = id /\ e.connected = TRUE /\ e.session = session'
             /\ events' = Append(events, e) /\ UNCHANGED eventLost
      BY <1>2, <1>3, <2>1, <2>2
    <3>2. UNCHANGED <<eventLost, pc, connections, seenSession>>
      BY <2>1, <3>1
    <3>3. PICK b \in BOOLEAN : b = TRUE
      OBVIOUS
    <3>4. e.connected = b
      BY <3>1, <3>3
    <3>5. b /\ id \notin peers /\ peers' = peers \cup {id}
            /\ session' = (IF peers = {} THEN session + 1 ELSE session)
      BY <2>1, <3>3
    <3> QED BY <2>1, <3>1, <3>2, <3>4, <3>5, EventQueued
  <2>3. CASE Len(events) >= EventCapacity
    <3>1. UNCHANGED <<pc, protocolVars, seenSession>>
      BY <2>1
    <3>2. \A b \in BOOLEAN : OnConnectionEvent(b, id) => SessionInv'
      BY <1>1, <2>3, <3>1
    <3> QED BY <2>1, <3>2
  <2> QED BY <1>3, <2>2, <2>3
<1>5. ASSUME NEW id \in Conn, OnDisconnect(id) PROVE SessionInv'
  <2>1. OnConnectionEvent(FALSE, id) /\ UNCHANGED <<pc, connections, seenSession>>
        /\ UNCHANGED <<hostVars, protocolVars>>
        /\ id \in peers /\ peers' = peers \ {id} /\ session' = session
    BY <1>5 DEF OnDisconnect
  <2>2. CASE Len(events) < EventCapacity
    <3>1. PICK e \in ConnectionEvent :
             /\ e.id = id /\ e.connected = FALSE /\ e.session = session'
             /\ events' = Append(events, e) /\ UNCHANGED eventLost
      BY <1>2, <1>3, <2>1, <2>2
    <3>2. UNCHANGED <<eventLost, pc, connections, seenSession>>
      BY <2>1, <3>1
    <3>3. PICK b \in BOOLEAN : b = FALSE
      OBVIOUS
    <3>4. e.connected = b
      BY <3>1, <3>3
    <3>5. ~b /\ id \in peers /\ peers' = peers \ {id} /\ session' = session
      BY <2>1, <3>3
    <3> QED BY <2>1, <3>1, <3>2, <3>4, <3>5, EventQueued
  <2>3. CASE Len(events) >= EventCapacity
    <3>1. UNCHANGED <<pc, protocolVars, seenSession>>
      BY <2>1
    <3>2. \A b \in BOOLEAN : OnConnectionEvent(b, id) => SessionInv'
      BY <1>1, <2>3, <3>1
    <3> QED BY <2>1, <3>2
  <2> QED BY <1>3, <2>2, <2>3
<1>6. ASSUME UNCHANGED <<bluedroidVars, events, eventLost, pc, connections>>,
             UNCHANGED <<hostVars, protocolVars, seenSession>>
      PROVE  SessionInv'
  BY <1>6 DEF SessionInv, QueueInv, EndInv, SetInv, GoneInv, StaleInv,
     UnseenInv, LiveInv,
     PayloadInv, QueueWhole, SetWhole, Reconciling, LastBefore, NoneBefore, Begins,
     bluedroidVars, hostVars, protocolVars
<1>7. ASSUME NEW id \in Conn, NEW part \in SentParts, OnOutput(id, part) PROVE SessionInv'
  BY <1>6, <1>7 DEF OnOutput
<1>8. ASSUME NEW protocol \in SentProtocols, OnQuotaWrite(protocol) PROVE SessionInv'
  BY <1>6, <1>8 DEF OnQuotaWrite
<1> QED BY <1>4, <1>5, <1>7, <1>8 DEF Callbacks
\* The order of the events that are left when the first is taken.
LEMMA TakenOrder ==
  ASSUME events \in Seq(ConnectionEvent), events # <<>>, events' = Tail(events),
         NEW n \in Nat, n = Len(events), NEW e, e = Head(events)
  PROVE  /\ n >= 1 /\ e = events[1] /\ e \in ConnectionEvent
         /\ Len(events') = n - 1 /\ DOMAIN events = 1 .. n /\ DOMAIN events' = 1 .. n - 1
         /\ \A j \in 1 .. n - 1 : events'[j] = events[j + 1]
         /\ \A j \in 1 .. n - 1, m \in 1 .. n : LastBefore(j, m)' <=> LastBefore(j + 1, m + 1)
         /\ \A c \in Conn, m \in 1 .. n : NoneBefore(c, m)' /\ c # e.id => NoneBefore(c, m + 1)
         /\ \A c \in Conn, m \in 1 .. n : NoneBefore(c, m)' /\ c = e.id => LastBefore(1, m + 1)
         /\ session' = session => \A m \in 1 .. n - 1 : Begins(m + 1) => Begins(m)'
<1>1. /\ n >= 1 /\ e = events[1] /\ e \in ConnectionEvent
      /\ Len(events') = n - 1 /\ DOMAIN events = 1 .. n /\ DOMAIN events' = 1 .. n - 1
      /\ \A j \in 1 .. n - 1 : events'[j] = events[j + 1]
  OBVIOUS
<1>2. \A k \in 2 .. n : k - 1 \in 1 .. n - 1 /\ events'[k - 1] = events[k]
  BY <1>1
<1>3. ASSUME NEW j \in 1 .. n - 1, NEW m \in 1 .. n
      PROVE  LastBefore(j, m)' <=> LastBefore(j + 1, m + 1)
  <2>1. ASSUME LastBefore(j, m)' PROVE LastBefore(j + 1, m + 1)
    <3> SUFFICES ASSUME NEW k \in 1 .. n, j + 1 < k, k < m + 1
                 PROVE  events[k].id # events[j + 1].id
      BY <1>1, <2>1 DEF LastBefore
    <3>1. k \in 2 .. n /\ j < k - 1 /\ k - 1 < m
      OBVIOUS
    <3>2. k - 1 \in DOMAIN events' => events'[k - 1].id # events'[j].id
      BY <2>1, <3>1 DEF LastBefore
    <3>3. k - 1 \in 1 .. n - 1 /\ events'[k - 1] = events[k] /\ events'[j] = events[j + 1]
      BY <1>1, <1>2, <3>1
    <3> QED BY <1>1, <3>2, <3>3
  <2>2. ASSUME LastBefore(j + 1, m + 1) PROVE LastBefore(j, m)'
    <3> SUFFICES ASSUME NEW k \in 1 .. n - 1, j < k, k < m
                 PROVE  events'[k].id # events'[j].id
      BY <1>1, <2>2 DEF LastBefore
    <3>1. k + 1 \in 1 .. n /\ j + 1 < k + 1 /\ k + 1 < m + 1
      OBVIOUS
    <3> QED BY <1>1, <2>2, <3>1 DEF LastBefore
  <2> QED BY <2>1, <2>2
<1>4. ASSUME NEW c \in Conn, NEW m \in 1 .. n, NoneBefore(c, m)', c # e.id
      PROVE  NoneBefore(c, m + 1)
  <2> SUFFICES ASSUME NEW k \in 1 .. n, k < m + 1 PROVE events[k].id # c
    BY <1>1 DEF NoneBefore
  <2>1. CASE k = 1
    BY <1>1, <1>4, <2>1
  <2>2. CASE k \in 2 .. n
    <3>1. k - 1 \in 1 .. n - 1 /\ k - 1 < m /\ events'[k - 1] = events[k]
      BY <1>2, <2>2
    <3> QED BY <1>1, <1>4, <3>1 DEF NoneBefore
  <2> QED BY <2>1, <2>2
<1>5. ASSUME NEW m \in 1 .. n, NoneBefore(e.id, m)'
      PROVE  LastBefore(1, m + 1)
  <2> SUFFICES ASSUME NEW k \in 1 .. n, 1 < k, k < m + 1 PROVE events[k].id # e.id
    BY <1>1 DEF LastBefore
  <2>1. k - 1 \in 1 .. n - 1 /\ k - 1 < m /\ events'[k - 1] = events[k]
    BY <1>2
  <2> QED BY <1>1, <1>5, <2>1 DEF NoneBefore
<1>6. ASSUME session' = session, NEW m \in 1 .. n - 1, Begins(m + 1) PROVE Begins(m)'
  <2>1. \A j \in 1 .. n - 1 : LastBefore(j, m)' => ~events'[j].connected
    <3>1. m \in 1 .. n
      BY <1>1
    <3> QED BY <1>1, <1>3, <1>6, <3>1 DEF Begins
  <2> QED BY <1>1, <1>6, <2>1 DEF Begins
<1> QED BY <1>1, <1>3, <1>4, <1>5, <1>6

\* The loop takes an event: the set follows the queue, the session that is seen
\* to begin is that of the event, and LIVE goes with its connection.
LEMMA EventSession ==
  ASSUME Inv, Inv', SessionInv, ProcessConnectionEvent
  PROVE  SessionInv'
<1> USE DEF Inv, Shape
<1>0. PICK e : e = Head(events)
  OBVIOUS
<1>1. /\ events \in Seq(ConnectionEvent) /\ events # <<>> /\ events' = Tail(events)
      /\ e \in ConnectionEvent
      /\ peers' = peers /\ session' = session /\ pc = "events" /\ pc' = "events"
      /\ ApplyEventIgnored(e) \/ ApplyConnected(e) \/ ApplyDisconnected(e)
  BY <1>0 DEF ProcessConnectionEvent, bluedroidVars
<1>2. e.connected \in BOOLEAN /\ e.id \in Conn
  BY <1>1 DEF ConnectionEvent
<1>3. PICK n \in Nat : n = Len(events)
  OBVIOUS
<1>4. /\ n >= 1 /\ e = events[1]
      /\ Len(events') = n - 1 /\ DOMAIN events = 1 .. n /\ DOMAIN events' = 1 .. n - 1
      /\ \A j \in 1 .. n - 1 : events'[j] = events[j + 1]
      /\ \A j \in 1 .. n - 1, m \in 1 .. n : LastBefore(j, m)' <=> LastBefore(j + 1, m + 1)
      /\ \A c \in Conn, m \in 1 .. n : NoneBefore(c, m)' /\ c # e.id => NoneBefore(c, m + 1)
      /\ \A c \in Conn, m \in 1 .. n : NoneBefore(c, m)' /\ c = e.id => LastBefore(1, m + 1)
      /\ \A m \in 1 .. n - 1 : Begins(m + 1) => Begins(m)'
  <2>1. events \in Seq(ConnectionEvent) /\ events # <<>> /\ events' = Tail(events)
    BY <1>1
  <2> QED BY ONLY <1>0, <1>1, <1>3, <2>1, TakenOrder
<1>5. (QueueWhole' => ~eventLost') /\ (SetWhole' <=> ~eventLost')
      /\ (~eventLost => QueueWhole /\ SetWhole)
  BY <1>1 DEF QueueWhole, SetWhole, Reconciling
<1>6. ASSUME ~eventLost'
      PROVE  /\ ~eventLost
             /\ e.connected => connections' = connections \cup {e.id}
             /\ ~e.connected => connections' = connections \ {e.id}
  BY <1>1, <1>2, <1>6 DEF ApplyEventIgnored, ApplyConnected, ApplyDisconnected
<1>7. seenSession' = seenSession
      \/ (connections = {} /\ e.connected /\ seenSession' = e.session)
  BY <1>1 DEF ApplyEventIgnored, ApplyConnected, ApplyDisconnected, BeginSession
<1>8. ASSUME ~eventLost', connections = {}, e.connected PROVE seenSession' = e.session
  <2>1. Cardinality(connections) < SetCapacity
    BY <1>8, FS_EmptySet, CapacityAssumption
  <2> QED BY <1>1, <1>2, <1>8, <2>1, CapacityAssumption
          DEF ApplyEventIgnored, ApplyConnected, ApplyDisconnected, BeginSession
<1>9. ASSUME hostRpcObserved'
      PROVE  /\ hostRpcObserved /\ hostConn' = hostConn
             /\ hostSession' = hostSession /\ late' = late
             /\ ~e.connected => e.id # hostConn
  BY <1>1, <1>2, <1>9 DEF ApplyEventIgnored, ApplyConnected, ApplyDisconnected,
     ClearHost,
     hostVars, LiveNamesHost
<1>10. QueueInv'
  <2> SUFFICES ASSUME QueueWhole', NEW j \in 1 .. n - 1, LastBefore(j, n)'
               PROVE  events'[j].connected <=> events'[j].id \in peers'
    BY <1>4 DEF QueueInv
  <2>1. j + 1 \in 1 .. n /\ n \in 1 .. n
    BY <1>4
  <2>2. LastBefore(j + 1, n + 1)
    BY <1>4, <2>1
  <2>3. events[j + 1].connected <=> events[j + 1].id \in peers
    BY <1>3, <1>4, <1>5, <1>6, <2>1, <2>2 DEF SessionInv, QueueInv
  <2> QED BY <1>1, <1>4, <2>3
<1>11. EndInv'
  <2> SUFFICES ASSUME QueueWhole', NEW j \in 1 .. n - 1,
                      events'[j].connected, events'[j].id \notin peers
               PROVE  \E k \in 1 .. n - 1 : j < k /\ events'[k].id = events'[j].id
                                              /\ ~events'[k].connected
    BY <1>1, <1>4 DEF EndInv
  <2>1. j + 1 \in 1 .. n /\ events[j + 1].connected /\ events[j + 1].id \notin peers
    BY <1>4
  <2>2. PICK k \in 1 .. n : j + 1 < k /\ events[k].id = events[j + 1].id
                              /\ ~events[k].connected
    BY <1>4, <1>5, <1>6, <2>1 DEF SessionInv, EndInv
  <2>3. k - 1 \in 1 .. n - 1 /\ j < k - 1 /\ (k - 1) + 1 = k
    BY <2>2
  <2>4. events'[k - 1] = events[k] /\ events'[j] = events[j + 1]
    BY <1>4, <2>3
  <2> QED BY <2>2, <2>3, <2>4
<1>12. SetInv'
  <2> SUFFICES ASSUME ~eventLost', NEW c \in Conn, NoneBefore(c, n)'
               PROVE  c \in connections' <=> c \in peers
    BY <1>1, <1>4, <1>5 DEF SetInv
  <2>0. n \in 1 .. n /\ 1 \in 1 .. n
    BY <1>4
  <2>1. CASE c # e.id
    <3>1. NoneBefore(c, n + 1)
      BY <1>4, <2>0, <2>1
    <3>2. c \in connections <=> c \in peers
      BY <1>3, <1>5, <1>6, <3>1 DEF SessionInv, SetInv
    <3> QED BY <1>2, <1>6, <2>1, <3>2
  <2>2. CASE c = e.id
    <3>1. LastBefore(1, n + 1)
      BY <1>4, <2>0, <2>2
    <3>2. e.connected <=> e.id \in peers
      BY <1>3, <1>4, <1>5, <1>6, <2>0, <3>1 DEF SessionInv, QueueInv
    <3> QED BY <1>2, <1>6, <2>2, <3>2
  <2> QED BY <2>1, <2>2
<1>13. GoneInv'
  <2> SUFFICES ASSUME ~eventLost', NEW c \in connections' \ peers
               PROVE  \E k \in 1 .. n - 1 : events'[k].id = c /\ ~events'[k].connected
    BY <1>1, <1>4, <1>5 DEF GoneInv
  <2>1. \A k \in 2 .. n : k - 1 \in 1 .. n - 1 /\ events'[k - 1] = events[k]
    BY <1>4
  <2>2. CASE c # e.id \/ ~e.connected
    <3>1. c \in connections \ peers /\ c # e.id
      BY <1>2, <1>6, <2>2
    <3>2. PICK k \in 1 .. n : events[k].id = c /\ ~events[k].connected
      BY <1>4, <1>5, <1>6, <3>1 DEF SessionInv, GoneInv
    <3>3. k \in 2 .. n
      BY <1>4, <3>1, <3>2
    <3> QED BY <2>1, <3>2, <3>3
  <2>3. CASE c = e.id /\ e.connected
    <3>1. 1 \in 1 .. n
      BY <1>4
    <3>2. PICK k \in 1 .. n : 1 < k /\ events[k].id = c /\ ~events[k].connected
      BY <1>4, <1>5, <1>6, <2>3, <3>1 DEF SessionInv, EndInv
    <3>3. k \in 2 .. n
      BY <3>2
    <3> QED BY <2>1, <3>2, <3>3
  <2> QED BY <2>2, <2>3
<1>14. StaleInv'
  <2> SUFFICES ASSUME QueueWhole', peers # {}, NEW j \in 1 .. n - 1,
                      events'[j].session # session
               PROVE  \E m \in 1 .. n - 1 : j < m /\ Begins(m)'
    BY <1>1, <1>4 DEF StaleInv
  <2>1. j + 1 \in 1 .. n /\ events[j + 1].session # session
    BY <1>4
  <2>2. PICK m \in 1 .. n : j + 1 < m /\ Begins(m)
    BY <1>4, <1>5, <1>6, <2>1 DEF SessionInv, StaleInv
  <2>3. m - 1 \in 1 .. n - 1 /\ j < m - 1 /\ (m - 1) + 1 = m
    BY <2>2
  <2>4. Begins(m - 1)'
    BY <1>4, <2>2, <2>3
  <2> QED BY <2>3, <2>4
<1>15. ASSUME ~eventLost', NEW m \in 2 .. n, Begins(m), NEW c \in connections', c \in Conn,
              ~NoneBefore(c, m) \/ c = e.id
       PROVE  ~NoneBefore(c, m - 1)'
  <2>0. m - 1 \in 1 .. n /\ (m - 1) + 1 = m /\ 1 \in 1 .. n
    BY <1>4
  <2> SUFFICES ASSUME NoneBefore(c, m - 1)' PROVE FALSE
    OBVIOUS
  <2>1. CASE c # e.id
    BY <1>4, <1>15, <2>0, <2>1
  <2>2. CASE c = e.id
    <3>1. LastBefore(1, m)
      BY <1>4, <2>0, <2>2
    <3>2. ~e.connected
      BY <1>4, <1>15, <2>0, <3>1 DEF Begins
    <3> QED BY <1>6, <1>15, <2>2, <3>2
  <2> QED BY <2>1, <2>2
<1>16. UnseenInv'
  <2> SUFFICES ASSUME ~eventLost', peers # {}, seenSession' # session
               PROVE  \E m \in 1 .. n - 1 :
                        Begins(m)' /\ \A c \in connections' : ~NoneBefore(c, m)'
    BY <1>1, <1>4, <1>5 DEF UnseenInv
  <2>1. \E m \in 2 .. n : Begins(m) /\ \A c \in connections' : ~NoneBefore(c, m) \/ c = e.id
    <3>1. CASE seenSession' = seenSession
      <4>1. PICK m \in 1 .. n : Begins(m) /\ \A c \in connections : ~NoneBefore(c, m)
        BY <1>1, <1>4, <1>5, <1>6, <3>1 DEF SessionInv, UnseenInv
      <4>2. \A c \in connections' : c \in connections \/ c = e.id
        BY <1>2, <1>6
      <4>3. CASE m = 1
        <5>1. connections = {} /\ e.connected /\ e.session = session
          BY <1>4, <4>1, <4>3 DEF NoneBefore, Begins
        <5> QED BY <1>8, <5>1
      <4>4. CASE m # 1
        BY <4>1, <4>2, <4>4
      <4> QED BY <4>3, <4>4
    <3>2. CASE connections = {} /\ e.connected /\ seenSession' = e.session
      <4>1. e.session # session /\ 1 \in 1 .. n
        BY <1>4, <3>2
      <4>2. PICK m \in 1 .. n : 1 < m /\ Begins(m)
        BY <1>4, <1>5, <1>6, <4>1 DEF SessionInv, StaleInv
      <4>3. connections' = {e.id}
        BY <1>6, <3>2
      <4> QED BY <4>2, <4>3
    <3> QED BY <1>7, <3>1, <3>2
  <2>2. PICK m \in 2 .. n :
           Begins(m) /\ \A c \in connections' : ~NoneBefore(c, m) \/ c = e.id
    BY <2>1
  <2>3. m - 1 \in 1 .. n - 1 /\ (m - 1) + 1 = m
    OBVIOUS
  <2>4. Begins(m - 1)'
    BY <1>4, <2>2, <2>3
  <2>5. \A c \in connections' : c \in Conn
    OBVIOUS
  <2>6. \A c \in connections' : ~NoneBefore(c, m - 1)'
    BY <1>15, <2>2, <2>5
  <2> QED BY <2>3, <2>4, <2>6
<1>17. LiveInv'
  <2> SUFFICES ASSUME ~eventLost', hostRpcObserved', ~late',
                      peers = {} \/ hostSession' # session
               PROVE  \E k \in 1 .. n - 1 : events'[k].id = hostConn /\ ~events'[k].connected
    BY <1>1, <1>4, <1>5, <1>9 DEF LiveInv
  <2>1. PICK k \in 1 .. n : events[k].id = hostConn /\ ~events[k].connected
    BY <1>4, <1>5, <1>6, <1>9 DEF SessionInv, LiveInv
  <2>2. k \in 2 .. n
    BY <1>4, <1>9, <2>1
  <2>3. k - 1 \in 1 .. n - 1 /\ events'[k - 1] = events[k]
    BY <1>4, <2>2
  <2> QED BY <2>1, <2>3
<1>18. PayloadInv'
  BY <1>1 DEF ApplyEventIgnored, ApplyConnected, ApplyDisconnected,
     BeginSession,
     protocolVars, SessionInv, PayloadInv
<1> QED BY <1>10, <1>11, <1>12, <1>13, <1>14, <1>16, <1>17, <1>18 DEF SessionInv
\* The peers are read into the set after an overflow: it is the set they make
\* up, in the session under way, and no LIVE is left over.
LEMMA ReconcileSession ==
  ASSUME Inv, Inv', SessionInv, Reconcile
  PROVE  SessionInv'
<1>1. /\ peers' = peers /\ session' = session /\ events' = events
      /\ eventLost' = eventLost /\ pc = "observe" /\ pc' = "quota"
      /\ connections' = peers /\ hostRpcObserved' = FALSE
      /\ peers # {} => seenSession' = session
  BY DEF Reconcile, ClearHost, BeginSession, bluedroidVars, queueVars
<1>2. QueueWhole
  BY <1>1 DEF QueueWhole, Reconciling
<1>3. QueueInv' /\ EndInv'
  BY <1>1, <1>2 DEF SessionInv, QueueInv, EndInv, LastBefore
<1>4. SetInv' /\ GoneInv' /\ UnseenInv' /\ LiveInv'
  BY <1>1 DEF SetInv, GoneInv, UnseenInv, LiveInv
<1>5. StaleInv'
  BY <1>1, <1>2 DEF SessionInv, StaleInv, Begins, LastBefore
<1>6. PayloadInv'
  BY DEF Reconcile, BeginSession, protocolVars, SessionInv, PayloadInv
<1> QED BY <1>3, <1>4, <1>5, <1>6 DEF SessionInv

\* A report that makes its connection the host is of the session under way or
\* late, and if that connection is gone, its end is still to come.
LEMMA ReportSession ==
  ASSUME Inv, Inv', SessionInv, ProcessOutput
  PROVE  SessionInv'
<1>1. PICK r : r = Head(reports)
  OBVIOUS
<1>2. /\ UNCHANGED <<peers, session, events, eventLost, pc, connections, connected>>
      /\ UNCHANGED <<watchProtocol, payloadSession, seenSession>>
      /\ pc = "reports"
      /\ ReportIgnored(r) \/ RequestHandled(r) \/ RequestIncomplete(r) \/ RequestRejected(r)
  BY <1>1 DEF ProcessOutput, bluedroidVars, protocolVars
<1>3. QueueInv' /\ EndInv' /\ SetInv' /\ GoneInv' /\ StaleInv' /\ UnseenInv' /\ PayloadInv'
  BY <1>2 DEF SessionInv, QueueInv, EndInv, SetInv, GoneInv, StaleInv,
     UnseenInv,
     PayloadInv, QueueWhole, SetWhole, Reconciling, LastBefore, NoneBefore, Begins
<1>4. CASE UNCHANGED hostVars
  BY <1>2, <1>3, <1>4 DEF SessionInv, LiveInv, SetWhole, hostVars
<1>5. CASE RequestHandled(r) /\ connected
  <2>1. /\ r.id \in connections /\ hostConn' = r.id
        /\ hostSession' = r.session /\ late' = (r.session # session)
    BY <1>5 DEF RequestHandled, NoteHostRpcActivity
  <2> SUFFICES ASSUME SetWhole, r.session = session, peers = {} \/ r.session # session
               PROVE  \E k \in DOMAIN events : events[k].id = r.id /\ ~events[k].connected
    BY <1>2, <1>3, <2>1 DEF SessionInv, LiveInv, SetWhole
  <2>2. r.id \in connections \ peers
    BY <2>1
  <2> QED BY <2>2 DEF SessionInv, GoneInv
<1> QED BY <1>2, <1>3, <1>4, <1>5 DEF SessionInv, ReportIgnored, RequestHandled,
        NoteHostRpcActivity, RequestIncomplete, RequestRejected

\* Every callback and every step of poll() keeps the invariant.
THEOREM NextSession == Inv /\ SessionInv /\ [Next]_vars => SessionInv'
<1> SUFFICES ASSUME Inv, SessionInv, [Next]_vars PROVE SessionInv'
  OBVIOUS
<1>1. Inv'
  BY NextInv
<1>2. CASE Callbacks
  BY <1>1, <1>2, CallbacksSession
<1>3. CASE ProcessConnectionEvent
  BY <1>1, <1>3, EventSession
<1>4. CASE EventsDrained \/ ReconcileOverflows
  BY <1>4 DEF EventsDrained, ReconcileOverflows, SessionInv, QueueInv, EndInv,
     SetInv, GoneInv,
     StaleInv, UnseenInv, LiveInv, PayloadInv, QueueWhole, SetWhole, Reconciling,
     LastBefore, NoneBefore, Begins, bluedroidVars, queueVars, rpcVars, hostVars, protocolVars
<1>5. CASE TakeEventLost
  <2>1. /\ UNCHANGED <<peers, session, events, connections, seenSession>>
        /\ UNCHANGED <<watchProtocol, payloadSession, hostVars>>
        /\ QueueWhole /\ (SetWhole' <=> SetWhole)
    BY <1>5 DEF TakeEventLost, bluedroidVars, protocolVars, QueueWhole,
       SetWhole, Reconciling
  <2> QED BY <2>1 DEF SessionInv, QueueInv, EndInv, SetInv, GoneInv, StaleInv,
     UnseenInv,
          LiveInv, PayloadInv, LastBefore, NoneBefore, Begins, hostVars
<1>6. CASE Reconcile
  BY <1>1, <1>6, ReconcileSession
<1>7. CASE ProcessQuotaWrite
  <2>1. /\ UNCHANGED <<peers, session, events, eventLost, pc, connections, hostVars>>
        /\ UNCHANGED seenSession /\ payloadSession' = seenSession
    BY <1>7 DEF ProcessQuotaWrite, bluedroidVars
  <2> QED BY <2>1 DEF SessionInv, QueueInv, EndInv, SetInv, GoneInv, StaleInv,
     UnseenInv,
          LiveInv, PayloadInv, QueueWhole, SetWhole, Reconciling, LastBefore, NoneBefore,
          Begins, hostVars
<1>8. CASE ProcessOutput
  BY <1>1, <1>8, ReportSession
<1>9. CASE QuotaDrained \/ ReportsDrained \/ UNCHANGED vars
  <2>1. /\ UNCHANGED <<bluedroidVars, events, eventLost, connections, hostVars>>
        /\ UNCHANGED <<protocolVars, seenSession>>
        /\ (QueueWhole' <=> QueueWhole) /\ (SetWhole' <=> SetWhole)
    BY <1>9 DEF QuotaDrained, ReportsDrained, vars, queueVars, QueueWhole,
       SetWhole,
       Reconciling
  <2> QED BY <2>1 DEF SessionInv, QueueInv, EndInv, SetInv, GoneInv, StaleInv,
     UnseenInv,
          LiveInv, PayloadInv, LastBefore, NoneBefore, Begins, bluedroidVars, hostVars,
          protocolVars
<1> QED BY <1>2, <1>3, <1>4, <1>5, <1>6, <1>7, <1>8, <1>9 DEF Next, Poll

\* Both invariants hold for ever.
LEMMA AlwaysSession == Spec => [](Inv /\ SessionInv)
<1>1. Init => Inv /\ SessionInv
  BY InitInv, InitSession
<1>2. Inv /\ SessionInv /\ [Next]_vars => (Inv /\ SessionInv)'
  BY NextInv, NextSession
<1> QED BY <1>1, <1>2, PTL DEF Spec

\* Whatever events are lost, and whenever the flag is exchanged, a loop that has
\* caught up has the set of connections the server has.
THEOREM MembershipIsRecovered == Spec => []MembershipRecovers
<1>1. Inv /\ SessionInv => MembershipRecovers
  <2> SUFFICES ASSUME Inv, SessionInv, CaughtUp
               PROVE  connections = peers /\ connected = (peers # {})
    BY DEF MembershipRecovers
  <2>1. SetWhole /\ \A id \in Conn : NoneBefore(id, Len(events) + 1)
    BY DEF CaughtUp, SetWhole, NoneBefore
  <2> QED BY <2>1 DEF SessionInv, SetInv, Inv, Shape
<1> QED BY <1>1, AlwaysSession, PTL

\* Nothing of an earlier session is left once the loop has caught up, whether or
\* not its end and the beginning of the next were seen.
THEOREM SessionsStartClean == Spec => []SessionStartsClean
<1>1. Inv /\ SessionInv => SessionStartsClean
  BY DEF SessionInv, LiveInv, UnseenInv, PayloadInv, SetWhole, CaughtUp,
     SessionStartsClean, LiveEndsWithSession, LegacyUiEndsWithSession
<1> QED BY <1>1, AlwaysSession, PTL

\* A whole request begins with a top-level object: what is in the buffer is
\* dropped, and the request is handled.
THEOREM WholeIsHandled == Spec => WholeRequestHandled
<1>1. ASSUME Inv, [Next]_vars, NEW r \in Report,
             pc = "reports", reports # <<>>, r = Head(reports),
             reports' = Tail(reports), r.part = "whole", r.id \in connections
      PROVE  hostRpcObserved' /\ hostConn' = r.id /\ rpcBuffer' = <<>>
  <2>1. ProcessOutput
    <3>1. reports \in Seq(Report) /\ Len(reports') = Len(reports) - 1
      BY <1>1 DEF Inv, Shape
    <3>2. reports' # reports /\ Len(reports') < Len(reports)
      BY <3>1
    <3>3. ASSUME NEW id \in Conn, NEW part \in SentParts, OnOutput(id, part) PROVE FALSE
      BY <3>1, <3>2, <3>3 DEF OnOutput
    <3>4. ~Callbacks
      BY <3>2, <3>3 DEF Callbacks, OnConnect, OnDisconnect, OnQuotaWrite
    <3> QED BY <1>1, <3>2, <3>4 DEF Next, Poll, ProcessConnectionEvent,
       EventsDrained,
            TakeEventLost, ReconcileOverflows, Reconcile, ProcessQuotaWrite, QuotaDrained,
            ReportsDrained, queueVars, vars
  <2>2. BufferFor(r) = <<>>
    BY <1>1 DEF BufferFor, StartsTopLevel
  <2>3. PartsOf(Append(<<>>, r)) = <<"whole">>
    BY <1>1 DEF PartsOf
  <2>4. ~ReportIgnored(r) /\ ~RequestIncomplete(r) /\ ~RequestRejected(r)
    BY <1>1, <2>2, <2>3 DEF ReportIgnored, StartsTopLevel, RequestIncomplete,
       Incomplete,
       RequestRejected
  <2>5. RequestHandled(r) /\ connected
    BY <1>1, <2>1, <2>4 DEF ProcessOutput, Inv, Shape
  <2> QED BY <2>5 DEF RequestHandled, NoteHostRpcActivity, ClearRpcBuffer
<1>2. Inv /\ [Next]_vars =>
        [ \A r \in Report :
            /\ pc = "reports" /\ reports # <<>> /\ r = Head(reports)
            /\ reports' = Tail(reports)
            /\ r.part = "whole" /\ r.id \in connections
            => hostRpcObserved' /\ hostConn' = r.id /\ rpcBuffer' = <<>> ]_vars
  BY <1>1
<1> QED BY <1>2, AlwaysSession, PTL DEF Spec, WholeRequestHandled
=============================================================================
