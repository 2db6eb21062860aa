------------------------------ MODULE Handlers ------------------------------
(***************************************************************************)
(* The websocket side of the middleware: handlers.listenEvents relays the  *)
(* events of the middleware to every connected app, wsHandler registers a  *)
(* new app and replays the queued events, and every app has a read and a   *)
(* write goroutine (runWebsocket) beside its net/rpc server.               *)
(*                                                                         *)
(* What makes this hard: handlers.mu is held WHILE events are sent on the  *)
(* unbuffered write channels, and the goroutine that drains such a channel *)
(* needs handlers.mu itself to leave.                                      *)
(*                                                                         *)
(* Abstractions: an event is its number and its QueueIfNoClient flag, an   *)
(* RPC call and its response carry no content, the noise layer only makes  *)
(* a read fail.  Connection c is the one that is given clientID c.  A      *)
(* critical section that cannot block is one step.                         *)
(***************************************************************************)
EXTENDS Naturals, Sequences

CONSTANTS
    MaxClients,  \* bound: connections over the life of the process
    MaxEvents,   \* bound: events emitted
    MaxCalls,    \* bound: RPC calls of one client in progress
    Producers,   \* goroutines that send on middleware.events
    Queueing,    \* the producers whose events have QueueIfNoClient set
    Faulty       \* whether connections may fail

ASSUME HandlersAssumption ==
    /\ MaxClients \in Nat
    /\ MaxEvents \in Nat
    /\ MaxCalls \in Nat
    /\ Queueing \subseteq Producers
    /\ Faulty \in BOOLEAN

Client   == 0 .. (MaxClients - 1)
NoClient == MaxClients
Event    == [id : 1 .. MaxEvents, queue : BOOLEAN]
NoEvent  == [id |-> 0, queue |-> FALSE]

\* The goroutines that hold handlers.mu over a blocking operation.
NoOne  == <<"none", 0>>
Listen == <<"listenEvents", 0>>
Ws(c)  == <<"wsHandler", c>>

VARIABLES
    sending,     \* sending[p]: the event p is blocked on in `events <- e`
    nEmitted,    \* number of events emitted so far
    listen,      \* program counter of listenEvents
    event,       \* the event listenEvents received last
    mu,          \* owner of handlers.mu
    eventQueue,  \* handlers.eventQueue
    clientsMap,  \* the keys of handlers.clientsMap
    nClients,    \* handlers.nClients
    batch,       \* events the owner of mu still has to send
    left,        \* clients that have yet to get the first event of batch
    target,      \* the client whose writeChan the owner of mu is sending on
    ws,          \* ws[c]: program counter of wsHandler
    reader,      \* reader[c]: program counter of readLoop
    writer,      \* writer[c]: program counter of writeLoop
    conn,        \* conn[c]: the websocket connection
    closeChan,   \* closeChan[c]: whether closeChan is closed
    serving,     \* serving[c]: whether rpc.ServeConn still reads requests
    calls,       \* calls[c]: RPC calls in progress
    live,        \* history: numbers of the events broadcast to clients
    joined,      \* history: Len(live) when c was registered
    got,         \* history: live events handed to c's writeLoop
    replayed     \* history: queued events handed to c's writeLoop

relayVars  == <<listen, event, mu, batch, left, target>>
clientVars == <<ws, reader, writer, conn, closeChan, serving, calls>>
histVars   == <<live, joined, got, replayed>>
vars == <<sending, nEmitted, eventQueue, clientsMap, nClients,
          relayVars, clientVars, histVars>>

TypeOK ==
    /\ sending \in [Producers -> Event \cup {NoEvent}]
    /\ nEmitted \in 0 .. MaxEvents
    /\ listen \in {"recv", "lock", "send"}
    /\ event \in Event \cup {NoEvent}
    /\ mu \in {NoOne, Listen} \cup {Ws(c) : c \in Client}
    /\ eventQueue \in Seq(Event)
    /\ clientsMap \subseteq Client
    /\ nClients \in 0 .. MaxClients
    /\ batch \in Seq(Event)
    /\ left \subseteq Client
    /\ target \in Client \cup {NoClient}
    /\ ws \in [Client -> {"none", "replay", "send", "done"}]
    /\ reader \in [Client -> {"none", "read", "push", "remove", "close", "done"}]
    /\ writer \in [Client -> {"none", "top", "select", "write", "remove", "done"}]
    /\ conn \in [Client -> {"none", "open", "lost", "closed"}]
    /\ closeChan \in [Client -> BOOLEAN]
    /\ serving \in [Client -> BOOLEAN]
    /\ calls \in [Client -> 0 .. MaxCalls]
    /\ live \in Seq(1 .. MaxEvents)
    /\ joined \in [Client -> Nat]
    /\ got \in [Client -> Seq(1 .. MaxEvents)]
    /\ replayed \in [Client -> SUBSET (1 .. MaxEvents)]

Init ==
    /\ sending = [p \in Producers |-> NoEvent]
    /\ nEmitted = 0
    /\ listen = "recv"
    /\ event = NoEvent
    /\ mu = NoOne
    /\ eventQueue = <<>>
    /\ clientsMap = {}
    /\ nClients = 0
    /\ batch = <<>>
    /\ left = {}
    /\ target = NoClient
    /\ ws = [c \in Client |-> "none"]
    /\ reader = [c \in Client |-> "none"]
    /\ writer = [c \in Client |-> "none"]
    /\ conn = [c \in Client |-> "none"]
    /\ closeChan = [c \in Client |-> FALSE]
    /\ serving = [c \in Client |-> FALSE]
    /\ calls = [c \in Client |-> 0]
    /\ live = <<>>
    /\ joined = [c \in Client |-> 0]
    /\ got = [c \in Client |-> <<>>]
    /\ replayed = [c \in Client |-> {}]

-----------------------------------------------------------------------------
\* A producer reaches `middleware.events <- event` and blocks on it.
Emit(p) ==
    /\ sending[p] = NoEvent
    /\ nEmitted < MaxEvents
    /\ nEmitted' = nEmitted + 1
    /\ sending' = [sending EXCEPT
                     ![p] = [id |-> nEmitted + 1, queue |-> p \in Queueing]]
    /\ UNCHANGED <<eventQueue, clientsMap, nClients, relayVars, clientVars, histVars>>

\* `event := <-handlers.middlewareEvents`: the producer is released.
Accept(p) ==
    /\ listen = "recv"
    /\ sending[p] # NoEvent
    /\ event' = sending[p]
    /\ sending' = [sending EXCEPT ![p] = NoEvent]
    /\ listen' = "lock"
    /\ UNCHANGED <<nEmitted, eventQueue, clientsMap, nClients, mu, batch, left,
                   target, clientVars, histVars>>

\* The owner of mu starts sending evs, each to every registered client.
StartSending(owner, evs) ==
    /\ mu' = owner
    /\ batch' = evs
    /\ left' = clientsMap
    /\ target' \in clientsMap

\* With no client registered the event is queued or dropped.
ListenQueue ==
    /\ listen = "lock"
    /\ mu = NoOne
    /\ clientsMap = {}
    /\ eventQueue' = IF event.queue THEN Append(eventQueue, event) ELSE eventQueue
    /\ listen' = "recv"
    /\ UNCHANGED <<sending, nEmitted, clientsMap, nClients, event, mu, batch,
                   left, target, clientVars, histVars>>

ListenBroadcast ==
    /\ listen = "lock"
    /\ mu = NoOne
    /\ clientsMap # {}
    /\ StartSending(Listen, <<event>>)
    /\ listen' = "send"
    /\ live' = Append(live, event.id)
    /\ UNCHANGED <<sending, nEmitted, eventQueue, clientsMap, nClients, event,
                   clientVars, joined, got, replayed>>

\* First critical section of wsHandler, after a successful noise handshake:
\* the client gets an ID and its read and write goroutines are started.
WsRegister(c) ==
    /\ c = nClients
    /\ mu = NoOne
    /\ clientsMap' = clientsMap \cup {c}
    /\ nClients' = nClients + 1
    /\ ws' = [ws EXCEPT ![c] = "replay"]
    /\ reader' = [reader EXCEPT ![c] = "read"]
    /\ writer' = [writer EXCEPT ![c] = "top"]
    /\ conn' = [conn EXCEPT ![c] = "open"]
    /\ serving' = [serving EXCEPT ![c] = TRUE]
    /\ joined' = [joined EXCEPT ![c] = Len(live)]
    /\ UNCHANGED <<sending, nEmitted, eventQueue, relayVars, closeChan, calls,
                   live, got, replayed>>

\* Mutant of WsReplay: nothing is replayed.
WsReplaySkipped(c) ==
    /\ ws[c] = "replay"
    /\ mu = NoOne
    /\ ws' = [ws EXCEPT ![c] = "done"]
    /\ UNCHANGED <<sending, nEmitted, eventQueue, clientsMap, nClients, relayVars,
                   reader, writer, conn, closeChan, serving, calls, histVars>>

\* Second critical section of wsHandler: every queued event is sent to every
\* client that is registered by now; the queue keeps its events.
WsReplay(c) ==
    /\ ws[c] = "replay"
    /\ mu = NoOne
    /\ IF eventQueue = <<>> \/ clientsMap = {}
         THEN /\ ws' = [ws EXCEPT ![c] = "done"]
              /\ UNCHANGED <<mu, batch, left, target>>
         ELSE /\ ws' = [ws EXCEPT ![c] = "send"]
              /\ StartSending(Ws(c), eventQueue)
    /\ UNCHANGED <<sending, nEmitted, eventQueue, clientsMap, nClients, listen,
                   event, reader, writer, conn, closeChan, serving, calls, histVars>>

\* Mutant of Advance: the loop over the clients ends after the first one.
AdvanceAfterFirst ==
    /\ batch' = <<>>
    /\ left' = {}
    /\ target' = NoClient
    /\ mu' = NoOne
    /\ listen' = IF mu = Listen THEN "recv" ELSE listen
    /\ ws' = [c \in Client |-> IF mu = Ws(c) THEN "done" ELSE ws[c]]

\* The owner of mu goes on after `clientsMap[target] <- event`: to the next
\* client, to the next event, or out of the critical section.
Advance ==
    IF left # {target}
      THEN /\ left' = left \ {target}
           /\ target' \in left \ {target}
           /\ UNCHANGED <<batch, mu, listen, ws>>
      ELSE IF Tail(batch) # <<>>
      THEN /\ batch' = Tail(batch)
           /\ left' = clientsMap
           /\ target' \in clientsMap
           /\ UNCHANGED <<mu, listen, ws>>
      ELSE /\ batch' = <<>>
           /\ left' = {}
           /\ target' = NoClient
           /\ mu' = NoOne
           /\ listen' = IF mu = Listen THEN "recv" ELSE listen
           /\ ws' = [c \in Client |-> IF mu = Ws(c) THEN "done" ELSE ws[c]]

\* Mutant of Deliver: the send gives up on a writeLoop that is busy.
DeliverOrDrop ==
    /\ mu # NoOne
    /\ writer' = IF writer[target] = "select"
                   THEN [writer EXCEPT ![target] = "write"] ELSE writer
    /\ IF mu = Listen /\ writer[target] = "select"
         THEN /\ got' = [got EXCEPT ![target] = Append(@, Head(batch).id)]
              /\ UNCHANGED replayed
         ELSE /\ replayed' = [replayed EXCEPT ![target] = @ \cup {Head(batch).id}]
              /\ UNCHANGED got
    /\ Advance
    /\ UNCHANGED <<sending, nEmitted, eventQueue, clientsMap, nClients, event,
                   reader, conn, closeChan, serving, calls, live, joined>>

\* The owner of mu and the writeLoop of its target meet on writeChan.
Deliver ==
    /\ mu # NoOne
    /\ writer[target] = "select"
    /\ writer' = [writer EXCEPT ![target] = "write"]
    /\ IF mu = Listen
         THEN /\ got' = [got EXCEPT ![target] = Append(@, Head(batch).id)]
              /\ UNCHANGED replayed
         ELSE /\ replayed' = [replayed EXCEPT ![target] = @ \cup {Head(batch).id}]
              /\ UNCHANGED got
    /\ Advance
    /\ UNCHANGED <<sending, nEmitted, eventQueue, clientsMap, nClients, event,
                   reader, conn, closeChan, serving, calls, live, joined>>

-----------------------------------------------------------------------------
sharedVars == <<sending, nEmitted, eventQueue, nClients, relayVars, histVars>>

\* readLoop reads a request and blocks on `readChan <- message`.
ReadRequest(c) ==
    /\ reader[c] = "read"
    /\ conn[c] \in {"open", "lost"}
    /\ calls[c] < MaxCalls
    /\ reader' = [reader EXCEPT ![c] = "push"]
    /\ UNCHANGED <<sharedVars, clientsMap, ws, writer, conn, closeChan, serving, calls>>

\* rpc.ServeConn takes the request and starts a goroutine for the call ...
ServeRequest(c) ==
    /\ reader[c] = "push"
    /\ serving[c]
    /\ reader' = [reader EXCEPT ![c] = "read"]
    /\ calls' = [calls EXCEPT ![c] = @ + 1]
    /\ UNCHANGED <<sharedVars, clientsMap, ws, writer, conn, closeChan, serving>>

\* ... or cannot decode it and stops reading for good.
ServeGarbled(c) ==
    /\ Faulty
    /\ reader[c] = "push"
    /\ serving[c]
    /\ reader' = [reader EXCEPT ![c] = "read"]
    /\ serving' = [serving EXCEPT ![c] = FALSE]
    /\ UNCHANGED <<sharedVars, clientsMap, ws, writer, conn, closeChan, calls>>

\* A call returns: its response goes through the same write channel.
Respond(c) ==
    /\ calls[c] > 0
    /\ writer[c] = "select"
    /\ calls' = [calls EXCEPT ![c] = @ - 1]
    /\ writer' = [writer EXCEPT ![c] = "write"]
    /\ UNCHANGED <<sharedVars, clientsMap, ws, reader, conn, closeChan, serving>>

\* The app or the network goes away.
Disconnect(c) ==
    /\ Faulty
    /\ conn[c] = "open"
    /\ conn' = [conn EXCEPT ![c] = "lost"]
    /\ UNCHANGED <<sharedVars, clientsMap, ws, reader, writer, closeChan, serving, calls>>

\* ReadMessage or Decrypt fails: readLoop returns, its deferred function
\* closes the connection and then waits for mu.
ReadFails(c) ==
    /\ reader[c] = "read"
    /\ Faulty \/ conn[c] \in {"lost", "closed"}
    /\ reader' = [reader EXCEPT ![c] = "remove"]
    /\ conn' = [conn EXCEPT ![c] = "closed"]
    /\ UNCHANGED <<sharedVars, clientsMap, ws, writer, closeChan, serving, calls>>

\* removeClient called by readLoop.
ReaderRemovesClient(c) ==
    /\ reader[c] = "remove"
    /\ mu = NoOne
    /\ clientsMap' = clientsMap \ {c}
    /\ reader' = [reader EXCEPT ![c] = "close"]
    /\ UNCHANGED <<sharedVars, ws, writer, conn, closeChan, serving, calls>>

\* close(closeChan), after removeClient.
ReaderCloses(c) ==
    /\ reader[c] = "close"
    /\ closeChan' = [closeChan EXCEPT ![c] = TRUE]
    /\ reader' = [reader EXCEPT ![c] = "done"]
    /\ UNCHANGED <<sharedVars, clientsMap, ws, writer, conn, serving, calls>>

\* The outer select of writeLoop: leave if closeChan is closed, else go on.
WriterPolls(c) ==
    /\ writer[c] = "top"
    /\ ~closeChan[c]
    /\ writer' = [writer EXCEPT ![c] = "select"]
    /\ UNCHANGED <<sharedVars, clientsMap, ws, reader, conn, closeChan, serving, calls>>

\* Either select of writeLoop sees closeChan closed.
WriterSeesClose(c) ==
    /\ writer[c] \in {"top", "select"}
    /\ closeChan[c]
    /\ writer' = [writer EXCEPT ![c] = "remove"]
    /\ conn' = [conn EXCEPT ![c] = "closed"]
    /\ UNCHANGED <<sharedVars, clientsMap, ws, reader, closeChan, serving, calls>>

\* WriteMessage succeeds; a lost connection may still swallow the message.
WriteOk(c) ==
    /\ writer[c] = "write"
    /\ conn[c] \in {"open", "lost"}
    /\ writer' = [writer EXCEPT ![c] = "top"]
    /\ UNCHANGED <<sharedVars, clientsMap, ws, reader, conn, closeChan, serving, calls>>

\* WriteMessage fails: writeLoop returns, its deferred function closes the
\* connection and then waits for mu.
WriteFails(c) ==
    /\ writer[c] = "write"
    /\ Faulty \/ conn[c] \in {"lost", "closed"}
    /\ writer' = [writer EXCEPT ![c] = "remove"]
    /\ conn' = [conn EXCEPT ![c] = "closed"]
    /\ UNCHANGED <<sharedVars, clientsMap, ws, reader, closeChan, serving, calls>>

\* Mutant of WriterRemovesClient: removeClient does not take mu.
WriterRemovesClientUnlocked(c) ==
    /\ writer[c] = "remove"
    /\ clientsMap' = clientsMap \ {c}
    /\ writer' = [writer EXCEPT ![c] = "done"]
    /\ UNCHANGED <<sharedVars, ws, reader, conn, closeChan, serving, calls>>

\* removeClient called by writeLoop.
WriterRemovesClient(c) ==
    /\ writer[c] = "remove"
    /\ mu = NoOne
    /\ clientsMap' = clientsMap \ {c}
    /\ writer' = [writer EXCEPT ![c] = "done"]
    /\ UNCHANGED <<sharedVars, ws, reader, conn, closeChan, serving, calls>>

-----------------------------------------------------------------------------
ClientNext(c) ==
    \/ WsRegister(c) \/ WsReplay(c)
    \/ ReadRequest(c) \/ ServeRequest(c) \/ ServeGarbled(c) \/ Respond(c)
    \/ Disconnect(c) \/ ReadFails(c) \/ ReaderRemovesClient(c) \/ ReaderCloses(c)
    \/ WriterPolls(c) \/ WriterSeesClose(c)
    \/ WriteOk(c) \/ WriteFails(c) \/ WriterRemovesClient(c)

Next ==
    \/ \E p \in Producers : Emit(p) \/ Accept(p)
    \/ ListenQueue \/ ListenBroadcast \/ Deliver
    \/ \E c \in Client : ClientNext(c)

\* The Go scheduler runs every goroutine that can run, and sync.Mutex hands
\* itself to a waiter that has been starved for more than a millisecond:
\* strong fairness where a step waits for mu or for a rendezvous (one condition
\* for all clients where each of them takes the step at most once).  Apps are
\* not fair.
Fairness ==
    /\ \A p \in Producers : SF_vars(Accept(p))
    /\ SF_vars(ListenQueue \/ ListenBroadcast)
    /\ SF_vars(Deliver)
    /\ SF_vars(\E c \in Client : WsReplay(c))
    /\ SF_vars(\E c \in Client : ReaderRemovesClient(c) \/ WriterRemovesClient(c))
    /\ \A c \in Client :
         /\ WF_vars(ServeRequest(c) \/ ReaderCloses(c))
         /\ WF_vars(WriterPolls(c) \/ WriterSeesClose(c) \/ WriteOk(c) \/ WriteFails(c))

Spec     == Init /\ [][Next]_vars
FairSpec == Spec /\ Fairness
-----------------------------------------------------------------------------
(***************************************************************************)
(* Properties.                                                             *)
(***************************************************************************)
\* Whoever holds handlers.mu over a send is exactly the goroutine that is in
\* its sending loop, and it has a client and an event to send to it.
MutualExclusion ==
    /\ listen = "send" <=> mu = Listen
    /\ \A c \in Client : ws[c] = "send" <=> mu = Ws(c)
    /\ mu # NoOne => batch # <<>> /\ target \in left

\* The channel that the owner of mu sends on belongs to a registered client,
\* and its writeLoop has not returned: removeClient takes mu, so no client
\* leaves clientsMap while the map is ranged over (handlers.go:113, 186).
TargetIsRegistered ==
    mu # NoOne => /\ left \subseteq clientsMap
                  /\ \A c \in left : writer[c] \notin {"none", "done"}

\* A writeLoop that is told to stop through closeChan is not in clientsMap
\* any more: readLoop removes its client before it closes the channel, so a
\* regular disconnect never takes the reader of a channel away from a sender
\* (websocket.go:21-24).
ClosedIsUnregistered ==
    \A c \in Client : closeChan[c] => c \notin clientsMap

\* A registered client has been handed exactly the events broadcast since it
\* was registered, in the order of the broadcasts, without a gap and without
\* a repetition; the one being broadcast may still be on its way to it.
LiveEventsComplete ==
    \A c \in clientsMap :
        got[c] = SubSeq(live, joined[c] + 1,
                        Len(live) - IF mu = Listen /\ c \in left THEN 1 ELSE 0)

\* The owner of mu sends to a writeLoop that has left its loop after a write
\* error and is itself waiting for mu.
Wedged == mu # NoOne /\ writer[target] = "remove"

\* Nothing gets the handlers out of that state: not another client, not a
\* new connection, not an event.
WedgedForever == [][Wedged => Wedged']_vars

\* While no connection fails the handlers never get into it.
NeverWedged == ~Faulty => ~Wedged
=============================================================================
