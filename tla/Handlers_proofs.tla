-------------------------- MODULE Handlers_proofs --------------------------
(***************************************************************************)
(* Proofs about Handlers, for any number of clients, events, calls and     *)
(* producers.                                                              *)
(***************************************************************************)
EXTENDS Handlers, SequenceTheorems, TLAPS

USE HandlersAssumption DEF Client, NoClient

(***************************************************************************)
(* The inductive invariant: besides the properties, where each goroutine   *)
(* of a client can be at each point of the client's life.                  *)
(***************************************************************************)
Lifecycle ==
    /\ listen = "lock" => event \in Event
    /\ \A c \in Client :
         /\ writer[c] = "none" <=> c >= nClients
         /\ c \in clientsMap => c < nClients
         /\ writer[c] = "done" => c \notin clientsMap
         /\ reader[c] \in {"close", "done"} => c \notin clientsMap
         /\ closeChan[c] => reader[c] = "done"
         /\ reader[c] = "push" => calls[c] < MaxCalls
         /\ c >= nClients => reader[c] = "none" /\ ws[c] = "none"

IInv == /\ TypeOK
        /\ MutualExclusion
        /\ TargetIsRegistered
        /\ Lifecycle

LEMMA InitIInv == Init => IInv
  <1> SUFFICES ASSUME Init PROVE IInv
    OBVIOUS
  <1>1. TypeOK
    BY DEF Init, TypeOK
  <1>2. MutualExclusion /\ TargetIsRegistered
    BY DEF Init, MutualExclusion, TargetIsRegistered, NoOne, Listen, Ws
  <1>3. Lifecycle
    BY DEF Init, Lifecycle
  <1> QED
    BY <1>1, <1>2, <1>3 DEF IInv

\* Counting a call in or out keeps the number of calls within its bound.
LEMMA Counting ==
    ASSUME NEW S, NEW N \in Nat, NEW f \in [S -> 0 .. N], NEW c \in S
    PROVE  /\ f[c] < N => [f EXCEPT ![c] = @ + 1] \in [S -> 0 .. N]
           /\ f[c] > 0 => [f EXCEPT ![c] = @ - 1] \in [S -> 0 .. N]
  <1>1. f[c] \in 0 .. N
    OBVIOUS
  <1>2. f[c] < N => f[c] + 1 \in 0 .. N
    BY <1>1
  <1>3. f[c] > 0 => f[c] - 1 \in 0 .. N
    BY <1>1
  <1> QED
    BY <1>2, <1>3

\* The step of the induction, one case per action of the goroutines.
LEMMA NextIInv == IInv /\ [Next]_vars => IInv'
  <1> SUFFICES ASSUME IInv, [Next]_vars PROVE IInv'
    OBVIOUS
  <1> USE DEF IInv, NoOne, Listen, Ws, relayVars, clientVars,
              histVars, sharedVars
  <1>1. ASSUME NEW p \in Producers, Emit(p) PROVE IInv'
    <2>1. TypeOK'
      <3>1. [id |-> nEmitted + 1, queue |-> p \in Queueing] \in Event
        <4>1. nEmitted + 1 \in 1 .. MaxEvents
          BY <1>1 DEF TypeOK, Emit
        <4>2. (p \in Queueing) \in BOOLEAN
          OBVIOUS
        <4> QED
          BY <4>1, <4>2 DEF Event
      <3>2. sending' \in [Producers -> Event \cup {NoEvent}]
        BY <1>1, <3>1 DEF TypeOK, Emit
      <3>3. nEmitted' \in 0 .. MaxEvents
        BY <1>1 DEF TypeOK, Emit
      <3> QED
        BY <1>1, <3>2, <3>3 DEF TypeOK, Emit
    <2>2. MutualExclusion'
      BY <1>1 DEF TypeOK, MutualExclusion, TargetIsRegistered, Emit
    <2>3. TargetIsRegistered'
      BY <1>1 DEF TypeOK, MutualExclusion, TargetIsRegistered, Lifecycle, Emit
    <2>4. Lifecycle'
      BY <1>1 DEF TypeOK, MutualExclusion, TargetIsRegistered, Lifecycle, Emit
    <2> QED
      BY <2>1, <2>2, <2>3, <2>4
  <1>2. ASSUME NEW p \in Producers, Accept(p) PROVE IInv'
    <2>1. sending[p] \in Event
      BY <1>2 DEF TypeOK, Accept
    <2>2. TypeOK'
      BY <1>2, <2>1 DEF TypeOK, Accept
    <2>3. MutualExclusion' /\ TargetIsRegistered'
      BY <1>2 DEF MutualExclusion, TargetIsRegistered, Accept
    <2>4. Lifecycle'
      BY <1>2, <2>1 DEF Lifecycle, Accept
    <2> QED
      BY <2>2, <2>3, <2>4
  <1>3. CASE ListenQueue
    <2>1. TypeOK'
      <3>1. event \in Event
        BY <1>3 DEF Lifecycle, ListenQueue
      <3>2. eventQueue' \in Seq(Event)
        BY <1>3, <3>1 DEF TypeOK, ListenQueue
      <3> QED
        BY <1>3, <3>2 DEF TypeOK, ListenQueue
    <2>2. MutualExclusion'
      BY <1>3 DEF TypeOK, MutualExclusion, TargetIsRegistered, ListenQueue
    <2>3. TargetIsRegistered'
      BY <1>3 DEF TypeOK, MutualExclusion, TargetIsRegistered, Lifecycle, ListenQueue
    <2>4. Lifecycle'
      BY <1>3 DEF TypeOK, MutualExclusion, TargetIsRegistered, Lifecycle, ListenQueue
    <2> QED
      BY <2>1, <2>2, <2>3, <2>4
  <1>4. CASE ListenBroadcast
    <2>1. TypeOK'
      <3>1. event \in Event /\ event.id \in 1 .. MaxEvents
        BY <1>4 DEF Lifecycle, ListenBroadcast, Event
      <3>2. batch' \in Seq(Event) /\ live' \in Seq(1 .. MaxEvents)
        BY <1>4, <3>1 DEF TypeOK, ListenBroadcast, StartSending
      <3>3. left' \subseteq Client /\ target' \in Client
        BY <1>4 DEF TypeOK, ListenBroadcast, StartSending
      <3>4. mu' \in {NoOne, Listen} \cup {Ws(c) : c \in Client}
        BY <1>4 DEF ListenBroadcast, StartSending
      <3> QED
        BY <1>4, <3>2, <3>3, <3>4 DEF TypeOK, ListenBroadcast, StartSending
    <2>2. MutualExclusion'
      BY <1>4 DEF TypeOK, MutualExclusion, TargetIsRegistered, ListenBroadcast, StartSending
    <2>3. TargetIsRegistered'
      BY <1>4 DEF TypeOK, MutualExclusion, TargetIsRegistered, Lifecycle, ListenBroadcast, StartSending
    <2>4. Lifecycle'
      BY <1>4 DEF TypeOK, MutualExclusion, TargetIsRegistered, Lifecycle, ListenBroadcast, StartSending
    <2> QED
      BY <2>1, <2>2, <2>3, <2>4
  <1>5. CASE Deliver
    <2>1. /\ target \in left /\ target \in Client /\ left \subseteq clientsMap
          /\ batch \in Seq(Event) /\ batch # <<>>
          /\ writer[target] = "select"
      BY <1>5 DEF TypeOK, MutualExclusion, TargetIsRegistered, Deliver
    <2>2. Head(batch) \in Event /\ Head(batch).id \in 1 .. MaxEvents
      <3>1. Head(batch) \in Event
        BY <2>1
      <3> QED
        BY <3>1 DEF Event
    <2>3. /\ batch' \in Seq(Event)
          /\ left' \subseteq clientsMap
          /\ \/ /\ mu' = mu /\ listen' = listen /\ ws' = ws
                /\ batch' # <<>> /\ target' \in left'
             \/ /\ mu' = NoOne /\ target' = NoClient
                /\ listen' = IF mu = Listen THEN "recv" ELSE listen
                /\ ws' = [c \in Client |-> IF mu = Ws(c) THEN "done" ELSE ws[c]]
      <3>1. CASE left # {target}
        BY <1>5, <2>1, <3>1 DEF Deliver, Advance
      <3>2. CASE left = {target} /\ Tail(batch) # <<>>
        <4>1. Tail(batch) \in Seq(Event)
          BY <2>1
        <4> QED
          BY <1>5, <3>2, <4>1 DEF Deliver, Advance
      <3>3. CASE left = {target} /\ Tail(batch) = <<>>
        <4>1. /\ batch' = <<>> /\ left' = {}
              /\ mu' = NoOne /\ target' = NoClient
              /\ listen' = IF mu = Listen THEN "recv" ELSE listen
              /\ ws' = [c \in Client |-> IF mu = Ws(c) THEN "done" ELSE ws[c]]
          BY <1>5, <3>3 DEF Deliver, Advance
        <4>2. batch' \in Seq(Event)
          BY <4>1
        <4> QED
          BY <4>1, <4>2
      <3> QED
        BY <3>1, <3>2, <3>3
    <2>4. /\ mu' \in {NoOne, Listen} \cup {Ws(c) : c \in Client}
          /\ listen' \in {"recv", "lock", "send"}
          /\ ws' \in [Client -> {"none", "replay", "send", "done"}]
      BY <2>3 DEF TypeOK
    <2>5. TypeOK'
      <3>1. /\ got' \in [Client -> Seq(1 .. MaxEvents)]
            /\ replayed' \in [Client -> SUBSET (1 .. MaxEvents)]
        <4>1. CASE mu = Listen
          <5>1. /\ got' = [got EXCEPT ![target] = Append(@, Head(batch).id)]
                /\ replayed' = replayed
            BY <1>5, <4>1 DEF Deliver
          <5>2. Append(got[target], Head(batch).id) \in Seq(1 .. MaxEvents)
            BY <2>1, <2>2 DEF TypeOK
          <5> QED
            BY <5>1, <5>2 DEF TypeOK
        <4>2. CASE mu # Listen
          <5>1. /\ got' = got
                /\ replayed' = [replayed EXCEPT ![target] = @ \cup {Head(batch).id}]
            BY <1>5, <4>2 DEF Deliver
          <5> QED
            BY <5>1, <2>1, <2>2 DEF TypeOK
        <4> QED
          BY <4>1, <4>2
      <3>2. writer' \in [Client -> {"none", "top", "select", "write", "remove", "done"}]
        BY <1>5 DEF TypeOK, Deliver
      <3>3. left' \subseteq Client /\ target' \in Client \cup {NoClient}
        BY <2>3 DEF TypeOK
      <3> QED
        BY <1>5, <2>3, <2>4, <3>1, <3>2, <3>3 DEF TypeOK, Deliver
    <2>6. MutualExclusion'
      <3>1. CASE mu' = mu /\ listen' = listen /\ ws' = ws
        BY <1>5, <2>3, <3>1 DEF MutualExclusion, Deliver
      <3>2. CASE /\ mu' = NoOne
                 /\ listen' = IF mu = Listen THEN "recv" ELSE listen
                 /\ ws' = [c \in Client |-> IF mu = Ws(c) THEN "done" ELSE ws[c]]
        BY <3>2 DEF MutualExclusion
      <3> QED
        BY <2>3, <3>1, <3>2
    <2>7. TargetIsRegistered'
      <3>1. /\ clientsMap' = clientsMap
            /\ writer' = [writer EXCEPT ![target] = "write"]
        BY <1>5 DEF Deliver
      <3>2. mu' # NoOne => left' \subseteq clientsMap
        BY <2>3, <3>1 DEF TargetIsRegistered
      <3>3. \A c \in clientsMap : c \in Client /\ writer[c] \notin {"none", "done"}
        BY DEF TypeOK, Lifecycle
      <3>4. \A c \in clientsMap : writer'[c] \notin {"none", "done"}
        BY <3>1, <3>3 DEF TypeOK
      <3> QED
        BY <3>1, <3>2, <3>4 DEF TargetIsRegistered
    <2>8. Lifecycle'
      <3>2. \A c \in Client : /\ writer'[c] = "none" <=> writer[c] = "none"
                              /\ writer'[c] = "done" <=> writer[c] = "done"
        BY <1>5, <2>1 DEF TypeOK, Deliver
      <3>3. \A c \in Client : ws[c] = "none" => ws'[c] = "none"
        <4> SUFFICES ASSUME NEW c \in Client, ws[c] = "none" PROVE ws'[c] = "none"
          OBVIOUS
        <4>1. mu # Ws(c)
          BY DEF MutualExclusion
        <4> QED
          BY <2>3, <4>1
      <3>4. listen' = "lock" => listen = "lock"
        BY <2>3
      <3> QED
        BY <1>5, <3>2, <3>3, <3>4 DEF Lifecycle, Deliver
    <2> QED
      BY <2>5, <2>6, <2>7, <2>8
  <1>6. ASSUME NEW c \in Client, WsRegister(c) PROVE IInv'
    <2>1. TypeOK'
      <3>1. clientsMap' \subseteq Client /\ nClients' \in 0 .. MaxClients
        <4>1. c \in Client /\ c = nClients /\ nClients' = nClients + 1
              /\ clientsMap' = clientsMap \cup {c} /\ clientsMap \subseteq Client
          BY <1>6 DEF TypeOK, WsRegister
        <4>2. nClients' \in 0 .. MaxClients
          BY <4>1 DEF Client
        <4> QED
          BY <4>1, <4>2
      <3>5. joined' \in [Client -> Nat]
        <4>1. joined' = [joined EXCEPT ![c] = Len(live)] /\ joined \in [Client -> Nat]
          BY <1>6 DEF TypeOK, WsRegister
        <4>2. Len(live) \in Nat
          BY DEF TypeOK
        <4> QED
          BY <4>1, <4>2, Zenon
      <3>2. /\ ws' \in [Client -> {"none", "replay", "send", "done"}]
            /\ reader' \in [Client -> {"none", "read", "push", "remove", "close", "done"}]
            /\ writer' \in [Client -> {"none", "top", "select", "write", "remove", "done"}]
            /\ conn' \in [Client -> {"none", "open", "lost", "closed"}]
        BY <1>6 DEF TypeOK, WsRegister
      <3>3. serving' \in [Client -> BOOLEAN]
        BY <1>6 DEF TypeOK, WsRegister
      <3>4. UNCHANGED <<sending, nEmitted, listen, event, mu, eventQueue, batch, left, target,
                        closeChan, calls, live, got, replayed>>
        BY <1>6 DEF WsRegister
      <3> QED
        BY <3>1, <3>2, <3>3, <3>4, <3>5 DEF TypeOK
    <2>2. MutualExclusion'
      BY <1>6 DEF TypeOK, MutualExclusion, TargetIsRegistered, WsRegister
    <2>3. TargetIsRegistered'
      BY <1>6 DEF TypeOK, MutualExclusion, TargetIsRegistered, Lifecycle, WsRegister
    <2>4. Lifecycle'
      <3>1. /\ listen' = listen /\ event' = event /\ closeChan' = closeChan
            /\ calls' = calls
            /\ \A d \in Client : d # c => /\ writer'[d] = writer[d]
                                         /\ reader'[d] = reader[d]
                                         /\ ws'[d] = ws[d]
        BY <1>6 DEF TypeOK, WsRegister
      <3>2. /\ writer'[c] = "top" /\ reader'[c] = "read" /\ ~closeChan[c]
            /\ nClients' = nClients + 1 /\ c = nClients
            /\ clientsMap' = clientsMap \cup {c}
        BY <1>6 DEF TypeOK, Lifecycle, WsRegister
      <3>3. nClients \in Nat
        BY DEF TypeOK
      <3> QED
        BY <3>1, <3>2, <3>3 DEF Lifecycle
    <2> QED
      BY <2>1, <2>2, <2>3, <2>4
  <1>7. ASSUME NEW c \in Client, WsReplay(c) PROVE IInv'
    <2>1. CASE eventQueue = <<>> \/ clientsMap = {}
      <3>1. UNCHANGED <<mu, batch, left, target, listen, clientsMap, writer>>
        BY <1>7, <2>1 DEF WsReplay
      <3>2. ws' = [ws EXCEPT ![c] = "done"] /\ mu = NoOne
        BY <1>7, <2>1 DEF WsReplay
      <3>3. TypeOK'
        BY <1>7, <3>1, <3>2 DEF TypeOK, WsReplay
      <3>4. MutualExclusion' /\ TargetIsRegistered'
        BY <3>1, <3>2 DEF TypeOK, MutualExclusion, TargetIsRegistered
      <3>5. Lifecycle'
        BY <1>7, <3>1, <3>2 DEF TypeOK, Lifecycle, WsReplay
      <3> QED
        BY <3>3, <3>4, <3>5
    <2>2. CASE ~(eventQueue = <<>> \/ clientsMap = {})
      <3>1. /\ ws' = [ws EXCEPT ![c] = "send"] /\ mu = NoOne
            /\ mu' = Ws(c) /\ batch' = eventQueue /\ left' = clientsMap
            /\ target' \in clientsMap /\ listen' = listen
            /\ UNCHANGED <<clientsMap, writer>>
        BY <1>7, <2>2 DEF WsReplay, StartSending
      <3>2. TypeOK'
        BY <1>7, <3>1 DEF TypeOK, WsReplay
      <3>3. MutualExclusion'
        BY <2>2, <3>1 DEF TypeOK, MutualExclusion
      <3>4. TargetIsRegistered'
        BY <3>1 DEF TypeOK, TargetIsRegistered, Lifecycle
      <3>5. Lifecycle'
        BY <1>7, <3>1 DEF TypeOK, Lifecycle, WsReplay
      <3> QED
        BY <3>2, <3>3, <3>4, <3>5
    <2> QED
      BY <2>1, <2>2
  <1>8. ASSUME NEW c \in Client, ReadRequest(c) PROVE IInv'
    BY <1>8 DEF TypeOK, MutualExclusion, TargetIsRegistered, Lifecycle, ReadRequest
  <1>9. ASSUME NEW c \in Client, ServeRequest(c) PROVE IInv'
    <2>1. TypeOK'
      <3>1. calls' \in [Client -> 0 .. MaxCalls]
        <4>1. calls[c] < MaxCalls /\ calls' = [calls EXCEPT ![c] = @ + 1]
          BY <1>9 DEF Lifecycle, ServeRequest
        <4>2. calls \in [Client -> 0 .. MaxCalls] /\ MaxCalls \in Nat
          BY DEF TypeOK
        <4> QED
          BY <4>1, <4>2, Counting
      <3>2. reader' \in [Client -> {"none", "read", "push", "remove", "close", "done"}]
        BY <1>9 DEF TypeOK, ServeRequest
      <3> QED
        BY <1>9, <3>1, <3>2 DEF TypeOK, ServeRequest
    <2>2. MutualExclusion'
      BY <1>9 DEF TypeOK, MutualExclusion, TargetIsRegistered, ServeRequest
    <2>3. TargetIsRegistered'
      BY <1>9 DEF TypeOK, MutualExclusion, TargetIsRegistered, Lifecycle, ServeRequest
    <2>4. Lifecycle'
      BY <1>9 DEF TypeOK, MutualExclusion, TargetIsRegistered, Lifecycle, ServeRequest
    <2> QED
      BY <2>1, <2>2, <2>3, <2>4
  <1>10. ASSUME NEW c \in Client, ServeGarbled(c) PROVE IInv'
    BY <1>10 DEF TypeOK, MutualExclusion, TargetIsRegistered, Lifecycle, ServeGarbled
  <1>11. ASSUME NEW c \in Client, Respond(c) PROVE IInv'
    <2>1. TypeOK'
      <3>1. calls' \in [Client -> 0 .. MaxCalls]
        <4>1. calls[c] > 0 /\ calls' = [calls EXCEPT ![c] = @ - 1]
          BY <1>11 DEF Respond
        <4>2. calls \in [Client -> 0 .. MaxCalls] /\ MaxCalls \in Nat
          BY DEF TypeOK
        <4> QED
          BY <4>1, <4>2, Counting
      <3>2. writer' \in [Client -> {"none", "top", "select", "write", "remove", "done"}]
        BY <1>11 DEF TypeOK, Respond
      <3> QED
        BY <1>11, <3>1, <3>2 DEF TypeOK, Respond
    <2>2. MutualExclusion'
      BY <1>11 DEF TypeOK, MutualExclusion, TargetIsRegistered, Respond
    <2>3. TargetIsRegistered'
      BY <1>11 DEF TypeOK, MutualExclusion, TargetIsRegistered, Lifecycle, Respond
    <2>4. Lifecycle'
      BY <1>11 DEF TypeOK, MutualExclusion, TargetIsRegistered, Lifecycle, Respond
    <2> QED
      BY <2>1, <2>2, <2>3, <2>4
  <1>12. ASSUME NEW c \in Client, Disconnect(c) PROVE IInv'
    BY <1>12 DEF TypeOK, MutualExclusion, TargetIsRegistered, Lifecycle, Disconnect
  <1>13. ASSUME NEW c \in Client, ReadFails(c) PROVE IInv'
    BY <1>13 DEF TypeOK, MutualExclusion, TargetIsRegistered, Lifecycle, ReadFails
  <1>14. ASSUME NEW c \in Client, ReaderRemovesClient(c) PROVE IInv'
    BY <1>14 DEF TypeOK, MutualExclusion, TargetIsRegistered, Lifecycle,
                 ReaderRemovesClient
  <1>15. ASSUME NEW c \in Client, ReaderCloses(c) PROVE IInv'
    BY <1>15 DEF TypeOK, MutualExclusion, TargetIsRegistered, Lifecycle, ReaderCloses
  <1>16. ASSUME NEW c \in Client, WriterPolls(c) PROVE IInv'
    BY <1>16 DEF TypeOK, MutualExclusion, TargetIsRegistered, Lifecycle, WriterPolls
  <1>17. ASSUME NEW c \in Client, WriterSeesClose(c) PROVE IInv'
    BY <1>17 DEF TypeOK, MutualExclusion, TargetIsRegistered, Lifecycle,
                 WriterSeesClose
  <1>18. ASSUME NEW c \in Client, WriteOk(c) PROVE IInv'
    BY <1>18 DEF TypeOK, MutualExclusion, TargetIsRegistered, Lifecycle, WriteOk
  <1>19. ASSUME NEW c \in Client, WriteFails(c) PROVE IInv'
    BY <1>19 DEF TypeOK, MutualExclusion, TargetIsRegistered, Lifecycle, WriteFails
  <1>20. ASSUME NEW c \in Client, WriterRemovesClient(c) PROVE IInv'
    BY <1>20 DEF TypeOK, MutualExclusion, TargetIsRegistered, Lifecycle,
                 WriterRemovesClient
  <1>21. CASE UNCHANGED vars
    BY <1>21 DEF TypeOK, MutualExclusion, TargetIsRegistered, Lifecycle, vars
  <1> QED
    BY <1>1, <1>2, <1>3, <1>4, <1>5, <1>6, <1>7, <1>8, <1>9, <1>10, <1>11,
       <1>12, <1>13, <1>14, <1>15, <1>16, <1>17, <1>18, <1>19, <1>20, <1>21
       DEF Next, ClientNext

LEMMA Invariance == Spec => []IInv
  BY InitIInv, NextIInv, PTL DEF Spec

(***************************************************************************)
(* Type correctness of the handlers (handlers.go, websocket.go).           *)
(***************************************************************************)
THEOREM TypeCorrect == Spec => []TypeOK
  BY Invariance, PTL DEF IInv

(***************************************************************************)
(* handlers.mu protects the iteration over clientsMap: at most one         *)
(* goroutine is in a sending loop, it ranges over registered clients only, *)
(* and none of their write loops has returned.                             *)
(***************************************************************************)
THEOREM SendersAreSafe == Spec => [](MutualExclusion /\ TargetIsRegistered)
  BY Invariance, PTL DEF IInv

\* One goroutine at a time is in a sending loop: listenEvents and the replays of wsHandler
\* exclude each other with handlers.mu.
THEOREM OneSender == Spec => []MutualExclusion
  BY SendersAreSafe, PTL

(***************************************************************************)
(* A client whose closeChan is closed has left clientsMap, because         *)
(* readLoop calls removeClient before close(closeChan).                    *)
(***************************************************************************)
THEOREM CloseAfterRemove == Spec => []ClosedIsUnregistered
  <1>1. IInv => ClosedIsUnregistered
    BY DEF IInv, Lifecycle, ClosedIsUnregistered
  <1> QED
    BY <1>1, Invariance, PTL

(***************************************************************************)
(* A sender that waits for a write loop which is itself waiting for        *)
(* handlers.mu waits forever: no step of any goroutine changes that.       *)
(***************************************************************************)
LEMMA WedgedStep == IInv /\ Wedged /\ [Next]_vars => Wedged'
  <1> SUFFICES ASSUME IInv, Wedged, [Next]_vars PROVE Wedged'
    OBVIOUS
  <1> USE DEF Wedged, relayVars, clientVars, histVars, sharedVars
  <1>1. target \in Client /\ writer[target] = "remove" /\ mu # NoOne /\ target < nClients
    BY DEF IInv, TypeOK, MutualExclusion, TargetIsRegistered, Lifecycle
  <1>2. ASSUME NEW p \in Producers, Emit(p) \/ Accept(p) PROVE Wedged'
    BY <1>1, <1>2 DEF Emit, Accept
  <1>3. CASE ListenQueue \/ ListenBroadcast \/ Deliver
    BY <1>1, <1>3 DEF ListenQueue, ListenBroadcast, Deliver
  <1>4. ASSUME NEW c \in Client, ClientNext(c) PROVE Wedged'
    <2>1. CASE WsRegister(c) \/ WsReplay(c) \/ ReaderRemovesClient(c) \/ WriterRemovesClient(c)
      BY <1>1, <2>1 DEF WsRegister, WsReplay, ReaderRemovesClient, WriterRemovesClient
    <2>2. CASE ReadRequest(c) \/ ServeRequest(c) \/ ServeGarbled(c) \/ Disconnect(c)
               \/ ReadFails(c) \/ ReaderCloses(c)
      BY <1>1, <2>2 DEF ReadRequest, ServeRequest, ServeGarbled, Disconnect,
                        ReadFails, ReaderCloses
    <2>3. CASE Respond(c) \/ WriterPolls(c) \/ WriterSeesClose(c) \/ WriteOk(c) \/ WriteFails(c)
      <3>1. UNCHANGED <<mu, target>> /\ c # target
        BY <1>1, <2>3 DEF Respond, WriterPolls, WriterSeesClose, WriteOk, WriteFails
      <3>2. \E w : writer' = [writer EXCEPT ![c] = w]
        BY <2>3 DEF Respond, WriterPolls, WriterSeesClose, WriteOk, WriteFails
      <3>3. writer'[target] = writer[target]
        BY <1>1, <3>1, <3>2 DEF IInv, TypeOK
      <3> QED
        BY <1>1, <3>1, <3>3
    <2> QED
      BY <1>4, <2>1, <2>2, <2>3 DEF ClientNext
  <1>5. CASE UNCHANGED vars
    BY <1>1, <1>5 DEF vars
  <1> QED
    BY <1>2, <1>3, <1>4, <1>5 DEF Next

THEOREM WedgeIsPermanent == Spec => WedgedForever
  <1>1. IInv /\ [Next]_vars => [Wedged => Wedged']_vars
    BY WedgedStep
  <1> QED
    BY <1>1, Invariance, PTL DEF Spec, WedgedForever

(***************************************************************************)
(* While connections do not fail no write loop returns, so the handlers    *)
(* never get stuck.                                                        *)
(***************************************************************************)
Steady ==
    ~Faulty => \A c \in Client : /\ conn[c] \in {"none", "open"}
                                /\ reader[c] \in {"none", "read", "push"}
                                /\ writer[c] \in {"none", "top", "select", "write"}
                                /\ ~closeChan[c]

LEMMA SteadyStep == IInv /\ Steady /\ [Next]_vars => Steady'
  <1> SUFFICES ASSUME IInv, Steady, [Next]_vars, ~Faulty PROVE Steady'
    BY DEF Steady
  <1> USE DEF Steady, relayVars, clientVars, histVars, sharedVars
  <1>1. ASSUME NEW p \in Producers, Emit(p) \/ Accept(p) PROVE Steady'
    BY <1>1 DEF Emit, Accept
  <1>2. CASE ListenQueue \/ ListenBroadcast
    BY <1>2 DEF ListenQueue, ListenBroadcast
  <1>3. CASE Deliver
    BY <1>3 DEF IInv, TypeOK, Deliver
  <1>4. ASSUME NEW c \in Client, ClientNext(c) PROVE Steady'
    <2>1. CASE WsRegister(c) \/ WsReplay(c)
      <3>1. CASE WsRegister(c)
        <4>1. /\ conn' = [conn EXCEPT ![c] = "open"] /\ closeChan' = closeChan
              /\ reader' = [reader EXCEPT ![c] = "read"]
              /\ writer' = [writer EXCEPT ![c] = "top"]
          BY <3>1 DEF WsRegister
        <4> QED
          BY <4>1 DEF IInv, TypeOK
      <3>2. CASE WsReplay(c)
        BY <3>2 DEF WsReplay
      <3> QED
        BY <2>1, <3>1, <3>2
    <2>2. CASE ReadRequest(c) \/ ServeRequest(c) \/ Respond(c) \/ WriterPolls(c) \/ WriteOk(c)
      <3>1. CASE ReadRequest(c) \/ ServeRequest(c)
        <4>1. /\ UNCHANGED <<conn, closeChan, writer>>
              /\ \E r \in {"read", "push"} : reader' = [reader EXCEPT ![c] = r]
          BY <3>1 DEF ReadRequest, ServeRequest
        <4> QED
          BY <4>1 DEF IInv, TypeOK
      <3>2. CASE Respond(c) \/ WriterPolls(c) \/ WriteOk(c)
        <4>1. /\ UNCHANGED <<conn, closeChan, reader>>
              /\ \E w \in {"top", "select", "write"} : writer' = [writer EXCEPT ![c] = w]
          BY <3>2 DEF Respond, WriterPolls, WriteOk
        <4> QED
          BY <4>1 DEF IInv, TypeOK
      <3> QED
        BY <2>2, <3>1, <3>2
    <2>3. CASE ServeGarbled(c) \/ Disconnect(c) \/ ReadFails(c) \/ ReaderRemovesClient(c)
               \/ ReaderCloses(c) \/ WriterSeesClose(c) \/ WriteFails(c)
               \/ WriterRemovesClient(c)
      BY <2>3 DEF ServeGarbled, Disconnect, ReadFails, ReaderRemovesClient,
                  ReaderCloses, WriterSeesClose, WriteFails, WriterRemovesClient
    <2> QED
      BY <1>4, <2>1, <2>2, <2>3 DEF ClientNext
  <1>5. CASE UNCHANGED vars
    BY <1>5 DEF vars
  <1> QED
    BY <1>1, <1>2, <1>3, <1>4, <1>5 DEF Next

THEOREM SteadyIsLive == Spec => []NeverWedged
  <1>1. Init => Steady
    BY DEF Init, Steady
  <1>2. IInv /\ Steady => NeverWedged
    <2> SUFFICES ASSUME IInv, Steady, ~Faulty, mu # NoOne
                 PROVE  writer[target] # "remove"
      BY DEF NeverWedged, Wedged
    <2>1. target \in Client
      BY DEF IInv, TypeOK, MutualExclusion
    <2> QED
      BY <2>1 DEF Steady
  <1> QED
    BY <1>1, <1>2, SteadyStep, Invariance, PTL DEF Spec

(***************************************************************************)
(* What a registered client has been handed, event by event.  Due(c) is    *)
(* how far into live the client has to be: the event being broadcast is    *)
(* not due for the clients it has still to be sent to.  listenEvents sends *)
(* one event at a time, and a client registers while nobody is sending.    *)
(***************************************************************************)
Due(c) == IF mu = Listen /\ c \in left THEN Len(live) - 1 ELSE Len(live)

Relayed ==
    /\ mu = Listen => live # <<>> /\ Tail(batch) = <<>> /\ Head(batch).id = live[Len(live)]
    /\ \A c \in Client :
         /\ c >= nClients => got[c] = <<>>
         /\ c \in clientsMap => /\ joined[c] + Len(got[c]) = Due(c)
                                /\ \A i \in 1 .. Len(got[c]) : got[c][i] = live[joined[c] + i]

\* A step that sends nothing and registers nobody.
LEMMA RelayedUntouched ==
    ASSUME Relayed, UNCHANGED <<mu, left, batch, live, joined, got, nClients>>,
           clientsMap' \subseteq clientsMap
    PROVE  Relayed'
  BY DEF Relayed, Due

LEMMA RelayedStep == IInv /\ Relayed /\ [Next]_vars => Relayed'
  <1> SUFFICES ASSUME IInv, Relayed, [Next]_vars PROVE Relayed'
    OBVIOUS
  <1> USE DEF relayVars, clientVars, histVars, sharedVars
  <1>1. ASSUME NEW p \in Producers, Emit(p) \/ Accept(p) PROVE Relayed'
    BY <1>1, RelayedUntouched DEF Emit, Accept
  <1>2. CASE ListenQueue
    BY <1>2, RelayedUntouched DEF ListenQueue
  <1>3. CASE ListenBroadcast
    <2>1. /\ mu = NoOne /\ mu' = Listen /\ left' = clientsMap /\ batch' = <<event>>
          /\ live' = Append(live, event.id)
          /\ UNCHANGED <<joined, got, nClients, clientsMap>>
      BY <1>3 DEF ListenBroadcast, StartSending
    <2>2. event \in Event /\ event.id \in 1 .. MaxEvents
      BY <1>3 DEF IInv, Lifecycle, ListenBroadcast, Event
    <2>3. /\ live \in Seq(1 .. MaxEvents) /\ Len(live') = Len(live) + 1
          /\ live'[Len(live')] = event.id
          /\ \A i \in 1 .. Len(live) : live'[i] = live[i]
      BY <2>1, <2>2 DEF IInv, TypeOK
    <2>4. live' # <<>> /\ Tail(batch') = <<>> /\ Head(batch').id = live'[Len(live')]
      BY <2>1, <2>2, <2>3
    <2>5. ASSUME NEW c \in Client, c \in clientsMap
          PROVE  /\ joined[c] + Len(got[c]) = Due(c)'
                 /\ \A i \in 1 .. Len(got[c]) : got[c][i] = live'[joined[c] + i]
      <3>1. Due(c) = Len(live) /\ Due(c)' = Len(live)
        BY <2>1, <2>3, <2>5 DEF Due, NoOne, Listen
      <3>2. joined[c] \in Nat /\ got[c] \in Seq(1 .. MaxEvents) /\ Len(got[c]) \in Nat
        BY DEF IInv, TypeOK
      <3>3. /\ joined[c] + Len(got[c]) = Len(live)
            /\ \A i \in 1 .. Len(got[c]) : got[c][i] = live[joined[c] + i]
        BY <2>5, <3>1 DEF Relayed
      <3>4. ASSUME NEW i \in 1 .. Len(got[c]) PROVE got[c][i] = live'[joined[c] + i]
        <4>1. \A j, g, n \in Nat : j + g = n => \A k \in 1 .. g : j + k \in 1 .. n
          OBVIOUS
        <4>2. Len(live) \in Nat /\ joined[c] + Len(got[c]) = Len(live)
          BY <2>3, <3>3
        <4>3. joined[c] + i \in 1 .. Len(live)
          BY <3>2, <3>4, <4>1, <4>2, Zenon
        <4> QED
          BY <2>3, <3>3, <4>3, Zenon
      <3> QED
        BY <3>1, <3>3, <3>4
    <2> QED
      BY <2>1, <2>4, <2>5 DEF Relayed
  <1>4. CASE Deliver
    <2>1. /\ mu # NoOne /\ target \in left /\ target \in Client /\ left \subseteq clientsMap
          /\ batch \in Seq(Event) /\ batch # <<>>
          /\ UNCHANGED <<live, joined, nClients, clientsMap>>
      BY <1>4 DEF IInv, TypeOK, MutualExclusion, TargetIsRegistered, Deliver
    <2>2. CASE mu # Listen
      <3>1. got' = got /\ mu' # Listen
        BY <1>4, <2>2 DEF Deliver, Advance, NoOne, Listen
      <3> QED
        BY <2>1, <2>2, <3>1 DEF Relayed, Due
    <2>3. CASE mu = Listen
      <3>1. /\ live # <<>> /\ Tail(batch) = <<>> /\ Head(batch).id = live[Len(live)]
            /\ live \in Seq(1 .. MaxEvents) /\ Len(live) \in Nat
        BY <2>3 DEF Relayed, IInv, TypeOK
      <3>2. got' = [got EXCEPT ![target] = Append(got[target], live[Len(live)])]
        BY <1>4, <2>3, <3>1 DEF Deliver
      <3>3. /\ mu' = Listen => batch' = batch /\ left' = left \ {target}
            /\ mu' # Listen => left = {target}
        <4>1. CASE left # {target}
          BY <1>4, <2>3, <4>1 DEF Deliver, Advance
        <4>2. CASE left = {target}
          BY <1>4, <2>3, <3>1, <4>2 DEF Deliver, Advance, NoOne, Listen
        <4> QED
          BY <4>1, <4>2
      <3>4. ASSUME NEW c \in Client, c \in clientsMap
            PROVE  /\ joined[c] + Len(got'[c]) = Due(c)'
                   /\ \A i \in 1 .. Len(got'[c]) : got'[c][i] = live[joined[c] + i]
        <4>1. joined[c] \in Nat /\ got[c] \in Seq(1 .. MaxEvents) /\ Len(got[c]) \in Nat
          BY DEF IInv, TypeOK
        <4>2. /\ joined[c] + Len(got[c]) = Due(c)
              /\ \A i \in 1 .. Len(got[c]) : got[c][i] = live[joined[c] + i]
          BY <3>4 DEF Relayed
        <4>3. CASE c = target
          <5>1. got'[c] = Append(got[c], live[Len(live)])
            BY <3>2, <4>3 DEF IInv, TypeOK
          <5>2. live[Len(live)] \in 1 .. MaxEvents
            BY <3>1
          <5>3. /\ Len(got'[c]) = Len(got[c]) + 1 /\ got'[c][Len(got[c]) + 1] = live[Len(live)]
                /\ \A i \in 1 .. Len(got[c]) : got'[c][i] = got[c][i]
            BY <4>1, <5>1, <5>2
          <5>4. Due(c) = Len(live) - 1 /\ Due(c)' = Len(live)
            BY <2>1, <2>3, <3>3, <4>3 DEF Due
          <5>5. joined[c] + Len(got'[c]) = Len(live)
            <6> DEFINE j == joined[c]
                       g == Len(got[c])
                       n == Len(live)
            <6>1. j \in Nat /\ g \in Nat /\ n \in Nat
              BY <3>1, <4>1
            <6>2. j + g = n - 1 /\ Len(got'[c]) = g + 1
              BY <4>2, <5>3, <5>4, Zenon
            <6> HIDE DEF j, g, n
            <6>3. j + (g + 1) = n
              BY <6>1, <6>2
            <6> QED
              BY <6>2, <6>3, Zenon DEF j, n
          <5>6. ASSUME NEW i \in 1 .. Len(got'[c]) PROVE got'[c][i] = live[joined[c] + i]
            <6>1. CASE i \in 1 .. Len(got[c])
              BY <4>2, <5>3, <6>1
            <6>2. CASE i = Len(got[c]) + 1
              BY <5>3, <5>5, <6>2
            <6>3. i \in 1 .. Len(got[c]) + 1
              BY <5>3
            <6>4. i \in 1 .. Len(got[c]) \/ i = Len(got[c]) + 1
              BY <4>1, <6>3
            <6> QED
              BY <6>1, <6>2, <6>4
          <5> QED
            BY <5>4, <5>5, <5>6
        <4>4. CASE c # target
          <5>1. got'[c] = got[c]
            BY <3>2, <4>4 DEF IInv, TypeOK
          <5>2. Due(c)' = Due(c)
            BY <2>1, <2>3, <3>3, <4>4 DEF Due
          <5> QED
            BY <4>2, <5>1, <5>2
        <4> QED
          BY <4>3, <4>4
      <3>5. \A c \in Client : c >= nClients => got'[c] = <<>>
        <4> SUFFICES ASSUME NEW c \in Client, c >= nClients PROVE got'[c] = <<>>
          OBVIOUS
        <4>1. target \in Nat /\ nClients \in Nat /\ c \in Nat /\ target < nClients
          BY <2>1 DEF IInv, TypeOK, Lifecycle
        <4>2. c # target
          BY <4>1
        <4>3. got'[c] = got[c]
          BY <3>2, <4>2 DEF IInv, TypeOK
        <4> QED
          BY <4>3 DEF Relayed
      <3> QED
        BY <2>1, <3>1, <3>3, <3>4, <3>5 DEF Relayed
    <2> QED
      BY <2>2, <2>3
  <1>5. ASSUME NEW c \in Client, WsRegister(c) PROVE Relayed'
    <2>1. /\ c = nClients /\ mu = NoOne /\ nClients' = nClients + 1 /\ nClients \in Nat
          /\ clientsMap' = clientsMap \cup {c}
          /\ joined' = [joined EXCEPT ![c] = Len(live)]
          /\ UNCHANGED <<mu, batch, left, live, got>>
      BY <1>5 DEF IInv, TypeOK, WsRegister
    <2>2. got[c] = <<>> /\ Len(live) \in Nat
      BY <2>1 DEF IInv, TypeOK, Relayed
    <2>3. ASSUME NEW d \in Client, d \in clientsMap'
          PROVE  /\ joined'[d] + Len(got[d]) = Due(d)'
                 /\ \A i \in 1 .. Len(got[d]) : got[d][i] = live[joined'[d] + i]
      <3>1. Due(d) = Len(live) /\ Due(d)' = Len(live)
        BY <2>1 DEF Due, NoOne, Listen
      <3>2. CASE d = c
        BY <2>1, <2>2, <3>1, <3>2 DEF IInv, TypeOK
      <3>3. CASE d # c
        BY <2>1, <2>3, <3>1, <3>3 DEF IInv, TypeOK, Relayed
      <3> QED
        BY <3>2, <3>3
    <2>4. \A d \in Client : d >= nClients' => got[d] = <<>>
      BY <2>1 DEF Relayed
    <2> QED
      BY <2>1, <2>3, <2>4 DEF Relayed, NoOne, Listen
  <1>6. ASSUME NEW c \in Client, WsReplay(c) PROVE Relayed'
    <2>1. /\ mu = NoOne /\ mu' # Listen
          /\ UNCHANGED <<live, joined, got, nClients, clientsMap>>
      BY <1>6 DEF WsReplay, StartSending, NoOne, Listen, Ws
    <2> QED
      BY <2>1 DEF Relayed, Due, NoOne, Listen
  <1>7. ASSUME NEW c \in Client, ReaderRemovesClient(c) \/ WriterRemovesClient(c)
        PROVE  Relayed'
    BY <1>7, RelayedUntouched DEF ReaderRemovesClient, WriterRemovesClient
  <1>8. ASSUME NEW c \in Client,
               ReadRequest(c) \/ ServeRequest(c) \/ ServeGarbled(c) \/ Respond(c)
               \/ Disconnect(c) \/ ReadFails(c) \/ ReaderCloses(c)
        PROVE  Relayed'
    BY <1>8, RelayedUntouched DEF ReadRequest, ServeRequest, ServeGarbled, Respond,
                                  Disconnect, ReadFails, ReaderCloses
  <1>9. ASSUME NEW c \in Client,
               WriterPolls(c) \/ WriterSeesClose(c) \/ WriteOk(c) \/ WriteFails(c)
        PROVE  Relayed'
    BY <1>9, RelayedUntouched DEF WriterPolls, WriterSeesClose, WriteOk, WriteFails
  <1>10. CASE UNCHANGED vars
    BY <1>10, RelayedUntouched DEF vars
  <1> QED
    BY <1>1, <1>2, <1>3, <1>4, <1>5, <1>6, <1>7, <1>8, <1>9, <1>10 DEF Next, ClientNext

(***************************************************************************)
(* A registered app is handed the live events without a gap, a repetition  *)
(* or a change of order, however many apps come and go and whatever is     *)
(* replayed to them in between.                                            *)
(***************************************************************************)
THEOREM NoGapsInTheRelay == Spec => []LiveEventsComplete
  <1>1. Init => Relayed
    BY DEF Init, Relayed, NoOne, Listen
  <1>2. IInv /\ Relayed => LiveEventsComplete
    <2> SUFFICES ASSUME IInv, Relayed, NEW c \in clientsMap
                 PROVE  got[c] = SubSeq(live, joined[c] + 1,
                                        Len(live) - IF mu = Listen /\ c \in left THEN 1 ELSE 0)
      BY DEF LiveEventsComplete
    <2>0. c \in Client
      BY DEF IInv, TypeOK
    <2>1. /\ c \in Client /\ joined[c] \in Nat /\ got[c] \in Seq(1 .. MaxEvents)
          /\ Len(got[c]) \in Nat /\ live \in Seq(1 .. MaxEvents) /\ Len(live) \in Nat
      BY <2>0 DEF IInv, TypeOK
    <2>2. /\ joined[c] + Len(got[c]) = Due(c)
          /\ \A i \in 1 .. Len(got[c]) : got[c][i] = live[joined[c] + i]
      BY <2>1 DEF Relayed
    <2>3. /\ Due(c) = Len(live) - (IF mu = Listen /\ c \in left THEN 1 ELSE 0)
          /\ Due(c) \in Nat /\ Due(c) <= Len(live)
      <3>1. CASE mu = Listen /\ c \in left
        BY <2>1, <2>2, <3>1 DEF Due
      <3>2. CASE ~(mu = Listen /\ c \in left)
        BY <2>1, <2>2, <3>2 DEF Due
      <3> QED
        BY <3>1, <3>2
    <2> DEFINE handed == SubSeq(live, joined[c] + 1, Due(c))
    <2>4. /\ handed \in Seq(1 .. MaxEvents) /\ Len(handed) = Due(c) - joined[c]
          /\ \A i \in 1 .. Len(handed) : handed[i] = live[joined[c] + i]
      <3> DEFINE m == joined[c] + 1
                 n == Due(c)
      <3>1. m \in Int /\ n \in Int /\ m - 1 <= n /\ n <= Len(live) /\ m >= 1 /\ m = joined[c] + 1
        BY <2>1, <2>2, <2>3
      <3>2. handed = SubSeq(live, m, n)
        OBVIOUS
      <3> HIDE DEF m, n, handed
      <3>3. \A i \in m .. n : live[i] \in 1 .. MaxEvents
        <4> SUFFICES ASSUME NEW i \in m .. n PROVE live[i] \in 1 .. MaxEvents
          OBVIOUS
        <4>1. i \in 1 .. Len(live)
          BY <2>1, <3>1
        <4> QED
          BY <2>1, <4>1, ElementOfSeq
      <3>4. /\ SubSeq(live, m, n) \in Seq(1 .. MaxEvents)
            /\ Len(SubSeq(live, m, n)) = IF m <= n THEN n - m + 1 ELSE 0
            /\ \A i \in 1 .. n - m + 1 : SubSeq(live, m, n)[i] = live[m + i - 1]
        BY <3>1, <3>3, SubSeqProperties
      <3>5. Len(handed) = n - m + 1
        BY <3>1, <3>2, <3>4
      <3>6. \A i \in 1 .. Len(handed) : handed[i] = live[joined[c] + i]
        <4> SUFFICES ASSUME NEW i \in 1 .. Len(handed) PROVE handed[i] = live[joined[c] + i]
          OBVIOUS
        <4>1. i \in 1 .. n - m + 1 /\ i \in Int
          BY <3>5
        <4>2. handed[i] = live[m + i - 1]
          BY <3>2, <3>4, <4>1
        <4>3. m + i - 1 = joined[c] + i
          BY <2>1, <3>1, <4>1
        <4> QED
          BY <4>2, <4>3
      <3>7. n - m + 1 = Due(c) - joined[c]
        BY <2>1, <2>3, <3>1 DEF n
      <3> QED
        BY <3>2, <3>4, <3>5, <3>6, <3>7
    <2>5. got[c] = handed
      <3> HIDE DEF handed
      <3> QED
        <4>1. Len(got[c]) = Len(handed)
          BY <2>1, <2>2, <2>3, <2>4
        <4>2. \A i \in 1 .. Len(got[c]) : got[c][i] = handed[i]
          BY <2>2, <2>4, <4>1
        <4> DEFINE s == got[c]
        <4>3. s \in Seq(1 .. MaxEvents) /\ Len(s) = Len(handed)
              /\ \A i \in 1 .. Len(s) : s[i] = handed[i]
          BY <2>1, <4>1, <4>2
        <4> HIDE DEF s
        <4>4. s = handed
          BY <2>4, <4>3, SeqEqual
        <4> QED
          BY <4>4 DEF s
    <2> QED
      BY <2>3, <2>5
  <1> QED
    BY <1>1, <1>2, RelayedStep, Invariance, PTL DEF Spec

=============================================================================
