----------------------------- MODULE MCHandlers -----------------------------
(***************************************************************************)
(* Handlers with the properties that only the model checker can decide:    *)
(* what must eventually happen.                                            *)
(***************************************************************************)
EXTENDS Handlers

\* handlers.go:158 says of wsHandler: "It listens indefinitely to events from
\* the middleware and relays them to clients accordingly."  Every producer
\* that is blocked on the events channel is eventually released.
ListensIndefinitely ==
    \A p \in Producers : sending[p] # NoEvent ~> sending[p] = NoEvent

\* An event that is broadcast reaches every client that is registered: its
\* writeLoop eventually gets all events up to the i-th.
BroadcastReachesClients ==
    \A c \in Client, i \in 1 .. MaxEvents :
        (c \in clientsMap /\ Len(live) >= i) ~> (joined[c] + Len(got[c]) >= i)

\* A queued event reaches the app that connects next (handlers.go:184-190).
QueuedReachesNextClient ==
    \A c \in Client, i \in 1 .. MaxEvents :
        (ws[c] = "replay" /\ \E k \in DOMAIN eventQueue : eventQueue[k].id = i)
            ~> (i \in replayed[c])
=============================================================================
