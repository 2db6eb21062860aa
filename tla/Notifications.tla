----------------------------- MODULE Notifications -----------------------------
(***************************************************************************)
(* IPC notifications: other processes of the Base write lines into a named *)
(* pipe, Reader.read scans them, ipcNotificationLoop turns the outcomes of *)
(* updates into events.  The channel between the two and the one to the    *)
(* handlers are unbuffered.                                                *)
(***************************************************************************)
EXTENDS Naturals, Sequences

CONSTANTS MaxLines,      \* bound on the lines written
          MaxRestarts    \* bound on restarts of the middleware

ASSUME NotificationsAssumption == MaxLines \in Nat /\ MaxRestarts \in Nat

VARIABLES pipe,                 \* lines in the named pipe
          reader, held,         \* Reader.read: position and line it passes on
          notifier, handled,    \* ipcNotificationLoop: position and line whose event it sends
          nLines, restarts,
          scanned, relayed,     \* history of this process, for notifications of version 1:
                                \* outcomes scanned, events sent
          unsupported           \* history: an event was sent for another version

notifVars == <<pipe, reader, held, notifier, handled, nLines, restarts, scanned, relayed,
               unsupported>>

\* A line says that an update succeeded or failed, or, with a version other than 1, that it
\* succeeded; it has another topic or payload; it is not JSON; it has 4096 bytes or more; or
\* the scanner's buffer of 64 KiB cannot hold it.
Lines == {"success", "failure", "version2", "topic", "payload", "garbage", "long", "huge"}

NotifTypeOK ==
    /\ pipe \in Seq(Lines)
    /\ reader \in {"scan", "send", "ended"} /\ held \in Lines \cup {"none"}
    /\ notifier \in {"receive", "emit"}
    /\ handled \in {"success", "failure", "version2", "none"}
    /\ nLines \in 0..MaxLines /\ restarts \in 0..MaxRestarts
    /\ scanned \in Seq({"success", "failure"}) /\ relayed \in Seq({"success", "failure"})
    /\ unsupported \in BOOLEAN

\* NewReader: the named pipe is opened for reading and writing.
NotifInit ==
    /\ pipe = <<>> /\ reader = "scan" /\ held = "none"
    /\ notifier = "receive" /\ handled = "none"
    /\ nLines = 0 /\ restarts = 0 /\ scanned = <<>> /\ relayed = <<>> /\ unsupported = FALSE

\* Without a reader a writer blocks in open.
WriteLine(l) ==
    /\ nLines < MaxLines /\ reader # "ended"
    /\ nLines' = nLines + 1
    /\ pipe' = Append(pipe, l)
    /\ UNCHANGED <<reader, held, notifier, handled, restarts, scanned, relayed, unsupported>>

\* Long lines and lines that are not JSON are dropped.
Kept(l) == l \notin {"long", "garbage"}

\* ParseMenderUpdatePayload and the switch on the topic.  A notification of an unsupported
\* version is logged as dropped and then handled like any other.
Outcome(l) == CASE l \in {"success", "version2"} -> "success"
                [] l = "failure" -> "failure"
                [] OTHER -> "none"

\* The events a line should lead to: its outcome, for notifications of version 1.
Expected(l) == IF l \in {"success", "failure"} THEN <<l>> ELSE <<>>

\* Reader.read; a line the scanner cannot hold ends it for good.
Scan == LET l == Head(pipe) IN
    /\ reader = "scan" /\ pipe # <<>>
    /\ pipe' = Tail(pipe) /\ scanned' = scanned \o Expected(l)
    /\ reader' = IF l = "huge" THEN "ended" ELSE IF Kept(l) THEN "send" ELSE "scan"
    /\ held' = IF l # "huge" /\ Kept(l) THEN l ELSE "none"
    /\ UNCHANGED <<notifier, handled, nLines, restarts, relayed, unsupported>>

\* The loop takes the notification: an event follows, or it waits for the next one.
TakeNotification ==
    /\ reader' = "scan" /\ held' = "none"
    /\ handled' = IF Outcome(held) = "none" THEN "none" ELSE held
    /\ notifier' = IF Outcome(held) = "none" THEN "receive" ELSE "emit"
    /\ UNCHANGED <<pipe, nLines, restarts, scanned, relayed, unsupported>>

\* Mutant of ReceiveNotification: the loop ends at a topic it does not know.
ReceiveOrReturn ==
    reader = "send" /\ notifier = "receive" /\ held # "topic" /\ TakeNotification

\* Mutant of ReceiveNotification: the next notification does not wait for the event.
ReceiveWithoutWaiting == reader = "send" /\ TakeNotification

\* ipcNotificationLoop up to the event.
ReceiveNotification == reader = "send" /\ notifier = "receive" /\ TakeNotification

\* The handlers take the event.
EmitOutcome ==
    /\ notifier = "emit" /\ notifier' = "receive" /\ handled' = "none"
    /\ IF handled = "version2" THEN unsupported' = TRUE /\ UNCHANGED relayed
       ELSE relayed' = Append(relayed, Outcome(handled)) /\ UNCHANGED unsupported
    /\ UNCHANGED <<pipe, reader, held, nLines, restarts, scanned>>

\* What the pipe held is gone with the last process that had it open.
NotifRestart ==
    /\ restarts < MaxRestarts /\ restarts' = restarts + 1
    /\ pipe' = <<>> /\ reader' = "scan" /\ held' = "none"
    /\ notifier' = "receive" /\ handled' = "none" /\ scanned' = <<>> /\ relayed' = <<>>
    /\ UNCHANGED <<nLines, unsupported>>

NotifNext ==
    \/ \E l \in Lines : WriteLine(l)
    \/ Scan \/ ReceiveNotification \/ EmitOutcome \/ NotifRestart

--------------------------------------------------------------------------------
\* Every outcome scanned in a notification of version 1 is relayed exactly once and in
\* order, whatever is between the lines; two of them at most are on the way.
RelayedInOrder == scanned = (relayed \o Expected(handled)) \o Expected(held)

\* A notification of another version is never relayed: middleware.go:244 logs it as
\* "Dropping IPC notification with unsupported version".
UnsupportedIsDropped == ~unsupported

\* Lines in the pipe are worked off, with what follows from them, unless a line was too
\* long for the scanner: no line that is dropped stops the reader or the loop.
LinesAreWorkedOff ==
    pipe # <<>> ~> \/ reader = "ended"
                   \/ pipe = <<>> /\ reader = "scan" /\ notifier = "receive"
================================================================================
