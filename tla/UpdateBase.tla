----------------------------- MODULE UpdateBase -----------------------------
(***************************************************************************)
(* The UpdateBase RPC of the middleware: concurrent calls (net/rpc runs    *)
(* every request in a goroutine of its own) that each run                  *)
(* `bbb-cmd.sh mender-update install`, follow its output, keep             *)
(* middleware.baseUpdateProgress up to date without any lock and notify    *)
(* the app on the unbuffered events channel after every change.            *)
(*                                                                         *)
(* Abstractions: a line of the script's output is the percentage it shows, *)
(* the lines without one change nothing; the downloaded size goes with the *)
(* percentage.  The script writes at most one error code to stderr, as     *)
(* errorExit does.  The reboot five seconds after a success is modelled in *)
(* UpdateLifecycle.                                                        *)
(***************************************************************************)
EXTENDS Integers

CONSTANTS
    Calls,        \* UpdateBase calls made while the middleware runs
    Percentages   \* percentages the install script reports, ascending

ASSUME UpdateBaseAssumption == Percentages \subseteq 0 .. 100

State == {"NotInProgress", "Downloading", "Applying", "Failed", "Rebooting"}
Busy  == {"Downloading", "Applying", "Rebooting"}
Code  == {"none", "Success", "AlreadyInProgress", "InstallFailed",
          "ScriptCode", "Unexpected", "ExecutableNotFound"}

VARIABLES
    state,        \* baseUpdateProgress.State
    percentage,   \* baseUpdateProgress.ProgressPercentage
    pc,           \* pc[c]: where call c is
    pending,      \* pending[c]: the state c is about to set and to notify of
    then,         \* then[c]: where c goes on after its notification
    proc,         \* proc[c]: the install script of c
    shown,        \* shown[c]: last percentage the script of c reported
    stderrRead,   \* stderrRead[c]: whether errOutLines has the error code
    code,         \* code[c]: the ErrorResponse of c
    reboot,       \* whether RebootBase has scheduled a reboot
    appView       \* what the app saw when it was notified last

callVars == <<pc, pending, then, proc, shown, stderrRead, code>>
vars     == <<state, percentage, callVars, reboot, appView>>

TypeOK ==
    /\ state \in State
    /\ percentage \in 0 .. 100
    /\ pc \in [Calls -> {"idle", "start", "scan", "set", "notify", "wait",
                         "reboot", "done"}]
    /\ pending \in [Calls -> State]
    /\ then \in [Calls -> {"scan", "reboot", "done"}]
    /\ proc \in [Calls -> {"none", "running", "ok", "failed"}]
    /\ shown \in [Calls -> -1 .. 100]
    /\ stderrRead \in [Calls -> BOOLEAN]
    /\ code \in [Calls -> Code]
    /\ reboot \in BOOLEAN
    /\ appView \in [state : State, percentage : 0 .. 100]

Init ==
    /\ state = "NotInProgress"
    /\ percentage = 0
    /\ pc = [c \in Calls |-> "idle"]
    /\ pending = [c \in Calls |-> "NotInProgress"]
    /\ then = [c \in Calls |-> "done"]
    /\ proc = [c \in Calls |-> "none"]
    /\ shown = [c \in Calls |-> -1]
    /\ stderrRead = [c \in Calls |-> FALSE]
    /\ code = [c \in Calls |-> "none"]
    /\ reboot = FALSE
    /\ appView = [state |-> "NotInProgress", percentage |-> 0]

-----------------------------------------------------------------------------
Goto(c, l) == pc' = [pc EXCEPT ![c] = l]

\* Call c is about to run setBaseUpdateStateAndNotify(s), and then goes to l.
SetAndNotify(c, s, l) ==
    /\ Goto(c, "set")
    /\ pending' = [pending EXCEPT ![c] = s]
    /\ then' = [then EXCEPT ![c] = l]

Returns(c, r) == code' = [code EXCEPT ![c] = r]

\* The check at the top of UpdateBase: refused while an update is shown to be
\* in progress.
Refuse(c) ==
    /\ pc[c] = "idle"
    /\ state \in Busy
    /\ Goto(c, "done")
    /\ Returns(c, "AlreadyInProgress")
    /\ UNCHANGED <<state, percentage, pending, then, proc, shown, stderrRead,
                   reboot, appView>>

Begin(c) ==
    /\ pc[c] = "idle"
    /\ state \notin Busy
    /\ Goto(c, "start")
    /\ UNCHANGED <<state, percentage, pending, then, proc, shown, stderrRead,
                   code, reboot, appView>>

\* A pipe or the script cannot be created: the call returns and leaves the
\* progress as it is.
StartFails(c) ==
    /\ pc[c] = "start"
    /\ Goto(c, "done")
    /\ Returns(c, "InstallFailed")
    /\ UNCHANGED <<state, percentage, pending, then, proc, shown, stderrRead,
                   reboot, appView>>

\* cmd.Start
Start(c) ==
    /\ pc[c] = "start"
    /\ Goto(c, "scan")
    /\ proc' = [proc EXCEPT ![c] = "running"]
    /\ UNCHANGED <<state, percentage, pending, then, shown, stderrRead, code,
                   reboot, appView>>

\* The stdout scanner returns a line that parseBaseUpdateStdout accepts.
ReadProgress(c, p) ==
    /\ pc[c] = "scan"
    /\ p > shown[c]
    /\ shown' = [shown EXCEPT ![c] = p]
    /\ percentage' = p
    /\ SetAndNotify(c, IF p < 98 THEN "Downloading" ELSE "Applying", "scan")
    /\ UNCHANGED <<state, proc, stderrRead, code, reboot, appView>>

\* Mutant of SetState: the event is sent before the state is set.
SetStateAfterEvent(c) ==
    /\ pc[c] = "set"
    /\ state' = pending[c]
    /\ Goto(c, then[c])
    /\ appView' = [state |-> state, percentage |-> percentage]
    /\ UNCHANGED <<percentage, pending, then, proc, shown, stderrRead, code, reboot>>

\* First half of setBaseUpdateStateAndNotify; c then blocks on the channel.
SetState(c) ==
    /\ pc[c] = "set"
    /\ state' = pending[c]
    /\ Goto(c, "notify")
    /\ UNCHANGED <<percentage, pending, then, proc, shown, stderrRead, code,
                   reboot, appView>>

\* Second half: the event is received, and the app calls GetBaseUpdateProgress.
Notify(c) ==
    /\ pc[c] = "notify"
    /\ Goto(c, then[c])
    /\ appView' = [state |-> state, percentage |-> percentage]
    /\ UNCHANGED <<state, percentage, pending, then, proc, shown, stderrRead,
                   code, reboot>>

\* The script ends; when it fails it has written its error code to stderr.
ScriptExits(c) ==
    /\ proc[c] = "running"
    /\ \E r \in {"ok", "failed"} : proc' = [proc EXCEPT ![c] = r]
    /\ UNCHANGED <<state, percentage, pc, pending, then, shown, stderrRead,
                   code, reboot, appView>>

\* The stderr goroutine appends the error code to errOutLines, unless
\* the pipe has been closed under it.
ReadStderr(c) ==
    /\ proc[c] = "failed"
    /\ pc[c] \in {"scan", "set", "notify"}
    /\ ~stderrRead[c]
    /\ stderrRead' = [stderrRead EXCEPT ![c] = TRUE]
    /\ UNCHANGED <<state, percentage, pc, pending, then, proc, shown, code,
                   reboot, appView>>

\* Mutant of ScanFails: the error path forgets the state.
ScanFailsSilently(c) ==
    /\ pc[c] = "scan"
    /\ Goto(c, "done")
    /\ Returns(c, "InstallFailed")
    /\ UNCHANGED <<state, percentage, pending, then, proc, shown, stderrRead,
                   reboot, appView>>

\* The stdout scanner stops with an error.  The script is not waited for.
ScanFails(c) ==
    /\ pc[c] = "scan"
    /\ SetAndNotify(c, "Failed", "done")
    /\ Returns(c, "InstallFailed")
    /\ UNCHANGED <<state, percentage, proc, shown, stderrRead, reboot, appView>>

\* End of stdout: stderr is closed and the script waited for.
ReadEof(c) ==
    /\ pc[c] = "scan"
    /\ proc[c] \in {"ok", "failed"}
    /\ Goto(c, "wait")
    /\ UNCHANGED <<state, percentage, pending, then, proc, shown, stderrRead,
                   code, reboot, appView>>

\* Mutant of Wait: the exit status of the script is not looked at.
WaitIgnoringStatus(c) ==
    /\ pc[c] = "wait"
    /\ SetAndNotify(c, "Rebooting", "reboot")
    /\ UNCHANGED <<state, percentage, proc, shown, stderrRead, code, reboot, appView>>

\* Mutant of Wait: a script that failed is waited for as if it still ran.
WaitForSuccess(c) ==
    /\ pc[c] = "wait"
    /\ proc[c] = "ok"
    /\ SetAndNotify(c, "Rebooting", "reboot")
    /\ UNCHANGED <<state, percentage, proc, shown, stderrRead, code, reboot, appView>>

\* cmd.Wait and what follows from the exit status.
Wait(c) ==
    /\ pc[c] = "wait"
    /\ IF proc[c] = "failed"
         THEN /\ SetAndNotify(c, "Failed", "done")
              /\ Returns(c, IF stderrRead[c] THEN "ScriptCode" ELSE "Unexpected")
         ELSE /\ SetAndNotify(c, "Rebooting", "reboot")
              /\ UNCHANGED code
    /\ UNCHANGED <<state, percentage, proc, shown, stderrRead, reboot, appView>>

\* RebootBase finds no reboot executable, or schedules the reboot.
RebootFails(c) ==
    /\ pc[c] = "reboot"
    /\ Goto(c, "done")
    /\ Returns(c, "ExecutableNotFound")
    /\ UNCHANGED <<state, percentage, pending, then, proc, shown, stderrRead,
                   reboot, appView>>

RebootBase(c) ==
    /\ pc[c] = "reboot"
    /\ Goto(c, "done")
    /\ Returns(c, "Success")
    /\ reboot' = TRUE
    /\ UNCHANGED <<state, percentage, pending, then, proc, shown, stderrRead, appView>>

\* What the middleware does for call c once it is made, and its script.
Step(c) ==
    \/ StartFails(c) \/ Start(c) \/ (\E p \in Percentages : ReadProgress(c, p))
    \/ SetState(c) \/ Notify(c)
    \/ ScanFails(c) \/ ReadEof(c) \/ Wait(c) \/ RebootFails(c) \/ RebootBase(c)

Next ==
    \E c \in Calls : Refuse(c) \/ Begin(c) \/ Step(c) \/ ScriptExits(c) \/ ReadStderr(c)

\* Every goroutine that can run does, and the script ends: `mender -install`
\* downloads with timeouts.  The events channel is assumed to be served here,
\* which is what Handlers shows while no connection fails.
Fairness == \A c \in Calls : WF_vars(Step(c)) /\ WF_vars(ScriptExits(c))

Spec     == Init /\ [][Next]_vars
FairSpec == Spec /\ Fairness

-----------------------------------------------------------------------------
Active(c) == pc[c] \notin {"idle", "done"}

\* When no call is in the middle of an update of the progress, the app has
\* seen the current progress, however the calls interleave: every write of
\* baseUpdateProgress is followed by an event (middleware.go:779, util.go:320).
AppSeesCurrentProgress ==
    (\A c \in Calls : pc[c] \notin {"set", "notify"})
        => appView = [state |-> state, percentage |-> percentage]

\* The middleware never refuses updates without reason: it shows an update as
\* busy only while a call is running or after a script has succeeded.  Every
\* path out of UpdateBase that starts a script resets the state.
RefusalIsJustified ==
    state \in Busy => \E c \in Calls : Active(c) \/ proc[c] = "ok"

\* The Base is rebooted, and the app told so, only after an install succeeded.
RebootAfterInstall ==
    reboot \/ state = "Rebooting" => \E c \in Calls : proc[c] = "ok"

\* Every call of UpdateBase returns to the app.
CallReturns == \A c \in Calls : Active(c) ~> pc[c] = "done"
=============================================================================
