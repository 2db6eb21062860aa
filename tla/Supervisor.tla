------------------------------ MODULE Supervisor ------------------------------
(***************************************************************************)
(* tools/bbbsupervisor on a Base that is set up: watchers that block on    *)
(* unbuffered channels, the one event loop that reads them, and what its   *)
(* handlers do through systemctl and bbb-config.sh.  Beside it run         *)
(* bitcoind (whose metrics are watched), the RPCs that resync bitcoind,    *)
(* and systemd.                                                            *)
(*                                                                         *)
(* A script's commands are steps of their own where another process can    *)
(* see the difference.  Whether bitcoin_dbcache changes or                 *)
(* bitcoind:ibd-clearnet was set, so that bitcoind is restarted, is left   *)
(* open; so are restarts of bitcoind by other scripts, which a handler     *)
(* meets as a command that fails.  Time is abstract: `recent` holds the    *)
(* triggers that were executed less than 30 s ago.                         *)
(***************************************************************************)
EXTENDS Integers, FiniteSets

CONSTANTS LogWatchers,   \* goroutines that follow a journal
          LogTriggers,   \* what they recognise
          MaxFaults      \* bound on failing commands, ended watchers, restarts

ASSUME SupervisorAssumption ==
    /\ "prometheus" \notin LogWatchers
    /\ LogTriggers \subseteq {"electrsFullySynced", "electrsNoBitcoindConnectivity",
                              "middlewareNoBitcoindConnectivity"}
    /\ MaxFaults \in Nat

VARIABLES ibd, high,          \* bitcoind: initial block download, height >= 596000
          bitcoind,           \* bitcoind.service, as systemd sees it
          redisIBD,           \* Redis: bitcoind:ibd
          unit,               \* lightningd and electrs, as systemd sees them
          watching,           \* log watchers whose journalctl still runs
          pending,            \* what a watcher is sending, or None
          pc, task,           \* the event loop: position and trigger at work
          last,               \* PrometheusLastStateIBD
          recent,             \* TriggerLastExecuted
          resync,             \* where bbb-cmd.sh bitcoind resync is
          faults,
          drift               \* history: why last and Redis may differ

vars == <<ibd, high, bitcoind, redisIBD, unit, watching, pending, pc, task, last,
          recent, resync, faults, drift>>

Units == {"lightningd", "electrs"}
Watchers == LogWatchers \cup {"prometheus"}
None == "none"
Error == "error"
NoIBD == "ibd0"
InIBD == "ibd1"

\* handleBitcoindIBD's trigger with the measured value.
Measured(v) == IF v = 1 THEN InIBD ELSE NoIBD
Events == LogTriggers \cup {NoIBD, InIBD, Error}

\* Where a script goes on when systemctl has restarted bitcoind.
AfterRestart == [bitcoindUp |-> "enable", bitcoindTor |-> "cacheDown", bitcoindDown |-> "disable"]

TypeOK ==
    /\ ibd \in {0, 1} /\ redisIBD \in {0, 1} /\ high \in BOOLEAN
    /\ unit \in [Units -> {"stopped", "retrying", "running"}]
    /\ watching \subseteq LogWatchers
    /\ pending \in [Watchers -> Events \cup {None}]
    /\ bitcoind \in {"active", "starting", "stopped"}
    /\ pc \in {"idle", "restart", "stop", "cacheUp", "bitcoindUp", "enable", "height", "clearnet",
               "bitcoindTor", "cacheDown", "bitcoindDown", "disable", "start"}
    /\ task \in LogTriggers \cup {None}
    /\ last \in {-1, 0, 1}
    /\ recent \subseteq LogTriggers
    /\ resync \in {"no", "stopped", "set"}
    /\ faults \in 0..MaxFaults
    /\ drift \subseteq {"resync", "halfway", "halted", "lost"}

\* New, setupWatchers, startWatchers: nothing is remembered of an earlier life.
Fresh(l, r, w, p, c, t) ==
    /\ l = -1 /\ r = {} /\ w = LogWatchers
    /\ p = [x \in Watchers |-> None] /\ c = "idle" /\ t = None

Init ==
    /\ Fresh(last, recent, watching, pending, pc, task)
    /\ ibd \in {0, 1} /\ high \in BOOLEAN /\ redisIBD \in {0, 1}
    /\ unit \in [Units -> IF redisIBD = 1 THEN {"stopped"} ELSE {"stopped", "running"}]
    /\ bitcoind = "active" /\ resync = "no" /\ faults = 0 /\ drift = {}

base == <<ibd, high, bitcoind, resync>>
loop == <<pc, task, last, recent>>

-------------------------------------------------------------------------------
\* Watchers.  A send blocks until the event loop receives it.

\* EventWriter.Write: a line that parseEvent recognises.  Only a running electrs logs.  The
\* channel has no buffer, so that a watcher holds one line; later ones wait in the journal.
LogLine(w, t) ==
    /\ w \in watching /\ pending[w] = None
    /\ t # "middlewareNoBitcoindConnectivity" => unit["electrs"] = "running"
    /\ pending' = [pending EXCEPT ![w] = t]
    /\ UNCHANGED <<base, redisIBD, unit, watching, loop, faults, drift>>

\* LogWatcher.Watch after cmd.Run: an error is sent and the goroutine ends for good.
JournalEnds(w) ==
    /\ w \in watching /\ pending[w] = None /\ faults < MaxFaults
    /\ watching' = watching \ {w}
    /\ pending' = [pending EXCEPT ![w] = Error]
    /\ faults' = faults + 1
    /\ UNCHANGED <<base, redisIBD, unit, loop, drift>>

\* PrometheusWatcher.watchHandler with the outcome of QueryFloat64.
WatchHandler(result) ==
    /\ pending["prometheus"] = None
    /\ pending' = [pending EXCEPT !["prometheus"] = result]
    /\ UNCHANGED <<base, redisIBD, unit, watching, loop, faults, drift>>
Measure == WatchHandler(Measured(ibd))
QueryFails == WatchHandler(Error)

-------------------------------------------------------------------------------
\* The event loop.

IsFlooding(t) == t \in recent

\* handleElectrsNoBitcoindConnectivity and the two like it.
HandleLog(t) ==
    /\ pc' = IF IsFlooding(t) THEN "idle" ELSE "restart"
    /\ task' = IF IsFlooding(t) THEN None ELSE t

\* Mutant of HandleBitcoindIBD: only the first measurement and the end count.
HandleBitcoindIBDOnce(isActive) ==
    /\ pc' = IF last = isActive \/ last = 0 THEN "idle"
             ELSE IF isActive = 1 THEN "stop" ELSE "height"
    /\ task' = None

\* handleBitcoindIBD up to its first command.
HandleBitcoindIBD(isActive) ==
    /\ pc' = IF last = isActive THEN "idle"
             ELSE IF isActive = 1 THEN "stop" ELSE "height"
    /\ task' = None

\* eventHandler: receive from one blocked watcher.  Errors are logged, panics recovered.
Receive(w) ==
    /\ pc = "idle" /\ pending[w] # None
    /\ pending' = [pending EXCEPT ![w] = None]
    /\ \/ pending[w] \in LogTriggers /\ HandleLog(pending[w])
       \/ pending[w] = InIBD /\ HandleBitcoindIBD(1)
       \/ pending[w] = NoIBD /\ HandleBitcoindIBD(0)
       \/ pending[w] = Error /\ UNCHANGED <<pc, task>>
    /\ UNCHANGED <<base, redisIBD, unit, watching, last, recent, faults, drift>>

\* The handler returns; the state of the download is recorded only now.
Return(state) == pc' = "idle" /\ task' = None /\ last' = state

\* Mutant of Started: the unit does not look at bitcoind:ibd.
StartedAnyway(u) == "running"

\* A unit whose startpre script refuses (bitcoind.service is not active or bitcoind:ibd is
\* 1) is retried by systemd.
Started(u) == IF bitcoind # "active" \/ redisIBD = 1 THEN "retrying" ELSE "running"

\* restartUnit: the execution is noted if the command succeeded.
RestartUnit ==
    /\ pc = "restart"
    /\ IF task = "middlewareNoBitcoindConnectivity"
       THEN unit' = unit /\ recent' = recent \cup {task}
       ELSE /\ unit' = [unit EXCEPT !["electrs"] = Started("electrs")]
            /\ recent' = IF Started("electrs") = "running" THEN recent \cup {task} ELSE recent
    /\ Return(last)
    /\ UNCHANGED <<base, redisIBD, watching, pending, faults, drift>>

\* systemctl restart bitcoind, which starts a stopped one too, and waits; a stop cancels it.
RestartBitcoind(l) == bitcoind' = "starting" /\ pc' = l

BitcoindRestarted ==
    /\ pc \in DOMAIN AfterRestart /\ bitcoind = "active"
    /\ pc' = AfterRestart[pc]
    /\ UNCHANGED <<base, redisIBD, unit, watching, pending, task, last, recent, faults, drift>>

RestartCancelled ==
    /\ pc \in DOMAIN AfterRestart /\ bitcoind = "stopped"
    /\ Return(last)
    /\ drift' = drift \cup (IF pc = "bitcoindUp" THEN {"halted"} ELSE {})
    /\ UNCHANGED <<base, redisIBD, unit, watching, pending, recent, faults>>

\* A setting of bitcoind is changed, and bitcoind restarted unless nothing changed:
\* bitcoin_dbcache and, at the end of a download, bitcoin_ibd_clearnet.
SetBitcoind(l, restarting, next) ==
    /\ pc = l
    /\ RestartBitcoind(restarting) \/ (pc' = next /\ UNCHANGED bitcoind)
    /\ UNCHANGED <<ibd, high, resync, redisIBD, unit, watching, pending, task, last, recent,
                   faults, drift>>
EnableDbcache == SetBitcoind("cacheUp", "bitcoindUp", "enable")
UnsetClearnet == SetBitcoind("clearnet", "bitcoindTor", "cacheDown")
DisableDbcache == SetBitcoind("cacheDown", "bitcoindDown", "disable")

\* setBBBConfigValue("bitcoin_ibd", "true"): stop the services, change bitcoin_dbcache, then
\* set the key.
EnableStop ==
    /\ pc = "stop" /\ pc' = "cacheUp"
    /\ unit' = [u \in Units |-> "stopped"]
    /\ UNCHANGED <<base, redisIBD, watching, pending, task, last, recent, faults, drift>>

EnableSet ==
    /\ pc = "enable"
    /\ redisIBD' = 1 /\ drift' = {}
    /\ Return(1)
    /\ UNCHANGED <<base, unit, watching, pending, recent, faults>>

\* disableBaseIBDState: checkBlockHeight, unsetClearnetIDB, bitcoin_ibd "false", which
\* changes bitcoin_dbcache, sets the key and starts the services.
CheckBlockHeight ==
    /\ pc = "height"
    /\ pc' = IF high THEN "clearnet" ELSE "idle"
    /\ UNCHANGED <<base, redisIBD, unit, watching, pending, task, last, recent, faults, drift>>

DisableSet ==
    /\ pc = "disable" /\ pc' = "start"
    /\ redisIBD' = 0
    /\ UNCHANGED <<base, unit, watching, pending, task, last, recent, faults, drift>>

\* Mutant of DisableStart: electrs is left to its own.
DisableStartOne ==
    /\ pc = "start"
    /\ unit' = [unit EXCEPT !["lightningd"] = Started("lightningd")]
    /\ Return(0) /\ drift' = {}
    /\ UNCHANGED <<base, redisIBD, watching, pending, recent, faults>>

\* The start of lightningd fails if a resync set the key again or stopped bitcoind; electrs
\* is not tried then.
DisableStart ==
    /\ pc = "start"
    /\ IF Started("lightningd") = "running"
       THEN /\ unit' = [u \in Units |-> "running"]
            /\ Return(0) /\ drift' = {}
       ELSE /\ unit' = [unit EXCEPT !["lightningd"] = Started("lightningd")]
            /\ Return(last)
            /\ drift' = drift \cup (IF redisIBD = 0 THEN {"halfway"} ELSE {})
    /\ UNCHANGED <<base, redisIBD, watching, pending, recent, faults>>

\* Mutant of CommandFails: the state is recorded although the command failed.
CommandFailsRecording ==
    /\ pc # "idle" /\ faults < MaxFaults
    /\ faults' = faults + 1
    /\ Return(IF pc \in {"stop", "enable"} THEN 1 ELSE last)
    /\ UNCHANGED <<base, redisIBD, unit, watching, pending, recent, drift>>

\* A command or query of the handler fails: the error ends the handler.
CommandFails ==
    /\ pc # "idle" /\ faults < MaxFaults
    /\ faults' = faults + 1
    /\ Return(last)
    /\ drift' = drift \cup (IF pc = "start" THEN {"halfway"} ELSE {})
                        \cup (IF pc \in {"cacheUp", "bitcoindUp", "enable"} THEN {"halted"} ELSE {})
    /\ UNCHANGED <<base, redisIBD, unit, watching, pending, recent>>

\* redis_set of the scripts goes on, and the script succeeds, when Redis refuses the write.
RedisLosesSet ==
    /\ pc \in {"enable", "disable"} /\ faults < MaxFaults
    /\ faults' = faults + 1
    /\ IF pc = "enable"
       THEN Return(1) /\ drift' = drift \cup {"lost"}
       ELSE pc' = "start" /\ UNCHANGED <<task, last, drift>>
    /\ UNCHANGED <<base, redisIBD, unit, watching, pending, recent>>

\* The process dies and systemd starts it again (Restart=always), script included.
SupervisorRestarts ==
    /\ faults < MaxFaults
    /\ faults' = faults + 1
    /\ Fresh(last', recent', watching', pending', pc', task')
    /\ UNCHANGED <<base, redisIBD, unit, drift>>

\* 30 s have passed.
Cool(t) ==
    /\ t \in recent
    /\ recent' = recent \ {t}
    /\ UNCHANGED <<base, redisIBD, unit, watching, pending, pc, task, last, faults, drift>>

-------------------------------------------------------------------------------
\* What runs beside the supervisor.

sup == <<watching, pending, loop, faults>>

\* A download outlasts the supervisor's retries: it does not end unnoticed.
DownloadEnds ==
    /\ ibd = 1 /\ last # 0 /\ bitcoind = "active"
    /\ ibd' = 0 /\ high' = TRUE
    /\ UNCHANGED <<bitcoind, redisIBD, unit, resync, drift, sup>>

\* bitcoind starts with an old tip.
DownloadBegins ==
    /\ ibd = 0 /\ ibd' = 1
    /\ UNCHANGED <<high, bitcoind, redisIBD, unit, resync, drift, sup>>

\* ResyncBitcoin, ReindexBitcoin: stop the services and bitcoind, delete data, set the key,
\* start bitcoind.
ResyncStops ==
    /\ resync = "no" /\ resync' = "stopped"
    /\ unit' = [u \in Units |-> "stopped"] /\ bitcoind' = "stopped"
    /\ UNCHANGED <<ibd, high, redisIBD, drift, sup>>

ResyncSets ==
    /\ resync = "stopped" /\ resync' = "set"
    /\ redisIBD' = 1 /\ drift' = drift \cup {"resync"}
    /\ UNCHANGED <<ibd, high, bitcoind, unit, sup>>

ResyncStarts ==
    /\ resync = "set" /\ resync' = "no"
    /\ bitcoind' = "active" /\ ibd' = 1 /\ high' = FALSE
    /\ UNCHANGED <<redisIBD, unit, drift, sup>>

\* systemd: bitcoind is up again.
BitcoindStarts ==
    /\ bitcoind = "starting" /\ bitcoind' = "active"
    /\ UNCHANGED <<ibd, high, redisIBD, unit, resync, drift, sup>>

\* systemd: Restart=always, RestartSec=30.
RetryUnit(u) ==
    /\ unit[u] = "retrying" /\ Started(u) = "running"
    /\ unit' = [unit EXCEPT ![u] = "running"]
    /\ UNCHANGED <<ibd, high, bitcoind, redisIBD, resync, drift, sup>>

Handler == RestartUnit \/ EnableStop \/ EnableDbcache \/ EnableSet \/ CheckBlockHeight
           \/ UnsetClearnet \/ DisableDbcache \/ DisableSet \/ DisableStart
           \/ BitcoindRestarted \/ RestartCancelled
Next ==
    \/ \E w \in LogWatchers : JournalEnds(w) \/ \E t \in LogTriggers : LogLine(w, t)
    \/ Measure \/ QueryFails
    \/ \E w \in Watchers : Receive(w)
    \/ Handler \/ CommandFails \/ RedisLosesSet \/ SupervisorRestarts
    \/ \E t \in LogTriggers : Cool(t)
    \/ DownloadEnds \/ DownloadBegins \/ ResyncStops \/ ResyncSets \/ ResyncStarts
    \/ BitcoindStarts
    \/ \E u \in Units : RetryUnit(u)

Spec == Init /\ [][Next]_vars

\* The loop and the scripts proceed, the channel serves every sender, Prometheus answers
\* again and again, systemd starts bitcoind and retries.
FairSpec ==
    /\ Spec
    /\ WF_vars(Handler) /\ WF_vars(ResyncSets) /\ WF_vars(ResyncStarts) /\ WF_vars(BitcoindStarts)
    /\ SF_vars(Receive("prometheus")) /\ SF_vars(Measure)
    /\ \A u \in Units : WF_vars(RetryUnit(u))

-------------------------------------------------------------------------------
\* Properties.

\* The recorded state of the download (PrometheusLastStateIBD) is never ahead of Redis:
\* between two handlers they agree, unless bitcoind was resynced, a handler failed after
\* it had set the key, or Redis refused the write (eventhandling.go, handleBitcoindIBD).
RecordedIsApplied ==
    pc = "idle" /\ last # -1 /\ last # redisIBD => drift \cap {"resync", "halfway", "lost"} # {}

\* While the download is recorded and in force, neither lightningd nor electrs runs, with
\* late log events, restarts of electrs and systemd's retries in any order.
DownloadKeepsServicesDown ==
    pc = "idle" /\ last = 1 /\ redisIBD = 1 /\ drift = {}
        => \A u \in Units : unit[u] # "running"

\* A finished download brings the services up, whatever failed before; the exception is a
\* handler that failed when it had stopped the services and not yet set the key.
EndStartsServices ==
    ibd = 0 /\ high ~> \/ ibd = 1 \/ "halted" \in drift
                       \/ redisIBD = 0 /\ \A u \in Units : unit[u] = "running"

\* A download that begins is put into force, unless an earlier handler failed halfway or
\* Redis refused the write.
DownloadIsNoticed ==
    ibd = 1 ~> ibd = 0 \/ redisIBD = 1 \/ drift \cap {"halfway", "lost"} # {}
===============================================================================
