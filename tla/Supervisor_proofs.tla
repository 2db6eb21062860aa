--------------------------- MODULE Supervisor_proofs ---------------------------
(***************************************************************************)
(* Proofs about Supervisor, for any log watchers and triggers and any      *)
(* number of faults.  RecordedIsApplied and DownloadKeepsServicesDown      *)
(* speak of the moments between two handlers; Inv says what holds inside   *)
(* one.                                                                    *)
(***************************************************************************)
EXTENDS Supervisor, TLAPS

\* A unit is restarted for a trigger of a log.
RestartHasTask == pc = "restart" => task \in LogTriggers

\* The recorded state and Redis differ without a reason only after the command that ends
\* the download has set the key, and before the services are started.
RecordedOrStarting ==
    last # -1 /\ last # redisIBD =>
        drift \cap {"resync", "halfway", "lost"} # {} \/ (pc = "start" /\ redisIBD = 0)

\* The services are stopped before the key is set, and nothing starts them meanwhile.
StoppedFirst ==
    pc \in {"cacheUp", "bitcoindUp", "enable"} => \A u \in Units : unit[u] = "stopped"

\* While the download is recorded and in force no service runs, inside a handler either.
DownWhileRecorded ==
    last = 1 /\ redisIBD = 1 /\ drift = {} => \A u \in Units : unit[u] # "running"

TypeInv == TypeOK /\ RestartHasTask
Inv == TypeInv /\ RecordedOrStarting /\ StoppedFirst /\ DownWhileRecorded

LEMMA InitInv == Init => Inv
  <1> SUFFICES ASSUME Init PROVE Inv
    OBVIOUS
  <1> USE SupervisorAssumption DEF Init, Fresh
  <1>1. unit \in [Units -> {"stopped", "running"}]
    BY DEF Units
  <1>2. unit \in [Units -> {"stopped", "retrying", "running"}]
    BY <1>1
  <1>3. pending \in [Watchers -> Events \cup {None}]
    OBVIOUS
  <1>4. TypeOK
    <2>1. faults \in 0..MaxFaults /\ last \in {-1, 0, 1}
      OBVIOUS
    <2>2. watching \subseteq LogWatchers /\ recent \subseteq LogTriggers
          /\ drift \subseteq {"resync", "halfway", "halted", "lost"}
      OBVIOUS
    <2>3. pc = "idle" /\ task \in LogTriggers \cup {None} /\ resync = "no" /\ bitcoind = "active"
      OBVIOUS
    <2>4. ibd \in {0, 1} /\ redisIBD \in {0, 1} /\ high \in BOOLEAN
      OBVIOUS
    <2> HIDE DEF Init
    <2> QED
      BY <1>2, <1>3, <2>1, <2>2, <2>3, <2>4 DEF TypeOK
  <1>5. RestartHasTask /\ RecordedOrStarting /\ StoppedFirst /\ DownWhileRecorded
    BY DEF RestartHasTask, RecordedOrStarting, StoppedFirst, DownWhileRecorded
  <1> QED
    BY <1>4, <1>5 DEF Inv, TypeInv

LEMMA TypeStep == TypeInv /\ [Next]_vars => TypeInv'
  <1> SUFFICES ASSUME TypeInv, [Next]_vars PROVE TypeInv'
    OBVIOUS
  <1> USE SupervisorAssumption DEF TypeInv, TypeOK, RestartHasTask, base, loop, sup
  <1>1. CASE UNCHANGED vars
    BY <1>1 DEF vars
  <1>2. ASSUME NEW w \in LogWatchers, JournalEnds(w) PROVE TypeInv'
    BY <1>2 DEF JournalEnds, Events, Watchers
  <1>3. ASSUME NEW w \in LogWatchers, NEW t \in LogTriggers, LogLine(w, t) PROVE TypeInv'
    BY <1>3 DEF LogLine, Events, Watchers
  <1>4. CASE Measure \/ QueryFails
    <2>1. PICK r \in {NoIBD, InIBD, Error} : WatchHandler(r)
      BY <1>4 DEF Measure, QueryFails, Measured
    <2>2. pending' \in [Watchers -> Events \cup {None}]
      BY <2>1 DEF WatchHandler, Events, Watchers
    <2> QED
      BY <2>1, <2>2 DEF WatchHandler
  <1>5. ASSUME NEW w \in Watchers, Receive(w) PROVE TypeInv'
    <2>1. pending' \in [Watchers -> Events \cup {None}]
      BY <1>5 DEF Receive
    <2>2. CASE pending[w] \in LogTriggers /\ HandleLog(pending[w])
      BY <1>5, <2>1, <2>2 DEF Receive, HandleLog, None
    <2>3. CASE HandleBitcoindIBD(1) \/ HandleBitcoindIBD(0)
      BY <1>5, <2>1, <2>3 DEF Receive, HandleBitcoindIBD
    <2>4. CASE UNCHANGED <<pc, task>>
      BY <1>5, <2>1, <2>4 DEF Receive
    <2> QED
      BY <1>5, <2>2, <2>3, <2>4 DEF Receive
  <1>6. CASE RestartUnit
    BY <1>6 DEF RestartUnit, Return, Started, Units
  <1>7. CASE EnableStop \/ EnableSet \/ CheckBlockHeight \/ DisableSet
    <2>1. CASE EnableStop
      BY <2>1 DEF EnableStop, Return, Units
    <2>2. CASE EnableSet
      BY <2>2 DEF EnableSet, Return, Units
    <2>3. CASE CheckBlockHeight
      BY <2>3 DEF CheckBlockHeight, Return, Units
    <2>4. CASE DisableSet
      BY <2>4 DEF DisableSet, Return, Units
    <2> QED
      BY <1>7, <2>1, <2>2, <2>3, <2>4
  <1>13. CASE EnableDbcache \/ UnsetClearnet \/ DisableDbcache
    <2>1. CASE EnableDbcache
      BY <2>1 DEF EnableDbcache, SetBitcoind, RestartBitcoind
    <2>2. CASE UnsetClearnet
      BY <2>2 DEF UnsetClearnet, SetBitcoind, RestartBitcoind
    <2>3. CASE DisableDbcache
      BY <2>3 DEF DisableDbcache, SetBitcoind, RestartBitcoind
    <2> QED
      BY <1>13, <2>1, <2>2, <2>3
  <1>15. CASE BitcoindRestarted \/ RestartCancelled
    <2>1. pc' \in {"enable", "cacheDown", "disable", "idle"}
      BY <1>15 DEF BitcoindRestarted, RestartCancelled, AfterRestart, Return
    <2>2. drift' \subseteq {"resync", "halfway", "halted", "lost"}
      BY <1>15 DEF BitcoindRestarted, RestartCancelled
    <2> QED
      BY <1>15, <2>1, <2>2 DEF BitcoindRestarted, RestartCancelled, Return
  <1>8. CASE DisableStart
    <2>1. unit' \in [Units -> {"stopped", "retrying", "running"}]
      BY <1>8 DEF DisableStart, Started
    <2>2. drift' \subseteq {"resync", "halfway", "halted", "lost"}
      BY <1>8 DEF DisableStart
    <2>3. pc' = "idle" /\ task' = None /\ last' \in {-1, 0, 1}
      BY <1>8 DEF DisableStart, Return
    <2> QED
      BY <1>8, <2>1, <2>2, <2>3 DEF DisableStart
  <1>9. CASE CommandFails \/ RedisLosesSet
    <2>1. drift' \subseteq {"resync", "halfway", "halted", "lost"}
      BY <1>9 DEF CommandFails, RedisLosesSet
    <2>2. /\ pc' \in {"idle", "start"} /\ task' \in LogTriggers \cup {None}
          /\ last' \in {-1, 0, 1}
      BY <1>9 DEF CommandFails, RedisLosesSet, Return
    <2>3. faults' \in 0..MaxFaults
      BY <1>9 DEF CommandFails, RedisLosesSet
    <2> QED
      BY <1>9, <2>1, <2>2, <2>3 DEF CommandFails, RedisLosesSet
  <1>10. CASE SupervisorRestarts
    BY <1>10 DEF SupervisorRestarts, Fresh, Watchers
  <1>11. ASSUME NEW t \in LogTriggers, Cool(t) PROVE TypeInv'
    BY <1>11 DEF Cool
  <1>12. CASE DownloadEnds \/ DownloadBegins \/ ResyncStops \/ ResyncSets \/ ResyncStarts
              \/ BitcoindStarts
    <2>1. CASE DownloadEnds \/ DownloadBegins
      <3>1. CASE DownloadEnds
        BY <3>1 DEF DownloadEnds
      <3>2. CASE DownloadBegins
        BY <3>2 DEF DownloadBegins
      <3> QED
        BY <2>1, <3>1, <3>2
    <2>4. CASE ResyncStarts
      BY <2>4 DEF ResyncStarts
    <2>5. CASE BitcoindStarts
      BY <2>5 DEF BitcoindStarts
    <2>2. CASE ResyncStops
      BY <2>2 DEF ResyncStops, Units
    <2>3. CASE ResyncSets
      BY <2>3 DEF ResyncSets, Units
    <2> QED
      BY <1>12, <2>1, <2>2, <2>3, <2>4, <2>5
  <1>14. ASSUME NEW u \in Units, RetryUnit(u) PROVE TypeInv'
    BY <1>14 DEF RetryUnit
  <1> QED
    BY <1>1, <1>2, <1>3, <1>4, <1>5, <1>6, <1>7, <1>8, <1>9, <1>10, <1>11, <1>12, <1>13, <1>14,
       <1>15 DEF Next, Handler

LEMMA InvStep == Inv /\ [Next]_vars => Inv'
  <1> SUFFICES ASSUME Inv, [Next]_vars PROVE Inv'
    OBVIOUS
  <1>1. TypeInv'
    BY TypeStep DEF Inv
  <1> SUFFICES (RecordedOrStarting /\ StoppedFirst /\ DownWhileRecorded)'
    BY <1>1 DEF Inv
  <1> USE SupervisorAssumption
      DEF Inv, TypeInv, TypeOK, RecordedOrStarting, StoppedFirst, DownWhileRecorded, base, loop, sup
  <1>2. CASE UNCHANGED vars
    BY <1>2 DEF vars
  <1>3. ASSUME NEW w \in LogWatchers,
               JournalEnds(w) \/ \E t \in LogTriggers : LogLine(w, t)
        PROVE  (RecordedOrStarting /\ StoppedFirst /\ DownWhileRecorded)'
    BY <1>3 DEF JournalEnds, LogLine
  <1>4. CASE Measure \/ QueryFails
    BY <1>4 DEF Measure, QueryFails, WatchHandler
  <1>5. ASSUME NEW w \in Watchers, Receive(w)
        PROVE  (RecordedOrStarting /\ StoppedFirst /\ DownWhileRecorded)'
    BY <1>5 DEF Receive, HandleLog, HandleBitcoindIBD
  <1>6. CASE RestartUnit
    BY <1>6 DEF RestartUnit, Return, Started, Units
  <1>7. CASE EnableStop \/ EnableSet \/ CheckBlockHeight \/ DisableSet
    BY <1>7 DEF EnableStop, EnableSet, CheckBlockHeight, DisableSet, Return
  <1>13. CASE EnableDbcache \/ UnsetClearnet \/ DisableDbcache
    BY <1>13 DEF EnableDbcache, UnsetClearnet, DisableDbcache, SetBitcoind, RestartBitcoind
  <1>15. CASE BitcoindRestarted \/ RestartCancelled
    <2>1. /\ pc' = "enable" => pc = "bitcoindUp"
          /\ pc' \notin {"cacheUp", "bitcoindUp", "start"} /\ pc # "start"
      BY <1>15 DEF BitcoindRestarted, RestartCancelled, AfterRestart, Return
    <2>2. UNCHANGED <<last, redisIBD, unit>> /\ drift \subseteq drift'
      BY <1>15 DEF BitcoindRestarted, RestartCancelled, Return
    <2> QED
      BY <2>1, <2>2
  <1>8. CASE DisableStart
    BY <1>8 DEF DisableStart, Return, Started, Units
  <1>9. CASE CommandFails \/ RedisLosesSet
    BY <1>9 DEF CommandFails, RedisLosesSet, Return
  <1>10. CASE SupervisorRestarts
    BY <1>10 DEF SupervisorRestarts, Fresh
  <1>11. ASSUME NEW t \in LogTriggers, Cool(t)
         PROVE  (RecordedOrStarting /\ StoppedFirst /\ DownWhileRecorded)'
    BY <1>11 DEF Cool
  <1>12. CASE DownloadEnds \/ DownloadBegins \/ ResyncStops \/ ResyncSets \/ ResyncStarts
              \/ BitcoindStarts
    BY <1>12 DEF DownloadEnds, DownloadBegins, ResyncStops, ResyncSets, ResyncStarts,
                 BitcoindStarts
  <1>14. ASSUME NEW u \in Units, RetryUnit(u)
         PROVE  (RecordedOrStarting /\ StoppedFirst /\ DownWhileRecorded)'
    <2>1. unit[u] = "retrying" /\ redisIBD # 1
      BY <1>14 DEF RetryUnit, Started
    <2>2. UNCHANGED <<pc, last, redisIBD, drift>>
      BY <1>14 DEF RetryUnit
    <2>3. pc \notin {"cacheUp", "bitcoindUp", "enable"}
      BY <2>1
    <2> QED
      BY <2>1, <2>2, <2>3
  <1> QED
    BY <1>2, <1>3, <1>4, <1>5, <1>6, <1>7, <1>8, <1>9, <1>10, <1>11, <1>12, <1>13, <1>14, <1>15
       DEF Next, Handler

\* Inv holds in every reachable state.
THEOREM Invariance == Spec => []Inv
  BY InitInv, InvStep, PTL DEF Spec

\* The supervisor's variables have their types, whatever fails.
THEOREM TypeCorrect == Spec => []TypeOK
  <1>1. Inv => TypeOK
    BY DEF Inv, TypeInv
  <1> QED
    BY <1>1, Invariance, PTL

\* Between two handlers the state recorded by handleBitcoindIBD is the one in Redis, unless
\* a resync, a handler that failed after it had set the key, or a refused write explains it.
THEOREM RecordIsTrue == Spec => []RecordedIsApplied
  <1>1. Inv => RecordedIsApplied
    BY DEF Inv, RecordedOrStarting, RecordedIsApplied
  <1> QED
    BY <1>1, Invariance, PTL

\* While the download is recorded and in force, no late event, restart or retry of systemd
\* brings lightningd or electrs up.
THEOREM ServicesStayDown == Spec => []DownloadKeepsServicesDown
  <1>1. Inv => DownloadKeepsServicesDown
    BY DEF Inv, DownWhileRecorded, DownloadKeepsServicesDown
  <1> QED
    BY <1>1, Invariance, PTL
================================================================================
