--------------------------- MODULE Sysconfig_proofs ---------------------------
(***************************************************************************)
(* Proofs about Sysconfig, for any calls, settings and number of faults.   *)
(***************************************************************************)
EXTENDS Sysconfig, TLAPS

Writes == {"prior", "set", "read", "write", "service", "again"}
Using == {"copy", "dump", "stop", "load", "start", "unmount", "release"}

\* Where a call can be, by its operation.
OpAtPc ==
    \A i \in Calls :
        /\ pc[i] \in Writes => call[i].op = "Set"
        /\ pc[i] \in Using \cup {"check", "mount", "umount", "remount"} => call[i].op \in Flash
        /\ pc[i] \in {"stop", "load", "start"} => call[i].op = "RestoreSysconfig"
        /\ pc[i] = "secret" => call[i].op \in Plain \ Flash

\* Which setting and file a call is at.
JobAtPc ==
    \A i \in Calls :
        /\ pc[i] \in Writes => job[i].key \in Touched(call[i])
        /\ pc[i] = "prior" => NeedsTor(call[i])
        /\ pc[i] \in {"prior", "set"} => job[i].at = 1
        /\ pc[i] \in {"read", "write"} => job[i].at <= Len(Generates(job[i].key))

TypeInv == TypeOK /\ OpAtPc /\ JobAtPc

LEMMA RequestFacts ==
    ASSUME NEW c \in Requests
    PROVE  /\ c.key \in Keys /\ c.val \in {0, 1} /\ c.op \in Plain \cup {"Set"}
           /\ c.op = "Set" <=> c.key # "hsm"
           /\ c.op = "Set" => c.key \in Settings
  BY SysconfigAssumption DEF Requests, Keys, Plain, Flash, TorServices, SshSettings, Clearnet

LEMMA NoDbType == NoDb \in Db /\ NoBackup \notin Db /\ Idle \in Requests /\ NoJob \in [key : Keys, at : 1..3]
  BY DEF NoDb, Db, NoBackup, Unsure, Idle, Requests, Plain, Flash, Keys, NoJob

\* What the tables of generated files say: the file of a setting looks it up.
LEMMA FileFacts ==
    ASSUME NEW k \in Keys
    PROVE  /\ Len(Generates(k)) \in 0..3 /\ DOMAIN Generates(k) = 1..Len(Generates(k))
           /\ Generates(k) # <<>> => Len(Generates(k)) >= 1
           /\ Generates(k) = <<>> => Len(Generates(k)) = 0
           /\ \A n \in 1..Len(Generates(k)) :
                 Generates(k)[n] \in FilesOf(k) /\ k \in Mentions(Generates(k)[n])
           /\ \A f \in FilesOf(k) : f \in Files /\ k \in Mentions(f)
           /\ \A f \in FilesOf(k) : \E n \in 1..Len(Generates(k)) : f = Generates(k)[n]
           /\ k = "hsm" => FilesOf(k) = {}
  <1> DEFINE g == Generates(k)
  <1>1. /\ Len(g) \in 0..3 /\ DOMAIN g = 1..Len(g)
        /\ g # <<>> => Len(g) >= 1 /\ k \in Settings /\ k # "hsm"
        /\ g = <<>> => Len(g) = 0
        /\ \A n \in 1..Len(g) : k \in Mentions(g[n])
    <2> USE DEF Generates, Mentions, TorServices, SshSettings, Clearnet
    <2>1. CASE k = "tor"
      <3>1. g = <<"iptables.rules", "bitcoin.conf", "lightningd.conf">>
        BY <2>1
      <3>2. "tor" \in Mentions("iptables.rules") /\ "tor" \in Mentions("bitcoin.conf")
            /\ "tor" \in Mentions("lightningd.conf")
        OBVIOUS
      <3>3. k \in Settings /\ k # "hsm"
        BY <2>1 DEF Keys
      <3> HIDE DEF g, Generates, Mentions
      <3> QED
        BY <2>1, <3>1, <3>2, <3>3
    <2>2. CASE k = Clearnet
      <3>1. g = <<"iptables.rules", "bitcoin.conf">>
        BY <2>2
      <3>2. Clearnet \in Mentions("iptables.rules") /\ Clearnet \in Mentions("bitcoin.conf")
        OBVIOUS
      <3>3. k \in Settings /\ k # "hsm"
        BY <2>2 DEF Keys
      <3> HIDE DEF g, Generates, Mentions
      <3> QED
        BY <2>2, <3>1, <3>2, <3>3
    <2>3. CASE k \in TorServices
      <3>1. g = <<"torrc">> /\ k \in Mentions("torrc")
        BY <2>3
      <3>3. k \in Settings /\ k # "hsm"
        BY <2>3 DEF Keys
      <3> HIDE DEF g, Generates, Mentions
      <3> QED
        BY <2>3, <3>1, <3>3
    <2>4. CASE k \in SshSettings
      <3>1. g = <<"sshd_config">> /\ k \in Mentions("sshd_config")
        BY <2>4
      <3>3. k \in Settings /\ k # "hsm"
        BY <2>4 DEF Keys
      <3> HIDE DEF g, Generates, Mentions
      <3> QED
        BY <2>4, <3>1, <3>3
    <2>5. CASE k \notin {"tor", Clearnet} \cup TorServices \cup SshSettings
      <3>1. g = <<>>
        BY <2>5
      <3> QED
        BY <3>1
    <2> QED
      BY <2>1, <2>2, <2>3, <2>4, <2>5
  <1> HIDE DEF g
  <1>2. FilesOf(k) = {g[n] : n \in 1..Len(g)}
    BY <1>1 DEF FilesOf, g
  <1>3. \A f \in FilesOf(k) : f \in Files
    BY <1>1, <1>2 DEF Files
  <1>4. /\ \A n \in 1..Len(g) : g[n] \in FilesOf(k)
        /\ \A f \in FilesOf(k) : k \in Mentions(f)
        /\ \A f \in FilesOf(k) : \E n \in 1..Len(g) : f = g[n]
        /\ k = "hsm" => FilesOf(k) = {}
    BY <1>1, <1>2
  <1> QED
    BY <1>1, <1>3, <1>4 DEF g

\* The keys a call may write are keys, and so are those that show in its files.
LEMMA TouchFacts ==
    ASSUME NEW c \in Requests
    PROVE  /\ Touched(c) \subseteq Uses(c) /\ Uses(c) \subseteq Keys
           /\ c.op = "Set" => c.key \in Touched(c) /\ Touched(c) \subseteq Settings
           /\ c.op = "BackupHSMSecret" => Touched(c) = {"hsm"}
           /\ c.op = "RestoreSysconfig" => Touched(c) = Keys
           /\ c.op \notin {"Set", "BackupHSMSecret", "RestoreSysconfig"} => Touched(c) = {}
           /\ \A k \in Touched(c) : \A f \in FilesOf(k) : Mentions(f) \cap Keys \subseteq Uses(c)
           /\ NeedsTor(c) => c.op = "Set" /\ "tor" \in Touched(c)
  <1>1. /\ c.key \in Keys
        /\ c.op = "Set" => c.key \in Settings
        /\ c.op = "BackupHSMSecret" => c.key = "hsm"
    BY RequestFacts
  <1>2. NeedsTor(c) => c.op = "Set" /\ "tor" \in Settings
    BY <1>1, SysconfigAssumption DEF NeedsTor
  <1>3. /\ Touched(c) \subseteq Keys
        /\ c.op = "Set" => c.key \in Touched(c) /\ Touched(c) \subseteq Settings
        /\ c.op = "BackupHSMSecret" => Touched(c) = {"hsm"}
        /\ c.op = "RestoreSysconfig" => Touched(c) = Keys
        /\ c.op \notin {"Set", "BackupHSMSecret", "RestoreSysconfig"} => Touched(c) = {}
        /\ NeedsTor(c) => "tor" \in Touched(c)
    <2>1. \A k \in {"tor"} : NeedsTor(c) => k \in Settings
      BY <1>2
    <2> QED
      BY <1>1, <1>2, <2>1 DEF Touched, Keys
  <1> QED
    BY <1>2, <1>3 DEF Uses

LEMMA InitType == Init => TypeInv
  <1> SUFFICES ASSUME Init PROVE TypeInv
    OBVIOUS
  <1> USE SysconfigAssumption, NoDbType DEF Init
  <1>1. TypeOK
    <2>1. plugged \in 0..2 /\ nCalls \in 0..MaxCalls /\ faults \in 0..MaxFaults
      OBVIOUS
    <2>2. /\ redis \in BOOLEAN /\ mounted \in BOOLEAN /\ reboots \in BOOLEAN
          /\ left \in BOOLEAN /\ gambled \in BOOLEAN
      OBVIOUS
    <2>3. /\ db \in Db /\ dump \in Db /\ backup \in Db \cup {NoBackup} /\ secret \in {0, 1}
          /\ under \in Db \cup {NoBackup}
          /\ conf \in [Files -> Db] /\ sure \in [Keys -> {0, 1, Unsure}]
          /\ stale \subseteq Files /\ disturbed \subseteq Calls
      OBVIOUS
    <2>4. /\ pc \in [Calls -> {"done"}] /\ call \in [Calls -> Requests]
          /\ res \in [Calls -> {Ok}] /\ first \in [Calls -> {Ok}] /\ copy \in [Calls -> Db]
          /\ job \in [Calls -> [key : Keys, at : 1..3]]
      OBVIOUS
    <2> HIDE DEF Init
    <2> QED
      BY <2>1, <2>2, <2>3, <2>4 DEF TypeOK
  <1>2. OpAtPc /\ JobAtPc
    BY DEF OpAtPc, JobAtPc, Writes, Using
  <1> QED
    BY <1>1, <1>2 DEF TypeInv

\* A step of call i that leaves the other calls alone keeps what holds of positions.
LEMMA PlacesKept ==
    ASSUME TypeInv, NEW i \in Calls, UNCHANGED call,
           NEW l, pc' = [pc EXCEPT ![i] = l],
           \A j \in Calls \ {i} : job'[j] = job[j],
           l \in Writes => call[i].op = "Set",
           l \in Using \cup {"check", "mount", "umount", "remount"} => call[i].op \in Flash,
           l \in {"stop", "load", "start"} => call[i].op = "RestoreSysconfig",
           l = "secret" => call[i].op \in Plain \ Flash,
           l \in Writes => job'[i].key \in Touched(call[i]),
           l # "prior",
           l = "set" => job'[i].at = 1,
           l \in {"read", "write"} => job'[i].at <= Len(Generates(job'[i].key))
    PROVE  OpAtPc' /\ JobAtPc'
  <1>1. pc'[i] = l /\ \A j \in Calls \ {i} : pc'[j] = pc[j] /\ job'[j] = job[j]
    BY DEF TypeInv, TypeOK
  <1>2. OpAtPc'
    BY <1>1 DEF TypeInv, OpAtPc
  <1>3. JobAtPc'
    <2> SUFFICES ASSUME NEW j \in Calls
                 PROVE  /\ pc'[j] \in Writes => job'[j].key \in Touched(call[j])
                        /\ pc'[j] = "prior" => NeedsTor(call[j])
                        /\ pc'[j] \in {"prior", "set"} => job'[j].at = 1
                        /\ pc'[j] \in {"read", "write"} => job'[j].at <= Len(Generates(job'[j].key))
      BY DEF JobAtPc, Touched, NeedsTor, Generates
    <2>1. CASE j = i
      BY <1>1, <2>1
    <2>2. CASE j # i
      BY <1>1, <2>2 DEF TypeInv, JobAtPc
    <2> QED
      BY <2>1, <2>2
  <1> QED
    BY <1>2, <1>3

LEMMA StepTypeOK == ASSUME TypeInv, NEW i \in Calls, Step(i) PROVE TypeOK'
  <1>1. TypeOK /\ call[i] \in Requests /\ job[i] \in [key : Keys, at : 1..3]
    BY DEF TypeInv, TypeOK
  <1>2. /\ call[i].key \in Keys /\ call[i].val \in {0, 1}
        /\ job[i].key \in Keys /\ job[i].at \in 1..3 /\ Value(i) \in {0, 1}
    BY <1>1, RequestFacts DEF Value
  <1>3. Unexpected \in Codes /\ Ok \notin Codes /\ "hsm" \in Keys
    BY DEF Codes, Unexpected, Ok, Keys
  <1>4. ASSUME NEW k \in Keys, NEW v \in {0, 1}, RedisSet(k, v)
        PROVE  db' \in Db /\ dump' \in Db
    <2>1. [db EXCEPT ![k] = v] \in Db
      BY <1>1 DEF TypeOK, Db
    <2> QED
      BY <1>1, <1>4, <2>1 DEF RedisSet, TypeOK
  <1>5. ASSUME NEW k \in Keys, NEW v \in {0, 1}, Promise(i, k, v)
        PROVE  sure' \in [Keys -> {0, 1, Unsure}]
    BY <1>1, <1>5 DEF Promise, TypeOK
  <1> DEFINE Job == [key : Keys, at : 1..3]
             Answer == Codes \cup {Ok}
  <1>6. ASSUME CommandEnds(i)
        PROVE  /\ sure' \in [Keys -> {0, 1, Unsure}] /\ job' \in [Calls -> Job]
               /\ res' \in [Calls -> Answer] /\ first' \in [Calls -> Answer]
               /\ \E l \in {"done", "set"} : pc' = [pc EXCEPT ![i] = l]
    <2>1. [key |-> call[i].key, at |-> 1] \in Job
      BY <1>2
    <2>2. CASE job[i].key = call[i].key
      BY <1>1, <1>2, <1>5, <1>6, <2>2 DEF CommandEnds, Report, Goto, TypeOK
    <2>3. CASE job[i].key # call[i].key
      BY <1>1, <1>6, <2>1, <2>3 DEF CommandEnds, Goto, TypeOK
    <2> QED
      BY <2>2, <2>3
  <1>7. ASSUME NEW r \in Answer, NEW l, Report(i, r, l)
        PROVE  /\ res' \in [Calls -> Answer] /\ first' \in [Calls -> Answer]
               /\ pc' = [pc EXCEPT ![i] = l]
    BY <1>1, <1>7 DEF Report, Goto, TypeOK
  <1>8. \A c \in Codes : Handled(c, {c}) \in Answer
    BY DEF Handled
  <1>9. \A l \in {"done", "prior", "set", "read", "write", "service", "again", "check",
                  "mount", "umount", "remount", "copy", "dump", "stop", "load", "start",
                  "unmount", "release", "secret"} :
            pc' = [pc EXCEPT ![i] = l] =>
            pc' \in [Calls -> {"done", "prior", "set", "read", "write", "service", "again", "check",
                         "mount", "umount", "remount", "copy", "dump", "stop", "load", "start",
                         "unmount", "release", "secret"}]
    BY <1>1 DEF TypeOK
  <1> HIDE DEF Job, Answer
  <1> USE DEF store, drive, calls, count, hist, rest
  <1>10. CASE EnableTorFirst(i)
    <2>1. job' \in [Calls -> Job]
      <3>1. (IF redis /\ db["tor"] = 0 THEN "tor" ELSE job[i].key) \in Keys
        <4>1. "tor" \in Keys
          BY <1>10, SysconfigAssumption, RequestFacts DEF EnableTorFirst, TypeInv, JobAtPc, NeedsTor, Keys, TypeOK
        <4> QED
          BY <1>2, <4>1
      <3> QED
        BY <1>1, <1>10, <3>1 DEF EnableTorFirst, TypeOK, Job
    <2>2. pc' = [pc EXCEPT ![i] = "set"]
      BY <1>10 DEF EnableTorFirst, Goto
    <2> QED
      BY <1>1, <1>9, <1>10, <2>1, <2>2 DEF EnableTorFirst, TypeOK, Job
  <1>11. CASE SetKey(i)
    <2>1. db' \in Db /\ dump' \in Db /\ pc' = [pc EXCEPT ![i] = "read"]
      BY <1>2, <1>4, <1>11 DEF SetKey, Goto
    <2> QED
      BY <1>1, <1>9, <1>11, <2>1 DEF SetKey, TypeOK
  <1>12. CASE SetHostname(i)
    <2>1. db' \in Db /\ dump' \in Db /\ CommandEnds(i)
      BY <1>2, <1>4, <1>12 DEF SetHostname
    <2> QED
      BY <1>1, <1>6, <1>9, <1>12, <2>1 DEF SetHostname, TypeOK, Job, Answer
  <1>13. CASE ReadKeys(i)
    <2>1. CASE redis
      BY <1>1, <1>9, <1>13, <2>1 DEF ReadKeys, Goto, TypeOK
    <2>2. CASE ~redis
      BY <1>1, <1>3, <1>7, <1>9, <1>13, <2>2 DEF ReadKeys, TypeOK, Answer
    <2> QED
      BY <2>1, <2>2
  <1>14. CASE WriteConfig(i)
    <2>1. Rendered(File(i), copy[i]) \in Db
      BY <1>1 DEF Rendered, TypeOK, Db
    <2>2. copy' \in [Calls -> Db] /\ conf' \in [Files -> Db] /\ stale' \subseteq Files
      BY <1>1, <1>14, <2>1, NoDbType DEF WriteConfig, TypeOK
    <2>3. job' \in [Calls -> Job]
      <3>1. CASE job[i].at < Len(Generates(job[i].key))
        <4>1. job[i].at + 1 \in 1..3
          BY <1>2, <3>1, FileFacts
        <4> QED
          BY <1>1, <1>14, <3>1, <4>1 DEF WriteConfig, TypeOK, Job
      <3>2. CASE ~(job[i].at < Len(Generates(job[i].key)))
        BY <1>1, <1>14, <3>2 DEF WriteConfig, TypeOK, Job
      <3> QED
        BY <3>1, <3>2
    <2>4. \E l \in {"read", "service"} : pc' = [pc EXCEPT ![i] = l]
      BY <1>14 DEF WriteConfig, Goto
    <2> QED
      BY <1>1, <1>9, <1>14, <2>2, <2>3, <2>4 DEF WriteConfig, TypeOK, Job
  <1>15. CASE RestartService(i)
    <2>1. CASE job[i].key = "tor"
      BY <1>1, <1>9, <1>15, <2>1 DEF RestartService, Goto, TypeOK
    <2>2. CASE job[i].key # "tor"
      BY <1>1, <1>6, <1>9, <1>15, <2>2 DEF RestartService, TypeOK, Job, Answer
    <2> QED
      BY <2>1, <2>2
  <1>16. CASE SetKeyAgain(i)
    <2>1. db' \in Db /\ dump' \in Db /\ CommandEnds(i)
      BY <1>2, <1>4, <1>16 DEF SetKeyAgain
    <2> QED
      BY <1>1, <1>6, <1>9, <1>16, <2>1 DEF SetKeyAgain, TypeOK, Job, Answer
  <1>17. CASE CheckDrive(i)
    BY <1>1, <1>17 DEF CheckDrive, Report, Goto, Handled, Codes, TypeOK
  <1>18. CASE CheckMountpoint(i)
    BY <1>1, <1>18 DEF CheckMountpoint, Report, Goto, Handled, Codes, TypeOK
  <1>19. CASE UmountFirst(i)
    BY <1>1, <1>3, <1>7, <1>9, <1>19 DEF UmountFirst, Goto, TypeOK, Answer
  <1>20. CASE Mount(i)
    <2>1. mounted' \in BOOLEAN
      BY <1>1, <1>20 DEF Mount, TypeOK
    <2> QED
      BY <1>1, <1>3, <1>7, <1>9, <1>20, <2>1 DEF Mount, Goto, TypeOK, Answer
  <1>21. CASE CheckBackup(i)
    BY <1>1, <1>21 DEF CheckBackup, Report, Goto, Handled, Codes, TypeOK
  <1>22. CASE BackupDump(i)
    <2>1. backup' \in Db \cup {NoBackup} /\ under' \in Db \cup {NoBackup}
      BY <1>1, <1>22 DEF BackupDump, TypeOK
    <2> QED
      BY <1>1, <1>3, <1>7, <1>9, <1>22, <2>1 DEF BackupDump, TypeOK, Answer
  <1>23. CASE FindBackup(i)
    BY <1>1, <1>23 DEF FindBackup, Report, Goto, Handled, Codes, TypeOK
  <1>24. CASE StopRedis(i)
    BY <1>1, <1>24 DEF StopRedis, Goto, TypeOK
  <1>25. CASE LoadBackup(i)
    <2>1. FileFound => TheFile \in Db
      BY <1>1 DEF FileFound, TheFile, TypeOK
    <2> QED
      BY <1>1, <1>3, <1>7, <1>9, <1>25, <2>1 DEF LoadBackup, Goto, TypeOK, Answer
  <1>26. CASE StartRedis(i)
    <2>1. sure' \in [Keys -> {0, 1, Unsure}]
      BY <1>1, <1>26 DEF StartRedis, TypeOK, Db
    <2> QED
      BY <1>1, <1>26, <2>1, NoDbType DEF StartRedis, Report, Goto, TypeOK
  <1>27. CASE CheckMounted(i)
    BY <1>1, <1>27 DEF CheckMounted, Unmounted, Report, Goto, Handled, Codes, TypeOK
  <1>28. CASE Unmount(i)
    BY <1>1, <1>3, <1>28 DEF Unmount, Unmounted, Report, Goto, TypeOK
  <1>29. CASE BackupHSMSecret(i)
    <2>1. sure' \in [Keys -> {0, 1, Unsure}] /\ db' \in Db
      BY <1>1, <1>3, <1>5, <1>29 DEF BackupHSMSecret, Db, TypeOK
    <2> QED
      BY <1>1, <1>3, <1>7, <1>9, <1>29, <2>1 DEF BackupHSMSecret, TypeOK, Answer
  <1>30. CASE RestoreHSMSecret(i)
    <2>1. secret' \in {0, 1} /\ gambled' \in BOOLEAN
      BY <1>1, <1>3, <1>30 DEF RestoreHSMSecret, Db, TypeOK
    <2> QED
      BY <1>1, <1>30, <2>1 DEF RestoreHSMSecret, Report, Goto, TypeOK
  <1>31. CASE RebootBase(i)
    BY <1>1, <1>31 DEF RebootBase, Report, Goto, TypeOK
  <1> QED
    BY <1>10, <1>11, <1>12, <1>13, <1>14, <1>15, <1>16, <1>17, <1>18, <1>19, <1>20, <1>21, <1>22,
       <1>23, <1>24, <1>25, <1>26, <1>27, <1>28, <1>29, <1>30, <1>31 DEF Step

LEMMA StepPlaces == ASSUME TypeInv, NEW i \in Calls, Step(i) PROVE OpAtPc' /\ JobAtPc'
  <1>1. call[i] \in Requests /\ job[i] \in [key : Keys, at : 1..3]
    BY DEF TypeInv, TypeOK
  <1>2. /\ call[i].op = "Set" => call[i].key \in Touched(call[i])
        /\ pc[i] \in Writes => job[i].key \in Touched(call[i]) /\ call[i].op = "Set"
        /\ NeedsTor(call[i]) => "tor" \in Touched(call[i])
    BY <1>1, TouchFacts DEF TypeInv, JobAtPc, OpAtPc
  <1>4. ASSUME CommandEnds(i), UNCHANGED call, pc[i] \in Writes PROVE OpAtPc' /\ JobAtPc'
    <2>1. CASE job[i].key = call[i].key
      BY <1>4, <2>1, PlacesKept DEF CommandEnds, Report, Goto, Writes, Using
    <2>2. CASE job[i].key # call[i].key
      <3>1. job' = [job EXCEPT ![i] = [key |-> call[i].key, at |-> 1]] /\ pc' = [pc EXCEPT ![i] = "set"]
        BY <1>4, <2>2 DEF CommandEnds, Goto
      <3>2. job'[i].key = call[i].key /\ job'[i].at = 1 /\ \A j \in Calls \ {i} : job'[j] = job[j]
        BY <3>1 DEF TypeInv, TypeOK
      <3> QED
        BY <1>2, <1>4, <3>1, <3>2, PlacesKept DEF Writes, Using
    <2> QED
      BY <2>1, <2>2
  <1> USE DEF store, drive, calls, count, hist, rest
  <1>5. CASE EnableTorFirst(i)
    <2>1. NeedsTor(call[i]) /\ job[i].at = 1 /\ pc[i] \in Writes
      BY <1>5 DEF EnableTorFirst, TypeInv, JobAtPc, Writes
    <2>2. /\ job'[i].at = 1 /\ job'[i].key \in {"tor", job[i].key}
          /\ \A j \in Calls \ {i} : job'[j] = job[j]
      BY <1>1, <1>5, <2>1 DEF EnableTorFirst, TypeInv, TypeOK
    <2> QED
      BY <1>2, <1>5, <2>1, <2>2, PlacesKept DEF EnableTorFirst, Goto, Writes, Using
  <1>6. CASE SetKey(i)
    <2>1. job[i].at = 1 /\ Len(Generates(job[i].key)) >= 1 /\ pc[i] \in Writes
      BY <1>1, <1>6, FileFacts DEF SetKey, TypeInv, JobAtPc, Writes
    <2>2. job'[i].at <= Len(Generates(job'[i].key))
      BY <1>1, <1>6, <2>1, FileFacts DEF SetKey
    <2> QED
      BY <1>2, <1>6, <2>1, <2>2, PlacesKept DEF SetKey, Goto, Writes, Using
  <1>7. CASE SetHostname(i) \/ SetKeyAgain(i)
    BY <1>4, <1>7 DEF SetHostname, SetKeyAgain, Writes
  <1>8. CASE ReadKeys(i)
    <2>1. job[i].at <= Len(Generates(job[i].key)) /\ pc[i] \in Writes
      BY <1>8 DEF ReadKeys, TypeInv, JobAtPc, Writes
    <2> QED
      BY <1>2, <1>8, <2>1, PlacesKept DEF ReadKeys, Report, Goto, Writes, Using
  <1>9. CASE WriteConfig(i)
    <2>1. pc[i] \in Writes
      BY <1>9 DEF WriteConfig, Writes
    <2>2. CASE job[i].at < Len(Generates(job[i].key))
      <3>1. /\ job'[i].key = job[i].key /\ job'[i].at = job[i].at + 1
            /\ \A j \in Calls \ {i} : job'[j] = job[j]
        BY <1>1, <1>9, <2>2 DEF WriteConfig, TypeInv, TypeOK
      <3>2. job'[i].at <= Len(Generates(job'[i].key))
        BY <1>1, <2>2, <3>1, FileFacts
      <3> QED
        BY <1>2, <1>9, <2>1, <2>2, <3>1, <3>2, PlacesKept DEF WriteConfig, Goto, Writes, Using
    <2>3. CASE ~(job[i].at < Len(Generates(job[i].key)))
      BY <1>2, <1>9, <2>1, <2>3, PlacesKept DEF WriteConfig, Goto, Writes, Using
    <2> QED
      BY <2>2, <2>3
  <1>10. CASE RestartService(i)
    <2>1. pc[i] \in Writes
      BY <1>10 DEF RestartService, Writes
    <2>2. CASE job[i].key = "tor"
      BY <1>2, <1>10, <2>1, <2>2, PlacesKept DEF RestartService, Goto, Writes, Using
    <2>3. CASE job[i].key # "tor"
      BY <1>4, <1>10, <2>1, <2>3 DEF RestartService
    <2> QED
      BY <2>2, <2>3
  <1>11. /\ pc[i] \in Using \cup {"check", "mount", "umount", "remount"} => call[i].op \in Flash
         /\ pc[i] \in {"stop", "load", "start"} => call[i].op = "RestoreSysconfig"
    BY DEF TypeInv, OpAtPc
  <1>12. ASSUME NEW l \in {"done", "mount", "umount", "remount", "copy", "dump", "stop", "load", "start",
                           "unmount", "release"},
                pc' = [pc EXCEPT ![i] = l], UNCHANGED <<call, job>>,
                l # "done" => call[i].op \in Flash,
                l \in {"stop", "load", "start"} => call[i].op = "RestoreSysconfig"
         PROVE  OpAtPc' /\ JobAtPc'
    BY <1>12, PlacesKept DEF Writes, Using
  <1> HIDE DEF Writes
  <1> USE DEF Using
  <1>13. CASE CheckDrive(i) \/ CheckMountpoint(i) \/ UmountFirst(i) \/ Mount(i)
    BY <1>11, <1>12, <1>13 DEF CheckDrive, CheckMountpoint, UmountFirst, Mount, Report, Goto
  <1>14. CASE CheckBackup(i) \/ BackupDump(i) \/ FindBackup(i)
    BY <1>11, <1>12, <1>14 DEF CheckBackup, BackupDump, FindBackup, Report, Goto
  <1>15. CASE StopRedis(i) \/ LoadBackup(i) \/ StartRedis(i)
    BY <1>11, <1>12, <1>15 DEF StopRedis, LoadBackup, StartRedis, Report, Goto
  <1>16. CASE CheckMounted(i) \/ Unmount(i)
    BY <1>11, <1>12, <1>16 DEF CheckMounted, Unmount, Unmounted, Report, Goto
  <1>17. CASE BackupHSMSecret(i) \/ RestoreHSMSecret(i) \/ RebootBase(i)
    BY <1>12, <1>17 DEF BackupHSMSecret, RestoreHSMSecret, RebootBase, Report, Goto
  <1> QED
    BY <1>5, <1>6, <1>7, <1>8, <1>9, <1>10, <1>13, <1>14, <1>15, <1>16, <1>17 DEF Step

LEMMA TypeStep == TypeInv /\ [Next]_vars => TypeInv'
  <1> SUFFICES ASSUME TypeInv, [Next]_vars PROVE TypeInv'
    OBVIOUS
  <1>1. ASSUME NEW i \in Calls, Step(i) PROVE TypeInv'
    BY <1>1, StepTypeOK, StepPlaces DEF TypeInv
  <1>2. ASSUME \A j \in Calls : pc'[j] = "done" PROVE OpAtPc' /\ JobAtPc'
    BY <1>2 DEF OpAtPc, JobAtPc, Writes, Using
  <1>3. ASSUME UNCHANGED <<pc, call, job>> PROVE OpAtPc' /\ JobAtPc'
    BY <1>3 DEF TypeInv, OpAtPc, JobAtPc
  <1> USE SysconfigAssumption, NoDbType DEF store, drive, calls, count, hist
  <1>4. CASE UNCHANGED vars
    <2>1. OpAtPc' /\ JobAtPc'
      BY <1>3, <1>4 DEF vars
    <2> QED
      BY <1>4, <2>1 DEF vars, TypeInv, TypeOK
  <1>5. ASSUME NEW i \in Calls, CommandFails(i) PROVE TypeInv'
    <2>1. Unexpected \in Codes
      BY DEF Codes
    <2>2. faults' \in 0..MaxFaults /\ left' \in BOOLEAN
      BY <1>5 DEF CommandFails, Fault, TypeInv, TypeOK
    <2>3. PICK l \in {"done", "unmount"} :
             /\ pc' = [pc EXCEPT ![i] = l]
             /\ l = "unmount" => pc[i] \in Using
             /\ res' \in [Calls -> Codes \cup {Ok}] /\ first' \in [Calls -> Codes \cup {Ok}]
      <3> DEFINE Answer == Codes \cup {Ok}
      <3>1. ASSUME NEW r \in Answer, NEW l, Report(i, r, l)
            PROVE  /\ pc' = [pc EXCEPT ![i] = l]
                   /\ res' \in [Calls -> Answer] /\ first' \in [Calls -> Answer]
        BY <3>1 DEF Report, Goto, TypeInv, TypeOK
      <3>2. Unexpected \in Answer /\ res[i] \in Answer
        BY <2>1 DEF TypeInv, TypeOK
      <3> HIDE DEF Answer
      <3>3. \E r \in Answer, l \in {"done", "unmount"} :
               Report(i, r, l) /\ (l = "unmount" => pc[i] \in Using)
        BY <1>5, <3>2 DEF CommandFails, Unmounted, Using
      <3> QED
        BY <3>1, <3>3 DEF Answer
    <2>4. OpAtPc' /\ JobAtPc'
      <3>1. l = "unmount" => call[i].op \in Flash
        BY <2>3 DEF TypeInv, OpAtPc
      <3> QED
        BY <1>5, <2>3, <3>1, PlacesKept DEF CommandFails, Writes, Using
    <2>5. TypeOK'
      BY <1>5, <2>2, <2>3 DEF CommandFails, TypeInv, TypeOK
    <2> QED
      BY <2>4, <2>5 DEF TypeInv
  <1>6. ASSUME NEW i \in Calls, Deny(i) PROVE TypeInv'
    <2>1. TypeOK'
      BY <1>6 DEF Deny, Codes, TypeInv, TypeOK
    <2>2. OpAtPc' /\ JobAtPc'
      <3>1. /\ pc[i] = "done" /\ UNCHANGED <<pc, job>>
            /\ \A j \in Calls \ {i} : call'[j] = call[j]
        BY <1>6 DEF Deny, Active, TypeInv, TypeOK
      <3>2. OpAtPc'
        BY <3>1 DEF OpAtPc, TypeInv, Writes, Using
      <3>3. JobAtPc'
        BY <3>1 DEF JobAtPc, TypeInv, Writes, Using
      <3> QED
        BY <3>2, <3>3
    <2> QED
      BY <2>1, <2>2 DEF TypeInv
  <1>7. ASSUME NEW i \in Calls, NEW c \in Requests, Call(i, c) PROVE TypeInv'
    <2>1. c.op \in Plain \cup {"Set"} /\ c.key \in Keys
      BY RequestFacts
    <2>2. /\ Start(c) \in {"prior", "set", "check", "secret"}
          /\ Start(c) = "prior" => NeedsTor(c)
          /\ Start(c) \in {"prior", "set"} => c.op = "Set"
          /\ Start(c) = "check" => c.op \in Flash
          /\ Start(c) = "secret" => c.op \in Plain \ Flash
      BY <2>1 DEF Start, Flash, NeedsTor
    <2>3. sure' \in [Keys -> {0, 1, Unsure}]
      BY <1>7 DEF Call, TypeInv, TypeOK
    <2>4. disturbed' \subseteq Calls
      BY <1>7 DEF Call, Active, TypeInv, TypeOK
    <2>5. [key |-> c.key, at |-> 1] \in [key : Keys, at : 1..3]
      BY <2>1
    <2>6. job' \in [Calls -> [key : Keys, at : 1..3]]
      BY <1>7, <2>5 DEF Call, TypeInv, TypeOK
    <2>7. /\ pc'[i] = Start(c) /\ call'[i] = c /\ job'[i].key = c.key /\ job'[i].at = 1
          /\ \A j \in Calls \ {i} : pc'[j] = pc[j] /\ call'[j] = call[j] /\ job'[j] = job[j]
      BY <1>7 DEF Call, Goto, TypeInv, TypeOK
    <2>8. OpAtPc'
      BY <2>2, <2>7 DEF OpAtPc, TypeInv, Writes, Using
    <2>9. JobAtPc'
      <3> SUFFICES ASSUME NEW j \in Calls
                   PROVE  /\ pc'[j] \in Writes => job'[j].key \in Touched(call'[j])
                          /\ pc'[j] = "prior" => NeedsTor(call'[j])
                          /\ pc'[j] \in {"prior", "set"} => job'[j].at = 1
                          /\ pc'[j] \in {"read", "write"} => job'[j].at <= Len(Generates(job'[j].key))
        BY DEF JobAtPc, Touched, NeedsTor, Generates
      <3>1. CASE j = i
        BY <2>2, <2>7, <3>1, TouchFacts DEF Writes
      <3>2. CASE j # i
        BY <2>7, <3>2 DEF TypeInv, JobAtPc
      <3> QED
        BY <3>1, <3>2
    <2>10. TypeOK'
      BY <1>7, <2>2, <2>3, <2>4, <2>6 DEF Call, Goto, TypeInv, TypeOK
    <2> QED
      BY <2>8, <2>9, <2>10 DEF TypeInv
  <1>8. ASSUME NEW orderly \in BOOLEAN, BaseRestarts(orderly) PROVE TypeInv'
    <2>1. sure' \in [Keys -> {0, 1, Unsure}]
      BY <1>8 DEF BaseRestarts, TypeInv, TypeOK
    <2>2. faults' \in 0..MaxFaults
      BY <1>8 DEF BaseRestarts, Fault, TypeInv, TypeOK
    <2>3. db' \in Db /\ dump' \in Db /\ under' \in Db \cup {NoBackup}
      BY <1>8 DEF BaseRestarts, TypeInv, TypeOK
    <2>4. OpAtPc' /\ JobAtPc'
      BY <1>2, <1>8 DEF BaseRestarts, Cut
    <2>5. TypeOK'
      BY <1>8, <2>1, <2>2, <2>3 DEF BaseRestarts, Cut, TypeInv, TypeOK
    <2> QED
      BY <2>4, <2>5 DEF TypeInv
  <1>9. CASE MiddlewareRestarts
    <2>1. left' \in BOOLEAN
      BY <1>9 DEF MiddlewareRestarts, TypeInv, TypeOK
    <2>2. faults' \in 0..MaxFaults
      BY <1>9 DEF MiddlewareRestarts, Fault, TypeInv, TypeOK
    <2>3. OpAtPc' /\ JobAtPc'
      BY <1>2, <1>9 DEF MiddlewareRestarts, Cut
    <2>4. TypeOK'
      BY <1>9, <2>1, <2>2 DEF MiddlewareRestarts, Cut, TypeInv, TypeOK
    <2> QED
      BY <2>3, <2>4 DEF TypeInv
  <1>10. CASE RedisSaves
    BY <1>3, <1>10 DEF RedisSaves, TypeInv, TypeOK
  <1>11. ASSUME NEW n \in 0..2, Plug(n) PROVE TypeInv'
    <2>1. OpAtPc' /\ JobAtPc'
      BY <1>3, <1>11 DEF Plug
    <2>2. TypeOK'
      BY <1>11 DEF Plug, Fault, TypeInv, TypeOK
    <2> QED
      BY <2>1, <2>2 DEF TypeInv
  <1> QED
    BY <1>1, <1>4, <1>5, <1>6, <1>7, <1>8, <1>9, <1>10, <1>11 DEF Next

--------------------------------------------------------------------------------
\* The flashdrive: whoever finds it mounted is past its own mount, or a call was cut off or
\* could not unmount it.
DriveInv == mounted /\ ~left => \E j \in Calls : pc[j] \in Using

LEMMA DriveStep == TypeInv /\ DriveInv /\ [Next]_vars => DriveInv'
  <1> SUFFICES ASSUME TypeInv, DriveInv, [Next]_vars PROVE DriveInv'
    OBVIOUS
  <1> USE DEF TypeInv, TypeOK, DriveInv, Using, store, drive, calls, count, hist, rest
  <1>1. ASSUME NEW i \in Calls, mounted' = mounted, left' = left,
               pc[i] \notin Using \/ pc'[i] \in Using \/ ~mounted,
               \A j \in Calls \ {i} : pc'[j] = pc[j]
        PROVE  DriveInv'
    BY <1>1
  <1>2. ASSUME NEW i \in Calls, NEW l, pc' = [pc EXCEPT ![i] = l]
        PROVE  pc'[i] = l /\ \A j \in Calls \ {i} : pc'[j] = pc[j]
    BY <1>2
  <1>3. ASSUME NEW i \in Calls, CommandEnds(i) PROVE \E l \in {"done", "set"} : pc' = [pc EXCEPT ![i] = l]
    BY <1>3 DEF CommandEnds, Report, Goto
  <1>4. ASSUME NEW i \in Calls, Step(i) PROVE DriveInv'
    <2>1. CASE EnableTorFirst(i) \/ SetKey(i) \/ ReadKeys(i) \/ WriteConfig(i)
      BY <1>1, <2>1 DEF EnableTorFirst, SetKey, ReadKeys, WriteConfig, Report, Goto
    <2>2. CASE SetHostname(i) \/ RestartService(i) \/ SetKeyAgain(i)
      BY <1>1, <1>3, <2>2 DEF SetHostname, RestartService, SetKeyAgain, Goto
    <2>3. CASE CheckDrive(i) \/ CheckMountpoint(i)
      BY <1>1, <2>3 DEF CheckDrive, CheckMountpoint, Report, Goto
    <2>4. CASE UmountFirst(i) \/ Unmount(i)
      BY <2>4 DEF UmountFirst, Unmount
    <2>5. CASE Mount(i)
      <3>1. CASE mounted \/ plugged = 0
        BY <1>1, <2>5, <3>1 DEF Mount, Report, Goto
      <3>2. CASE ~(mounted \/ plugged = 0)
        BY <2>5, <3>2 DEF Mount, Goto
      <3> QED
        BY <3>1, <3>2
    <2>6. CASE CheckBackup(i) \/ BackupDump(i) \/ FindBackup(i) \/ StopRedis(i)
      BY <1>1, <2>6 DEF CheckBackup, BackupDump, FindBackup, StopRedis, Report, Goto
    <2>7. CASE LoadBackup(i) \/ StartRedis(i)
      BY <1>1, <2>7 DEF LoadBackup, StartRedis, Report, Goto
    <2>8. CASE CheckMounted(i)
      BY <1>1, <2>8 DEF CheckMounted, Unmounted, Report, Goto
    <2>9. CASE BackupHSMSecret(i) \/ RestoreHSMSecret(i) \/ RebootBase(i)
      BY <1>1, <2>9 DEF BackupHSMSecret, RestoreHSMSecret, RebootBase, Report, Goto
    <2> QED
      BY <1>4, <2>1, <2>2, <2>3, <2>4, <2>5, <2>6, <2>7, <2>8, <2>9 DEF Step
  <1>5. ASSUME NEW i \in Calls, CommandFails(i) PROVE DriveInv'
    <2>1. CASE pc[i] \in {"unmount", "release"}
      BY <1>5, <2>1 DEF CommandFails
    <2>2. CASE pc[i] \in {"copy", "dump", "stop", "load", "start"}
      BY <1>1, <1>5, <2>2 DEF CommandFails, Report, Goto
    <2>3. CASE pc[i] \notin Using
      BY <1>1, <1>5, <2>3 DEF CommandFails, Report, Goto
    <2> QED
      BY <2>1, <2>2, <2>3
  <1>6. ASSUME NEW i \in Calls, Deny(i) \/ \E c \in Requests : Call(i, c) PROVE DriveInv'
    BY <1>1, <1>6 DEF Deny, Call, Active, Goto
  <1>7. ASSUME NEW orderly \in BOOLEAN, BaseRestarts(orderly) PROVE DriveInv'
    BY <1>7 DEF BaseRestarts
  <1>8. CASE MiddlewareRestarts
    BY <1>8 DEF MiddlewareRestarts
  <1>9. CASE RedisSaves \/ (\E n \in 0..2 : Plug(n)) \/ UNCHANGED vars
    BY <1>9 DEF RedisSaves, Plug, vars
  <1> QED
    BY <1>4, <1>5, <1>6, <1>7, <1>8, <1>9 DEF Next

\* "It's crucial that mounted flashdrives get unmounted" (middleware.go): whatever calls
\* overlap or fail, the drive is mounted only while one of them works on it, or after one
\* was cut off or its umount failed.
THEOREM DriveReleased == Spec => []DriveIsReleased
  <1>1. Init => TypeInv /\ DriveInv
    BY InitType DEF Init, DriveInv
  <1>2. TypeInv /\ DriveInv /\ [Next]_vars => (TypeInv /\ DriveInv)'
    BY TypeStep, DriveStep
  <1>3. TypeInv /\ DriveInv => DriveIsReleased
    BY DEF TypeInv, OpAtPc, DriveInv, DriveIsReleased, InFlash, Active, Using
  <1> QED
    BY <1>1, <1>2, <1>3, PTL DEF Spec

--------------------------------------------------------------------------------
\* Errors: response and first error agree all along, and after an error only the unmount
\* is left.
ErrorInv ==
    \A i \in Calls : /\ res[i] = first[i]
                     /\ pc[i] \notin {"done", "unmount", "release"} => first[i] = Ok

LEMMA ErrorStep == TypeInv /\ ErrorInv /\ [Next]_vars => ErrorInv'
  <1> SUFFICES ASSUME TypeInv, ErrorInv, [Next]_vars PROVE ErrorInv'
    OBVIOUS
  <1> USE DEF TypeInv, TypeOK, ErrorInv, store, drive, calls, count, hist, rest
  <1>1. ASSUME NEW i \in Calls, NEW r, NEW l, Report(i, r, l), l \in {"done", "unmount"},
               first[i] = Ok \/ r = first[i]
        PROVE  ErrorInv'
    BY <1>1 DEF Report, Goto
  <1>2. ASSUME NEW i \in Calls, NEW l, Goto(i, l), UNCHANGED <<res, first>>,
               first[i] = Ok \/ l = "release"
        PROVE  ErrorInv'
    BY <1>2 DEF Goto
  <1>3. ASSUME NEW i \in Calls, first[i] = Ok, CommandEnds(i) PROVE ErrorInv'
    BY <1>1, <1>2, <1>3 DEF CommandEnds
  <1>4. ASSUME NEW i \in Calls, NEW r, Unmounted(i, r) PROVE ErrorInv'
    BY <1>1, <1>4 DEF Unmounted
  <1>5. ASSUME NEW i \in Calls, Step(i) PROVE ErrorInv'
    <2>1. pc[i] \notin {"done", "unmount", "release"} => first[i] = Ok
      OBVIOUS
    <2>2. CASE EnableTorFirst(i) \/ SetKey(i) \/ ReadKeys(i) \/ WriteConfig(i)
      BY <1>1, <1>2, <2>1, <2>2 DEF EnableTorFirst, SetKey, ReadKeys, WriteConfig
    <2>3. CASE SetHostname(i) \/ RestartService(i) \/ SetKeyAgain(i)
      BY <1>2, <1>3, <2>1, <2>3 DEF SetHostname, RestartService, SetKeyAgain
    <2>4. CASE CheckDrive(i) \/ CheckMountpoint(i) \/ UmountFirst(i) \/ Mount(i)
      BY <1>1, <1>2, <2>1, <2>4 DEF CheckDrive, CheckMountpoint, UmountFirst, Mount
    <2>5. CASE CheckBackup(i) \/ BackupDump(i) \/ FindBackup(i)
      BY <1>1, <1>2, <2>1, <2>5 DEF CheckBackup, BackupDump, FindBackup
    <2>6. CASE StopRedis(i) \/ LoadBackup(i) \/ StartRedis(i)
      BY <1>1, <1>2, <2>1, <2>6 DEF StopRedis, LoadBackup, StartRedis
    <2>7. CASE CheckMounted(i) \/ Unmount(i)
      BY <1>2, <1>4, <2>7 DEF CheckMounted, Unmount
    <2>8. CASE BackupHSMSecret(i) \/ RestoreHSMSecret(i) \/ RebootBase(i)
      BY <1>1, <2>1, <2>8 DEF BackupHSMSecret, RestoreHSMSecret, RebootBase
    <2> QED
      BY <1>5, <2>2, <2>3, <2>4, <2>5, <2>6, <2>7, <2>8 DEF Step
  <1>6. ASSUME NEW i \in Calls, CommandFails(i) PROVE ErrorInv'
    BY <1>1, <1>4, <1>6 DEF CommandFails
  <1>7. ASSUME NEW i \in Calls, Deny(i) \/ \E c \in Requests : Call(i, c) PROVE ErrorInv'
    BY <1>7 DEF Deny, Call, Goto, Active
  <1>8. CASE MiddlewareRestarts \/ \E orderly \in BOOLEAN : BaseRestarts(orderly)
    BY <1>8 DEF MiddlewareRestarts, BaseRestarts, Cut
  <1>9. CASE RedisSaves \/ (\E n \in 0..2 : Plug(n)) \/ UNCHANGED vars
    BY <1>9 DEF RedisSaves, Plug, vars
  <1> QED
    BY <1>5, <1>6, <1>7, <1>8, <1>9 DEF Next

\* A call of BackupSysconfig or RestoreSysconfig returns the first error of its scripts: the
\* deferred unmount neither replaces it nor hides its own.
THEOREM FirstErrorCounts == Spec => []FirstErrorIsReturned
  <1>1. Init => TypeInv /\ ErrorInv
    BY InitType DEF Init, ErrorInv
  <1>2. TypeInv /\ ErrorInv /\ [Next]_vars => (TypeInv /\ ErrorInv)'
    BY TypeStep, ErrorStep
  <1>3. ErrorInv => FirstErrorIsReturned
    BY DEF ErrorInv, FirstErrorIsReturned
  <1> QED
    BY <1>1, <1>2, <1>3, PTL DEF Spec

\* The calls, Redis, the drive and the histories have their types, whatever fails.
THEOREM TypeCorrect == Spec => []TypeOK
  <1>1. TypeInv => TypeOK
    BY DEF TypeInv
  <1> QED
    BY <1>1, InitType, TypeStep, PTL DEF Spec

--------------------------------------------------------------------------------
\* Confirmed results.

\* Calls in each other's way are both marked.
Marked ==
    \A i, j \in Active : i # j /\ InTheWay(call[i], call[j]) => {i, j} \subseteq disturbed

\* What a call still has to write is promised by nobody.
Unpromised ==
    \A i \in Active : pc[i] \notin {"unmount", "release"} =>
        \A k \in Touched(call[i]) : sure[k] = Unsure

\* Without Redis nothing is promised, and only a restore may still be undisturbed.
AwayInv ==
    ~redis => /\ \A k \in Keys : sure[k] = Unsure
              /\ \A i \in Active \ disturbed : call[i].op = "RestoreSysconfig"

\* How far a call has come with its own setting, once `enable tor` is behind it.
SetSoFar(i) ==
    LET k == call[i].key
        v == call[i].val IN
    /\ pc[i] \in {"read", "write", "service", "again"} => db[k] = v /\ dump[k] = v
    /\ pc[i] = "write" => copy[i][k] = v
    /\ pc[i] \in {"read", "write"} =>
          \A n \in 1..Len(Generates(k)) : n < job[i].at => conf[Generates(k)[n]][k] = v
    /\ pc[i] \in {"service", "again"} => \A f \in FilesOf(k) : conf[f][k] = v

SetInv ==
    \A i \in Active \ disturbed : call[i].op = "Set" /\ job[i].key = call[i].key => SetSoFar(i)

\* A file about to be written says of a promised setting what was promised, whichever
\* setting it is written for.
CopyInv ==
    \A i \in Active : pc[i] = "write" =>
        \A k \in Keys : k \in Mentions(File(i)) /\ sure[k] # Unsure => copy[i][k] = sure[k]

\* How far an undisturbed restore has come.
RestoreInv ==
    \A i \in Active \ disturbed :
        /\ pc[i] \in {"load", "start"} => ~redis
        /\ pc[i] = "start" => dump = copy[i]

SureInv == Marked /\ Unpromised /\ AwayInv /\ SetInv /\ CopyInv /\ RestoreInv /\ ConfirmedLasts
           /\ SecretIsKept

\* A step of one call leaves the other calls and all arguments alone.
LEMMA StepFrame ==
    ASSUME TypeInv, NEW i \in Calls, Step(i)
    PROVE  /\ i \in Active /\ UNCHANGED <<call, disturbed>>
           /\ \A j \in Calls \ {i} : pc'[j] = pc[j] /\ copy'[j] = copy[j] /\ job'[j] = job[j]
  <1> USE DEF TypeInv, TypeOK, Active, store, drive, calls, count, hist, rest
  <1>1. ASSUME CommandEnds(i) PROVE \A j \in Calls \ {i} : pc'[j] = pc[j] /\ job'[j] = job[j]
    BY <1>1 DEF CommandEnds, Report, Goto
  <1>2. CASE EnableTorFirst(i) \/ SetKey(i) \/ ReadKeys(i) \/ WriteConfig(i)
    BY <1>2 DEF EnableTorFirst, SetKey, ReadKeys, WriteConfig, Report, Goto
  <1>3. CASE SetHostname(i) \/ RestartService(i) \/ SetKeyAgain(i)
    BY <1>1, <1>3 DEF SetHostname, RestartService, SetKeyAgain, Goto
  <1>4. CASE CheckDrive(i) \/ CheckMountpoint(i) \/ UmountFirst(i) \/ Mount(i)
    BY <1>4 DEF CheckDrive, CheckMountpoint, UmountFirst, Mount, Report, Goto
  <1>5. CASE CheckBackup(i) \/ BackupDump(i) \/ FindBackup(i) \/ CheckMounted(i) \/ Unmount(i)
    BY <1>5 DEF CheckBackup, BackupDump, FindBackup, CheckMounted, Unmount, Unmounted, Report, Goto
  <1>6. CASE StopRedis(i) \/ LoadBackup(i) \/ StartRedis(i)
    BY <1>6 DEF StopRedis, LoadBackup, StartRedis, Report, Goto
  <1>7. CASE BackupHSMSecret(i) \/ RestoreHSMSecret(i) \/ RebootBase(i)
    BY <1>7 DEF BackupHSMSecret, RestoreHSMSecret, RebootBase, Report, Goto
  <1> QED
    BY <1>2, <1>3, <1>4, <1>5, <1>6, <1>7 DEF Step

\* An undisturbed call has nobody in its way.
LEMMA Alone ==
    ASSUME Marked, NEW i \in Active, NEW j \in Active \ disturbed, i # j
    PROVE  /\ call[i].op # "RestoreSysconfig" /\ call[j].op # "RestoreSysconfig"
           /\ Touched(call[i]) \cap Uses(call[j]) = {} /\ Touched(call[j]) \cap Uses(call[i]) = {}
  <1>1. ~InTheWay(call[i], call[j])
    BY DEF Marked
  <1> QED
    BY <1>1 DEF InTheWay

\* The file a call is at, and the settings it shows.
LEMMA FileOfJob ==
    ASSUME TypeInv, NEW i \in Calls, pc[i] \in {"read", "write"}
    PROVE  /\ File(i) \in FilesOf(job[i].key) /\ File(i) \in Files
           /\ job[i].key \in Mentions(File(i)) /\ job[i].key \in Touched(call[i])
           /\ \A x \in Keys : x \in Mentions(File(i)) => x \in Uses(call[i])
  <1>1. /\ job[i].key \in Keys /\ job[i].at \in 1..3 /\ call[i] \in Requests
        /\ job[i].at <= Len(Generates(job[i].key)) /\ job[i].key \in Touched(call[i])
    BY DEF TypeInv, TypeOK, JobAtPc, Writes
  <1>2. job[i].at \in 1..Len(Generates(job[i].key))
    BY <1>1, FileFacts
  <1>3. File(i) \in FilesOf(job[i].key) /\ job[i].key \in Mentions(File(i)) /\ File(i) \in Files
    BY <1>1, <1>2, FileFacts DEF File
  <1>4. Mentions(File(i)) \cap Keys \subseteq Uses(call[i])
    BY <1>1, <1>3, TouchFacts
  <1> QED
    BY <1>1, <1>3, <1>4

\* A step that writes nothing and does not lead to a place where something is promised.
LEMMA QuietStep ==
    ASSUME TypeInv, SureInv, NEW i \in Calls,
           UNCHANGED <<call, disturbed, store, conf, secret, sure, stale, gambled, copy, job>>,
           \A j \in Calls \ {i} : pc'[j] = pc[j],
           i \in Active,
           pc'[i] \in {"done", "mount", "umount", "remount", "copy", "dump", "stop", "unmount", "release"},
           pc'[i] \in {"done", "unmount", "release"} \/ pc[i] \notin {"unmount", "release"}
    PROVE  SureInv'
  <1> USE DEF SureInv, store
  <1>1. Active' \subseteq Active
    BY DEF Active
  <1>2. Marked' /\ AwayInv' /\ ConfirmedLasts' /\ SecretIsKept'
    BY <1>1 DEF Marked, AwayInv, ConfirmedLasts, SecretIsKept
  <1>3. Unpromised'
    BY <1>1 DEF Unpromised, Active
  <1>4. RestoreInv'
    BY <1>1 DEF RestoreInv, Active
  <1>5. SetInv'
    <2> SUFFICES ASSUME NEW j \in (Active \ disturbed)', call[j].op = "Set", job[j].key = call[j].key
                 PROVE  SetSoFar(j)'
      BY DEF SetInv
    <2>1. CASE j = i
      BY <2>1 DEF SetSoFar
    <2>2. CASE j # i
      <3>1. j \in Active \ disturbed /\ pc'[j] = pc[j] /\ j \in Calls
        BY <1>1, <2>2 DEF Active
      <3> QED
        BY <3>1 DEF SetInv, SetSoFar
    <2> QED
      BY <2>1, <2>2
  <1>6. CopyInv'
    <2>1. \A j \in Active' : pc'[j] = "write" => j \in Active /\ pc[j] = "write" /\ File(j)' = File(j)
      BY <1>1 DEF Active, File
    <2> QED
      BY <2>1 DEF CopyInv
  <1> QED
    BY <1>2, <1>3, <1>4, <1>5, <1>6

\* What a step of bbb-config.sh has to show for the promises to hold after it: besides its
\* own setting it leaves Redis' values alone, and the files of settings in nobody's way.
LEMMA SetStepFrame ==
    ASSUME TypeInv, SureInv, NEW i \in Active, pc[i] \in Writes, UNCHANGED <<call, disturbed, redis>>,
           secret' = secret, gambled' = gambled,
           \A j \in Calls \ {i} : pc'[j] = pc[j] /\ copy'[j] = copy[j] /\ job'[j] = job[j],
           pc'[i] \in {"done", "set", "read", "write", "service", "again"},
           \/ sure' = sure
           \/ /\ i \notin disturbed /\ pc'[i] = "done"
              /\ sure' = [sure EXCEPT ![call[i].key] = call[i].val],
           \A x \in Keys : x \notin Touched(call[i]) /\ dump[x] = db[x]
                              => db'[x] = db[x] /\ dump'[x] = dump[x],
           \A x \in Keys \ Uses(call[i]) : \A f \in FilesOf(x) : conf'[f][x] = conf[f][x],
           pc'[i] = "write" => copy'[i] = db,
           i \notin disturbed /\ job'[i].key = call[i].key => SetSoFar(i)',
           ConfirmedLasts'
    PROVE  SureInv'
  <1>1. i \in Calls /\ call[i].op = "Set" /\ call[i] \in Requests
    BY DEF Active, TypeInv, TypeOK, OpAtPc
  <1>2. /\ call[i].key \in Touched(call[i]) /\ Touched(call[i]) \subseteq Uses(call[i])
        /\ Uses(call[i]) \subseteq Keys
    BY <1>1, TouchFacts
  <1>3. Active' \subseteq Active
    BY DEF Active
  <1>4. Marked'
    BY <1>3 DEF SureInv, Marked
  <1>5. SecretIsKept'
    BY DEF SureInv, SecretIsKept
  <1>6. \A j \in Active : i \notin disturbed /\ j # i => call[i].key \notin Uses(call[j])
    BY <1>2, Alone DEF SureInv
  <1>7. \A j \in Active : /\ j \in Calls /\ call[j] \in Requests
                          /\ Touched(call[j]) \subseteq Uses(call[j]) /\ Uses(call[j]) \subseteq Keys
    BY TouchFacts DEF Active, TypeInv, TypeOK
  <1>8. sure \in [Keys -> {0, 1, Unsure}]
    BY DEF TypeInv, TypeOK
  <1>9. ASSUME NEW j \in Active', j # i, NEW x \in Uses(call[j])
        PROVE  sure'[x] = sure[x]
    <2>1. j \in Active /\ x \in Keys
      BY <1>3, <1>7, <1>9
    <2>2. CASE sure' = sure
      BY <2>2
    <2>3. CASE i \notin disturbed /\ sure' = [sure EXCEPT ![call[i].key] = call[i].val]
      <3>1. x # call[i].key
        BY <1>6, <1>9, <2>1, <2>3
      <3> QED
        BY <1>8, <2>1, <2>3, <3>1
    <2> QED
      BY <2>2, <2>3
  <1>10. Unpromised'
    <2> SUFFICES ASSUME NEW j \in Active', pc'[j] \notin {"unmount", "release"}, NEW x \in Touched(call[j])
                 PROVE  sure'[x] = Unsure
      BY DEF Unpromised
    <2>1. CASE j = i
      <3>1. sure' = sure /\ pc[i] \notin {"unmount", "release"}
        BY <2>1 DEF Active, Writes
      <3> QED
        BY <2>1, <3>1 DEF SureInv, Unpromised
    <2>2. CASE j # i
      <3>1. j \in Active /\ pc[j] = pc'[j] /\ x \in Uses(call[j])
        BY <1>3, <1>7, <2>2
      <3> QED
        BY <1>9, <2>2, <3>1 DEF SureInv, Unpromised
    <2> QED
      BY <2>1, <2>2
  <1>11. AwayInv'
    <2>1. ~redis => i \in disturbed
      BY <1>1 DEF SureInv, AwayInv
    <2> QED
      BY <1>3, <2>1 DEF SureInv, AwayInv
  <1>12. RestoreInv'
    <2>1. \A j \in Active \ disturbed : j # i => pc[j] \notin {"load", "start"}
      BY <1>7, Alone DEF SureInv, TypeInv, OpAtPc
    <2> QED
      BY <1>3, <1>7, <2>1 DEF RestoreInv
  <1>13. CopyInv'
    <2> SUFFICES ASSUME NEW j \in Active', pc'[j] = "write", NEW x \in Keys, x \in Mentions(File(j)'),
                        sure'[x] # Unsure
                 PROVE  copy'[j][x] = sure'[x]
      BY DEF CopyInv, Mentions
    <2>1. CASE j = i
      BY <2>1 DEF SureInv, ConfirmedLasts
    <2>2. CASE j # i
      <3>1. j \in Active /\ j \in Calls /\ pc[j] = "write" /\ File(j)' = File(j) /\ copy'[j] = copy[j]
        BY <1>3, <1>7, <2>2 DEF File
      <3>2. x \in Uses(call[j]) /\ x \in Mentions(File(j))
        BY <3>1, FileOfJob
      <3>3. sure'[x] = sure[x]
        BY <1>9, <2>2, <3>2
      <3> QED
        BY <3>1, <3>2, <3>3 DEF SureInv, CopyInv
    <2> QED
      BY <2>1, <2>2
  <1>14. SetInv'
    <2> SUFFICES ASSUME NEW j \in (Active \ disturbed)', call[j].op = "Set", job'[j].key = call[j].key
                 PROVE  SetSoFar(j)'
      BY DEF SetInv
    <2>1. CASE j = i
      BY <2>1
    <2>2. CASE j # i
      <3> DEFINE x == call[j].key
      <3>1. /\ j \in Active \ disturbed /\ j \in Calls
            /\ pc'[j] = pc[j] /\ copy'[j] = copy[j] /\ job'[j] = job[j]
        BY <1>3, <1>7, <2>2
      <3>2. SetSoFar(j)
        BY <3>1 DEF SureInv, SetInv
      <3>3. x \in Touched(call[j]) /\ x \in Keys
        BY <1>7, <3>1, TouchFacts
      <3>4. x \notin Uses(call[i]) /\ x \notin Touched(call[i])
        BY <1>2, <2>2, <3>1, <3>3, Alone DEF SureInv
      <3>5. \A f \in FilesOf(x) : conf'[f][x] = conf[f][x]
        BY <3>3, <3>4
      <3>6. \A n \in 1..Len(Generates(x)) : Generates(x)[n] \in FilesOf(x)
        BY <3>3, FileFacts
      <3>7. dump[x] = db[x] => db'[x] = db[x] /\ dump'[x] = dump[x]
        BY <3>3, <3>4
      <3> QED
        BY <3>1, <3>2, <3>5, <3>6, <3>7 DEF SetSoFar
    <2> QED
      BY <2>1, <2>2
  <1> QED
    BY <1>4, <1>5, <1>10, <1>11, <1>12, <1>13, <1>14 DEF SureInv

\* bbb-config.sh for one setting and, before clearnet, for Tor.
LEMMA SetStep ==
    ASSUME TypeInv, SureInv, NEW i \in Calls,
           EnableTorFirst(i) \/ SetKey(i) \/ SetHostname(i) \/ ReadKeys(i) \/ WriteConfig(i)
               \/ RestartService(i) \/ SetKeyAgain(i)
    PROVE  SureInv'
  <1> DEFINE k == job[i].key
             v == Value(i)
  <1>1. Step(i)
    BY DEF Step
  <1>2. /\ i \in Active /\ UNCHANGED <<call, disturbed>>
        /\ \A j \in Calls \ {i} : pc'[j] = pc[j] /\ copy'[j] = copy[j] /\ job'[j] = job[j]
    BY <1>1, StepFrame
  <1>3. call[i].op = "Set" /\ pc[i] \in Writes /\ call[i] \in Requests
    BY DEF TypeInv, TypeOK, OpAtPc, Writes, EnableTorFirst, SetKey, SetHostname, ReadKeys,
           WriteConfig, RestartService, SetKeyAgain
  <1>4. k \in Touched(call[i]) /\ k \in Settings /\ k \in Keys /\ k # "hsm" /\ k \in Uses(call[i])
    BY <1>3, TouchFacts, SysconfigAssumption
       DEF TypeInv, JobAtPc, Keys, TorServices, SshSettings, Clearnet
  <1>5. sure[k] = Unsure
    BY <1>2, <1>3, <1>4 DEF SureInv, Unpromised, Writes
  <1>6. i \notin disturbed => redis
    BY <1>2, <1>3 DEF SureInv, AwayInv
  <1>7. redis' = redis /\ secret' = secret /\ gambled' = gambled
    BY DEF EnableTorFirst, SetKey, SetHostname, ReadKeys, WriteConfig, RestartService, SetKeyAgain,
           hist, store
  <1>8. k = call[i].key => v = call[i].val
    BY DEF Value
  <1>9. i \notin disturbed /\ k = call[i].key => SetSoFar(i)
    BY <1>2, <1>3 DEF SureInv, SetInv
  <1>10. ASSUME RedisSet(k, v)
         PROVE  /\ \A x \in Keys : x # k /\ dump[x] = db[x] => db'[x] = db[x] /\ dump'[x] = dump[x]
                /\ redis => db'[k] = v /\ dump'[k] = v
                /\ \A x \in Keys : x # k => db'[x] = db[x]
    BY <1>4, <1>10 DEF RedisSet, TypeInv, TypeOK, Db
  <1>11. \A x \in Keys : sure[x] # Unsure /\ x # "hsm" => dump[x] = db[x]
    BY DEF SureInv, ConfirmedLasts
  <1>12. ASSUME CommandEnds(i)
         PROVE  \/ pc'[i] = "set" /\ sure' = sure
                \/ /\ pc'[i] = "done" /\ k = call[i].key
                   /\ sure' = IF i \in disturbed THEN sure ELSE [sure EXCEPT ![k] = v]
    BY <1>12 DEF CommandEnds, Promise, Report, Goto, Value, TypeInv, TypeOK
  <1>13. \A f \in FilesOf(k) : f \in Files /\ k \in Mentions(f)
    BY <1>4, FileFacts
  <1>14. CASE EnableTorFirst(i)
    <2>1. UNCHANGED <<db, dump, sure, conf, copy, stale>> /\ pc'[i] = "set"
      BY <1>14 DEF EnableTorFirst, hist, store, Goto, TypeInv, TypeOK
    <2>2. ConfirmedLasts'
      BY <2>1 DEF SureInv, ConfirmedLasts
    <2>3. SetSoFar(i)'
      BY <2>1 DEF SetSoFar
    <2> QED
      BY <1>2, <1>3, <1>7, <2>1, <2>2, <2>3, SetStepFrame
  <1>15. CASE SetKey(i)
    <2>1. UNCHANGED <<sure, conf, copy, stale, job>> /\ pc'[i] = "read" /\ RedisSet(k, v) /\ pc[i] = "set"
      BY <1>15 DEF SetKey, hist, Goto, TypeInv, TypeOK
    <2>2. ConfirmedLasts'
      BY <1>4, <1>5, <1>10, <1>11, <2>1 DEF SureInv, ConfirmedLasts
    <2>3. job[i].at = 1
      BY <2>1 DEF TypeInv, JobAtPc
    <2>4. i \notin disturbed /\ k = call[i].key => SetSoFar(i)'
      <3>1. \A n \in 1..Len(Generates(k)) : ~(n < 1)
        BY <1>4, FileFacts
      <3> QED
        BY <1>2, <1>6, <1>8, <1>10, <2>1, <2>3, <3>1 DEF SetSoFar
    <2> QED
      BY <1>2, <1>3, <1>4, <1>7, <1>10, <2>1, <2>2, <2>4, SetStepFrame
  <1>16. CASE SetHostname(i)
    <2>1. UNCHANGED <<conf, stale>> /\ RedisSet(k, v) /\ CommandEnds(i) /\ Generates(k) = <<>>
      BY <1>16 DEF SetHostname
    <2>2. FilesOf(k) = {}
      BY <1>4, <2>1, FileFacts
    <2>3. ConfirmedLasts'
      <3>1. CASE sure' = sure
        BY <1>4, <1>5, <1>10, <1>11, <2>1, <3>1 DEF SureInv, ConfirmedLasts
      <3>2. CASE i \notin disturbed /\ sure' = [sure EXCEPT ![k] = v]
        <4>1. sure'[k] = v /\ \A x \in Keys : x # k => sure'[x] = sure[x]
          BY <1>4, <3>2 DEF TypeInv, TypeOK
        <4> QED
          BY <1>4, <1>6, <1>10, <1>11, <2>1, <2>2, <3>2, <4>1 DEF SureInv, ConfirmedLasts
      <3> QED
        BY <1>12, <2>1, <3>1, <3>2
    <2>4. SetSoFar(i)'
      BY <1>12, <2>1 DEF SetSoFar
    <2> QED
      BY <1>2, <1>3, <1>4, <1>7, <1>8, <1>10, <1>12, <2>1, <2>3, <2>4, SetStepFrame
  <1>17. CASE ReadKeys(i)
    <2>1. /\ UNCHANGED <<db, dump, conf, sure, stale, job>> /\ pc[i] = "read"
          /\ (pc'[i] = "write" /\ copy'[i] = db) \/ pc'[i] = "done"
      BY <1>17 DEF ReadKeys, store, Report, Goto, TypeInv, TypeOK
    <2>2. ConfirmedLasts'
      BY <2>1 DEF SureInv, ConfirmedLasts
    <2>3. i \notin disturbed /\ k = call[i].key => SetSoFar(i)'
      BY <1>2, <1>9, <2>1 DEF SetSoFar
    <2> QED
      BY <1>2, <1>3, <1>7, <2>1, <2>2, <2>3, SetStepFrame
  <1>18. CASE WriteConfig(i)
    <2> DEFINE f == File(i)
    <2>1. /\ UNCHANGED <<db, dump, sure>> /\ pc[i] = "write" /\ stale' = stale \ {f}
          /\ conf' = [conf EXCEPT ![f] = Rendered(f, copy[i])]
          /\ pc'[i] \in {"read", "service"}
      BY <1>18 DEF WriteConfig, store, Goto, TypeInv, TypeOK
    <2>2. /\ f \in FilesOf(k) /\ f \in Files /\ k \in Mentions(f)
          /\ \A x \in Keys : x \in Mentions(f) => x \in Uses(call[i])
      BY <2>1, FileOfJob
    <2>3. /\ \A x \in Keys : x \in Mentions(f) => conf'[f][x] = copy[i][x]
          /\ \A g \in Files \ {f} : conf'[g] = conf[g]
      BY <2>1, <2>2 DEF Rendered, TypeInv, TypeOK
    <2>4. \A x \in Keys : \A g \in FilesOf(x) : g \in Files /\ x \in Mentions(g)
      BY FileFacts
    <2> HIDE DEF f
    <2>5. ConfirmedLasts'
      <3> SUFFICES ASSUME NEW x \in Keys, sure[x] # Unsure, NEW g \in FilesOf(x), g \notin stale'
                   PROVE  conf'[g][x] = sure[x]
        BY <2>1 DEF SureInv, ConfirmedLasts
      <3>1. CASE g = f
        <4>1. copy[i][x] = sure[x]
          BY <1>2, <2>1, <2>4, <3>1 DEF SureInv, CopyInv, f
        <4> QED
          BY <2>3, <2>4, <3>1, <4>1
      <3>2. CASE g # f
        BY <2>1, <2>3, <2>4, <3>2 DEF SureInv, ConfirmedLasts
      <3> QED
        BY <3>1, <3>2
    <2>6. \A x \in Keys \ Uses(call[i]) : \A g \in FilesOf(x) : conf'[g][x] = conf[g][x]
      BY <2>2, <2>3, <2>4
    <2>7. ASSUME i \notin disturbed, k = call[i].key, job'[i].key = call[i].key PROVE SetSoFar(i)'
      <3>1. SetSoFar(i)
        BY <1>9, <2>7
      <3>2. conf'[f][k] = v /\ db[k] = v /\ dump[k] = v
        BY <1>4, <1>8, <2>1, <2>2, <2>3, <2>7, <3>1 DEF SetSoFar
      <3>3. /\ job[i].at \in 1..3 /\ job[i].at <= Len(Generates(k)) /\ Len(Generates(k)) \in 0..3
            /\ f = Generates(k)[job[i].at]
        BY <1>4, <2>1, FileFacts DEF TypeInv, TypeOK, JobAtPc, File, f
      <3>4. \A n \in 1..Len(Generates(k)) : n < job[i].at => conf[Generates(k)[n]][k] = v
        BY <1>8, <2>1, <2>7, <3>1 DEF SetSoFar
      <3>5. \A n \in 1..Len(Generates(k)) : Generates(k)[n] \in Files
        BY <1>4, FileFacts
      <3>6. \A n \in 1..Len(Generates(k)) : n <= job[i].at => conf'[Generates(k)[n]][k] = v
        <4> SUFFICES ASSUME NEW n \in 1..Len(Generates(k)), n <= job[i].at
                     PROVE  conf'[Generates(k)[n]][k] = v
          OBVIOUS
        <4>1. n = job[i].at \/ n < job[i].at
          BY <3>3
        <4>2. CASE Generates(k)[n] = f
          BY <3>2, <4>2
        <4>3. CASE Generates(k)[n] # f
          BY <2>3, <3>3, <3>4, <3>5, <4>1, <4>3
        <4> QED
          BY <4>2, <4>3
      <3>7. CASE job[i].at < Len(Generates(k))
        <4>1. pc'[i] = "read" /\ job'[i].at = job[i].at + 1
          BY <1>18, <3>7 DEF WriteConfig, Goto, TypeInv, TypeOK
        <4>2. \A n \in 1..Len(Generates(k)) : n < job'[i].at => n <= job[i].at
          BY <3>3, <4>1
        <4> QED
          BY <1>2, <1>8, <2>1, <2>7, <3>2, <3>6, <4>1, <4>2 DEF SetSoFar
      <3>8. CASE ~(job[i].at < Len(Generates(k)))
        <4>1. pc'[i] = "service"
          BY <1>18, <3>8 DEF WriteConfig, Goto, TypeInv, TypeOK
        <4>2. \A n \in 1..Len(Generates(k)) : n <= job[i].at
          BY <3>3, <3>8
        <4>3. \A g \in FilesOf(k) : conf'[g][k] = v
          BY <1>4, <3>6, <4>2, FileFacts
        <4> QED
          BY <1>2, <1>8, <2>1, <2>7, <3>2, <4>1, <4>3 DEF SetSoFar
      <3> QED
        BY <3>7, <3>8
    <2>8. job'[i].key = k
      BY <1>18 DEF WriteConfig, TypeInv, TypeOK
    <2> QED
      BY <1>2, <1>3, <1>7, <2>1, <2>5, <2>6, <2>7, <2>8, SetStepFrame
  <1>19. ASSUME UNCHANGED <<conf, stale, dump, db>> \/ (UNCHANGED <<conf, stale>> /\ RedisSet(k, v)),
                pc[i] \in {"service", "again"}, CommandEnds(i)
         PROVE  SureInv'
    <2>1. i \notin disturbed /\ k = call[i].key =>
              db'[k] = v /\ dump'[k] = v /\ \A f \in FilesOf(k) : conf'[f][k] = v
      BY <1>6, <1>8, <1>9, <1>10, <1>19 DEF SetSoFar
    <2>2. \A x \in Keys : x # k /\ dump[x] = db[x] => db'[x] = db[x] /\ dump'[x] = dump[x]
      BY <1>10, <1>19
    <2>3. \A x \in Keys : x # k => db'[x] = db[x]
      BY <1>10, <1>19
    <2>4. ConfirmedLasts'
      <3>1. CASE sure' = sure
        BY <1>4, <1>5, <1>11, <1>19, <2>2, <2>3, <3>1 DEF SureInv, ConfirmedLasts
      <3>2. CASE i \notin disturbed /\ k = call[i].key /\ sure' = [sure EXCEPT ![k] = v]
        <4>1. sure'[k] = v /\ \A x \in Keys : x # k => sure'[x] = sure[x]
          BY <1>4, <3>2 DEF TypeInv, TypeOK
        <4> QED
          BY <1>4, <1>11, <1>19, <2>1, <2>2, <2>3, <3>2, <4>1 DEF SureInv, ConfirmedLasts
      <3> QED
        BY <1>12, <1>19, <3>1, <3>2
    <2>5. SetSoFar(i)'
      BY <1>12, <1>19 DEF SetSoFar
    <2> QED
      BY <1>2, <1>3, <1>4, <1>7, <1>8, <1>12, <1>19, <2>2, <2>4, <2>5, SetStepFrame
  <1>20. CASE RestartService(i)
    <2>1. CASE k = "tor"
      <3>1. UNCHANGED <<db, dump, conf, stale, job, sure>> /\ pc[i] = "service" /\ pc'[i] = "again"
        BY <1>20, <2>1 DEF RestartService, store, Goto, TypeInv, TypeOK
      <3>2. ConfirmedLasts'
        BY <3>1 DEF SureInv, ConfirmedLasts
      <3>3. i \notin disturbed /\ k = call[i].key => SetSoFar(i)'
        BY <1>2, <1>9, <3>1 DEF SetSoFar
      <3> QED
        BY <1>2, <1>3, <1>7, <3>1, <3>2, <3>3, SetStepFrame
    <2>2. CASE k # "tor"
      BY <1>19, <1>20, <2>2 DEF RestartService, store
    <2> QED
      BY <2>1, <2>2
  <1>21. CASE SetKeyAgain(i)
    BY <1>19, <1>21 DEF SetKeyAgain
  <1> QED
    BY <1>14, <1>15, <1>16, <1>17, <1>18, <1>20, <1>21

\* RestoreSysconfig while Redis is stopped, replaced and started.
LEMMA RestoreStep ==
    ASSUME TypeInv, SureInv, NEW i \in Calls, StopRedis(i) \/ LoadBackup(i) \/ StartRedis(i)
    PROVE  SureInv'
  <1>1. Step(i)
    BY DEF Step
  <1>2. /\ i \in Active /\ UNCHANGED <<call, disturbed>>
        /\ \A j \in Calls \ {i} : pc'[j] = pc[j] /\ copy'[j] = copy[j] /\ job'[j] = job[j]
    BY <1>1, StepFrame
  <1>3. call[i].op = "RestoreSysconfig" /\ pc[i] \in {"stop", "load", "start"}
    BY DEF TypeInv, OpAtPc, StopRedis, LoadBackup, StartRedis
  <1>4. \A k \in Keys : sure[k] = Unsure
    <2>1. Touched(call[i]) = Keys
      BY <1>3, TouchFacts DEF TypeInv, TypeOK
    <2> QED
      BY <1>2, <1>3, <2>1 DEF SureInv, Unpromised
  <1>5. \A j \in Active : j # i => j \in disturbed
    BY <1>2, <1>3, Alone DEF SureInv
  <1>6. Active' \subseteq Active
    BY <1>2 DEF Active
  <1>7. Marked'
    BY <1>2, <1>6 DEF SureInv, Marked
  <1>8. SetInv'
    <2>1. \A j \in (Active \ disturbed)' : j = i /\ call'[j].op # "Set"
      BY <1>2, <1>3, <1>5, <1>6
    <2> QED
      BY <2>1 DEF SetInv
  <1>9. secret' = secret /\ gambled' = gambled
    BY DEF StopRedis, LoadBackup, StartRedis, hist
  <1>10. SecretIsKept'
    BY <1>9 DEF SureInv, SecretIsKept
  <1>11. ASSUME sure' = sure PROVE Unpromised' /\ ConfirmedLasts' /\ CopyInv'
    <2>1. \A j \in Calls : Touched(call[j]) \subseteq Keys
      BY TouchFacts DEF TypeInv, TypeOK
    <2> QED
      BY <1>2, <1>4, <1>6, <1>11, <2>1 DEF Unpromised, ConfirmedLasts, CopyInv, Active
  <1>12. ASSUME sure' = sure PROVE AwayInv'
    BY <1>2, <1>3, <1>4, <1>5, <1>6, <1>12 DEF AwayInv
  <1>13. CASE StopRedis(i)
    <2>1. sure' = sure /\ pc'[i] = "load" /\ redis' = FALSE
      BY <1>13 DEF StopRedis, hist, Goto, TypeInv, TypeOK
    <2>2. RestoreInv'
      BY <1>2, <1>5, <1>6, <2>1 DEF RestoreInv
    <2> QED
      BY <1>7, <1>8, <1>10, <1>11, <1>12, <2>1, <2>2 DEF SureInv
  <1>14. CASE LoadBackup(i)
    <2>1. /\ sure' = sure /\ redis' = redis
          /\ \/ pc'[i] = "start" /\ dump' = TheFile /\ copy'[i] = TheFile
             \/ pc'[i] = "unmount"
      BY <1>14 DEF LoadBackup, Report, Goto, TypeInv, TypeOK
    <2>2. i \notin disturbed => ~redis
      BY <1>2, <1>14 DEF SureInv, RestoreInv, LoadBackup
    <2>3. RestoreInv'
      BY <1>2, <1>5, <1>6, <2>1, <2>2 DEF RestoreInv
    <2> QED
      BY <1>7, <1>8, <1>10, <1>11, <1>12, <2>1, <2>3 DEF SureInv
  <1>15. CASE StartRedis(i)
    <2>1. /\ sure' = IF i \in disturbed THEN sure ELSE copy[i]
          /\ redis' = TRUE /\ db' = (IF redis THEN db ELSE dump) /\ dump' = dump
          /\ stale' = Files /\ pc'[i] = "unmount"
      BY <1>15 DEF StartRedis, Report, Goto, TypeInv, TypeOK
    <2>2. i \notin disturbed => ~redis /\ dump = copy[i]
      BY <1>2, <1>15 DEF SureInv, RestoreInv, StartRedis
    <2>3. RestoreInv'
      BY <1>2, <1>5, <1>6, <2>1 DEF RestoreInv
    <2>4. CASE i \in disturbed
      BY <1>7, <1>8, <1>10, <1>11, <1>12, <2>1, <2>3, <2>4 DEF SureInv
    <2>5. CASE i \notin disturbed
      <3>1. AwayInv'
        BY <2>1 DEF AwayInv
      <3>2. ConfirmedLasts'
        <4>1. \A k \in Keys : FilesOf(k) \ stale' = {}
          BY <2>1, FileFacts
        <4> QED
          BY <2>1, <2>2, <2>5, <4>1 DEF ConfirmedLasts
      <3>3. Active = {i}
        BY <1>2, <1>3, <2>5, Alone DEF SureInv
      <3>4. Unpromised' /\ CopyInv'
        BY <1>6, <2>1, <3>3 DEF Unpromised, CopyInv
      <3> QED
        BY <1>7, <1>8, <1>10, <2>3, <3>1, <3>2, <3>4 DEF SureInv
    <2> QED
      BY <2>4, <2>5
  <1> QED
    BY <1>13, <1>14, <1>15

\* The Lightning secret.
LEMMA SecretStep ==
    ASSUME TypeInv, SureInv, NEW i \in Calls, BackupHSMSecret(i) \/ RestoreHSMSecret(i)
    PROVE  SureInv'
  <1>1. Step(i)
    BY DEF Step
  <1>2. /\ i \in Active /\ UNCHANGED <<call, disturbed>>
        /\ \A j \in Calls \ {i} : pc'[j] = pc[j] /\ copy'[j] = copy[j] /\ job'[j] = job[j]
    BY <1>1, StepFrame
  <1>3. Active' \subseteq Active /\ i \notin Active'
    BY <1>2 DEF Active, BackupHSMSecret, RestoreHSMSecret, Report, Goto, TypeInv, TypeOK
  <1>4. UNCHANGED <<redis, dump, conf, stale, copy, job>>
    BY DEF BackupHSMSecret, RestoreHSMSecret, store
  <1>5. Marked' /\ RestoreInv'
    BY <1>2, <1>3, <1>4 DEF SureInv, Marked, RestoreInv, Active
  <1>6. \A x \in Settings : db'[x] = db[x]
    <2>1. "hsm" \notin Settings
      BY SysconfigAssumption DEF TorServices, SshSettings, Clearnet
    <2> QED
      BY <2>1 DEF BackupHSMSecret, RestoreHSMSecret, store, TypeInv, TypeOK, Db, Keys
  <1>7. SetInv'
    <2> SUFFICES ASSUME NEW j \in (Active \ disturbed)', call[j].op = "Set", job[j].key = call[j].key
                 PROVE  SetSoFar(j)'
      BY <1>2, <1>4 DEF SetInv
    <2>1. j \in Active \ disturbed /\ j # i /\ pc'[j] = pc[j] /\ call[j].key \in Settings
      BY <1>2, <1>3, RequestFacts DEF Active, TypeInv, TypeOK
    <2> QED
      BY <1>2, <1>4, <1>6, <2>1 DEF SureInv, SetInv, SetSoFar
  <1>10. ASSUME \A x \in Settings : sure'[x] = sure[x] PROVE CopyInv'
    <2> SUFFICES ASSUME NEW j \in Active', pc'[j] = "write", NEW x \in Keys, x \in Mentions(File(j)),
                        sure'[x] # Unsure
                 PROVE  copy[j][x] = sure'[x]
      BY <1>4 DEF CopyInv, File
    <2>1. j \in Active /\ pc[j] = "write" /\ j \in Calls
      BY <1>2, <1>3 DEF Active
    <2>2. x # "hsm"
      BY DEF Mentions, TorServices, SshSettings, Clearnet
    <2> QED
      BY <1>10, <2>1, <2>2 DEF SureInv, CopyInv, Keys
  <1>8. CASE sure' = sure /\ db' = db /\ (secret' = secret \/ RestoreHSMSecret(i))
    <2>1. Unpromised' /\ AwayInv' /\ ConfirmedLasts' /\ CopyInv'
      BY <1>2, <1>3, <1>4, <1>8, <1>10 DEF SureInv, Unpromised, AwayInv, ConfirmedLasts, Active
    <2>2. CASE RestoreHSMSecret(i)
      <3>1. sure["hsm"] = 1 => redis /\ db["hsm"] = 1
        BY DEF SureInv, AwayInv, ConfirmedLasts, Keys, Unsure
      <3> QED
        BY <1>5, <1>7, <2>1, <2>2, <3>1 DEF SureInv, SecretIsKept, RestoreHSMSecret
    <2>3. CASE BackupHSMSecret(i)
      BY <1>5, <1>7, <2>1, <2>3 DEF SureInv, SecretIsKept, BackupHSMSecret
    <2> QED
      BY <2>2, <2>3
  <1>9. CASE BackupHSMSecret(i) /\ redis
    <2>1. /\ db' = [db EXCEPT !["hsm"] = secret] /\ secret' = secret /\ gambled' = gambled
          /\ sure' = IF i \in disturbed THEN sure ELSE [sure EXCEPT !["hsm"] = secret]
          /\ call[i].op = "BackupHSMSecret" /\ pc[i] = "secret"
      BY <1>9 DEF BackupHSMSecret, Promise
    <2>2. call[i].key = "hsm" /\ "hsm" \in Keys
      BY <2>1, RequestFacts DEF TypeInv, TypeOK, Keys
    <2>3. sure["hsm"] = Unsure
      BY <1>2, <2>1, <2>2, TouchFacts DEF SureInv, Unpromised, TypeInv, TypeOK
    <2>4. AwayInv' /\ SecretIsKept'
      BY <1>4, <1>9, <2>1 DEF SureInv, AwayInv, SecretIsKept
    <2>5. ConfirmedLasts' /\ CopyInv'
      <3>1. /\ db'["hsm"] = secret /\ \A x \in Keys \ {"hsm"} : db'[x] = db[x] /\ sure'[x] = sure[x]
            /\ sure'["hsm"] # Unsure => sure'["hsm"] = secret
        BY <2>1, <2>2, <2>3 DEF TypeInv, TypeOK, Db
      <3>2. FilesOf("hsm") = {}
        BY <2>2, FileFacts
      <3>3. ConfirmedLasts'
        BY <1>4, <3>1, <3>2 DEF SureInv, ConfirmedLasts
      <3>4. \A x \in Settings : x \in Keys /\ x # "hsm"
        BY SysconfigAssumption DEF Keys, TorServices, SshSettings, Clearnet
      <3> QED
        BY <1>10, <3>1, <3>3, <3>4
    <2>6. Unpromised'
      <3> SUFFICES ASSUME NEW j \in Active', pc'[j] \notin {"unmount", "release"},
                          NEW x \in Touched(call[j])
                   PROVE  sure'[x] = Unsure
        BY <1>2 DEF Unpromised
      <3>1. j \in Active /\ j # i /\ pc[j] \notin {"unmount", "release"} /\ j \in Calls
        BY <1>2, <1>3 DEF Active
      <3>2. sure[x] = Unsure /\ x \in Keys /\ x \in Uses(call[j])
        BY <3>1, TouchFacts DEF SureInv, Unpromised, TypeInv, TypeOK
      <3>3. i \notin disturbed => x # "hsm"
        <4>1. "hsm" \in Touched(call[i])
          BY <2>1, TouchFacts DEF TypeInv, TypeOK
        <4> QED
          BY <1>2, <3>1, <3>2, <4>1, Alone DEF SureInv
      <3> QED
        BY <2>1, <3>2, <3>3 DEF TypeInv, TypeOK
    <2> QED
      BY <1>5, <1>7, <2>4, <2>5, <2>6 DEF SureInv
  <1> QED
    BY <1>8, <1>9 DEF BackupHSMSecret, RestoreHSMSecret, store

\* A new call marks itself and the calls it meets, and withdraws what was promised of what
\* it is going to write.
LEMMA CallStep ==
    ASSUME TypeInv, SureInv, NEW i \in Calls, NEW c \in Requests, Call(i, c)
    PROVE  SureInv'
  <1> DEFINE others == {j \in Active : InTheWay(call[j], c)}
  <1>1. /\ i \notin Active /\ UNCHANGED <<store, conf, secret, copy, stale, gambled>>
        /\ \A j \in Calls \ {i} : job'[j] = job[j]
        /\ call' = [call EXCEPT ![i] = c] /\ pc' = [pc EXCEPT ![i] = Start(c)]
        /\ disturbed' = (disturbed \ {i}) \cup others
                        \cup (IF others # {} \/ ~redis THEN {i} ELSE {})
        /\ sure' = [k \in Keys |-> IF k \in Touched(c) THEN Unsure ELSE sure[k]]
    BY DEF Call, Goto, TypeInv, TypeOK
  <1>2. Active' = Active \cup {i}
    BY <1>1, RequestFacts DEF Active, TypeInv, TypeOK, Start
  <1>3. \A j \in Active : j # i /\ call'[j] = call[j] /\ pc'[j] = pc[j] /\ copy'[j] = copy[j]
                          /\ job'[j] = job[j] /\ j \in Calls
                          /\ (j \notin disturbed' => j \notin disturbed)
    BY <1>1 DEF Active, TypeInv, TypeOK
  <1>4. call'[i] = c /\ pc'[i] = Start(c) /\ pc'[i] \in {"prior", "set", "check", "secret"}
    BY <1>1 DEF TypeInv, TypeOK, Start
  <1>5. Marked'
    <2> SUFFICES ASSUME NEW a \in Active', NEW b \in Active', a # b, InTheWay(call'[a], call'[b])
                 PROVE  {a, b} \subseteq disturbed'
      BY DEF Marked, InTheWay, Touched, Uses, NeedsTor
    <2>1. CASE a # i /\ b # i
      BY <1>1, <1>2, <1>3, <2>1 DEF SureInv, Marked
    <2>2. CASE a = i
      <3>1. b \in others
        BY <1>2, <1>3, <1>4, <2>2 DEF InTheWay
      <3> QED
        BY <1>1, <2>2, <3>1
    <2>3. CASE b = i
      <3>1. a \in others
        BY <1>2, <1>3, <1>4, <2>3 DEF InTheWay
      <3> QED
        BY <1>1, <2>3, <3>1
    <2> QED
      BY <2>1, <2>2, <2>3
  <1>6. Unpromised'
    <2> SUFFICES ASSUME NEW j \in Active', pc'[j] \notin {"unmount", "release"},
                        NEW x \in Touched(call'[j])
                 PROVE  sure'[x] = Unsure
      BY DEF Unpromised, Touched, NeedsTor
    <2>1. x \in Keys
      <3>1. call'[j] \in Requests
        BY <1>2, <1>3, <1>4 DEF TypeInv, TypeOK, Active
      <3> QED
        BY <3>1, TouchFacts
    <2>2. CASE j = i
      BY <1>1, <1>4, <2>1, <2>2
    <2>3. CASE j # i
      BY <1>1, <1>2, <1>3, <2>1, <2>3 DEF SureInv, Unpromised
    <2> QED
      BY <2>2, <2>3
  <1>7. AwayInv'
    BY <1>1, <1>2, <1>3 DEF SureInv, AwayInv, store
  <1>8. SetInv'
    <2> SUFFICES ASSUME NEW j \in (Active \ disturbed)', call'[j].op = "Set",
                        job'[j].key = call'[j].key
                 PROVE  SetSoFar(j)'
      BY DEF SetInv
    <2>1. CASE j = i
      BY <1>4, <2>1 DEF SetSoFar
    <2>2. CASE j # i
      BY <1>1, <1>2, <1>3, <2>2 DEF SureInv, SetInv, SetSoFar, store
    <2> QED
      BY <2>1, <2>2
  <1>9. RestoreInv'
    BY <1>1, <1>2, <1>3, <1>4 DEF SureInv, RestoreInv, store
  <1>11. CopyInv'
    <2> SUFFICES ASSUME NEW j \in Active', pc'[j] = "write", NEW x \in Keys, x \in Mentions(File(j)'),
                        sure'[x] # Unsure
                 PROVE  copy'[j][x] = sure'[x]
      BY DEF CopyInv, Mentions
    <2>1. j # i
      BY <1>4
    <2>2. j \in Active /\ pc[j] = "write" /\ File(j)' = File(j) /\ copy'[j] = copy[j]
      BY <1>2, <1>3, <2>1 DEF File
    <2>3. sure'[x] = sure[x]
      BY <1>1
    <2> QED
      BY <2>2, <2>3 DEF SureInv, CopyInv
  <1>10. ConfirmedLasts' /\ SecretIsKept'
    BY <1>1 DEF SureInv, ConfirmedLasts, SecretIsKept, store
  <1> QED
    BY <1>5, <1>6, <1>7, <1>8, <1>9, <1>10, <1>11 DEF SureInv

\* Restarts, Redis on its own, and the user's hands.
LEMMA SurroundingsStep ==
    ASSUME TypeInv, SureInv,
           \/ MiddlewareRestarts \/ RedisSaves
           \/ \E orderly \in BOOLEAN : BaseRestarts(orderly)
           \/ \E n \in 0..2 : Plug(n)
    PROVE  SureInv'
  <1>1. ASSUME Cut PROVE Active' = {}
    BY <1>1 DEF Cut, Active
  <1>2. ASSUME Active' = {} PROVE Marked' /\ Unpromised' /\ SetInv' /\ CopyInv' /\ RestoreInv'
    BY <1>2 DEF Marked, Unpromised, SetInv, CopyInv, RestoreInv
  <1>3. CASE MiddlewareRestarts
    <2>1. Active' = {} /\ UNCHANGED <<store, conf, secret, sure, stale, gambled>>
      BY <1>1, <1>3 DEF MiddlewareRestarts
    <2>2. AwayInv' /\ ConfirmedLasts' /\ SecretIsKept'
      BY <2>1 DEF SureInv, AwayInv, ConfirmedLasts, SecretIsKept, store
    <2> QED
      BY <1>2, <2>1, <2>2 DEF SureInv
  <1>4. ASSUME NEW orderly \in BOOLEAN, BaseRestarts(orderly) PROVE SureInv'
    <2>1. /\ Active' = {} /\ UNCHANGED <<conf, secret, stale, gambled>> /\ redis' = TRUE
          /\ db' = (IF orderly /\ redis THEN db ELSE dump) /\ dump' = db'
          /\ sure' = IF orderly THEN sure ELSE [sure EXCEPT !["hsm"] = Unsure]
      BY <1>1, <1>4 DEF BaseRestarts
    <2>2. AwayInv' /\ SecretIsKept'
      BY <2>1 DEF SureInv, AwayInv, SecretIsKept
    <2>3. ~redis => \A k \in Keys : sure[k] = Unsure
      BY DEF SureInv, AwayInv
    <2>4. ConfirmedLasts'
      BY <2>1, <2>3 DEF SureInv, ConfirmedLasts, TypeInv, TypeOK
    <2> QED
      BY <1>2, <2>1, <2>2, <2>4 DEF SureInv
  <1>5. CASE RedisSaves
    <2>1. /\ redis /\ dump' = db /\ Active' = Active
          /\ UNCHANGED <<redis, db, conf, secret, pc, call, copy, job, disturbed, sure, stale, gambled>>
      BY <1>5 DEF RedisSaves, calls, hist, Active
    <2>2. Marked' /\ Unpromised' /\ AwayInv'
      BY <2>1 DEF SureInv, Marked, Unpromised, AwayInv
    <2>3. SetInv' /\ RestoreInv'
      <3>1. \A i \in Calls : SetSoFar(i) => SetSoFar(i)'
        BY <2>1 DEF SetSoFar
      <3> QED
        BY <2>1, <3>1 DEF SureInv, SetInv, RestoreInv, Active
    <2>5. CopyInv'
      BY <2>1 DEF SureInv, CopyInv, File
    <2>4. ConfirmedLasts' /\ SecretIsKept'
      BY <2>1 DEF SureInv, ConfirmedLasts, SecretIsKept
    <2> QED
      BY <2>2, <2>3, <2>4, <2>5 DEF SureInv
  <1>6. ASSUME NEW n \in 0..2, Plug(n) PROVE SureInv'
    <2>1. /\ Active' = Active
          /\ UNCHANGED <<store, conf, secret, pc, call, copy, job, disturbed, sure, stale, gambled>>
      BY <1>6 DEF Plug, calls, hist, Active
    <2>2. Marked' /\ Unpromised' /\ AwayInv'
      BY <2>1 DEF SureInv, Marked, Unpromised, AwayInv, store
    <2>3. SetInv' /\ RestoreInv'
      <3>1. \A i \in Calls : SetSoFar(i) => SetSoFar(i)'
        BY <2>1 DEF SetSoFar, store
      <3> QED
        BY <2>1, <3>1 DEF SureInv, SetInv, RestoreInv, Active, store
    <2>5. CopyInv'
      BY <2>1 DEF SureInv, CopyInv, File
    <2>4. ConfirmedLasts' /\ SecretIsKept'
      BY <2>1 DEF SureInv, ConfirmedLasts, SecretIsKept, store
    <2> QED
      BY <2>2, <2>3, <2>4, <2>5 DEF SureInv
  <1> QED
    BY <1>3, <1>4, <1>5, <1>6

LEMMA SureStep == TypeInv /\ SureInv /\ [Next]_vars => SureInv'
  <1> SUFFICES ASSUME TypeInv, SureInv, [Next]_vars PROVE SureInv'
    OBVIOUS
  <1>1. ASSUME NEW i \in Calls, Step(i) PROVE SureInv'
    <2>1. /\ i \in Active /\ UNCHANGED <<call, disturbed>>
          /\ \A j \in Calls \ {i} : pc'[j] = pc[j] /\ copy'[j] = copy[j] /\ job'[j] = job[j]
      BY <1>1, StepFrame
    <2> USE DEF TypeInv, TypeOK, drive, rest, count, store
    <2>2. CASE CheckDrive(i) \/ CheckMountpoint(i) \/ UmountFirst(i) \/ Mount(i)
      BY <2>1, <2>2, QuietStep DEF CheckDrive, CheckMountpoint, UmountFirst, Mount, Report, Goto
    <2>3. CASE CheckBackup(i) \/ BackupDump(i) \/ FindBackup(i) \/ RebootBase(i)
      BY <2>1, <2>3, QuietStep DEF CheckBackup, BackupDump, FindBackup, RebootBase, Report, Goto
    <2>4. CASE CheckMounted(i) \/ Unmount(i)
      BY <2>1, <2>4, QuietStep DEF CheckMounted, Unmount, Unmounted, Report, Goto
    <2> QED
      BY <1>1, <2>2, <2>3, <2>4, SetStep, RestoreStep, SecretStep DEF Step
  <1>2. ASSUME NEW i \in Calls, CommandFails(i) PROVE SureInv'
    <2>1. /\ i \in Active
          /\ UNCHANGED <<call, disturbed, store, conf, secret, sure, stale, gambled, copy, job>>
      BY <1>2 DEF CommandFails, Active
    <2>2. pc'[i] \in {"done", "unmount"} /\ \A j \in Calls \ {i} : pc'[j] = pc[j]
      BY <1>2 DEF CommandFails, Unmounted, Report, Goto, TypeInv, TypeOK
    <2> QED
      BY <2>1, <2>2, QuietStep
  <1>3. ASSUME NEW i \in Calls, Deny(i) PROVE SureInv'
    <2>1. /\ i \notin Active /\ UNCHANGED <<pc, disturbed, store, conf, secret, sure, stale, gambled, copy, job>>
          /\ call' = [call EXCEPT ![i] = Idle]
      BY <1>3 DEF Deny
    <2>2. Active' = Active /\ \A j \in Active : call'[j] = call[j]
      BY <2>1 DEF Active, TypeInv, TypeOK
    <2>3. Marked' /\ Unpromised' /\ AwayInv'
      BY <2>1, <2>2 DEF SureInv, Marked, Unpromised, AwayInv, store
    <2>4. SetInv' /\ RestoreInv' /\ CopyInv'
      <3>1. \A j \in Active : SetSoFar(j) => SetSoFar(j)'
        BY <2>1, <2>2 DEF SetSoFar, store
      <3>2. \A j \in Active : File(j)' = File(j)
        BY <2>1 DEF File
      <3> QED
        BY <2>1, <2>2, <3>1, <3>2 DEF SureInv, SetInv, RestoreInv, CopyInv, store
    <2>5. ConfirmedLasts' /\ SecretIsKept'
      BY <2>1 DEF SureInv, ConfirmedLasts, SecretIsKept, store
    <2> QED
      BY <2>3, <2>4, <2>5 DEF SureInv
  <1>4. ASSUME NEW i \in Calls, NEW c \in Requests, Call(i, c) PROVE SureInv'
    BY <1>4, CallStep
  <1>5. CASE UNCHANGED vars
    <2>1. Active' = Active
      BY <1>5 DEF vars, calls, Active
    <2>2. Marked' /\ Unpromised' /\ AwayInv'
      BY <1>5, <2>1 DEF SureInv, Marked, Unpromised, AwayInv, vars, store, calls, hist
    <2>3. SetInv' /\ RestoreInv' /\ CopyInv'
      <3>1. \A j \in Active : SetSoFar(j) => SetSoFar(j)'
        BY <1>5 DEF SetSoFar, vars, store, calls
      <3>2. \A j \in Active : File(j)' = File(j)
        BY <1>5 DEF File, vars, calls
      <3> QED
        BY <1>5, <2>1, <3>1, <3>2 DEF SureInv, SetInv, RestoreInv, CopyInv, vars, store, calls, hist
    <2>4. ConfirmedLasts' /\ SecretIsKept'
      BY <1>5 DEF SureInv, ConfirmedLasts, SecretIsKept, vars, store, hist
    <2> QED
      BY <2>2, <2>3, <2>4 DEF SureInv
  <1> QED
    BY <1>1, <1>2, <1>3, <1>4, <1>5, SurroundingsStep DEF Next

\* SureInv holds in every reachable state.
THEOREM Confirmed == Spec => []SureInv
  <1>1. Init => TypeInv /\ SureInv
    <2>1. ASSUME Init PROVE SureInv
      <3>1. Active = {}
        BY <2>1 DEF Init, Active
      <3> QED
        BY <2>1, <3>1 DEF Init, SureInv, Marked, Unpromised, AwayInv, SetInv, CopyInv, RestoreInv,
                          ConfirmedLasts, SecretIsKept
    <2> QED
      BY <2>1, InitType
  <1>2. TypeInv /\ SureInv /\ [Next]_vars => (TypeInv /\ SureInv)'
    BY TypeStep, SureStep
  <1> QED
    BY <1>1, <1>2, PTL DEF Spec

\* A confirmed setting, backup of the secret or restore is what Redis, its dump file and the
\* generated files hold, whichever other setting they are generated for next, as long as no
\* other call was in its way.
THEOREM ConfirmedResultsLast == Spec => []ConfirmedLasts
  <1>1. SureInv => ConfirmedLasts
    BY DEF SureInv
  <1> QED
    BY <1>1, Confirmed, PTL

\* hsm_secret is not emptied as long as a confirmed backup in Redis is in force whenever it
\* is restored, whatever happens to Redis meanwhile.
THEOREM SecretKept == Spec => []SecretIsKept
  <1>1. SureInv => SecretIsKept
    BY DEF SureInv
  <1> QED
    BY <1>1, Confirmed, PTL
================================================================================
