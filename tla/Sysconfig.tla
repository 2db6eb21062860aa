------------------------------- MODULE Sysconfig -------------------------------
(***************************************************************************)
(* The RPCs that change the Base's settings and that back them up to and   *)
(* restore them from a flashdrive: Go functions of middleware.go and       *)
(* util.go that run bbb-config.sh and bbb-cmd.sh.  net/rpc serves every    *)
(* call in a goroutine of its own, and nothing orders the calls, so the    *)
(* scripts' commands interleave on Redis, its dump file, the generated     *)
(* configuration files and the one mountpoint.                             *)
(*                                                                         *)
(* A setting is a Redis key with value 0 or 1; "hsm" is the key of the     *)
(* Lightning secret, 0 standing for a missing or an empty one.             *)
(***************************************************************************)
EXTENDS Naturals, FiniteSets, Sequences

CONSTANTS Calls,      \* RPCs that can be in progress at the same time
          Settings,   \* the arguments of bbb-config.sh that are called
          MaxCalls, MaxFaults

TorServices == {"tor_ssh", "tor_electrs", "tor_bbbmiddleware"}
SshSettings == {"rootlogin", "sshpwlogin"}
Clearnet == "bitcoin_ibd_clearnet"

ASSUME SysconfigAssumption ==
    /\ Settings \subseteq {"hostname", "bitcoin_services", "tor", Clearnet}
                          \cup TorServices \cup SshSettings
    /\ Clearnet \in Settings => "tor" \in Settings
    /\ MaxCalls \in Nat /\ MaxFaults \in Nat

VARIABLES redis, db, dump,      \* Redis: running, its memory, its file bitboxbase.rdb
          conf,                 \* the values of the settings in the generated files
          secret,               \* file hsm_secret: 1, or 0 if it is empty
          plugged, backup,      \* flashdrives plugged in; bbb-backup.rdb on it
          mounted,              \* /mnt/backup is a mountpoint
          under,                \* bbb-backup.rdb in /mnt/backup while nothing is mounted
          pc, call, res, copy,  \* per call: position, arguments, response, what it read
          job,                  \* per call: the setting being changed, the file being generated
          reboots,              \* a reboot or shutdown is due in 5 s
          nCalls, faults,
          first,                \* history: the first error a call's scripts reported
          disturbed,            \* history: calls that others got in the way of
          sure,                 \* history: what the last undisturbed success promised
          stale,                \* history: files not generated since a restore
          left,                 \* history: a call was cut off with the drive mounted
          gambled               \* history: a secret was restored without a sure backup

store == <<redis, db, dump>>
drive == <<plugged, backup, mounted, under>>
calls == <<pc, call, res, copy, job>>
count == <<reboots, nCalls, faults>>
hist == <<first, disturbed, sure, stale, left, gambled>>
vars == <<store, conf, secret, drive, calls, count, hist>>

Keys == Settings \cup {"hsm"}
Unsure == 2
Ok == "success"
Unexpected == "UNEXPECTED_ERROR"
Db == [Keys -> {0, 1}]
NoDb == [k \in Keys |-> 0]
NoBackup == [k \in Keys |-> Unsure]
Codes == {"JSONWEBTOKEN_INVALID", "FLASHDRIVE_CHECK_NONE", "FLASHDRIVE_CHECK_MULTI",
          "FLASHDRIVE_MOUNT_NOT_FOUND", "FLASHDRIVE_UNMOUNT_NOT_MOUNTED",
          "BACKUP_SYSCONFIG_NOT_A_MOUNTPOINT", "RESTORE_SYSCONFIG_BACKUP_NOT_FOUND",
          Unexpected}
Flash == {"BackupSysconfig", "RestoreSysconfig"}
Plain == Flash \cup {"BackupHSMSecret", "RestoreHSMSecret", "RebootBase"}
Requests == [op : {"Set"}, key : Settings, val : {0, 1}]
            \cup [op : Plain, key : {"hsm"}, val : {0}]
Idle == [op |-> "RebootBase", key |-> "hsm", val |-> 0]
NoJob == [key |-> "hsm", at |-> 1]

\* The configuration files that the commands for a setting generate, in this order.
Generates(k) ==
    CASE k = "tor" -> <<"iptables.rules", "bitcoin.conf", "lightningd.conf">>
      [] k = Clearnet -> <<"iptables.rules", "bitcoin.conf">>
      [] k \in TorServices -> <<"torrc">>
      [] k \in SshSettings -> <<"sshd_config">>
      [] OTHER -> <<>>

\* Mutant of Mentions: the template of bitcoin.conf does not look up Tor's setting.
MentionsNoTor(f) ==
    CASE f = "torrc" -> {"tor"} \cup TorServices
      [] f = "sshd_config" -> SshSettings
      [] f = "lightningd.conf" -> {"tor"}
      [] OTHER -> {Clearnet}

\* The settings that a file's template looks up.
Mentions(f) ==
    CASE f = "torrc" -> {"tor"} \cup TorServices
      [] f = "sshd_config" -> SshSettings
      [] f = "lightningd.conf" -> {"tor"}
      [] OTHER -> {"tor", Clearnet}

FilesOf(k) == {Generates(k)[n] : n \in DOMAIN Generates(k)}
Files == UNION {FilesOf(k) : k \in Settings}

TypeOK ==
    /\ redis \in BOOLEAN /\ db \in Db /\ dump \in Db
    /\ conf \in [Files -> Db] /\ secret \in {0, 1}
    /\ plugged \in 0..2 /\ backup \in Db \cup {NoBackup} /\ mounted \in BOOLEAN
    /\ under \in Db \cup {NoBackup}
    /\ pc \in [Calls -> {"done", "prior", "set", "read", "write", "service", "again", "check",
                         "mount", "umount", "remount", "copy", "dump", "stop", "load", "start",
                         "unmount", "release", "secret"}]
    /\ call \in [Calls -> Requests] /\ res \in [Calls -> Codes \cup {Ok}]
    /\ copy \in [Calls -> Db] /\ job \in [Calls -> [key : Keys, at : 1..3]]
    /\ reboots \in BOOLEAN /\ nCalls \in 0..MaxCalls /\ faults \in 0..MaxFaults
    /\ first \in [Calls -> Codes \cup {Ok}] /\ disturbed \subseteq Calls
    /\ sure \in [Keys -> {0, 1, Unsure}] /\ stale \subseteq Files
    /\ left \in BOOLEAN /\ gambled \in BOOLEAN

Init ==
    /\ redis = TRUE /\ db = NoDb /\ dump = db
    /\ conf = [f \in Files |-> NoDb] /\ secret = 1
    /\ plugged = 1 /\ backup = NoBackup /\ mounted = FALSE /\ under = NoBackup
    /\ pc = [i \in Calls |-> "done"] /\ call = [i \in Calls |-> Idle]
    /\ res = [i \in Calls |-> Ok] /\ copy = [i \in Calls |-> NoDb] /\ job = [i \in Calls |-> NoJob]
    /\ reboots = FALSE /\ nCalls = 0 /\ faults = 0
    /\ first = [i \in Calls |-> Ok] /\ disturbed = {}
    /\ sure = [k \in Keys |-> Unsure] /\ stale = {} /\ left = FALSE /\ gambled = FALSE

Active == {i \in Calls : pc[i] # "done"}
InFlash == {i \in Active : call[i].op \in Flash}
Goto(i, l) == pc' = [pc EXCEPT ![i] = l]
Fault == faults < MaxFaults /\ faults' = faults + 1

\* handleBBBScriptErrorCode: the script's last line, if it is one of the expected codes.
Handled(code, possible) == IF code \in possible THEN code ELSE Unexpected

\* A script of call i reports r; the call goes on at l.
Report(i, r, l) ==
    /\ Goto(i, l)
    /\ res' = [res EXCEPT ![i] = r]
    /\ first' = [first EXCEPT ![i] = IF @ = Ok THEN r ELSE @]

\* Enabling clearnet may run `bbb-config.sh enable tor` first.
NeedsTor(c) == c.op = "Set" /\ c.key = Clearnet /\ c.val = 1

\* The keys a call may write, and with those that show in the files it generates.
Touched(c) ==
    CASE c.op = "RestoreSysconfig" -> Keys
      [] c.op \in {"Set", "BackupHSMSecret"} -> {c.key} \cup {k \in {"tor"} : NeedsTor(c)}
      [] OTHER -> {}
Uses(c) == Touched(c) \cup {x \in Keys : \E k \in Touched(c) : \E f \in FilesOf(k) : x \in Mentions(f)}

\* One call writes a key that the other writes or copies to a file, or replaces Redis' file.
InTheWay(c, d) ==
    \/ c.op = "RestoreSysconfig" \/ d.op = "RestoreSysconfig"
    \/ Touched(c) \cap Uses(d) # {} \/ Touched(d) \cap Uses(c) # {}

--------------------------------------------------------------------------------
\* rpcserver.go: a call is executed if its token is valid.

\* The first script or command of an RPC.
Start(c) == CASE NeedsTor(c) -> "prior"
              [] c.op = "Set" /\ ~NeedsTor(c) -> "set"
              [] c.op \in Flash -> "check"
              [] OTHER -> "secret"

Call(i, c) ==
    /\ i \notin Active /\ nCalls < MaxCalls
    /\ nCalls' = nCalls + 1
    /\ call' = [call EXCEPT ![i] = c]
    /\ job' = [job EXCEPT ![i] = [key |-> c.key, at |-> 1]]
    /\ Goto(i, Start(c))
    /\ res' = [res EXCEPT ![i] = Ok] /\ first' = [first EXCEPT ![i] = Ok]
    /\ LET others == {j \in Active : InTheWay(call[j], c)} IN
       disturbed' = (disturbed \ {i}) \cup others
                    \cup (IF others # {} \/ ~redis THEN {i} ELSE {})
    /\ sure' = [k \in Keys |-> IF k \in Touched(c) THEN Unsure ELSE sure[k]]
    /\ UNCHANGED <<store, conf, secret, drive, copy, reboots, faults, stale, left, gambled>>

\* formulateJWTError.
Deny(i) ==
    /\ i \notin Active /\ nCalls < MaxCalls
    /\ nCalls' = nCalls + 1
    /\ call' = [call EXCEPT ![i] = Idle]
    /\ res' = [res EXCEPT ![i] = "JSONWEBTOKEN_INVALID"]
    /\ first' = [first EXCEPT ![i] = "JSONWEBTOKEN_INVALID"]
    /\ UNCHANGED <<store, conf, secret, drive, pc, copy, job, reboots, faults, disturbed, sure,
                   stale, left, gambled>>

\* The call returns success and nobody was in its way: its result can be relied on.
Promise(i, k, v) ==
    sure' = IF i \in disturbed THEN sure ELSE [sure EXCEPT ![k] = v]

--------------------------------------------------------------------------------
\* bbb-config.sh.

\* redis_set: SET and SAVE; without Redis the script goes on.
RedisSet(k, v) ==
    IF redis
    THEN db' = [db EXCEPT ![k] = v] /\ dump' = db'
    ELSE UNCHANGED <<db, dump>>

\* enable bitcoin_ibd_clearnet: Tor comes first if it is disabled.  Without Redis, redis_get
\* answers -1.
EnableTorFirst(i) ==
    /\ pc[i] = "prior"
    /\ job' = [job EXCEPT ![i].key = IF redis /\ db["tor"] = 0 THEN "tor" ELSE @]
    /\ Goto(i, "set")
    /\ UNCHANGED <<store, conf, secret, drive, call, res, copy, count, hist>>

\* The value that the command in progress sets.
Value(i) == IF job[i].key = call[i].key THEN call[i].val ELSE 1

\* The command for one setting is through: the call returns, or goes on after `enable tor`.
CommandEnds(i) ==
    IF job[i].key = call[i].key
    THEN Report(i, Ok, "done") /\ Promise(i, call[i].key, call[i].val) /\ UNCHANGED job
    ELSE /\ job' = [job EXCEPT ![i] = [key |-> call[i].key, at |-> 1]]
         /\ Goto(i, "set") /\ UNCHANGED <<res, first, sure>>

\* enable and disable.
SetKey(i) == LET k == job[i].key IN
    /\ pc[i] = "set" /\ Generates(k) # <<>>
    /\ RedisSet(k, Value(i))
    /\ Goto(i, "read")
    /\ UNCHANGED <<redis, conf, secret, drive, call, res, copy, job, count, hist>>

\* set hostname with a valid name, where a failure to tell the HSM is only logged, and enable
\* or disable bitcoin_services: no file is generated.
SetHostname(i) == LET k == job[i].key IN
    /\ pc[i] = "set" /\ Generates(k) = <<>>
    /\ RedisSet(k, Value(i))
    /\ CommandEnds(i)
    /\ UNCHANGED <<redis, conf, secret, drive, call, copy, count, disturbed, stale, left,
                   gambled>>

\* generateConfig: bbbconfgen needs Redis, reads the keys and then writes the whole file.
ReadKeys(i) ==
    /\ pc[i] = "read"
    /\ IF redis
       THEN Goto(i, "write") /\ copy' = [copy EXCEPT ![i] = db] /\ UNCHANGED <<res, first>>
       ELSE Report(i, Unexpected, "done") /\ UNCHANGED copy
    /\ UNCHANGED <<store, conf, secret, drive, call, job, count, disturbed, sure, stale, left,
                   gambled>>

\* The file that call i generates, and what it says after values were read.
File(i) == Generates(job[i].key)[job[i].at]
Rendered(f, values) == [k \in Keys |-> IF k \in Mentions(f) THEN values[k] ELSE 0]

WriteConfig(i) ==
    /\ pc[i] = "write"
    /\ conf' = [conf EXCEPT ![File(i)] = Rendered(File(i), copy[i])]
    /\ copy' = [copy EXCEPT ![i] = NoDb]
    /\ stale' = stale \ {File(i)}
    /\ IF job[i].at < Len(Generates(job[i].key))
       THEN job' = [job EXCEPT ![i].at = @ + 1] /\ Goto(i, "read")
       ELSE UNCHANGED job /\ Goto(i, "service")
    /\ UNCHANGED <<store, secret, drive, call, res, count, first, disturbed, sure, left,
                   gambled>>

\* systemctl restart.
RestartService(i) ==
    /\ pc[i] = "service"
    /\ IF job[i].key = "tor"
       THEN Goto(i, "again") /\ UNCHANGED <<job, res, first, sure>>
       ELSE CommandEnds(i)
    /\ UNCHANGED <<store, conf, secret, drive, call, copy, count, disturbed, stale, left,
                   gambled>>

\* tor:base:enabled is set a second time at the end.
SetKeyAgain(i) ==
    /\ pc[i] = "again"
    /\ RedisSet(job[i].key, Value(i))
    /\ CommandEnds(i)
    /\ UNCHANGED <<redis, conf, secret, drive, call, copy, count, disturbed, stale, left,
                   gambled>>

--------------------------------------------------------------------------------
\* BackupSysconfig and RestoreSysconfig: bbb-cmd.sh flashdrive, backup, restore.

rest == <<store, conf, secret, call, copy, job, count, disturbed, sure, stale, gambled>>

CheckDrive(i) ==
    /\ pc[i] = "check"
    /\ LET code == IF plugged = 0 THEN "FLASHDRIVE_CHECK_NONE" ELSE "FLASHDRIVE_CHECK_MULTI" IN
       IF plugged = 1
       THEN Goto(i, "mount") /\ UNCHANGED <<res, first>>
       ELSE Report(i, Handled(code, {"FLASHDRIVE_CHECK_NONE", "FLASHDRIVE_CHECK_MULTI"}), "done")
    /\ UNCHANGED <<rest, drive, left>>

\* A mountpoint in use is to be unmounted first.
CheckMountpoint(i) ==
    /\ pc[i] = "mount"
    /\ IF plugged = 0
       THEN Report(i, Handled("FLASHDRIVE_MOUNT_NOT_FOUND", {"FLASHDRIVE_MOUNT_NOT_FOUND"}), "done")
       ELSE Goto(i, IF mounted THEN "umount" ELSE "remount") /\ UNCHANGED <<res, first>>
    /\ UNCHANGED <<rest, drive, left>>

\* umount before the mount fails if the drive was unmounted meanwhile.
UmountFirst(i) ==
    /\ pc[i] = "umount"
    /\ IF mounted
       THEN Goto(i, "remount") /\ UNCHANGED <<res, first>>
       ELSE Report(i, Unexpected, "done")
    /\ mounted' = FALSE /\ left' = FALSE
    /\ UNCHANGED <<rest, plugged, backup, under>>

\* mount fails if another call was faster.
Mount(i) ==
    /\ pc[i] = "remount"
    /\ IF mounted \/ plugged = 0
       THEN Report(i, Unexpected, "done") /\ UNCHANGED mounted
       ELSE mounted' = TRUE /\ Goto(i, "copy") /\ UNCHANGED <<res, first>>
    /\ UNCHANGED <<rest, plugged, backup, under, left>>

\* backup sysconfig: is /mnt/backup a mountpoint?
CheckBackup(i) ==
    /\ pc[i] = "copy" /\ call[i].op = "BackupSysconfig"
    /\ IF mounted
       THEN Goto(i, "dump") /\ UNCHANGED <<res, first>>
       ELSE Report(i, Handled("BACKUP_SYSCONFIG_NOT_A_MOUNTPOINT",
                              {"BACKUP_SYSCONFIG_NOT_A_MOUNTPOINT"}), "unmount")
    /\ UNCHANGED <<rest, drive, left>>

\* cp of the dump file, not of what Redis holds: to the drive, or to the directory below if
\* it was unmounted meanwhile.
BackupDump(i) ==
    /\ pc[i] = "dump"
    /\ IF mounted /\ plugged = 0
       THEN Report(i, Unexpected, "unmount") /\ UNCHANGED <<backup, under>>
       ELSE /\ backup' = (IF mounted THEN dump ELSE backup)
            /\ under' = (IF mounted THEN under ELSE dump)
            /\ Report(i, Ok, "unmount")
    /\ UNCHANGED <<rest, plugged, mounted, left>>

\* What /mnt/backup/bbb-backup.rdb is.
TheFile == IF mounted THEN (IF plugged = 0 THEN NoBackup ELSE backup) ELSE under
FileFound == TheFile # NoBackup

\* Mutant of FindBackup: an early return before the unmount was deferred.
FindBackupReturns(i) ==
    /\ pc[i] = "copy" /\ call[i].op = "RestoreSysconfig"
    /\ IF FileFound
       THEN Goto(i, "stop") /\ UNCHANGED <<res, first>>
       ELSE Report(i, "RESTORE_SYSCONFIG_BACKUP_NOT_FOUND", "done")
    /\ UNCHANGED <<rest, drive, left>>

\* [ -f /mnt/backup/bbb-backup.rdb ].
FindBackup(i) ==
    /\ pc[i] = "copy" /\ call[i].op = "RestoreSysconfig"
    /\ IF FileFound
       THEN Goto(i, "stop") /\ UNCHANGED <<res, first>>
       ELSE Report(i, Handled("RESTORE_SYSCONFIG_BACKUP_NOT_FOUND",
                              {"RESTORE_SYSCONFIG_BACKUP_NOT_FOUND"}), "unmount")
    /\ UNCHANGED <<rest, drive, left>>

\* Redis saves its memory when it is stopped.
StopRedis(i) ==
    /\ pc[i] = "stop"
    /\ redis' = FALSE /\ dump' = IF redis THEN db ELSE dump
    /\ Goto(i, "load")
    /\ UNCHANGED <<db, conf, secret, drive, call, res, copy, job, count, hist>>

\* A failing cp ends the script with Redis stopped.
LoadBackup(i) ==
    /\ pc[i] = "load"
    /\ IF FileFound
       THEN /\ dump' = TheFile /\ copy' = [copy EXCEPT ![i] = TheFile]
            /\ Goto(i, "start") /\ UNCHANGED <<res, first>>
       ELSE Report(i, Unexpected, "unmount") /\ UNCHANGED <<dump, copy>>
    /\ UNCHANGED <<redis, db, conf, secret, drive, call, job, count, disturbed, sure, stale, left,
                   gambled>>

\* The configuration files are not generated anew.
StartRedis(i) ==
    /\ pc[i] = "start"
    /\ redis' = TRUE /\ db' = IF redis THEN db ELSE dump
    /\ stale' = Files
    /\ sure' = IF i \in disturbed THEN sure ELSE copy[i]
    /\ copy' = [copy EXCEPT ![i] = NoDb]
    /\ Report(i, Ok, "unmount")
    /\ UNCHANGED <<dump, conf, secret, drive, call, job, count, disturbed, left, gambled>>

\* Mutant of Unmounted: the response of the deferred unmount always counts.
UnmountedOverwrites(i, r) == Report(i, r, "done")

\* The response of the deferred unmount counts only after a success.
Unmounted(i, r) == Report(i, IF res[i] = Ok THEN r ELSE res[i], "done")

\* The deferred unmount.
CheckMounted(i) ==
    /\ pc[i] = "unmount"
    /\ IF mounted
       THEN Goto(i, "release") /\ UNCHANGED <<res, first>>
       ELSE Unmounted(i, Handled("FLASHDRIVE_UNMOUNT_NOT_MOUNTED",
                                 {"FLASHDRIVE_UNMOUNT_NOT_MOUNTED"}))
    /\ UNCHANGED <<rest, drive, left>>

\* umount fails if another call was faster.
Unmount(i) ==
    /\ pc[i] = "release"
    /\ Unmounted(i, IF mounted THEN Ok ELSE Unexpected)
    /\ mounted' = FALSE /\ left' = FALSE
    /\ UNCHANGED <<rest, plugged, backup, under>>

--------------------------------------------------------------------------------
\* The Lightning secret, and the Base.

\* Mutant of BackupHSMSecret: the file is looked for in the wrong place, and base64's error
\* is lost in the argument.
BackupHSMSecretEmpty(i) ==
    /\ pc[i] = "secret" /\ call[i].op = "BackupHSMSecret"
    /\ IF redis
       THEN /\ db' = [db EXCEPT !["hsm"] = 0]
            /\ Report(i, Ok, "done") /\ Promise(i, "hsm", secret)
       ELSE Report(i, Unexpected, "done") /\ UNCHANGED <<db, sure>>
    /\ UNCHANGED <<redis, dump, conf, secret, drive, call, copy, job, count, disturbed, stale,
                   left, gambled>>

\* redis-cli SET without SAVE.
BackupHSMSecret(i) ==
    /\ pc[i] = "secret" /\ call[i].op = "BackupHSMSecret"
    /\ IF redis
       THEN /\ db' = [db EXCEPT !["hsm"] = secret]
            /\ Report(i, Ok, "done") /\ Promise(i, "hsm", secret)
       ELSE Report(i, Unexpected, "done") /\ UNCHANGED <<db, sure>>
    /\ UNCHANGED <<redis, dump, conf, secret, drive, call, copy, job, count, disturbed, stale,
                   left, gambled>>

\* redis-cli GET | base64 -d > hsm_secret: the status of redis-cli is lost in the pipe.
RestoreHSMSecret(i) ==
    /\ pc[i] = "secret" /\ call[i].op = "RestoreHSMSecret"
    /\ secret' = IF redis THEN db["hsm"] ELSE 0
    /\ gambled' = (gambled \/ sure["hsm"] # 1)
    /\ Report(i, Ok, "done")
    /\ UNCHANGED <<store, conf, drive, call, copy, job, count, disturbed, sure, stale, left>>

\* RebootBase, ShutdownBase: success is returned, the command follows 5 s later.
RebootBase(i) ==
    /\ pc[i] = "secret" /\ call[i].op = "RebootBase"
    /\ reboots' = TRUE
    /\ Report(i, Ok, "done")
    /\ UNCHANGED <<store, conf, secret, drive, call, copy, job, nCalls, faults, disturbed, sure,
                   stale, left, gambled>>

\* Everything that ran under the middleware is gone, scripts included.
Cut ==
    /\ pc' = [i \in Calls |-> "done"] /\ call' = [i \in Calls |-> Idle]
    /\ res' = [i \in Calls |-> Ok] /\ copy' = [i \in Calls |-> NoDb]
    /\ job' = [i \in Calls |-> NoJob]
    /\ first' = [i \in Calls |-> Ok] /\ disturbed' = {}

\* The Base goes down in order, or loses power, and comes up again; with an overlay root
\* filesystem, a file below the mountpoint is forgotten.
BaseRestarts(orderly) ==
    /\ Cut
    /\ IF orderly THEN reboots /\ UNCHANGED faults ELSE Fault
    /\ redis' = TRUE /\ reboots' = FALSE
    /\ db' = IF orderly /\ redis THEN db ELSE dump
    /\ dump' = db'
    /\ sure' = IF orderly THEN sure ELSE [sure EXCEPT !["hsm"] = Unsure]
    /\ mounted' = FALSE /\ left' = FALSE /\ under' \in {under, NoBackup}
    /\ UNCHANGED <<conf, secret, plugged, backup, nCalls, stale, gambled>>

MiddlewareRestarts ==
    /\ Cut /\ Fault
    /\ left' = (left \/ mounted)
    /\ reboots' = FALSE
    /\ UNCHANGED <<store, conf, secret, drive, nCalls, sure, stale, gambled>>

\* A command of bbb-config.sh or bbb-cmd.sh fails, or the script does not start, and set -e
\* ends it.  The scripts before the mount end the call, the ones after it are followed by the
\* deferred unmount, and if that fails the drive stays mounted.
CommandFails(i) ==
    /\ Fault
    /\ \/ /\ \/ pc[i] \in {"prior", "set", "read", "write", "service", "again"}
             \/ pc[i] \in {"check", "mount", "umount", "remount"}
             \/ pc[i] = "secret" /\ call[i].op # "RebootBase"
          /\ Report(i, Unexpected, "done") /\ UNCHANGED left
       \/ /\ pc[i] \in {"copy", "dump", "stop", "load", "start"}
          /\ Report(i, Unexpected, "unmount") /\ UNCHANGED left
       \/ /\ pc[i] \in {"unmount", "release"}
          /\ Unmounted(i, Unexpected) /\ left' = mounted
    /\ UNCHANGED <<store, conf, secret, drive, call, copy, job, reboots, nCalls, disturbed, sure,
                   stale, gambled>>

\* save 60 1.
RedisSaves ==
    /\ redis /\ dump # db /\ dump' = db
    /\ UNCHANGED <<redis, db, conf, secret, drive, calls, count, hist>>

Plug(n) ==
    /\ plugged # n /\ Fault /\ plugged' = n
    /\ UNCHANGED <<store, conf, secret, backup, mounted, under, calls, reboots, nCalls, hist>>

Step(i) ==
    \/ EnableTorFirst(i) \/ SetKey(i) \/ SetHostname(i) \/ ReadKeys(i) \/ WriteConfig(i)
    \/ RestartService(i) \/ SetKeyAgain(i)
    \/ CheckDrive(i) \/ CheckMountpoint(i) \/ UmountFirst(i) \/ Mount(i)
    \/ CheckBackup(i) \/ BackupDump(i) \/ FindBackup(i)
    \/ StopRedis(i) \/ LoadBackup(i) \/ StartRedis(i) \/ CheckMounted(i) \/ Unmount(i)
    \/ BackupHSMSecret(i) \/ RestoreHSMSecret(i) \/ RebootBase(i)

Next ==
    \/ \E i \in Calls : Step(i) \/ CommandFails(i) \/ Deny(i) \/ \E c \in Requests : Call(i, c)
    \/ \E orderly \in BOOLEAN : BaseRestarts(orderly)
    \/ MiddlewareRestarts \/ RedisSaves
    \/ \E n \in 0..2 : Plug(n)

Spec == Init /\ [][Next]_vars

--------------------------------------------------------------------------------
\* Properties.

\* "returns a ErrorResponse indicating if the call was successful": what a setting, a
\* backup of the secret or a restore confirmed is what Redis holds, for settings what a
\* power loss leaves, and what every file generated for it says, though other settings'
\* commands generate the same files, unless a restore, which generates none, came last; as
\* long as no other call was in the way and none that writes the key came after it.
ConfirmedLasts ==
    \A k \in Keys : sure[k] # Unsure =>
        /\ db[k] = sure[k]
        /\ k # "hsm" => dump[k] = sure[k]
        /\ \A f \in FilesOf(k) \ stale : conf[f][k] = sure[k]

\* "It's crucial that mounted flashdrives get unmounted": with calls in any order, the
\* drive is mounted only while a call works on it, or after one was cut off or its umount
\* failed.
DriveIsReleased == mounted => InFlash # {} \/ left

\* The first error of a call's scripts is the one returned; the deferred unmount does not
\* replace it, and its own error is not hidden by a successful copy.
FirstErrorIsReturned == \A i \in Calls : pc[i] = "done" => res[i] = first[i]

\* hsm_secret is emptied only by a restore without a confirmed backup in force.
SecretIsKept == secret = 1 \/ gambled

\* "redis-cli causes script to terminate when Redis not available": a restore of the secret
\* does not succeed while Redis is away.
RestoreNeedsRedis == [][\A i \in Calls : RestoreHSMSecret(i) /\ res'[i] = Ok => redis]_vars
================================================================================
