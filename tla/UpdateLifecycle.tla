--------------------------- MODULE UpdateLifecycle ---------------------------
(***************************************************************************)
(* An update of the Base image across reboots: bbb-cmd.sh mender-update    *)
(* (install and commit), systemd-update-checks.sh, which runs at every     *)
(* boot and carries an update through, and the Redis key base:updating     *)
(* that both use to remember how far it got.  The key is on the data       *)
(* partition and survives reboots and rollbacks of the root filesystem.    *)
(*                                                                         *)
(* External, modelled from how the scripts use it: the Mender client and   *)
(* the bootloader.  `mender -install` writes an image to the inactive root *)
(* filesystem and makes the bootloader boot it once; it refuses while an   *)
(* update is not committed.  `mender -commit` fails when there is nothing  *)
(* to commit.  A boot of an image that was not committed in its first      *)
(* run goes back to the previous one.                                      *)
(***************************************************************************)
EXTENDS Integers

CONSTANTS
    MaxInstalls,   \* bound on installed images
    MaxTries,      \* tries of the service verification (100 in the script)
    Faults         \* what may go wrong at all, a subset of AllFaults

AllFaults == {
    "verify",    \* services are not all active
    "boot",      \* a new image does not boot
    "commit",    \* mender -commit fails though there is something to commit
    "abort",     \* a command fails and `set -e` ends the script
    "redis",     \* Redis is unavailable: redis_get gives -1, redis_set nothing
    "crash",     \* power loss or reboot at any point, except in "torn"
    "torn",      \* power loss, or no Redis, between mender -install and redis_set
    "overlap" }  \* an install runs while the boot script does

ASSUME LifecycleAssumption ==
    /\ MaxInstalls \in Nat
    /\ MaxTries \in Nat \ {0}
    /\ Faults \subseteq AllFaults

Codes  == {0, 10, 20, 30, 40, 90}
Images == 0 .. MaxInstalls

VARIABLES
    faults,     \* what may go wrong in this behaviour
    updating,   \* Redis key base:updating
    active,     \* image in the root filesystem that is running
    inactive,   \* image in the other root filesystem
    upgrade,    \* bootloader: "none", "installed" (boot inactive once), "trial"
    pc,         \* where systemd-update-checks.sh is
    tries,      \* `run` of its verification loop
    installer,  \* where bbb-cmd.sh mender-update install is
    target,     \* the image installed last
    notice,     \* last mender-update notification about target
    verified    \* history: images the boot script has verified

slots  == <<active, inactive, upgrade>>
script == <<pc, tries>>
vars   == <<faults, updating, slots, script, installer, target, notice, verified>>

TypeOK ==
    /\ faults \subseteq Faults
    /\ updating \in Codes
    /\ active \in Images /\ inactive \in Images
    /\ upgrade \in {"none", "installed", "trial"}
    /\ pc \in {"start", "at10", "set20", "at20", "verify", "set30", "fallback",
               "at30", "set40", "again40", "at40", "startup", "done"}
    /\ tries \in 0 .. MaxTries
    /\ installer \in {"idle", "mender", "set10", "reboot"}
    /\ target \in Images
    /\ notice \in {"none", "success", "failure"}
    /\ verified \subseteq Images

\* A factory image, which counts as verified, is running, and the
\* factory settings have set the key to 0.
Init ==
    /\ faults \in SUBSET Faults
    /\ updating = 0
    /\ active = 0 /\ inactive = 0 /\ upgrade = "none"
    /\ pc = "start" /\ tries = 0
    /\ installer = "idle"
    /\ target = 0 /\ notice = "none"
    /\ verified = {0}

-----------------------------------------------------------------------------
\* redis_set: an error is printed and ignored.
RedisSet(v) == updating' = v \/ ("redis" \in faults /\ UNCHANGED updating)

\* A test of the key: IsSet(v) and IsNotSet(v) are its outcomes.
IsSet(v)    == updating = v
IsNotSet(v) == updating # v \/ "redis" \in faults

\* A step of the boot script from l to m that leaves all else to its caller.
Goes(l, m) == pc = l /\ pc' = m

Others == UNCHANGED <<slots, tries, installer, target, notice, verified>>

\* redis_require, the test for an unset key, which compares what redis_get
\* gives (-1) with the empty string and never succeeds, and the test for 0.
NotUpdating  == Goes("start", "done") /\ IsSet(0) /\ UNCHANGED updating /\ Others
NoRedis      == Goes("start", "done") /\ "redis" \in faults /\ UNCHANGED updating /\ Others
UpdateChecks == Goes("start", "at10") /\ IsNotSet(0) /\ UNCHANGED updating /\ Others

\* Mutant of Reconfigure: the image is committed once it is configured.
ReconfigureAndCommit ==
    /\ Goes("at10", "set20") /\ IsSet(10)
    /\ upgrade' = "none"
    /\ UNCHANGED <<updating, active, inactive, tries, installer, target, notice, verified>>

\* At 10: configuration files are regenerated and services restarted.
Reconfigure == Goes("at10", "set20") /\ IsSet(10) /\ UNCHANGED updating /\ Others
Skip10      == Goes("at10", "at20") /\ IsNotSet(10) /\ UNCHANGED updating /\ Others
Set20       == Goes("set20", "at20") /\ RedisSet(20) /\ Others

\* At 20: services are verified, MaxTries times at most.
StartVerify ==
    /\ Goes("at20", "verify") /\ IsSet(20)
    /\ tries' = 1
    /\ UNCHANGED <<updating, slots, installer, target, notice, verified>>

Skip20 == Goes("at20", "at30") /\ IsNotSet(20) /\ UNCHANGED updating /\ Others

VerifyOk ==
    /\ Goes("verify", "set30")
    /\ verified' = verified \cup {active}
    /\ UNCHANGED <<updating, slots, tries, installer, target, notice>>

VerifyRetry ==
    /\ Goes("verify", "verify") /\ "verify" \in faults
    /\ tries < MaxTries /\ tries' = tries + 1
    /\ UNCHANGED <<updating, slots, installer, target, notice, verified>>

\* Mutant of VerifyFails: after the last try the loop just ends with success.
VerifyGivesUp ==
    /\ Goes("verify", "set30") /\ "verify" \in faults
    /\ tries = MaxTries
    /\ UNCHANGED updating /\ Others

VerifyFails ==
    /\ Goes("verify", "fallback") /\ "verify" \in faults
    /\ tries = MaxTries
    /\ RedisSet(90) /\ Others

Set30 == Goes("set30", "at30") /\ RedisSet(30) /\ Others

\* At 30: mender-update commit, which sets 40 itself before the script does.
Commit ==
    /\ Goes("at30", "set40") /\ IsSet(30)
    /\ upgrade = "trial" /\ upgrade' = "none"
    /\ UNCHANGED <<updating, active, inactive, tries, installer, target, notice, verified>>

\* Mutants of CommitFails: its exit status is ignored; it is not announced.
CommitFailsIgnored ==
    /\ Goes("at30", "set40") /\ IsSet(30)
    /\ upgrade # "trial" \/ "commit" \in faults
    /\ UNCHANGED updating /\ Others

CommitFailsSilently ==
    /\ Goes("at30", "at40") /\ IsSet(30)
    /\ upgrade # "trial" \/ "commit" \in faults
    /\ UNCHANGED updating /\ Others

CommitFails ==
    /\ Goes("at30", "at40") /\ IsSet(30)
    /\ upgrade # "trial" \/ "commit" \in faults
    /\ notice' = "failure"
    /\ UNCHANGED <<updating, slots, tries, installer, target, verified>>

Skip30     == Goes("at30", "at40") /\ IsNotSet(30) /\ UNCHANGED updating /\ Others
Set40      == Goes("set40", "again40") /\ RedisSet(40) /\ Others
SetAgain40 == Goes("again40", "at40") /\ RedisSet(40) /\ Others

\* At 40: the update is over, startup tasks are run again.  The SSH settings
\* that are reset here have no part in the model.
Set0   == Goes("at40", "startup") /\ IsSet(40) /\ RedisSet(0) /\ Others
Skip40 == Goes("at40", "done") /\ IsNotSet(40) /\ UNCHANGED updating /\ Others

\* Mutant of Succeed: the payload of the failure notification.
SucceedAnnouncesFailure ==
    /\ Goes("startup", "done")
    /\ notice' = "failure"
    /\ UNCHANGED <<updating, slots, tries, installer, target, verified>>

Succeed ==
    /\ Goes("startup", "done")
    /\ notice' = "success"
    /\ UNCHANGED <<updating, slots, tries, installer, target, verified>>

\* Mutant of Abort: a trap clears the key.
AbortClearsKey ==
    /\ "abort" \in faults
    /\ pc \in {"at10", "set30", "startup"} /\ pc' = "done"
    /\ updating' = 0 /\ Others

\* A command that is not guarded by || or if fails: the script just ends.
Abort ==
    /\ "abort" \in faults
    /\ \/ pc = "at10" /\ IsSet(10)
       \/ pc = "set30"
       \/ pc = "startup"
    /\ pc' = "done"
    /\ UNCHANGED updating /\ Others

-----------------------------------------------------------------------------
\* The bootloader chooses the root filesystem, and the boot script starts.
Swap == active' = inactive /\ inactive' = active

Boot ==
    /\ pc' = "start" /\ tries' = 0 /\ installer' = "idle"
    /\ \/ upgrade = "none" /\ UNCHANGED slots
       \/ upgrade = "installed" /\ Swap /\ upgrade' = "trial"
       \/ /\ upgrade = "installed" /\ "boot" \in faults
          /\ upgrade' = "none" /\ UNCHANGED <<active, inactive>>
       \/ upgrade = "trial" /\ Swap /\ upgrade' = "none"
    /\ UNCHANGED <<updating, target, verified>>

\* After the last failed verification: notification, then `reboot`.
Fallback    == pc = "fallback" /\ Boot /\ notice' = "failure"
RebootAfter == installer = "reboot" /\ Boot /\ UNCHANGED notice
PowerCycle  ==
    /\ "crash" \in faults
    /\ installer # "set10" \/ "torn" \in faults
    /\ Boot /\ UNCHANGED notice

-----------------------------------------------------------------------------
\* bbb-cmd.sh mender-update install, as the middleware runs it.
\* The boot script has long looked at the key for the first time when an app
\* can ask the middleware for an update.
Install(from, to) == installer = from /\ installer' = to

BeginInstall ==
    /\ Install("idle", "mender")
    /\ target < MaxInstalls
    /\ pc = "done" \/ (pc # "start" /\ "overlap" \in faults)
    /\ UNCHANGED <<updating, slots, script, target, notice, verified>>

MenderInstall ==
    /\ Install("mender", "set10")
    /\ target < MaxInstalls
    /\ upgrade = "none" /\ upgrade' = "installed"
    /\ inactive' = target + 1 /\ target' = target + 1
    /\ notice' = "none"
    /\ UNCHANGED <<updating, active, script, verified>>

MenderInstallFails ==
    /\ Install("mender", "idle")
    /\ UNCHANGED <<updating, slots, script, target, notice, verified>>

Set10 ==
    /\ Install("set10", "reboot")
    /\ updating' \in {10} \cup (IF {"redis", "torn"} \subseteq faults THEN {updating} ELSE {})
    /\ UNCHANGED <<slots, script, target, notice, verified>>

-----------------------------------------------------------------------------
Script ==
    \/ NotUpdating \/ NoRedis \/ UpdateChecks
    \/ Reconfigure \/ Skip10 \/ Set20
    \/ StartVerify \/ Skip20 \/ VerifyOk \/ VerifyRetry \/ VerifyFails \/ Set30
    \/ Commit \/ CommitFails \/ Skip30 \/ Set40 \/ SetAgain40
    \/ Set0 \/ Skip40 \/ Succeed \/ Abort \/ Fallback

Installer == MenderInstall \/ MenderInstallFails \/ Set10 \/ RebootAfter

Next == (Script \/ BeginInstall \/ Installer \/ PowerCycle) /\ UNCHANGED faults

\* The script and an install that was begun run to their end, and the
\* middleware reboots after an install.  Installs and power cycles just happen.
Fairness == WF_vars(Script /\ UNCHANGED faults) /\ WF_vars(Installer /\ UNCHANGED faults)

Spec     == Init /\ [][Next]_vars
FairSpec == Spec /\ Fairness

-----------------------------------------------------------------------------
\* The image the bootloader goes back to when nothing more is done.
Committed == IF upgrade = "trial" THEN inactive ELSE active

\* No image becomes the permanent one that did not pass the verification of
\* its services (systemd-update-checks.sh:91-100 before :122-125): an update
\* "either succeeds in full (including custom application tests), or not at
\* all" (docs/update/update-method.md:30).
CommittedWasVerified == Committed \in verified

\* The app is told of a success only when the new image is running and will
\* be booted again.
SuccessIsReal ==
    notice = "success" => active = target /\ upgrade = "none" /\ target \in verified

\* The app is told of a failure only when the new image is not committed: "In
\* case of failure, a full rollback is performed" (update-method.md:30).  The
\* one exception is a commit that was not recorded, by a power loss or an
\* absent Redis right after it (bbb-cmd.sh:451): the key stays at 30, and the
\* next boot commits again, fails and announces that.
FailureIsReal == notice = "failure" => Committed # target \/ updating = 30

\* An image on trial always has its update recorded in base:updating, as one
\* that is not over yet: the boot that tries it never takes it for a normal
\* boot (systemd-update-checks.sh:42) or a finished update (:134).
TrialIsKnown == upgrade = "trial" => updating \notin {0, 40}

\* A committed image is never lost: the image the Base would boot without any
\* further action changes only to the image that is being tried.
CommitsOnlyTrials ==
    [][Committed' # Committed => upgrade = "trial" /\ Committed' = target]_vars

\* The outcome of every installed image is announced, unless Redis or a
\* command of the script fails or the power goes: the script then ends early
\* and goes on only with the next boot, which nothing brings about.
OutcomeIsAnnounced ==
    upgrade = "installed" ~> notice # "none" \/ faults \cap {"abort", "redis", "crash"} # {}

Abstract ==
    INSTANCE AtomicUpdate WITH
        Image     <- Images,
        committed <- Committed,
        tried     <- IF upgrade = "trial" THEN active ELSE -1,
        tested    <- verified

\* The scripts, with the reboots between them, implement AtomicUpdate.
ImplementsAtomicUpdate == Abstract!Spec
=============================================================================
