----------------------- MODULE UpdateLifecycle_proofs -----------------------
(***************************************************************************)
(* Proofs about UpdateLifecycle, for any number of installs and tries.     *)
(***************************************************************************)
EXTENDS UpdateLifecycle, TLAPS

\* Steps of the boot script that touch nothing but its place and the key.
Plain ==
    \/ NotUpdating \/ NoRedis \/ UpdateChecks \/ Reconfigure \/ Skip10 \/ Set20
    \/ Skip20 \/ VerifyFails \/ Set30 \/ Skip30 \/ Set40 \/ SetAgain40 \/ Set0
    \/ Skip40 \/ Abort

\* Where the images are, whatever goes wrong: the image on trial, or about to
\* be, is the one that was installed last.
Slots ==
    /\ upgrade = "trial" => active = target
    /\ upgrade = "installed" => inactive = target

LEMMA PlainStep ==
    ASSUME TypeOK, Plain, UNCHANGED faults
    PROVE  /\ TypeOK'
           /\ UNCHANGED <<active, inactive, upgrade, tries, installer, target, notice, verified>>
  <1>1. /\ updating' \in Codes
        /\ pc' \in {"start", "at10", "set20", "at20", "verify", "set30", "fallback",
                    "at30", "set40", "again40", "at40", "startup", "done"}
        /\ UNCHANGED <<active, inactive, upgrade, tries, installer, target, notice, verified>>
    BY DEF TypeOK, Codes, Plain, NotUpdating, NoRedis, UpdateChecks, Reconfigure,
           Skip10, Set20, Skip20, VerifyFails, Set30, Skip30, Set40, SetAgain40,
           Set0, Skip40, Abort, Goes, RedisSet, Others, slots
  <1> QED
    BY <1>1 DEF TypeOK

LEMMA BootSlots ==
    ASSUME TypeOK, Slots, Boot
    PROVE  /\ active' \in Images /\ inactive' \in Images
           /\ upgrade' \in {"none", "trial"}
           /\ Slots' /\ Committed' = Committed
  BY DEF TypeOK, Slots, Boot, Swap, Committed, slots

LEMMA TypeStep == TypeOK /\ Slots /\ [Next]_vars => TypeOK' /\ Slots'
  <1> SUFFICES ASSUME TypeOK, Slots, [Next]_vars PROVE TypeOK' /\ Slots'
    OBVIOUS
  <1>0. faults' = faults
    BY DEF Next, vars
  <1> USE LifecycleAssumption, <1>0
  <1>1. CASE Plain
    BY <1>1, PlainStep DEF Slots
  <1>2. CASE StartVerify \/ VerifyOk \/ VerifyRetry
    BY <1>2 DEF StartVerify, VerifyOk, VerifyRetry, Goes, TypeOK, Slots, slots
  <1>3. CASE Commit \/ CommitFails \/ Succeed
    BY <1>3 DEF Commit, CommitFails, Succeed, Goes, TypeOK, Slots, slots
  <1>4. CASE Fallback \/ RebootAfter \/ PowerCycle
    <2>1. Boot
      BY <1>4 DEF Fallback, RebootAfter, PowerCycle
    <2>2. notice' \in {"none", "success", "failure"}
      BY <1>4 DEF TypeOK, Fallback, RebootAfter, PowerCycle
    <2>3. /\ updating' \in Codes /\ pc' = "start" /\ tries' = 0 /\ installer' = "idle"
          /\ target' \in Images /\ verified' \subseteq Images
      BY <2>1 DEF Boot, TypeOK
    <2> QED
      BY <2>1, <2>2, <2>3, BootSlots DEF TypeOK
  <1>5. CASE BeginInstall \/ MenderInstallFails \/ Set10
    BY <1>5 DEF BeginInstall, MenderInstallFails, Set10, Install, TypeOK, Slots,
                slots, script, Codes
  <1>6. CASE MenderInstall
    <2>1. target + 1 \in Images
      BY <1>6 DEF MenderInstall, TypeOK, Images
    <2> QED
      BY <1>6, <2>1 DEF MenderInstall, Install, TypeOK, Slots, script
  <1>7. CASE UNCHANGED vars
    BY <1>7 DEF vars, slots, script, TypeOK, Slots
  <1> QED
    BY <1>1, <1>2, <1>3, <1>4, <1>5, <1>6, <1>7 DEF Next, Script, Installer, Plain

\* The key, the place in the script, the bootloader and the notifications
\* have the values they should, whatever fails (systemd-update-checks.sh,
\* bbb-cmd.sh mender-update).
THEOREM TypeCorrect == Spec => [](TypeOK /\ Slots)
  <1>1. Init => TypeOK /\ Slots
    BY LifecycleAssumption DEF Init, TypeOK, Slots, Codes, Images
  <1> QED
    BY <1>1, TypeStep, PTL DEF Spec

\* The permanent image changes only by `mender -commit` of the image that is
\* running on trial, whatever fails and whenever the power goes.
THEOREM OnlyTrialsAreCommitted == Spec => CommitsOnlyTrials
  <1>1. TypeOK /\ Slots /\ [Next]_vars
          => [Committed' # Committed => upgrade = "trial" /\ Committed' = target]_vars
    <2> SUFFICES ASSUME TypeOK, Slots, Next, Committed' # Committed
                 PROVE  upgrade = "trial" /\ Committed' = target
      BY DEF Committed, vars, slots
    <2>1. CASE Plain
      BY <2>1, PlainStep DEF Committed, Next
    <2>2. CASE StartVerify \/ VerifyOk \/ VerifyRetry \/ CommitFails \/ Succeed
      BY <2>2 DEF StartVerify, VerifyOk, VerifyRetry, CommitFails, Succeed, slots, Committed
    <2>3. CASE Commit
      BY <2>3 DEF Commit, Slots, Committed
    <2>4. CASE Fallback \/ RebootAfter \/ PowerCycle
      BY <2>4, BootSlots DEF Fallback, RebootAfter, PowerCycle
    <2>5. CASE BeginInstall \/ MenderInstallFails \/ Set10
      BY <2>5 DEF BeginInstall, MenderInstallFails, Set10, slots, Committed
    <2>6. CASE MenderInstall
      BY <2>6 DEF MenderInstall, Committed
    <2> QED
      BY <2>1, <2>2, <2>3, <2>4, <2>5, <2>6 DEF Next, Script, Installer, Plain
  <1> QED
    BY <1>1, TypeCorrect, PTL DEF CommitsOnlyTrials, Spec

-----------------------------------------------------------------------------
\* The install script and the boot script do not run at the same time, and
\* the install is not cut between `mender -install` and redis_set.
Sound == "torn" \notin Faults /\ "overlap" \notin Faults

\* The target is running, committed and verified.
Updated == active = target /\ upgrade = "none" /\ target \in verified

(***************************************************************************)
(* The inductive invariant behind CommittedWasVerified: what the key and   *)
(* the place in the script tell about the image on trial.  The key is      *)
(* tied to the bootloader's state only because an install sets both.       *)
(***************************************************************************)
Exclusive ==
    /\ installer # "idle" => pc = "done"
    /\ upgrade = "installed" <=> installer \in {"set10", "reboot"}
    /\ installer = "reboot" => updating = 10

Fresh ==
    /\ verified \subseteq 0 .. target
    /\ active <= target /\ inactive <= target
    /\ upgrade = "installed" => target \notin verified

Trial ==
    upgrade = "trial" =>
        /\ updating \in {10, 20, 30, 90}
        /\ updating = 30 => active \in verified
        /\ pc \notin {"set40", "again40", "startup"}

Tested ==
    /\ Committed \in verified
    /\ pc = "set30" => active \in verified
    /\ updating = 40 /\ installer # "set10" => Updated
    /\ pc \in {"set40", "again40", "startup"} => Updated
    /\ notice = "success" => Updated

IInv == TypeOK /\ Slots /\ Exclusive /\ Fresh /\ Trial /\ Tested

LEMMA PlainIInv == Sound /\ IInv /\ Plain /\ UNCHANGED faults => IInv'
  <1> SUFFICES ASSUME Sound, IInv, Plain, UNCHANGED faults PROVE IInv'
    OBVIOUS
  <1>1. /\ TypeOK' /\ Slots'
        /\ UNCHANGED <<active, inactive, upgrade, tries, installer, target, notice, verified>>
    BY PlainStep DEF IInv, Slots
  <1>2. pc # "done"
    BY DEF Plain, NotUpdating, NoRedis, UpdateChecks, Reconfigure, Skip10, Set20,
           Skip20, VerifyFails, Set30, Skip30, Set40, SetAgain40, Set0, Skip40,
           Abort, Goes
  <1>3. Exclusive' /\ Fresh'
    BY <1>1, <1>2 DEF IInv, Exclusive, Fresh
  <1>4. Trial' /\ Tested'
    <2> USE <1>1, <1>2 DEF IInv, Exclusive, Trial, Tested, Updated, Committed,
                           Goes, RedisSet, IsSet, IsNotSet
    <2>1. CASE NotUpdating \/ NoRedis \/ UpdateChecks \/ Reconfigure \/ Skip10
      BY <2>1 DEF NotUpdating, NoRedis, UpdateChecks, Reconfigure, Skip10
    <2>2. CASE Set20 \/ Skip20 \/ VerifyFails
      BY <2>2 DEF Set20, Skip20, VerifyFails
    <2>3. CASE Set30 \/ Skip30
      BY <2>3 DEF Set30, Skip30
    <2>4. CASE Set40 \/ SetAgain40
      BY <2>4 DEF Set40, SetAgain40
    <2>5. CASE Set0 \/ Skip40 \/ Abort
      BY <2>5 DEF Set0, Skip40, Abort
    <2> QED
      BY <2>1, <2>2, <2>3, <2>4, <2>5 DEF Plain
  <1> QED
    BY <1>1, <1>3, <1>4 DEF IInv

LEMMA BootIInv ==
    ASSUME Sound, IInv, Fallback \/ RebootAfter \/ PowerCycle, UNCHANGED faults
    PROVE  IInv'
  <1>1. Boot /\ installer # "set10" /\ (notice' = notice \/ notice' = "failure")
    BY DEF Sound, IInv, TypeOK, Exclusive, Fallback, RebootAfter, PowerCycle
  <1>2. TypeOK' /\ Slots'
    <2>1. Next
      BY DEF Next, Script, Installer
    <2> QED
      BY <2>1, TypeStep DEF IInv
  <1>3. Exclusive' /\ Fresh'
    BY <1>1 DEF IInv, TypeOK, Exclusive, Fresh, Boot, Swap, slots, Slots
  <1>4. CASE upgrade = "installed"
    <2>1. updating = 10 /\ updating' = 10
      BY <1>1, <1>4 DEF IInv, Exclusive, Boot
    <2> QED
      BY <1>1, <1>2, <1>3, <1>4, <2>1
      DEF IInv, Trial, Tested, Updated, Committed, Boot, Swap, slots
  <1>5. CASE upgrade = "trial"
    BY <1>1, <1>2, <1>3, <1>5
    DEF IInv, Trial, Tested, Updated, Committed, Boot, Swap, slots
  <1>6. CASE upgrade = "none"
    BY <1>1, <1>2, <1>3, <1>6
    DEF IInv, Trial, Tested, Updated, Committed, Boot, Swap, slots
  <1> QED
    BY <1>4, <1>5, <1>6 DEF IInv, TypeOK

LEMMA NextIInv == Sound /\ IInv /\ [Next]_vars => IInv'
  <1> SUFFICES ASSUME Sound, IInv, [Next]_vars PROVE IInv'
    OBVIOUS
  <1>0. UNCHANGED faults /\ "torn" \notin faults /\ "overlap" \notin faults
    BY DEF Next, vars, Sound, IInv, TypeOK
  <1>1. TypeOK' /\ Slots'
    BY TypeStep DEF IInv
  <1>2. CASE Plain
    BY <1>0, <1>2, PlainIInv
  <1>3. CASE Fallback \/ RebootAfter \/ PowerCycle
    BY <1>0, <1>3, BootIInv
  <1> USE <1>1 DEF IInv, Exclusive, Fresh, Trial, Tested, Updated, Committed
  <1>4. CASE StartVerify \/ VerifyRetry
    <2>1. CASE StartVerify
      BY <2>1 DEF StartVerify, Goes, slots
    <2>2. CASE VerifyRetry
      BY <2>2 DEF VerifyRetry, Goes, slots
    <2> QED
      BY <1>4, <2>1, <2>2
  <1>5. CASE VerifyOk
    <2>1. active \in 0 .. target
      BY DEF TypeOK, Images
    <2> QED
      BY <1>5, <2>1 DEF VerifyOk, Goes, slots
  <1>6. CASE Commit
    BY <1>6 DEF Commit, Goes, IsSet, Slots
  <1>7. CASE CommitFails
    BY <1>7 DEF CommitFails, Goes, slots
  <1>8. CASE Succeed
    BY <1>8 DEF Succeed, Goes, slots
  <1>9. CASE BeginInstall \/ MenderInstallFails
    <2>1. CASE BeginInstall
      BY <1>0, <2>1 DEF BeginInstall, Install, slots, script
    <2>2. CASE MenderInstallFails
      BY <1>0, <2>2 DEF MenderInstallFails, Install, slots, script
    <2> QED
      BY <1>9, <2>1, <2>2
  <1>10. CASE MenderInstall
    <2>1. /\ target \in Nat /\ target + 1 \notin verified
          /\ verified \subseteq 0 .. target' /\ active <= target' /\ inactive' <= target'
      BY <1>10 DEF MenderInstall, TypeOK, Images
    <2> QED
      BY <1>10, <2>1 DEF MenderInstall, Install, script
  <1>11. CASE Set10
    BY <1>0, <1>11 DEF Set10, Install, slots, script
  <1>12. CASE UNCHANGED vars
    BY <1>12 DEF vars, slots, script
  <1> QED
    BY <1>2, <1>3, <1>4, <1>5, <1>6, <1>7, <1>8, <1>9, <1>10, <1>11, <1>12
    DEF Next, Script, Installer, Plain

LEMMA Invariance ==
    ASSUME Sound
    PROVE  Spec => []IInv
  <1>1. Init => IInv
    BY LifecycleAssumption
    DEF Init, IInv, TypeOK, Slots, Codes, Images, Exclusive, Fresh, Trial, Tested,
        Updated, Committed
  <1>2. IInv /\ [Next]_vars => IInv'
    BY NextIInv
  <1> QED
    BY <1>1, <1>2, PTL DEF Spec

\* Under any sequence of failures, power losses and rollbacks that does not
\* tear an install, only an image whose services were verified is committed.
THEOREM OnlyVerifiedIsCommitted ==
    ASSUME Sound
    PROVE  Spec => []CommittedWasVerified
  <1>1. IInv => CommittedWasVerified
    BY DEF IInv, Tested, CommittedWasVerified
  <1> QED
    BY <1>1, Invariance, PTL

\* Under the same assumption a success is announced only for an image that is
\* running, verified and committed.
THEOREM SuccessIsTrue ==
    ASSUME Sound
    PROVE  Spec => []SuccessIsReal
  <1>1. IInv => SuccessIsReal
    BY DEF IInv, Tested, Updated, SuccessIsReal
  <1> QED
    BY <1>1, Invariance, PTL

\* Under the same assumption an image on trial is never taken for a normal
\* boot or a finished update.
THEOREM TrialIsRecorded ==
    ASSUME Sound
    PROVE  Spec => []TrialIsKnown
  <1>1. IInv => TrialIsKnown
    BY DEF IInv, Trial, TrialIsKnown
  <1> QED
    BY <1>1, Invariance, PTL

-----------------------------------------------------------------------------
\* The abstract state is unchanged, with the mapping written out.
Stutters ==
    /\ Committed' = Committed /\ verified' = verified
    /\ (IF upgrade = "trial" THEN active ELSE -1)'
         = (IF upgrade = "trial" THEN active ELSE -1)

LEMMA BootAbstract ==
    ASSUME Sound, IInv, Boot
    PROVE  Abstract!Next \/ UNCHANGED Abstract!avars
  <1> USE DEF IInv, TypeOK, Boot, Swap, slots, Slots, Committed, Abstract!avars,
              Abstract!NoImage
  <1>1. CASE upgrade = "none"
    BY <1>1
  <1>2. CASE upgrade = "installed" /\ upgrade' = "none"
    BY <1>2
  <1>3. CASE upgrade = "installed" /\ upgrade' = "trial"
    <2>1. target \in Images /\ target \notin verified
      BY <1>3 DEF Fresh
    <2>2. Abstract!Try(target)
      BY <1>3, <2>1 DEF Abstract!Try
    <2> QED
      BY <2>1, <2>2 DEF Abstract!Next
  <1>4. CASE upgrade = "trial"
    <2>1. active # -1
      BY DEF Images
    <2>2. Abstract!Reject
      BY <1>4, <2>1 DEF Abstract!Reject
    <2> QED
      BY <2>2 DEF Abstract!Next
  <1> QED
    BY <1>1, <1>2, <1>3, <1>4

LEMMA StepAbstract ==
    ASSUME Sound, IInv, [Next]_vars
    PROVE  Abstract!Next \/ UNCHANGED Abstract!avars
  <1>0. UNCHANGED faults
    BY DEF Next, vars
  <1>1. CASE Stutters
    BY <1>1 DEF Stutters, Abstract!avars
  <1>2. CASE Plain
    <2>1. Stutters
      BY <1>0, <1>2, PlainStep DEF IInv, Stutters, Committed
    <2> QED
      BY <1>1, <2>1
  <1>3. CASE StartVerify \/ VerifyRetry \/ CommitFails \/ Succeed
    <2>1. Stutters
      BY <1>3 DEF StartVerify, VerifyRetry, CommitFails, Succeed, slots, Stutters, Committed
    <2> QED
      BY <1>1, <2>1
  <1>4. CASE VerifyOk
    <2>1. active # -1
      BY DEF IInv, TypeOK, Images
    <2>2. Abstract!Pass
      BY <1>4, <2>1 DEF VerifyOk, slots, Committed, Abstract!Pass, Abstract!NoImage
    <2> QED
      BY <2>2 DEF Abstract!Next
  <1>5. CASE Commit
    <2>1. active \in verified
      BY <1>5 DEF Commit, IsSet, IInv, Trial
    <2>2. Abstract!Accept
      BY <1>5, <2>1 DEF Commit, Committed, Abstract!Accept, Abstract!NoImage
    <2> QED
      BY <2>2 DEF Abstract!Next
  <1>6. CASE Fallback \/ RebootAfter \/ PowerCycle
    BY <1>6, BootAbstract DEF Fallback, RebootAfter, PowerCycle
  <1>7. CASE BeginInstall \/ MenderInstallFails \/ Set10
    <2>1. Stutters
      BY <1>7 DEF BeginInstall, MenderInstallFails, Set10, slots, Stutters, Committed
    <2> QED
      BY <1>1, <2>1
  <1>8. CASE MenderInstall
    <2>1. Stutters
      BY <1>8 DEF MenderInstall, Stutters, Committed
    <2> QED
      BY <1>1, <2>1
  <1>9. CASE UNCHANGED vars
    <2>1. Stutters
      BY <1>9 DEF vars, slots, Stutters, Committed
    <2> QED
      BY <1>1, <2>1
  <1> QED
    BY <1>2, <1>3, <1>4, <1>5, <1>6, <1>7, <1>8, <1>9 DEF Next, Script, Installer, Plain

\* Under the same assumption the scripts implement AtomicUpdate: an image is
\* tried, and kept only if it passed its tests.
THEOREM Refinement ==
    ASSUME Sound
    PROVE  Spec => ImplementsAtomicUpdate
  <1>1. Init => Abstract!Init
    BY DEF Init, Abstract!Init, Abstract!NoImage, Committed
  <1>2. IInv /\ [Next]_vars => [Abstract!Next]_(Abstract!avars)
    BY StepAbstract
  <1> QED
    BY <1>1, <1>2, Invariance, PTL DEF Spec, ImplementsAtomicUpdate, Abstract!Spec
-----------------------------------------------------------------------------


(***************************************************************************)
(* The invariant behind FailureIsReal.  While an image waits for its trial *)
(* or is on trial, the permanent one is an older one.  A failure is        *)
(* announced for an image on trial only when the script will not commit    *)
(* it any more.  Once an image is permanent, whatever the power does, the  *)
(* key is 30, 40 or 0: at 40 and 0 nothing is announced but a success, and *)
(* at 30, where the record of the commit was lost, the script changes it   *)
(* only right after the commit.                                            *)
(***************************************************************************)
Older == upgrade # "none" => Committed < target

Unfinished ==
    /\ upgrade = "installed" => notice = "none"
    /\ upgrade = "trial" /\ notice = "failure" => pc \in {"at40", "done"}

Settled ==
    upgrade = "none" /\ active = target =>
        /\ updating \in {0, 30, 40}
        /\ pc \notin {"set20", "verify", "fallback", "set30"}
        /\ pc \in {"set40", "again40", "startup"} => notice # "failure"

Announced == Older /\ Unfinished /\ Settled /\ FailureIsReal

LEMMA BootAnnounced ==
    ASSUME Sound, IInv, Announced, Fallback \/ RebootAfter \/ PowerCycle
    PROVE  Announced'
  <1>1. /\ Boot /\ updating' = updating /\ pc' = "start"
        /\ target' = target /\ target \in Nat /\ active \in Nat /\ inactive \in Nat
    BY DEF Fallback, RebootAfter, PowerCycle, Boot, IInv, TypeOK, Images
  <1>2. /\ Committed' = Committed /\ upgrade' \in {"none", "trial"}
        /\ upgrade' = "trial" => active' = target
    BY <1>1, BootSlots DEF IInv, Slots
  <1>3. CASE Fallback
    <2>1. pc = "fallback" /\ upgrade # "installed" /\ notice' = "failure"
      BY <1>3 DEF Fallback, IInv, Exclusive
    <2>2. Committed # target
      BY <1>1, <2>1 DEF Announced, Older, Settled, Committed, IInv, TypeOK
    <2>3. upgrade' = "none" /\ active' = Committed
      BY <1>1, <2>1 DEF Boot, Swap, Committed, slots
    <2> QED
      BY <1>1, <1>2, <2>1, <2>2, <2>3
      DEF Announced, Older, Unfinished, Settled, FailureIsReal
  <1>4. CASE RebootAfter \/ PowerCycle
    <2>1. notice' = notice
      BY <1>4 DEF RebootAfter, PowerCycle
    <2>2. Older'
      <3>1. CASE upgrade = "installed"
        BY <1>1, <1>2, <3>1 DEF Announced, Older
      <3>2. CASE upgrade # "installed"
        BY <1>1, <3>2 DEF Boot, Older, IInv, TypeOK, slots
      <3> QED
        BY <3>1, <3>2
    <2>3. Unfinished'
      <3>1. upgrade' = "trial" => upgrade = "installed"
        BY <1>1 DEF Boot, slots
      <3> QED
        BY <1>2, <2>1, <3>1 DEF Announced, Unfinished
    <2>4. FailureIsReal'
      BY <1>1, <1>2, <2>1 DEF Announced, FailureIsReal
    <2>5. Settled'
      <3>1. ASSUME upgrade' = "none", active' = target PROVE upgrade = "none" /\ active = target
        <4>1. Committed' = active'
          BY <3>1 DEF Committed
        <4> QED
          BY <1>1, <1>2, <3>1, <4>1 DEF Announced, Older, Committed
      <3> QED
        BY <1>1, <3>1 DEF Announced, Settled
    <2> QED
      BY <2>2, <2>3, <2>4, <2>5 DEF Announced
  <1> QED
    BY <1>3, <1>4

LEMMA StepAnnounced == Sound /\ IInv /\ Announced /\ [Next]_vars => Announced'
  <1> SUFFICES ASSUME Sound, IInv, Announced, [Next]_vars PROVE Announced'
    OBVIOUS
  <1> USE DEF Announced, Older, Unfinished, Settled, FailureIsReal, Committed
  <1>1. CASE Plain
    <2>1. /\ UNCHANGED <<active, inactive, upgrade, tries, installer, target, notice, verified>>
          /\ upgrade = "trial" => updating \in {10, 20, 30, 90}
      <3>1. UNCHANGED faults
        BY DEF Next, vars
      <3> QED
        BY <1>1, <3>1, PlainStep DEF IInv, Trial
    <2>0. /\ Committed = target => upgrade = "none" /\ active = target
          /\ Committed' = Committed
      BY <2>1 DEF IInv, TypeOK, Images
    <2> USE <2>1 DEF Goes, RedisSet, IsSet, IsNotSet
    <2>2. CASE NotUpdating \/ NoRedis \/ UpdateChecks \/ Reconfigure \/ Skip10
      BY <2>2 DEF NotUpdating, NoRedis, UpdateChecks, Reconfigure, Skip10
    <2>3. CASE Set20 \/ VerifyFails \/ Set30
      <3>1. pc \in {"set20", "verify", "set30"} /\ pc' \in {"at20", "fallback", "at30"}
        BY <2>3 DEF Set20, VerifyFails, Set30
      <3>2. ~(upgrade = "none" /\ active = target) /\ Committed # target
        BY <2>0, <3>1
      <3> QED
        BY <2>0, <3>1, <3>2
    <2>4. CASE Skip20 \/ Skip30
      BY <2>4 DEF Skip20, Skip30
    <2>5. CASE Set40 \/ SetAgain40
      <3>1. /\ pc \in {"set40", "again40"} /\ pc' \in {"again40", "at40"}
            /\ updating' \in {40, updating}
        BY <2>5 DEF Set40, SetAgain40
      <3>2. Committed = target => notice # "failure"
        BY <2>0, <3>1
      <3> QED
        BY <2>0, <3>1, <3>2
    <2>6. CASE Set0
      <3>1. /\ pc = "at40" /\ pc' = "startup" /\ updating = 40 /\ updating' \in {0, updating}
        BY <2>6 DEF Set0
      <3>2. Committed = target => notice # "failure"
        BY <3>1
      <3> QED
        BY <2>0, <3>1, <3>2
    <2>7. CASE Skip40 \/ Abort
      BY <2>7 DEF Skip40, Abort
    <2> QED
      BY <1>1, <2>2, <2>3, <2>4, <2>5, <2>6, <2>7 DEF Plain
  <1>2. CASE StartVerify \/ VerifyOk \/ VerifyRetry
    BY <1>2 DEF StartVerify, VerifyOk, VerifyRetry, Goes, IsSet, slots
  <1>3. CASE Commit
    BY <1>3 DEF Commit, Goes, IsSet
  <1>4. CASE CommitFails
    <2>1. /\ pc = "at30" /\ pc' = "at40" /\ updating = 30 /\ notice' = "failure"
          /\ UNCHANGED <<updating, active, inactive, upgrade, target>>
      BY <1>4 DEF CommitFails, Goes, IsSet, slots
    <2>2. upgrade # "installed"
      BY <2>1 DEF IInv, Exclusive
    <2> QED
      BY <2>1, <2>2
  <1>5. CASE Succeed
    BY <1>5 DEF Succeed, Goes, slots, IInv, Exclusive
  <1>6. CASE Fallback \/ RebootAfter \/ PowerCycle
    BY <1>6, BootAnnounced
  <1>8. CASE BeginInstall \/ MenderInstallFails \/ Set10
    BY <1>8 DEF BeginInstall, MenderInstallFails, Set10, Install, slots, script, IInv, Exclusive
  <1>9. CASE MenderInstall
    <2>1. active < target + 1
      BY DEF IInv, TypeOK, Images, Fresh
    <2> QED
      BY <1>9, <2>1 DEF MenderInstall, Install, script
  <1>10. CASE UNCHANGED vars
    BY <1>10 DEF vars, slots, script
  <1> QED
    BY <1>1, <1>2, <1>3, <1>4, <1>5, <1>6, <1>8, <1>9, <1>10
    DEF Next, Script, Installer, Plain

\* An app is told of a failure only when the Base goes on with the previous image or the
\* key still says 30, whatever fails: the power, the verification, the boot,
\* `mender -commit`, Redis or a command of the script.
THEOREM FailureIsTrue ==
    ASSUME Sound
    PROVE  Spec => []FailureIsReal
  <1>1. Init => Announced
    BY DEF Init, Announced, Older, Unfinished, Settled, FailureIsReal
  <1>2. IInv /\ Announced /\ [Next]_vars => Announced'
    BY StepAnnounced
  <1>3. Announced => FailureIsReal
    BY DEF Announced
  <1> QED
    BY <1>1, <1>2, <1>3, Invariance, PTL DEF Spec
=============================================================================
