------------------------- MODULE UpdateBase_proofs -------------------------
(***************************************************************************)
(* Proofs about UpdateBase, for any set of concurrent calls.               *)
(***************************************************************************)
EXTENDS UpdateBase, TLAPS

\* The call has not yet made its last write of the progress.
Unfinished(c) == \/ pc[c] \in {"scan", "set", "wait"}
                 \/ pc[c] = "notify" /\ then[c] = "scan"

(***************************************************************************)
(* The inductive invariant: what a call is about to write tells what its   *)
(* script has done, and a busy state has a call that will still write.     *)
(***************************************************************************)
Control ==
    \A c \in Calls :
        /\ pc[c] \in {"idle", "start"} => proc[c] = "none"
        /\ pc[c] = "scan" => proc[c] # "none"
        /\ pc[c] = "wait" => proc[c] \in {"ok", "failed"}
        /\ pc[c] = "reboot" => proc[c] = "ok"
        /\ pc[c] \in {"set", "notify"} =>
             \/ pending[c] \in {"Downloading", "Applying"} /\ then[c] = "scan" /\ proc[c] # "none"
             \/ pending[c] = "Failed" /\ then[c] = "done"
             \/ pending[c] = "Rebooting" /\ then[c] = "reboot" /\ proc[c] = "ok"

Owned == state \in {"Downloading", "Applying"} => \E c \in Calls : Unfinished(c)

IInv == TypeOK /\ Control /\ Owned /\ RebootAfterInstall /\ AppSeesCurrentProgress

LEMMA InitIInv == Init => IInv
  <1> SUFFICES ASSUME Init PROVE IInv
    OBVIOUS
  <1>1. TypeOK
    <2>1. -1 \in -1 .. 100 /\ 0 \in 0 .. 100
      OBVIOUS
    <2>2. shown \in [Calls -> -1 .. 100]
      BY <2>1 DEF Init
    <2>3. appView \in [state : State, percentage : 0 .. 100]
      BY <2>1 DEF Init, State
    <2> QED
      BY <2>1, <2>2, <2>3 DEF Init, TypeOK, State, Code
  <1>2. Control
    BY DEF Init, Control
  <1>3. Owned /\ RebootAfterInstall /\ AppSeesCurrentProgress
    BY DEF Init, Owned, RebootAfterInstall, AppSeesCurrentProgress
  <1> QED
    BY <1>1, <1>2, <1>3 DEF IInv

\* A call whose install succeeded stays so.
LEMMA OkIsStable ==
    ASSUME TypeOK, Control, [Next]_vars, NEW d \in Calls, proc[d] = "ok"
    PROVE  proc'[d] = "ok"
  BY DEF TypeOK, Control, Next, Step, vars, callVars, Refuse, Begin, StartFails,
         Start, ReadProgress, SetState, Notify, ScriptExits, ReadStderr,
         ScanFails, ReadEof, Wait, RebootFails, RebootBase, SetAndNotify, Goto

LEMMA TypeStep == TypeOK /\ [Next]_vars => TypeOK'
  <1> SUFFICES ASSUME TypeOK, [Next]_vars PROVE TypeOK'
    OBVIOUS
  <1> USE UpdateBaseAssumption DEF TypeOK, State, Code, Goto, Returns, SetAndNotify
  <1>1. ASSUME NEW c \in Calls, Refuse(c) \/ Begin(c) PROVE TypeOK'
    BY <1>1 DEF Refuse, Begin
  <1>2. ASSUME NEW c \in Calls, StartFails(c) \/ Start(c) PROVE TypeOK'
    BY <1>2 DEF StartFails, Start
  <1>3. ASSUME NEW c \in Calls, NEW p \in Percentages, ReadProgress(c, p) PROVE TypeOK'
    <2>1. p \in 0 .. 100
      OBVIOUS
    <2> QED
      BY <1>3, <2>1 DEF ReadProgress
  <1>4. ASSUME NEW c \in Calls, SetState(c) PROVE TypeOK'
    BY <1>4 DEF SetState
  <1>5. ASSUME NEW c \in Calls, Notify(c) PROVE TypeOK'
    BY <1>5 DEF Notify
  <1>6. ASSUME NEW c \in Calls, ScriptExits(c) \/ ReadStderr(c) PROVE TypeOK'
    <2>1. CASE ScriptExits(c)
      BY <2>1 DEF ScriptExits
    <2>2. CASE ReadStderr(c)
      BY <2>2 DEF ReadStderr
    <2> QED
      BY <1>6, <2>1, <2>2
  <1>7. ASSUME NEW c \in Calls, ScanFails(c) \/ ReadEof(c) PROVE TypeOK'
    <2>1. CASE ScanFails(c)
      BY <2>1 DEF ScanFails
    <2>2. CASE ReadEof(c)
      BY <2>2 DEF ReadEof
    <2> QED
      BY <1>7, <2>1, <2>2
  <1>8. ASSUME NEW c \in Calls, Wait(c) PROVE TypeOK'
    BY <1>8 DEF Wait
  <1>9. ASSUME NEW c \in Calls, RebootFails(c) \/ RebootBase(c) PROVE TypeOK'
    <2>1. CASE RebootFails(c)
      BY <2>1 DEF RebootFails
    <2>2. CASE RebootBase(c)
      BY <2>2 DEF RebootBase
    <2> QED
      BY <1>9, <2>1, <2>2
  <1>10. CASE UNCHANGED vars
    BY <1>10 DEF vars, callVars
  <1> QED
    BY <1>1, <1>2, <1>3, <1>4, <1>5, <1>6, <1>7, <1>8, <1>9, <1>10 DEF Next, Step

LEMMA ControlStep == TypeOK /\ Control /\ [Next]_vars => Control'
  <1> SUFFICES ASSUME TypeOK, Control, [Next]_vars, NEW d \in Calls
               PROVE  Control!(d)'
    BY DEF Control
  <1> USE DEF TypeOK, Control, Goto, Returns, SetAndNotify
  <1>1. ASSUME NEW c \in Calls, Refuse(c) \/ Begin(c) PROVE Control!(d)'
    BY <1>1 DEF Refuse, Begin
  <1>2. ASSUME NEW c \in Calls, StartFails(c) \/ Start(c) PROVE Control!(d)'
    BY <1>2 DEF StartFails, Start
  <1>3. ASSUME NEW c \in Calls, NEW p \in Percentages, ReadProgress(c, p)
        PROVE  Control!(d)'
    BY <1>3 DEF ReadProgress
  <1>4. ASSUME NEW c \in Calls, SetState(c) \/ Notify(c) PROVE Control!(d)'
    BY <1>4 DEF SetState, Notify
  <1>5. ASSUME NEW c \in Calls, ScriptExits(c) \/ ReadStderr(c) PROVE Control!(d)'
    BY <1>5 DEF ScriptExits, ReadStderr
  <1>6. ASSUME NEW c \in Calls, ScanFails(c) \/ ReadEof(c) PROVE Control!(d)'
    BY <1>6 DEF ScanFails, ReadEof
  <1>7. ASSUME NEW c \in Calls, Wait(c) PROVE Control!(d)'
    BY <1>7 DEF Wait
  <1>8. ASSUME NEW c \in Calls, RebootFails(c) \/ RebootBase(c) PROVE Control!(d)'
    BY <1>8 DEF RebootFails, RebootBase
  <1>9. CASE UNCHANGED vars
    BY <1>9 DEF vars, callVars
  <1> QED
    BY <1>1, <1>2, <1>3, <1>4, <1>5, <1>6, <1>7, <1>8, <1>9 DEF Next, Step

\* What any step does to the shared progress: either it is the SetState of a
\* call, or the state stays and no call has made its last write.
LEMMA OwnedStep == TypeOK /\ Control /\ Owned /\ [Next]_vars => Owned'
  <1> SUFFICES ASSUME TypeOK, Control, Owned, [Next]_vars,
                      state' \in {"Downloading", "Applying"}
               PROVE  \E c \in Calls : Unfinished(c)'
    BY DEF Owned
  <1>1. ASSUME NEW c \in Calls, SetState(c) PROVE \E d \in Calls : Unfinished(d)'
    <2>1. pending[c] \in {"Downloading", "Applying"} /\ then[c] = "scan"
      BY <1>1 DEF Control, SetState
    <2>2. Unfinished(c)'
      BY <1>1, <2>1 DEF TypeOK, Unfinished, SetState, Goto
    <2> QED
      BY <2>2
  <1>2. CASE \A c \in Calls : ~SetState(c)
    <2>1. state' = state
      BY <1>2 DEF Next, Step, vars, callVars, Refuse, Begin, StartFails, Start,
                  ReadProgress, Notify, ScriptExits, ReadStderr, ScanFails,
                  ReadEof, Wait, RebootFails, RebootBase
    <2>2. PICK d \in Calls : Unfinished(d)
      BY <2>1 DEF Owned
    <2>3. Unfinished(d)'
      BY <1>2, <2>2 DEF TypeOK, Control, Unfinished, Next, Step, vars, callVars, Refuse,
                  Begin, StartFails, Start, ReadProgress, Notify, ScriptExits,
                  ReadStderr, ScanFails, ReadEof, Wait, RebootFails, RebootBase,
                  SetAndNotify, Goto
    <2> QED
      BY <2>3
  <1> QED
    BY <1>1, <1>2

LEMMA RebootStep ==
    TypeOK /\ Control /\ RebootAfterInstall /\ [Next]_vars => RebootAfterInstall'
  <1> SUFFICES ASSUME TypeOK, Control, RebootAfterInstall, [Next]_vars,
                      reboot' \/ state' = "Rebooting"
               PROVE  \E d \in Calls : proc'[d] = "ok"
    BY DEF RebootAfterInstall
  <1>1. CASE \E d \in Calls : proc[d] = "ok"
    BY <1>1, OkIsStable
  <1>2. ASSUME NEW c \in Calls, SetState(c) PROVE \E d \in Calls : proc'[d] = "ok"
    BY <1>2 DEF TypeOK, Control, RebootAfterInstall, SetState
  <1>3. ASSUME NEW c \in Calls, RebootBase(c) PROVE \E d \in Calls : proc'[d] = "ok"
    BY <1>3, OkIsStable DEF Control, RebootBase
  <1>4. CASE \A c \in Calls : ~SetState(c) /\ ~RebootBase(c)
    <2>1. state' = state /\ reboot' = reboot
      BY <1>4 DEF Next, Step, vars, callVars, Refuse, Begin, StartFails, Start,
                  ReadProgress, Notify, ScriptExits, ReadStderr, ScanFails,
                  ReadEof, Wait, RebootFails
    <2> QED
      BY <1>1, <2>1 DEF RebootAfterInstall
  <1> QED
    BY <1>2, <1>3, <1>4

LEMMA AppStep ==
    TypeOK /\ AppSeesCurrentProgress /\ [Next]_vars => AppSeesCurrentProgress'
  <1> SUFFICES ASSUME TypeOK, AppSeesCurrentProgress, [Next]_vars,
                      \A c \in Calls : pc'[c] \notin {"set", "notify"}
               PROVE  appView' = [state |-> state', percentage |-> percentage']
    BY DEF AppSeesCurrentProgress
  <1> USE DEF Goto, SetAndNotify
  <1>1. ASSUME NEW c \in Calls, Notify(c)
        PROVE  appView' = [state |-> state', percentage |-> percentage']
    BY <1>1 DEF Notify
  <1>2. ASSUME NEW c \in Calls, SetState(c) \/ (\E p \in Percentages : ReadProgress(c, p))
                                \/ ScanFails(c) \/ Wait(c)
        PROVE  FALSE
    BY <1>2 DEF TypeOK, SetState, ReadProgress, ScanFails, Wait
  <1>3. ASSUME NEW c \in Calls,
               Refuse(c) \/ Begin(c) \/ StartFails(c) \/ Start(c) \/ ScriptExits(c)
               \/ ReadStderr(c) \/ ReadEof(c) \/ RebootFails(c) \/ RebootBase(c)
        PROVE  appView' = [state |-> state', percentage |-> percentage']
    <2>1. UNCHANGED <<state, percentage, appView>>
      BY <1>3 DEF Refuse, Begin, StartFails, Start, ScriptExits, ReadStderr,
                  ReadEof, RebootFails, RebootBase
    <2>2. \A d \in Calls : pc[d] \notin {"set", "notify"}
      BY <1>3 DEF TypeOK, Refuse, Begin, StartFails, Start, ScriptExits,
                  ReadStderr, ReadEof, RebootFails, RebootBase
    <2> QED
      BY <2>1, <2>2 DEF AppSeesCurrentProgress
  <1>4. CASE UNCHANGED vars
    BY <1>4 DEF vars, callVars, AppSeesCurrentProgress
  <1> QED
    BY <1>1, <1>2, <1>3, <1>4 DEF Next, Step

LEMMA Invariance == Spec => []IInv
  <1>1. IInv /\ [Next]_vars => IInv'
    BY TypeStep, ControlStep, OwnedStep, RebootStep, AppStep DEF IInv
  <1> QED
    BY <1>1, InitIInv, PTL DEF Spec

(***************************************************************************)
(* Type correctness of UpdateBase (middleware.go, UpdateBase).             *)
(***************************************************************************)
THEOREM TypeCorrect == Spec => []TypeOK
  BY Invariance, PTL DEF IInv

(***************************************************************************)
(* The app is never left with an outdated view of the update progress,     *)
(* however many UpdateBase calls write it without a lock.                  *)
(***************************************************************************)
THEOREM AppIsUpToDate == Spec => []AppSeesCurrentProgress
  BY Invariance, PTL DEF IInv

(***************************************************************************)
(* UpdateBase never leaves the state Downloading or Applying behind, and   *)
(* shows Rebooting only after a successful install: a further update is    *)
(* refused for a reason.                                                   *)
(***************************************************************************)
THEOREM NoLockout == Spec => []RefusalIsJustified
  <1>1. IInv => RefusalIsJustified
    <2> SUFFICES ASSUME IInv, state \in Busy
                 PROVE  \E c \in Calls : Active(c) \/ proc[c] = "ok"
      BY DEF RefusalIsJustified
    <2>1. CASE state = "Rebooting"
      BY <2>1 DEF IInv, RebootAfterInstall
    <2>2. CASE state \in {"Downloading", "Applying"}
      BY <2>2 DEF IInv, Owned, Unfinished, Active
    <2> QED
      BY <2>1, <2>2 DEF Busy
  <1> QED
    BY <1>1, Invariance, PTL

(***************************************************************************)
(* The Base is rebooted only after some install script succeeded.          *)
(***************************************************************************)
THEOREM RebootIsEarned == Spec => []RebootAfterInstall
  BY Invariance, PTL DEF IInv
=============================================================================
