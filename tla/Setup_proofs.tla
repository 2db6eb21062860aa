---------------------------- MODULE Setup_proofs ----------------------------
(***************************************************************************)
(* Proofs about Setup, for any clients and passwords.                      *)
(***************************************************************************)
EXTENDS Setup, TLAPS

LEMMA InitType == Init => TypeOK
  <1> SUFFICES ASSUME Init PROVE TypeOK
    OBVIOUS
  <1> USE SetupAssumption
  <1>1. NoFlags \in Flags /\ NoCall \in Call
    BY DEF NoFlags, NoCall, Flags, Call, At
  <1>2. mem \in Redis /\ disk \in Redis
    BY DEF Init, Redis
  <1> QED
    BY <1>1, <1>2 DEF Init, TypeOK

LEMMA CallType ==
    ASSUME TypeOK, NEW c \in Clients, Rpc(c)
    PROVE  call' \in [Clients -> Call]
  <1> USE SetupAssumption DEF TypeOK
  <1>1. NoFlags \in Flags /\ NoCall \in Call
    BY DEF NoFlags, NoCall, Flags, Call, At
  <1>2. ASSUME NEW l \in {"idle", "getSetup", "setCache", "compare", "setAuth", "testFlag",
                "setFlag", "setCacheFlag", "startServices", "setDone"},
               call' = [call EXCEPT ![c].pc = l]
        PROVE  call' \in [Clients -> Call]
    BY <1>2 DEF Call
  <1>3. ASSUME NEW l, Ends(c, l) PROVE call' \in [Clients -> Call]
    BY <1>1, <1>3 DEF Ends
  <1>4. CASE AuthGetPassword(c)
    <2>1. [NoFlags EXCEPT !.passwordSetup = mem.passwordSetup] \in Flags
      BY <1>1 DEF Flags, Redis
    <2>2. At("getSetup", Default,
             [NoFlags EXCEPT !.passwordSetup = mem.passwordSetup]) \in Call
      BY <2>1 DEF At, Call
    <2> QED
      BY <1>4, <2>2 DEF AuthGetPassword
  <1>5. CASE AuthGetSetup(c)
    <2>1. [call[c].flags EXCEPT !.baseSetup = mem.baseSetup] \in Flags
      BY DEF Call, Flags, Redis
    <2>2. At("setCache", Default,
             [call[c].flags EXCEPT !.baseSetup = mem.baseSetup]) \in Call
      BY <2>1 DEF At, Call
    <2> QED
      BY <1>5, <2>2 DEF AuthGetSetup
  <1>6. CASE \E p \in Passwords, q \in Passwords \ {Default} : ChangeGetAuth(c, p, q)
    <2>1. PICK p \in Passwords, q \in Passwords \ {Default} : ChangeGetAuth(c, p, q)
      BY <1>6
    <2>2. At("setAuth", q, NoFlags) \in Call
      BY <1>1 DEF At, Call
    <2> QED
      BY <2>1, <2>2 DEF ChangeGetAuth
  <1>7. CASE AuthSetCache(c) \/ ChangeSetAuth(c) \/ ChangeTestFlag(c)
               \/ ChangeSetFlag(c) \/ FinalizeEnable(c)
    BY <1>2, <1>7 DEF AuthSetCache, ChangeSetAuth, ChangeTestFlag, ChangeSetFlag,
                      FinalizeEnable, Goes, Begins
  <1>8. CASE (\E p \in Passwords : AuthCompare(c, p)) \/ ChangeFails(c)
               \/ ChangeKeepFlag(c) \/ ChangeSetCache(c) \/ FinalizeSetDone(c)
    BY <1>3, <1>8 DEF AuthCompare, ChangeFails, ChangeKeepFlag, ChangeSetCache, FinalizeSetDone
  <1>9. CASE FinalizeStart(c)
    BY <1>2, <1>3, <1>9 DEF FinalizeStart, Goes
  <1> QED
    BY <1>4, <1>5, <1>6, <1>7, <1>8, <1>9 DEF Rpc

LEMMA TypeStep == TypeOK /\ [Next]_vars => TypeOK'
  <1> SUFFICES ASSUME TypeOK, [Next]_vars PROVE TypeOK'
    OBVIOUS
  <1> USE SetupAssumption DEF history
  <1>1. NoFlags \in Flags /\ NoCall \in Call
    BY DEF NoFlags, NoCall, Flags, Call, At
  <1>2. ASSUME NEW c \in Clients, Rpc(c) PROVE TypeOK'
    <2>1. call' \in [Clients -> Call]
      BY <1>2, CallType
    <2> USE <2>1 DEF TypeOK
    <2>2. CASE AuthGetPassword(c) \/ AuthGetSetup(c)
                 \/ \E p \in Passwords, q \in Passwords \ {Default} : ChangeGetAuth(c, p, q)
      BY <2>2 DEF AuthGetPassword, AuthGetSetup, ChangeGetAuth
    <2>3. CASE AuthSetCache(c) \/ \E p \in Passwords : AuthCompare(c, p)
      <3>1. call[c].flags \in Flags
        BY DEF Call
      <3> QED
        BY <2>3, <3>1 DEF AuthSetCache, AuthCompare
    <2>4. CASE ChangeSetAuth(c) \/ ChangeFails(c) \/ ChangeKeepFlag(c) \/ ChangeTestFlag(c)
      BY <2>4 DEF ChangeSetAuth, ChangeFails, ChangeKeepFlag, ChangeTestFlag, Call, Redis
    <2>5. CASE ChangeSetFlag(c) \/ ChangeSetCache(c)
      BY <2>5 DEF ChangeSetFlag, ChangeSetCache, Redis, Flags
    <2>6. CASE FinalizeEnable(c) \/ FinalizeStart(c) \/ FinalizeSetDone(c)
      BY <2>6 DEF FinalizeEnable, FinalizeStart, FinalizeSetDone, Redis
    <2> QED
      BY <1>2, <2>2, <2>3, <2>4, <2>5, <2>6 DEF Rpc
  <1>3. CASE NewMiddleware \/ InitAuth
    BY <1>3 DEF NewMiddleware, InitAuth, TypeOK, Redis, Flags
  <1>4. CASE ResetSetup \/ ResetFlag \/ RedisSave
    BY <1>4 DEF ResetSetup, ResetFlag, RedisSave, TypeOK, Redis
  <1>5. CASE ResetRestart \/ Restart \/ PowerLoss
    BY <1>1, <1>5 DEF ResetRestart, Restart, PowerLoss, Dies, TypeOK
  <1>6. CASE UNCHANGED vars
    BY <1>6 DEF vars, TypeOK
  <1> QED
    BY <1>2, <1>3, <1>4, <1>5, <1>6 DEF Next

\* The keys, the flags in memory, the calls and the reset have the values they
\* should, whatever fails.
THEOREM TypeCorrect == Spec => []TypeOK
  BY InitType, TypeStep, PTL DEF Spec

-----------------------------------------------------------------------------
\* A call is at one of these places only after it wrote the new password.
Written == {"testFlag", "setFlag", "setCacheFlag"}

(***************************************************************************)
(* The inductive invariant behind FlagIsEarned: a call that is about to    *)
(* write knows a new password, a call that has written finds no initial    *)
(* password, and NewMiddleware decides with no call under way.             *)
(***************************************************************************)
Earned ==
    /\ FlagIsEarned
    /\ \A c \in Clients :
         /\ call[c].pc = "setAuth" => call[c].new # Default
         /\ call[c].pc \in Written => mem.auth # Default
         /\ phase # "up" => call[c].pc = "idle"
    /\ phase = "init" /\ ~cache.passwordSetup => ~mem.passwordSetup

LEMMA EarnedStep == TypeOK /\ Earned /\ [Next]_vars => Earned'
  <1> SUFFICES ASSUME TypeOK, Earned, [Next]_vars PROVE Earned'
    OBVIOUS
  <1> USE DEF TypeOK, Earned, FlagIsEarned, Written, history
  <1>2. ASSUME NEW c \in Clients, Rpc(c) PROVE Earned'
    <2> USE DEF Call, Redis, Flags, NoCall, At, Goes, Begins, Ends
    <2>1. CASE AuthGetPassword(c)
      BY <2>1 DEF AuthGetPassword
    <2>2. CASE AuthGetSetup(c)
      BY <2>2 DEF AuthGetSetup
    <2>3. CASE AuthSetCache(c)
      BY <2>3 DEF AuthSetCache
    <2>4. CASE \E p \in Passwords : AuthCompare(c, p)
      BY <2>4 DEF AuthCompare
    <2>5. CASE \E p \in Passwords, q \in Passwords \ {Default} : ChangeGetAuth(c, p, q)
      BY <2>5 DEF ChangeGetAuth
    <2>6. CASE ChangeSetAuth(c)
      BY <2>6 DEF ChangeSetAuth
    <2>7. CASE ChangeFails(c) \/ ChangeKeepFlag(c) \/ ChangeTestFlag(c)
      <3>1. CASE ChangeFails(c)
        BY <3>1 DEF ChangeFails
      <3>2. CASE ChangeKeepFlag(c)
        BY <3>2 DEF ChangeKeepFlag
      <3>3. CASE ChangeTestFlag(c)
        BY <3>3 DEF ChangeTestFlag
      <3> QED
        BY <2>7, <3>1, <3>2, <3>3
    <2>8. CASE ChangeSetFlag(c)
      BY <2>8 DEF ChangeSetFlag
    <2>9. CASE ChangeSetCache(c)
      BY <2>9 DEF ChangeSetCache
    <2>10. CASE FinalizeEnable(c)
      BY <2>10 DEF FinalizeEnable
    <2>11. CASE FinalizeStart(c) \/ FinalizeSetDone(c)
      BY <2>11 DEF FinalizeStart, FinalizeSetDone
    <2> QED
      BY <1>2, <2>1, <2>2, <2>3, <2>4, <2>5, <2>6, <2>7, <2>8, <2>9, <2>10, <2>11 DEF Rpc
  <1>3. CASE NewMiddleware
    BY <1>3 DEF NewMiddleware, Redis
  <1>4. CASE InitAuth
    BY <1>4 DEF InitAuth, Redis
  <1>5. CASE ResetSetup \/ ResetFlag \/ RedisSave
    BY <1>5 DEF ResetSetup, ResetFlag, RedisSave, Redis
  <1>6. CASE ResetRestart \/ Restart \/ PowerLoss
    BY <1>6 DEF ResetRestart, Restart, PowerLoss, Dies, NoCall, At
  <1>7. CASE UNCHANGED vars
    BY <1>7 DEF vars
  <1> QED
    BY <1>2, <1>3, <1>4, <1>5, <1>6, <1>7 DEF Next

LEMMA EarnedInvariance == Spec => []Earned
  <1>1. Init => Earned
    BY DEF Init, Earned, FlagIsEarned, NoCall, At, NoFlags, Written
  <1> QED
    BY <1>1, EarnedStep, TypeCorrect, PTL DEF Spec

\* Redis says that a password was set only when the initial one is gone,
\* through restarts, power losses and failed writes.
THEOREM FlagAfterPassword == Spec => []FlagIsEarned
  BY EarnedInvariance, PTL DEF Earned

-----------------------------------------------------------------------------
(***************************************************************************)
(* The inductive invariant behind the other properties.  While no reset is *)
(* under way and Redis lost nothing, what the middleware remembers, or a   *)
(* call is about to make it remember, is in Redis; so a change that relies *)
(* on it has the flag set.                                                 *)
(***************************************************************************)
Remembered ==
    reset = "idle" =>
        /\ cache.baseSetup => mem.baseSetup
        /\ \A c \in Clients : call[c].flags.baseSetup => mem.baseSetup
        /\ phase = "init" => cache.passwordSetup = mem.passwordSetup
        /\ ~lost =>
             /\ cache.passwordSetup => mem.passwordSetup
             /\ \A c \in Clients :
                  /\ call[c].flags.passwordSetup => mem.passwordSetup
                  /\ call[c].pc = "setCacheFlag" => mem.passwordSetup
             /\ acked => mem.passwordSetup

SInv == TypeOK /\ Earned /\ Remembered /\ InitialPasswordWorks

LEMMA RememberedStep ==
    ASSUME TypeOK, Earned, Remembered, [Next]_vars
    PROVE  Remembered'
  <1> USE DEF TypeOK, Remembered, history
  <1>1. ASSUME NEW c \in Clients, Rpc(c) PROVE Remembered'
    <2> USE DEF Call, Redis, Flags, NoCall, NoFlags, At, Goes, Begins, Ends
    <2>0. phase = "up"
      BY <1>1 DEF Earned, Rpc, AuthGetPassword, AuthGetSetup, AuthSetCache, AuthCompare,
                  ChangeGetAuth, ChangeSetAuth, ChangeFails, ChangeKeepFlag, ChangeTestFlag,
                  ChangeSetFlag, ChangeSetCache, FinalizeEnable, FinalizeStart, FinalizeSetDone
    <2> USE <2>0
    <2>1. CASE AuthGetPassword(c)
      BY <2>1 DEF AuthGetPassword
    <2>2. CASE AuthGetSetup(c)
      BY <2>2 DEF AuthGetSetup
    <2>3. CASE AuthSetCache(c)
      BY <2>3 DEF AuthSetCache
    <2>4. CASE \E p \in Passwords : AuthCompare(c, p)
      BY <2>4 DEF AuthCompare
    <2>5. CASE \E p \in Passwords, q \in Passwords \ {Default} : ChangeGetAuth(c, p, q)
      BY <2>5 DEF ChangeGetAuth
    <2>6. CASE ChangeSetAuth(c) \/ ChangeTestFlag(c)
      <3>1. CASE ChangeSetAuth(c)
        BY <3>1 DEF ChangeSetAuth
      <3>2. CASE ChangeTestFlag(c)
        BY <3>2 DEF ChangeTestFlag
      <3> QED
        BY <2>6, <3>1, <3>2
    <2>7. CASE ChangeFails(c) \/ ChangeKeepFlag(c)
      <3>1. CASE ChangeFails(c)
        BY <3>1 DEF ChangeFails
      <3>2. CASE ChangeKeepFlag(c)
        BY <3>2 DEF ChangeKeepFlag
      <3> QED
        BY <2>7, <3>1, <3>2
    <2>8. CASE ChangeSetFlag(c)
      BY <2>8 DEF ChangeSetFlag
    <2>9. CASE ChangeSetCache(c)
      BY <2>9 DEF ChangeSetCache
    <2>10. CASE FinalizeEnable(c)
      BY <2>10 DEF FinalizeEnable
    <2>11. CASE FinalizeStart(c) \/ FinalizeSetDone(c)
      BY <2>11 DEF FinalizeStart, FinalizeSetDone
    <2> QED
      BY <1>1, <2>1, <2>2, <2>3, <2>4, <2>5, <2>6, <2>7, <2>8, <2>9, <2>10, <2>11 DEF Rpc
  <1>2. CASE NewMiddleware
    BY <1>2 DEF NewMiddleware
  <1>3. CASE InitAuth
    BY <1>3 DEF InitAuth, Redis
  <1>4. CASE ResetSetup \/ ResetFlag \/ RedisSave
    BY <1>4 DEF ResetSetup, ResetFlag, RedisSave
  <1>5. CASE ResetRestart \/ Restart \/ PowerLoss
    BY <1>5 DEF ResetRestart, Restart, PowerLoss, Dies, NoCall, NoFlags, At
  <1>6. CASE UNCHANGED vars
    BY <1>6 DEF vars
  <1> QED
    BY <1>1, <1>2, <1>3, <1>4, <1>5, <1>6 DEF Next

LEMMA InitialStep ==
    ASSUME TypeOK, Earned, Remembered, InitialPasswordWorks, [Next]_vars
    PROVE  InitialPasswordWorks'
  <1> USE DEF TypeOK, InitialPasswordWorks, history
  <1>1. ASSUME NEW c \in Clients, Rpc(c) PROVE InitialPasswordWorks'
    <2> USE DEF Call, Redis, NoCall, At, Goes, Begins, Ends
    <2>1. CASE AuthGetPassword(c) \/ AuthGetSetup(c) \/ AuthSetCache(c)
      BY <2>1 DEF AuthGetPassword, AuthGetSetup, AuthSetCache
    <2>2. CASE \E p \in Passwords : AuthCompare(c, p)
      BY <2>2 DEF AuthCompare
    <2>3. CASE \E p \in Passwords, q \in Passwords \ {Default} : ChangeGetAuth(c, p, q)
      BY <2>3 DEF ChangeGetAuth
    <2>4. CASE ChangeSetAuth(c) \/ ChangeTestFlag(c)
      BY <2>4 DEF ChangeSetAuth, ChangeTestFlag
    <2>5. CASE ChangeFails(c) \/ ChangeKeepFlag(c)
      BY <2>5 DEF ChangeFails, ChangeKeepFlag, Remembered
    <2>6. CASE ChangeSetFlag(c) \/ ChangeSetCache(c)
      BY <2>6 DEF ChangeSetFlag, ChangeSetCache
    <2>7. CASE FinalizeEnable(c)
      BY <2>7 DEF FinalizeEnable
    <2>8. CASE FinalizeStart(c) \/ FinalizeSetDone(c)
      BY <2>8 DEF FinalizeStart, FinalizeSetDone
    <2> QED
      BY <1>1, <2>1, <2>2, <2>3, <2>4, <2>5, <2>6, <2>7, <2>8 DEF Rpc
  <1>2. CASE NewMiddleware
    BY <1>2 DEF NewMiddleware
  <1>3. CASE InitAuth
    BY <1>3 DEF InitAuth, Redis, Remembered
  <1>4. CASE ResetSetup \/ ResetFlag \/ RedisSave
    BY <1>4 DEF ResetSetup, ResetFlag, RedisSave
  <1>5. CASE ResetRestart \/ Restart \/ PowerLoss
    BY <1>5 DEF ResetRestart, Restart, PowerLoss, Dies
  <1>6. CASE UNCHANGED vars
    BY <1>6 DEF vars
  <1> QED
    BY <1>1, <1>2, <1>3, <1>4, <1>5, <1>6 DEF Next

LEMMA Invariance ==
    Spec => []SInv
  <1>1. Init => SInv
    <2>1. Init => Earned
      BY DEF Init, Earned, FlagIsEarned, NoCall, At, NoFlags, Written
    <2>2. Init => Remembered /\ InitialPasswordWorks
      BY DEF Init, Remembered, InitialPasswordWorks, NoCall, At, NoFlags
    <2> QED
      BY <2>1, <2>2, InitType DEF SInv
  <1>2. SInv /\ [Next]_vars => SInv'
    BY TypeStep, EarnedStep, RememberedStep, InitialStep DEF SInv
  <1> QED
    BY <1>1, <1>2, PTL DEF Spec

\* Unless Redis failed to write the flag or lost a write, nothing brings the
\* initial password back after a confirmed change.
THEOREM ChangesLast ==
    Spec => []ConfirmedChangeLasts
  <1>1. SInv => ConfirmedChangeLasts
    BY DEF SInv, Remembered, Earned, FlagIsEarned, ConfirmedChangeLasts, TypeOK
  <1> QED
    BY <1>1, Invariance, PTL

\* With the same exception the setup status never claims more than Redis
\* holds, and the initial password works while no password was set.
THEOREM StatusAndWizard ==
    Spec => [](StatusIsSafe /\ InitialPasswordWorks)
  <1>1. SInv => StatusIsSafe /\ InitialPasswordWorks
    BY DEF SInv, Remembered, StatusIsSafe
  <1> QED
    BY <1>1, Invariance, PTL

\* The initial password works as long as Redis says that none was set: NewMiddleware and
\* reset auth never leave a Base whose wizard cannot be begun.
THEOREM WizardCanBegin == Spec => []InitialPasswordWorks
  BY StatusAndWizard, PTL
=============================================================================
