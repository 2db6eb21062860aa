-------------------------------- MODULE Setup --------------------------------
(***************************************************************************)
(* Authentication and the setup wizard: what the middleware keeps in Redis *)
(* (the admin password, whether it was ever set, whether the setup is      *)
(* done), its copies of the two flags in memory, the RPCs that read and    *)
(* write both one after the other and without a lock, its restarts, and    *)
(* `bbb-cmd.sh reset auth`.                                                *)
(*                                                                         *)
(* Abstractions: a password stands for its hash; there is one user, admin; *)
(* requests that are refused for their arguments or their token change     *)
(* nothing and are left out; the services FinalizeSetupWizard enables and  *)
(* starts appear only through the outcome of the scripts.  The user is     *)
(* taken to choose a password other than the initial one, which the code   *)
(* would allow.                                                            *)
(*                                                                         *)
(* The middleware may die and be started again by systemd at any step, a   *)
(* write of the middleware to Redis may return an error, and after a power *)
(* loss Redis comes back with its last snapshot.                           *)
(***************************************************************************)
EXTENDS Integers

CONSTANTS
    Clients,      \* each has at most one RPC under way
    Passwords,
    Default       \* initialAdminPassword

ASSUME SetupAssumption == Default \in Passwords

VARIABLES
    mem,      \* Redis: middleware:auth, middleware:passwordSetup, base:setup
    disk,     \* its last snapshot
    phase,    \* the middleware: "boot" and "init" (NewMiddleware), "up"
    cache,    \* isMiddlewarePasswordSet and isBaseSetupDone
    token,    \* token[c]: whether c has a token signed with the current key
    call,     \* call[c]: the RPC of c and its local variables
    reset,    \* where bbb-cmd.sh reset auth is
    acked,    \* history: a password change was confirmed since the last reset
    lost      \* history: since then, a flag was not written or a write was undone

history == <<acked, lost>>
vars    == <<mem, disk, phase, cache, token, call, reset, history>>

Redis == [auth : Passwords, passwordSetup : BOOLEAN, baseSetup : BOOLEAN]
Flags == [passwordSetup : BOOLEAN, baseSetup : BOOLEAN]
Call  == [pc : {"idle", "getSetup", "setCache", "compare", "setAuth", "testFlag",
                "setFlag", "setCacheFlag", "startServices", "setDone"},
          new : Passwords, flags : Flags]

TypeOK ==
    /\ mem \in Redis /\ disk \in Redis
    /\ phase \in {"boot", "init", "up"}
    /\ cache \in Flags
    /\ token \in [Clients -> BOOLEAN]
    /\ call \in [Clients -> Call]
    /\ reset \in {"idle", "flag", "restart"}
    /\ acked \in BOOLEAN /\ lost \in BOOLEAN

NoFlags == [passwordSetup |-> FALSE, baseSetup |-> FALSE]
At(l, q, f) == [pc |-> l, new |-> q, flags |-> f]
NoCall  == At("idle", Default, NoFlags)

\* Factory settings; no password is stored before the first start.
Init ==
    /\ mem = [auth |-> Default, passwordSetup |-> FALSE, baseSetup |-> FALSE]
    /\ disk = mem
    /\ phase = "boot"
    /\ cache = NoFlags
    /\ token = [c \in Clients |-> FALSE]
    /\ call = [c \in Clients |-> NoCall]
    /\ reset = "idle"
    /\ acked = FALSE /\ lost = FALSE

-----------------------------------------------------------------------------
Begins(c, l) == phase = "up" /\ call[c].pc = "idle" /\ call' = [call EXCEPT ![c].pc = l]
Goes(c, l, m) == call[c].pc = l /\ call' = [call EXCEPT ![c].pc = m]
Ends(c, l)    == call[c].pc = l /\ call' = [call EXCEPT ![c] = NoCall]

\* NewMiddleware: checkMiddlewareSetup, then the default password if no
\* password was set, then a new key for the tokens.
NewMiddleware ==
    /\ phase = "boot" /\ phase' = "init"
    /\ cache' = [passwordSetup |-> mem.passwordSetup, baseSetup |-> mem.baseSetup]
    /\ UNCHANGED <<mem, disk, token, call, reset, history>>

\* Mutants of InitAuth: the flag is not looked at; the password is only
\* initialised when there is none.
InitAuthAlways ==
    /\ phase = "init" /\ phase' = "up"
    /\ mem' = [mem EXCEPT !.auth = Default]
    /\ UNCHANGED <<disk, cache, token, call, reset, history>>

InitAuthOnce ==
    /\ phase = "init" /\ phase' = "up"
    /\ UNCHANGED <<mem, disk, cache, token, call, reset, history>>

InitAuth ==
    /\ phase = "init" /\ phase' = "up"
    /\ mem' = IF cache.passwordSetup THEN mem ELSE [mem EXCEPT !.auth = Default]
    /\ UNCHANGED <<disk, cache, token, call, reset, history>>

\* UserAuthenticate: checkMiddlewareSetup reads both flags, then copies them.
AuthGetPassword(c) ==
    /\ phase = "up" /\ call[c].pc = "idle"
    /\ LET f == [NoFlags EXCEPT !.passwordSetup = mem.passwordSetup]
       IN  call' = [call EXCEPT ![c] = At("getSetup", Default, f)]
    /\ UNCHANGED <<mem, disk, phase, cache, token, reset, history>>

AuthGetSetup(c) ==
    /\ call[c].pc = "getSetup"
    /\ LET f == [call[c].flags EXCEPT !.baseSetup = mem.baseSetup]
       IN  call' = [call EXCEPT ![c] = At("setCache", Default, f)]
    /\ UNCHANGED <<mem, disk, phase, cache, token, reset, history>>

AuthSetCache(c) ==
    /\ Goes(c, "setCache", "compare")
    /\ cache' = call[c].flags
    /\ UNCHANGED <<mem, disk, phase, token, reset, history>>

AuthCompare(c, p) ==
    /\ Ends(c, "compare")
    /\ token' = [token EXCEPT ![c] = token[c] \/ p = mem.auth]
    /\ UNCHANGED <<mem, disk, phase, cache, reset, history>>

\* Mutant of ChangeGetAuth: the flag is written first.
ChangeFlagFirst(c, old, new) ==
    /\ token[c] /\ old = mem.auth
    /\ phase = "up" /\ call[c].pc = "idle"
    /\ call' = [call EXCEPT ![c] = At("setAuth", new, NoFlags)]
    /\ mem' = [mem EXCEPT !.passwordSetup = TRUE]
    /\ UNCHANGED <<disk, phase, cache, token, reset, history>>

\* UserChangePassword: the current password is read and compared, ...
ChangeGetAuth(c, old, new) ==
    /\ token[c] /\ old = mem.auth
    /\ phase = "up" /\ call[c].pc = "idle"
    /\ call' = [call EXCEPT ![c] = At("setAuth", new, NoFlags)]
    /\ UNCHANGED <<mem, disk, phase, cache, token, reset, history>>

\* ... the new one is written, ...
ChangeSetAuth(c) ==
    /\ Goes(c, "setAuth", "testFlag")
    /\ mem' = [mem EXCEPT !.auth = call[c].new]
    /\ UNCHANGED <<disk, phase, cache, token, reset, history>>

ChangeFails(c) ==
    /\ Ends(c, "setAuth")
    /\ UNCHANGED <<mem, disk, phase, cache, token, reset, history>>

\* ... and the flag, unless it is thought to be set.
ChangeKeepFlag(c) ==
    /\ Ends(c, "testFlag") /\ cache.passwordSetup
    /\ acked' = TRUE
    /\ UNCHANGED <<mem, disk, phase, cache, token, reset, lost>>

\* Mutant of ChangeTestFlag: memory is updated before Redis.
ChangeCacheFirst(c) ==
    /\ Goes(c, "testFlag", "setFlag") /\ ~cache.passwordSetup
    /\ cache' = [cache EXCEPT !.passwordSetup = TRUE]
    /\ UNCHANGED <<mem, disk, phase, token, reset, history>>

ChangeTestFlag(c) ==
    /\ Goes(c, "testFlag", "setFlag") /\ ~cache.passwordSetup
    /\ UNCHANGED <<mem, disk, phase, cache, token, reset, history>>

\* An error of this write is only logged.
ChangeSetFlag(c) ==
    /\ Goes(c, "setFlag", "setCacheFlag")
    /\ \/ mem' = [mem EXCEPT !.passwordSetup = TRUE] /\ UNCHANGED lost
       \/ lost' = TRUE /\ UNCHANGED mem
    /\ UNCHANGED <<disk, phase, cache, token, reset, acked>>

ChangeSetCache(c) ==
    /\ Ends(c, "setCacheFlag")
    /\ cache' = [cache EXCEPT !.passwordSetup = TRUE]
    /\ acked' = TRUE
    /\ UNCHANGED <<mem, disk, phase, token, reset, lost>>

\* FinalizeSetupWizard: bbb-config.sh enable bitcoin_services sets base:setup
\* and saves, the services are started, base:setup is set again.
FinalizeEnable(c) ==
    /\ Begins(c, "startServices") /\ token[c]
    /\ mem' = [mem EXCEPT !.baseSetup = TRUE] /\ disk' = mem'
    /\ UNCHANGED <<phase, cache, token, reset, history>>

FinalizeStart(c) ==
    /\ Goes(c, "startServices", "setDone") \/ Ends(c, "startServices")
    /\ UNCHANGED <<mem, disk, phase, cache, token, reset, history>>

FinalizeSetDone(c) ==
    /\ Ends(c, "setDone")
    /\ mem' = [mem EXCEPT !.baseSetup = TRUE] \/ UNCHANGED mem
    /\ UNCHANGED <<disk, phase, cache, token, reset, history>>

-----------------------------------------------------------------------------
\* The middleware ends with all its calls, and its token key with it.
Dies ==
    /\ phase' = "boot"
    /\ cache' = NoFlags
    /\ token' = [c \in Clients |-> FALSE]
    /\ call' = [c \in Clients |-> NoCall]

Restart ==
    /\ Dies
    /\ UNCHANGED <<mem, disk, reset, history>>

PowerLoss ==
    /\ Dies
    /\ mem' = disk /\ reset' = "idle"
    /\ acked' = (acked /\ reset = "idle")
    /\ lost' = (lost \/ mem # disk)
    /\ UNCHANGED disk

\* "save 60 1" in redis-local.conf: a snapshot within a minute of a write.
RedisSave ==
    /\ disk' = mem
    /\ UNCHANGED <<mem, phase, cache, token, call, reset, history>>

\* bbb-cmd.sh reset auth: two keys are cleared, the middleware is restarted.
ResetSetup ==
    /\ reset = "idle" /\ reset' = "flag"
    /\ mem' = [mem EXCEPT !.baseSetup = FALSE] /\ disk' = mem'
    /\ UNCHANGED <<phase, cache, token, call, history>>

ResetFlag ==
    /\ reset = "flag" /\ reset' = "restart"
    /\ mem' = [mem EXCEPT !.passwordSetup = FALSE] /\ disk' = mem'
    /\ UNCHANGED <<phase, cache, token, call, history>>

ResetRestart ==
    /\ reset = "restart" /\ reset' = "idle"
    /\ Dies
    /\ acked' = FALSE /\ lost' = FALSE
    /\ UNCHANGED <<mem, disk>>

-----------------------------------------------------------------------------
Rpc(c) ==
    \/ AuthGetPassword(c) \/ AuthGetSetup(c) \/ AuthSetCache(c)
    \/ \E p \in Passwords : AuthCompare(c, p)
    \/ \E p \in Passwords, q \in Passwords \ {Default} : ChangeGetAuth(c, p, q)
    \/ ChangeSetAuth(c) \/ ChangeFails(c) \/ ChangeKeepFlag(c) \/ ChangeTestFlag(c)
    \/ ChangeSetFlag(c) \/ ChangeSetCache(c)
    \/ FinalizeEnable(c) \/ FinalizeStart(c) \/ FinalizeSetDone(c)

Next ==
    \/ NewMiddleware \/ InitAuth
    \/ \E c \in Clients : Rpc(c)
    \/ ResetSetup \/ ResetFlag \/ ResetRestart
    \/ Restart \/ PowerLoss \/ RedisSave

Spec == Init /\ [][Next]_vars

-----------------------------------------------------------------------------
\* Once a password change was confirmed, the initial password "is only valid
\* for authentication until the admin user changes it" (middleware.go:317): no
\* restart, and no RPC that runs at the same time, brings it back, unless Redis
\* failed to write the flag or lost a write in a power loss.
ConfirmedChangeLasts == acked /\ ~lost /\ reset = "idle" => mem.auth # Default

\* GetSetupStatus never claims more than Redis holds, unless the flag was not
\* written: the wizard is not taken to be over, nor the password to be set,
\* when a restart would undo it.
StatusIsSafe ==
    reset = "idle" =>
        /\ cache.passwordSetup /\ ~lost => mem.passwordSetup
        /\ cache.baseSetup => mem.baseSetup

\* As long as Redis says that no password was set, which is what makes the app
\* start the wizard with the initial password, that password works: neither
\* a restart or a power loss in the middle of a change nor a reset next to one
\* locks the user out.
InitialPasswordWorks ==
    /\ phase = "up" /\ reset = "idle" /\ ~lost /\ ~mem.passwordSetup
    /\ \A c \in Clients : call[c].pc \notin {"testFlag", "setFlag"}
    => mem.auth = Default

\* Whatever fails, Redis and its snapshot say that a password was set only if
\* the initial one is gone: of the two writes of UserChangePassword the flag
\* comes last, and NewMiddleware restores the initial password only without it.
FlagIsEarned == \A r \in {mem, disk} : r.passwordSetup => r.auth # Default
=============================================================================
