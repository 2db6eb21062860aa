------------------------------ MODULE ServiceInfo ------------------------------
(***************************************************************************)
(* What the middleware polls and tells an app about: rpcLoop with the      *)
(* service information from Prometheus, updateCheckLoop with the update    *)
(* information from the web.  An event only says that something changed,   *)
(* and is dropped if no app is connected; the app then asks by RPC.        *)
(*                                                                         *)
(* Of the metrics two are kept: blocks, whose failed query counts as 0,    *)
(* and ibd, whose failed query makes the response an error.                *)
(***************************************************************************)
EXTENDS Naturals

CONSTANTS Latest,       \* highest version published
          MaxChanges    \* bound on what changes around the middleware

ASSUME ServiceInfoAssumption == Latest \in Nat /\ MaxChanges \in Nat

VARIABLES blocks, ibd, metrics,      \* Prometheus: two metrics; does it answer
          poll, read,                \* rpcLoop: position and response so far
          serviceInfo,               \* Middleware.serviceInfo
          latest, site,              \* the version published; can it be fetched
          check, newVersion,         \* updateCheckLoop: position and version fetched
          available,                 \* Middleware.baseUpdateAvailable
          online,                    \* an app is connected
          view, offer,               \* its copies of the two
          ask,                       \* what the app is going to ask for
          changes

around == <<blocks, ibd, metrics, latest, site>>
app == <<online, view, offer, ask>>
infoVars == <<around, poll, read, serviceInfo, check, newVersion, available, app, changes>>

Info(s, b, d) == [state |-> s, blocks |-> b, ibd |-> d]
NoInfo == Info("unset", 0, 0)
Infos == [state : {"unset", "error", "ok"}, blocks : {0, 1}, ibd : {0, 1}]
Offers == [flag : BOOLEAN, version : 0..Latest]
NoOffer == [flag |-> FALSE, version |-> 0]

InfoTypeOK ==
    /\ blocks \in {0, 1} /\ ibd \in {0, 1} /\ metrics \in BOOLEAN
    /\ poll \in {"blocks", "ibd", "compare", "assign", "emit"} /\ read \in Infos
    /\ serviceInfo \in Infos /\ view \in Infos
    /\ latest \in 0..Latest /\ newVersion \in 0..Latest /\ site \in BOOLEAN
    /\ check \in {"get", "flag", "info", "emit"}
    /\ available \in Offers /\ offer \in Offers
    /\ online \in BOOLEAN /\ ask \subseteq {"info", "offer"}
    /\ changes \in 0..MaxChanges

InfoInit ==
    /\ blocks = 0 /\ ibd = 1 /\ metrics = TRUE /\ latest = 0 /\ site = TRUE
    /\ poll = "blocks" /\ read = NoInfo /\ serviceInfo = NoInfo
    /\ check = "get" /\ newVersion = 0 /\ available = NoOffer
    /\ online = FALSE /\ view = NoInfo /\ offer = NoOffer /\ ask = {}
    /\ changes = 0

\* The handlers take an event: it reaches the app that is connected, or nobody.
Announce(what) == ask' = IF online THEN ask \cup {what} ELSE ask

--------------------------------------------------------------------------------
\* rpcLoop.

\* getServiceInfo: GetInt(BitcoinBlockCount), and the other queries that default to 0.
QueryBlocks ==
    /\ poll = "blocks" /\ poll' = "ibd"
    /\ read' = Info("ok", IF metrics THEN blocks ELSE 0, 0)
    /\ UNCHANGED <<around, serviceInfo, check, newVersion, available, app, changes>>

\* The queries that fail the response.
QueryIbd ==
    /\ poll = "ibd" /\ poll' = "compare"
    /\ read' = IF metrics THEN [read EXCEPT !.ibd = ibd] ELSE Info("error", 0, 0)
    /\ UNCHANGED <<around, serviceInfo, check, newVersion, available, app, changes>>

\* didServiceInfoChange: reflect.DeepEqual with what is remembered.  The assignment of the
\* struct is not atomic for an RPC that copies it: either half can be seen first.
DidServiceInfoChange ==
    /\ poll = "compare"
    /\ IF read = serviceInfo
       THEN poll' = "blocks" /\ UNCHANGED serviceInfo
       ELSE /\ poll' = "assign"
            /\ serviceInfo' \in {[read EXCEPT !.ibd = serviceInfo.ibd],
                                [serviceInfo EXCEPT !.ibd = read.ibd]}
    /\ UNCHANGED <<around, read, check, newVersion, available, app, changes>>

AssignServiceInfo ==
    /\ poll = "assign" /\ poll' = "emit"
    /\ serviceInfo' = read
    /\ UNCHANGED <<around, read, check, newVersion, available, app, changes>>

EmitInfo ==
    /\ poll = "emit" /\ poll' = "blocks"
    /\ Announce("info")
    /\ UNCHANGED <<around, read, serviceInfo, check, newVersion, available, online, view, offer,
                   changes>>

--------------------------------------------------------------------------------
\* updateCheckLoop on a Base with version 0.

\* getBaseUpdateInfo; a failure is tried again after the pause.
GetUpdateInfo ==
    /\ check = "get" /\ site /\ latest > 0
    /\ newVersion' = latest /\ check' = "flag"
    /\ UNCHANGED <<around, poll, read, serviceInfo, available, app, changes>>

\* The flag and the information are two assignments.
SetFlag ==
    /\ check = "flag" /\ check' = "info"
    /\ available' = [available EXCEPT !.flag = TRUE]
    /\ UNCHANGED <<around, poll, read, serviceInfo, newVersion, app, changes>>

SetInfo ==
    /\ check = "info" /\ check' = "emit"
    /\ available' = [available EXCEPT !.version = newVersion]
    /\ UNCHANGED <<around, poll, read, serviceInfo, newVersion, app, changes>>

\* Mutant of EmitOffer: an update is announced once, not whenever it is found.
EmitOfferOnce ==
    /\ check = "emit" /\ check' = "get"
    /\ IF newVersion = 1 THEN Announce("offer") ELSE UNCHANGED ask
    /\ UNCHANGED <<around, poll, read, serviceInfo, newVersion, available, online, view, offer,
                   changes>>

EmitOffer ==
    /\ check = "emit" /\ check' = "get"
    /\ Announce("offer")
    /\ UNCHANGED <<around, poll, read, serviceInfo, newVersion, available, online, view, offer,
                   changes>>

--------------------------------------------------------------------------------
\* The app, and what is around.

\* An app asks for both when it has connected.
AppConnects ==
    /\ ~online /\ online' = TRUE /\ ask' = {"info", "offer"}
    /\ UNCHANGED <<around, poll, read, serviceInfo, check, newVersion, available, view, offer,
                   changes>>

Change == changes < MaxChanges /\ changes' = changes + 1

AppDisconnects ==
    /\ online /\ online' = FALSE /\ Change
    /\ view' = NoInfo /\ offer' = NoOffer /\ ask' = {}
    /\ UNCHANGED <<around, poll, read, serviceInfo, check, newVersion, available>>

GetServiceInfo ==
    /\ "info" \in ask /\ ask' = ask \ {"info"}
    /\ view' = serviceInfo
    /\ UNCHANGED <<around, poll, read, serviceInfo, check, newVersion, available, online, offer,
                   changes>>

IsBaseUpdateAvailable ==
    /\ "offer" \in ask /\ ask' = ask \ {"offer"}
    /\ offer' = available
    /\ UNCHANGED <<around, poll, read, serviceInfo, check, newVersion, available, online, view,
                   changes>>

\* Blocks arrive, the download ends or begins, Prometheus or the site comes or goes, a
\* version is published.
SurroundingsChange ==
    /\ Change
    /\ \/ blocks' = 1 - blocks /\ UNCHANGED <<ibd, metrics, latest, site>>
       \/ ibd' = 1 - ibd /\ UNCHANGED <<blocks, metrics, latest, site>>
       \/ metrics' = ~metrics /\ UNCHANGED <<blocks, ibd, latest, site>>
       \/ site' = ~site /\ UNCHANGED <<blocks, ibd, metrics, latest>>
       \/ latest < Latest /\ latest' = latest + 1 /\ UNCHANGED <<blocks, ibd, metrics, site>>
    /\ UNCHANGED <<poll, read, serviceInfo, check, newVersion, available, app>>

RpcLoop == QueryBlocks \/ QueryIbd \/ DidServiceInfoChange \/ AssignServiceInfo \/ EmitInfo
UpdateCheckLoop == GetUpdateInfo \/ SetFlag \/ SetInfo \/ EmitOffer

InfoNext ==
    \/ RpcLoop \/ UpdateCheckLoop
    \/ AppConnects \/ AppDisconnects \/ GetServiceInfo \/ IsBaseUpdateAvailable \/ SurroundingsChange

--------------------------------------------------------------------------------

\* An app that stays connected comes to know the state of the services, and the version
\* published, whatever failed before.
AppComesToKnow ==
    /\ []<>(~online \/ ~metrics \/ view = Info("ok", blocks, ibd))
    /\ []<>(~online \/ ~site \/ latest = 0 \/ offer = [flag |-> TRUE, version |-> latest])
================================================================================
